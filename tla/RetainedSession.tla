-------------------------- MODULE RetainedSession --------------------------
(***************************************************************************)
(* A terminal session kept by the server while pages come and go           *)
(* (retained_session.rs, retained_socket.rs).                              *)
(*                                                                         *)
(* A reader takes the program's output, has the headless screen parse it,  *)
(* writes the screen's replies to terminal queries back to the program and *)
(* broadcasts the output; all of this under the mutex `inner`.  A page     *)
(* attaches under the same mutex: it subscribes to the broadcast and takes *)
(* a snapshot of the screen, and becomes the newest viewer, the only one   *)
(* that may write.  It is sent the snapshot, then the broadcast, against   *)
(* credit that the page gives back.  Listing and destroying sessions take  *)
(* the registry's mutex first and `inner` under it.                        *)
(*                                                                         *)
(* The screen is RecoverableScreens, which ScreenWorker implements.  The   *)
(* program and its PTY, or the SSH channel, are external.  A message, a    *)
(* reply and a typed key are units of data.                                *)
(***************************************************************************)
EXTENDS Naturals, Sequences

CONSTANTS
  Viewers,     \* slots for attached pages
  NoViewer,    \* no viewer, or no holder of the mutex
  Kinds,       \* sessions considered: "local", "terminal" (over SSH)
  Channel,     \* capacity of the broadcast
  Window,      \* unacknowledged messages a page may be sent
  PtyInput,    \* input the program's side buffers
  PtyOutput,   \* output the program's side buffers
  MaxOutput,   \* bound: messages the program writes
  MaxResizes,  \* bound: resizes of the screen
  MaxAttaches  \* bound: attachments

ASSUME ViewerAssumption ==
  NoViewer \notin Viewers /\ Viewers \cap {"free", "reader", "ready"} = {}
ASSUME KindAssumption == Kinds \subseteq {"local", "terminal"}
ASSUME SizeAssumption ==
  /\ Channel \in Nat \ {0} /\ Window \in Nat \ {0}
  /\ PtyInput \in Nat /\ PtyOutput \in Nat \ {0}
  /\ MaxOutput \in Nat /\ MaxResizes \in Nat
  /\ MaxAttaches \in Nat

VARIABLES
  kind,        \* RetainedSession.kind
  program,     \* the program: "blocked" while it waits to write
  output,      \* what it wrote and the reader has not taken
  input,       \* what it was sent and has not read
  session,     \* where the session is between its creation and its drop
  inner,       \* the mutex: its holder, and what the holder has yet to do
  replies,     \* Inner.replies, before the session has an id
  newest,      \* Inner.clients
  sent,        \* every message broadcast
  viewer,      \* the attach tasks
  attaches,    \* Inner.next_client
  registry,    \* who holds the registry's mutex
  late,        \* a write that outlived its timeout
  history,     \* history: the output processed
  written,     \* history: replies written to the program
  dropped,     \* history: replies that could not be written
  screen, answer, answered   \* the screen, as RecoverableScreens has it

external == <<program, output, input, late>>
screenVars == <<screen, answer, answered>>
pages == <<newest, sent, viewer, attaches>>
log == <<history, written, dropped>>
vars == <<kind, external, session, inner, replies, pages, registry, log, screenVars>>
allButViewer == <<kind, external, session, inner, replies, newest, sent, attaches,
                  registry, log, screenVars>>

Id == "screen"
Screens == INSTANCE RecoverableScreens WITH Ids <- {Id}

Writes == Screens!Writes
Messages == Writes \cup {"geometry", "event"}
Holders == Viewers \cup {"free", "reader", "ready"}
Inner == [holder : Holders, replies : Nat, op : Writes \cup {"none"}]
Viewer == [phase : {"off", "attaching", "restoring", "live", "leaving"},
           turn : BOOLEAN, next : Nat, view : Seq(Writes), outstanding : Nat]

Free == inner.holder = "free"
Unlocked == [holder |-> "free", replies |-> 0, op |-> "none"]
NotAttached == [phase |-> "off", turn |-> FALSE, next |-> 0, view |-> << >>,
                outstanding |-> 0]

TypeOK ==
  /\ kind \in Kinds
  /\ program \in {"running", "blocked", "dead"}
  /\ output \in Seq(Writes) /\ input \in Nat /\ late \in Nat
  /\ session \in {"starting", "ready", "registered", "removed", "dropped"}
  /\ inner \in Inner
  /\ replies \in Nat
  /\ newest \in Viewers \cup {NoViewer}
  /\ sent \in Seq(Messages)
  /\ viewer \in [Viewers -> Viewer] /\ attaches \in Nat
  /\ registry \in {"free", "list", "destroy"}
  /\ history \in Seq(Writes) /\ written \in Nat /\ dropped \in Nat
  /\ screen \in [{Id} -> Screens!Screen]
  /\ answer \in Screens!Answer /\ answered \in [{Id} -> Nat]

Init ==
  /\ kind \in Kinds
  /\ program = "running" /\ output = << >> /\ input = 0 /\ late = 0
  /\ session = "starting"
  /\ inner = Unlocked
  /\ replies = 0
  /\ newest = NoViewer
  /\ sent = << >>
  /\ viewer = [v \in Viewers |-> NotAttached] /\ attaches = 0
  /\ registry = "free"
  /\ history = << >> /\ written = 0 /\ dropped = 0
  /\ screen = [s \in {Id} |-> Screens!NewScreen]
  /\ answer = Screens!Only("ok")
  /\ answered = [s \in {Id} |-> 0]

-----------------------------------------------------------------------------
(* The program.  It cannot read while it waits to write.                   *)

Emit(op) ==
  /\ program = "running"
  /\ Len(history) + Len(output) < MaxOutput
  /\ IF Len(output) < PtyOutput
     THEN output' = Append(output, op) /\ UNCHANGED program
     ELSE program' = "blocked" /\ UNCHANGED output
  /\ UNCHANGED <<kind, input, late, session, inner, replies, pages, registry,
                 log, screenVars>>

Unblock(op) ==
  /\ program = "blocked"
  /\ Len(output) < PtyOutput
  /\ output' = Append(output, op)
  /\ program' = "running"
  /\ UNCHANGED <<kind, input, late, session, inner, replies, pages, registry,
                 log, screenVars>>

ReadInput ==
  /\ program = "running" /\ input > 0
  /\ input' = input - 1
  /\ UNCHANGED <<kind, program, output, late, session, inner, replies, pages,
                 registry, log, screenVars>>

Exit ==
  /\ program # "dead"
  /\ program' = "dead"
  /\ UNCHANGED <<kind, output, input, late, session, inner, replies, pages,
                 registry, log, screenVars>>

-----------------------------------------------------------------------------
(* Calls to the screen, with their result.                                 *)

WriteScreen(op) ==
  \/ Screens!Write(Id, op)
  \/ Screens!Defer(Id, op)
  \/ Screens!Overflow(Id, op)
  \/ screen[Id].state = "lost" /\ Screens!Refuse("lost")

SnapshotScreen ==
  \/ Screens!Snapshot(Id)
  \/ Screens!Refuse(IF screen[Id].state = "lost" THEN "lost" ELSE "unavailable")

ResizeScreen ==
  \/ Screens!Resize(Id)
  \/ Screens!Overflow(Id, "resize")
  \/ Screens!Refuse(IF screen[Id].state = "lost" THEN "lost" ELSE "unavailable")

\* The screen is lost while the process is rebuilt for another session.
LoseScreen ==
  /\ Screens!Lose(Id)
  /\ UNCHANGED <<kind, external, session, inner, replies, pages, registry, log>>

-----------------------------------------------------------------------------
(* The reader: RetainedSession::process.                                   *)

Process ==
  /\ Free /\ output # << >> /\ session # "dropped"
  /\ output' = Tail(output)
  /\ history' = Append(history, Head(output))
  /\ WriteScreen(Head(output))
  /\ inner' = [holder |-> "reader", replies |-> answer'.replies, op |-> Head(output)]
  /\ UNCHANGED <<kind, program, input, late, session, replies, pages, registry,
                 written, dropped>>

\* Fault: a local reply that finds no room is given up, too.
WriteOrDrop ==
  IF program # "dead" /\ input < PtyInput
  THEN input' = input + 1 /\ written' = written + 1 /\ UNCHANGED dropped
  ELSE dropped' = dropped + 1 /\ UNCHANGED <<input, written>>

\* write_now.  Over SSH it fails at once when there is no room; locally it
\* waits for room, with `inner` locked.
WriteNow ==
  \/ /\ program # "dead" /\ input < PtyInput
     /\ input' = input + 1 /\ written' = written + 1
     /\ UNCHANGED dropped
  \/ /\ program = "dead" \/ (kind = "terminal" /\ input >= PtyInput)
     /\ dropped' = dropped + 1
     /\ UNCHANGED <<input, written>>

\* One reply: kept while the session has no id, else written.
Reply ==
  /\ inner.replies > 0
  /\ inner' = [inner EXCEPT !.replies = @ - 1]
  /\ IF session = "starting" /\ inner.holder # "ready"
     THEN replies' = replies + 1 /\ UNCHANGED <<input, written, dropped>>
     ELSE WriteNow /\ UNCHANGED replies
  /\ UNCHANGED <<kind, program, output, late, session, pages, registry, history,
                 screenVars>>

Publish ==
  /\ inner.holder = "reader" /\ inner.replies = 0
  /\ sent' = Append(sent, inner.op)
  /\ inner' = Unlocked
  /\ UNCHANGED <<kind, external, session, replies, newest, viewer, attaches,
                 registry, log, screenVars>>

\* RetainedSession::events with the end of the program.
Closed ==
  /\ Free /\ program = "dead" /\ session # "dropped"
  /\ \A i \in DOMAIN sent : sent[i] # "event"
  /\ sent' = Append(sent, "event")
  /\ UNCHANGED <<kind, external, session, inner, replies, newest, viewer,
                 attaches, registry, log, screenVars>>

-----------------------------------------------------------------------------
(* The session opens, and is registered unless the registry is full.       *)

Ready ==
  /\ session = "starting" /\ Free
  /\ inner' = [holder |-> "ready", replies |-> replies, op |-> "none"]
  /\ replies' = 0
  /\ UNCHANGED <<kind, external, session, pages, registry, log, screenVars>>

Flushed ==
  /\ inner.holder = "ready" /\ inner.replies = 0
  /\ inner' = Unlocked
  /\ session' = "ready"
  /\ UNCHANGED <<kind, external, replies, pages, registry, log, screenVars>>

Register ==
  /\ session = "ready" /\ registry = "free" /\ Free
  /\ \/ session' = "registered" /\ UNCHANGED program
     \/ session' = "removed" /\ program' = "dead"
  /\ UNCHANGED <<kind, output, input, late, inner, replies, pages, registry,
                 log, screenVars>>

-----------------------------------------------------------------------------
(* A page attaches: retained_socket::attach.                               *)

Upgrade(v) ==
  /\ viewer[v].phase = "off" /\ attaches < MaxAttaches
  /\ session = "registered" /\ registry = "free"
  /\ viewer' = [viewer EXCEPT ![v].phase = "attaching"]
  /\ attaches' = attaches + 1
  /\ UNCHANGED <<kind, external, session, inner, replies, newest, sent, registry,
                 log, screenVars>>

IsWrite(op) == op \in Writes

\* SelectSeq(s, IsWrite), spelled out for the provers, which do not know it.
OnlyWrites(s) ==
  LET kept[i \in 0..Len(s)] ==
        IF i = 0 THEN << >>
        ELSE IF IsWrite(s[i]) THEN Append(kept[i - 1], s[i]) ELSE kept[i - 1]
  IN kept[Len(s)]

\* RetainedSession::attach: subscribe, take the snapshot and the replies
\* still owed; `inner` stays locked until they are written.
Attach(v) ==
  /\ viewer[v].phase = "attaching" /\ Free
  /\ SnapshotScreen
  /\ IF answer'.result = "ok"
     THEN /\ inner' = [holder |-> v, replies |-> answer'.replies, op |-> "none"]
          /\ viewer' = [viewer EXCEPT ![v].next = Len(sent),
                                      ![v].view = OnlyWrites(answer'.data)]
     ELSE /\ viewer' = [viewer EXCEPT ![v] = NotAttached]
          /\ UNCHANGED inner
  /\ UNCHANGED <<kind, external, session, replies, newest, sent, attaches,
                 registry, log>>

\* The page is the only one that may write from here on.
Attached(v) ==
  /\ inner.holder = v /\ inner.replies = 0
  /\ inner' = Unlocked
  /\ newest' = v
  /\ viewer' = [viewer EXCEPT ![v].phase = "restoring"]
  /\ UNCHANGED <<kind, external, session, replies, sent, attaches, registry, log,
                 screenVars>>

-----------------------------------------------------------------------------
(* The loop of an attached page.  Every turn asks whether the page is      *)
(* still the newest; what the turn does may come after that changed.       *)

Served(v) == viewer[v].phase \in {"restoring", "live"}
MayAct(v) == Served(v) /\ viewer[v].turn
Act(v, me) == viewer' = [viewer EXCEPT ![v] = [me EXCEPT !.turn = FALSE]]
Leave(v) == viewer' = [viewer EXCEPT ![v].phase = "leaving", ![v].turn = FALSE]

\* Fault: a page goes on although another attached.
TurnUnchecked(v) ==
  /\ Served(v) /\ ~viewer[v].turn /\ Free
  /\ viewer' = [viewer EXCEPT ![v].turn = TRUE]
  /\ UNCHANGED allButViewer

Turn(v) ==
  /\ Served(v) /\ ~viewer[v].turn /\ Free
  /\ IF newest = v THEN viewer' = [viewer EXCEPT ![v].turn = TRUE] ELSE Leave(v)
  /\ UNCHANGED allButViewer

\* Fault: the heartbeat does not look whether the session is closed.
HeartbeatOpen(v) ==
  /\ MayAct(v) /\ newest # v
  /\ Act(v, viewer[v])
  /\ UNCHANGED allButViewer

\* The heartbeat ends the page of a closed session, and begins a new turn.
Heartbeat(v) ==
  /\ MayAct(v)
  /\ IF session = "removed" THEN Leave(v)
     ELSE newest # v /\ Act(v, viewer[v])
  /\ UNCHANGED allButViewer

Restore(v) ==
  LET me == viewer[v] IN
  /\ MayAct(v) /\ me.phase = "restoring" /\ me.outstanding < Window
  /\ Act(v, [me EXCEPT !.phase = "live", !.outstanding = @ + 1])
  /\ UNCHANGED allButViewer

\* What the page has once it was sent a message.
Sees(me, op) ==
  IF IsWrite(op) THEN [me EXCEPT !.view = Append(@, op), !.outstanding = @ + 1] ELSE me

\* Fault: a page that lagged goes on with the oldest message there is.
ReceiveLagged(v) ==
  LET me == viewer[v]
      at == IF Len(sent) - me.next > Channel THEN Len(sent) - Channel + 1 ELSE me.next + 1
  IN
  /\ MayAct(v) /\ me.phase = "live" /\ me.outstanding < Window
  /\ me.next < Len(sent)
  /\ Act(v, Sees([me EXCEPT !.next = at], sent[at]))
  /\ UNCHANGED allButViewer

\* The next message; a page that lagged is told to attach again.
Receive(v) ==
  LET me == viewer[v] IN
  /\ MayAct(v) /\ me.phase = "live" /\ me.outstanding < Window
  /\ me.next < Len(sent)
  /\ IF Len(sent) - me.next > Channel THEN Leave(v)
     ELSE Act(v, Sees([me EXCEPT !.next = @ + 1], sent[me.next + 1]))
  /\ UNCHANGED allButViewer

\* Fault: an acknowledgement gives no credit back.
AckNothing(v) ==
  /\ MayAct(v) /\ viewer[v].outstanding > 0
  /\ Act(v, viewer[v])
  /\ UNCHANGED allButViewer

\* Fault: a page may give back credit that it does not owe.
AckUnchecked(v) ==
  /\ MayAct(v)
  /\ Act(v, [viewer[v] EXCEPT !.outstanding = @ - 1])
  /\ UNCHANGED allButViewer

Ack(v) ==
  /\ MayAct(v) /\ viewer[v].outstanding > 0
  /\ Act(v, [viewer[v] EXCEPT !.outstanding = @ - 1])
  /\ UNCHANGED allButViewer

\* The page's socket fails, or its login is revoked.
Disconnect(v) ==
  /\ MayAct(v)
  /\ Leave(v)
  /\ UNCHANGED allButViewer

\* A key typed.  Locally a write that finds no room is given up after 5 s, but
\* not undone.
Type(v) ==
  /\ MayAct(v) /\ Free
  /\ \/ /\ newest = v /\ program # "dead" /\ input < PtyInput
        /\ input' = input + 1
        /\ Act(v, viewer[v])
        /\ UNCHANGED late
     \/ /\ newest = v /\ kind = "local" /\ program # "dead" /\ input >= PtyInput
        /\ late = 0
        /\ late' = 1
        /\ Leave(v)
        /\ UNCHANGED input
     \/ /\ newest # v \/ program = "dead" \/ (kind = "terminal" /\ input >= PtyInput)
        /\ Leave(v)
        /\ UNCHANGED <<input, late>>
  /\ UNCHANGED <<kind, program, output, session, inner, replies, newest, sent,
                 attaches,
                 registry, log, screenVars>>

LateWrite ==
  /\ late > 0
  /\ late' = late - 1
  /\ \/ program = "dead" /\ UNCHANGED input
     \/ program # "dead" /\ input < PtyInput /\ input' = input + 1
  /\ UNCHANGED <<kind, program, output, session, inner, replies, pages,
                 registry, log,
                 screenVars>>

\* RetainedSession::resize: the screen, then the program, then the pages.
Resize(v) ==
  /\ MayAct(v) /\ Free
  /\ Len(screen[Id].content) - Len(OnlyWrites(screen[Id].content)) < MaxResizes
  /\ newest = v
  /\ ResizeScreen
  /\ \/ /\ answer'.result = "ok" /\ program # "dead"
        /\ sent' = Append(sent, "geometry")
        /\ Act(v, viewer[v])
     \/ /\ answer'.result # "ok" \/ program = "dead" \/ kind = "terminal"
        /\ Leave(v)
        /\ UNCHANGED sent
  /\ UNCHANGED <<kind, external, session, inner, replies, newest, attaches,
                 registry,
                 log>>

\* The page closes the session.
Close(v) ==
  /\ MayAct(v) /\ Free /\ registry = "free"
  /\ newest = v
  /\ program' = "dead"
  /\ session' = "removed"
  /\ Leave(v)
  /\ UNCHANGED <<kind, output, input, late, inner, replies, newest, sent, attaches,
                 registry, log, screenVars>>

Detach(v) ==
  /\ viewer[v].phase = "leaving" /\ Free
  /\ viewer' = [viewer EXCEPT ![v] = NotAttached]
  /\ newest' = IF newest = v THEN NoViewer ELSE newest
  /\ UNCHANGED <<kind, external, session, inner, replies, sent, attaches,
                 registry, log,
                 screenVars>>

-----------------------------------------------------------------------------
(* Requests that list and destroy sessions, and the end of the session.    *)

\* retained_socket::list, from here to Listed.
List ==
  /\ session = "registered" /\ registry = "free"
  /\ registry' = "list"
  /\ UNCHANGED <<kind, external, session, inner, replies, pages, log, screenVars>>

Listed ==
  /\ registry = "list" /\ Free
  /\ registry' = "free"
  /\ UNCHANGED <<kind, external, session, inner, replies, pages, log, screenVars>>

\* retained_socket::destroy, from here to Destroyed.
Destroy ==
  /\ session = "registered" /\ registry = "free"
  /\ registry' = "destroy"
  /\ UNCHANGED <<kind, external, session, inner, replies, pages, log, screenVars>>

Destroyed ==
  /\ registry = "destroy" /\ Free
  /\ registry' = "free"
  /\ session' = "removed"
  /\ program' = "dead"
  /\ UNCHANGED <<kind, output, input, late, inner, replies, pages, log, screenVars>>

\* Nobody refers to the session any more.
Drop ==
  /\ session = "removed" /\ Free
  /\ \A v \in Viewers : viewer[v].phase = "off"
  /\ session' = "dropped"
  /\ Screens!Destroy(Id)
  /\ UNCHANGED <<kind, external, inner, replies, pages, registry, log>>

-----------------------------------------------------------------------------

Program == (\E op \in Writes : Emit(op) \/ Unblock(op)) \/ ReadInput \/ Exit
Reader == Process \/ Reply \/ Publish \/ Closed \/ LoseScreen
Opening == Ready \/ Flushed \/ Register
Loop(v) == Turn(v) \/ Heartbeat(v) \/ Restore(v) \/ Receive(v)
Page(v) == Upgrade(v) \/ Ack(v) \/ Disconnect(v) \/ Type(v) \/ Resize(v) \/ Close(v)
Server(v) == Attach(v) \/ Attached(v) \/ Loop(v) \/ Detach(v)
Registry == List \/ Listed \/ Destroy \/ Destroyed

Next ==
  \/ Program \/ Reader \/ Opening \/ LateWrite \/ Registry \/ Drop
  \/ \E v \in Viewers : Page(v) \/ Server(v)

Spec == Init /\ [][Next]_vars

\* The server's threads run and the mutexes are granted; the program reads
\* when it can and ends a write when there is room; a page acknowledges what
\* it was sent while its socket is open.  tokio::select! polls its branches in
\* random order, so that none that is ready again and again is passed over.
FairSpec ==
  /\ Spec
  /\ WF_vars(Process) /\ WF_vars(Reply) /\ WF_vars(Publish)
  /\ WF_vars(Opening) /\ WF_vars(Listed) /\ WF_vars(Destroyed) /\ WF_vars(Drop)
  /\ WF_vars(ReadInput) /\ WF_vars(\E op \in Writes : Unblock(op))
  /\ \A v \in Viewers :
       /\ WF_vars(Attach(v)) /\ WF_vars(Attached(v)) /\ WF_vars(Detach(v))
       /\ WF_vars(Turn(v)) /\ WF_vars(Heartbeat(v))
       /\ SF_vars(Restore(v)) /\ SF_vars(Receive(v)) /\ SF_vars(Ack(v))

-----------------------------------------------------------------------------
(* Properties. *)

Behind(me) == OnlyWrites(SubSeq(sent, me.next + 1, Len(sent)))

\* What a page shows, with the messages it has yet to receive, is all the
\* program wrote, in order and once: the snapshot and the live output neither
\* overlap nor leave a gap, whenever the page attached (retained_session.rs:192).
ViewIsHistory ==
  Free => \A v \in Viewers : Served(v) => viewer[v].view \o Behind(viewer[v]) = history

\* Every reply to a terminal query reaches the program, unless the session is
\* over or its queue over SSH is full.
RepliesConserved ==
  /\ written + dropped + replies + inner.replies = answered[Id]
  /\ kind = "local" /\ program # "dead" => dropped = 0

\* A page that is not the newest any more is sent away.
SupersededPageEnds ==
  \A v \in Viewers : Served(v) /\ newest # v ~> ~Served(v)

\* A page that acknowledges what it is sent gets every message in the end.
LivePageCatchesUp ==
  \A v \in Viewers :
    viewer[v].phase = "live" /\ viewer[v].next < Len(sent)
      ~> viewer[v].phase # "live" \/ viewer[v].next = Len(sent)

\* The screen of a closed session is given back.
ClosedSessionReleasesScreen ==
  session = "removed" ~> screen[Id].state = "absent"

\* socket_io.rs:26: a shell that stops reading must not block the executor,
\* which a request that lists the sessions does while it waits for `inner`.
ListReturns == registry = "list" ~> registry # "list"
=============================================================================
