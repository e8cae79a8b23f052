---------------------------- MODULE NetworkRules ----------------------------
(***************************************************************************)
(* Port forwarding.  The server keeps the rules and a record of those that *)
(* run (network.rs; socket.rs and retained_socket.rs clear the record); a  *)
(* session's loop runs them (ssh/client/network.rs) and opens a channel    *)
(* for every connection its listeners accept (ssh/forwarding.rs), while    *)
(* the SSH library's task accepts the channels of remote rules             *)
(* (ssh/client/handler.rs).                                                *)
(* A request holds network_gate from its beginning to its end; the end may *)
(* be that its page hangs up, which drops the handler where it waits.      *)
(* The remote host and the peers of the connections are external.          *)
(***************************************************************************)
EXTENDS Naturals, Sequences

CONSTANTS
  Sessions,     \* network sessions of one profile
  Rules,        \* rules of that profile
  RemoteRules,  \* those of kind Remote; the others have a listener
  Requests,     \* HTTP requests in flight
  Conns,        \* connections under way
  None,         \* no request, session, rule or connection
  MaxVersion    \* bound: versions of a rule

ASSUME RulesAssumption == RemoteRules \subseteq Rules
ASSUME VersionsAssumption == MaxVersion \in Nat \ {0}
ASSUME NoneAssumption == None \notin Requests

VARIABLES
  stored,     \* the rules on disk; 0 for a deleted one
  session,    \* the state of each session
  cancelled,  \* sessions whose loop was told to end
  owned,      \* ServerState.owners: sessions the workbench has
  loop,       \* what each session's loop does, and for which control or connection
  running,    \* `rules` of the loop: the version each was started with, or 0
  mapped,     \* remote_forwards
  controls,   \* the control queues
  recorded,   \* network_running
  gate,       \* the request that holds network_gate
  request,    \* the requests
  conn,       \* the connections
  abandoned   \* history: starts and stops whose page hung up

loopVars == <<cancelled, loop, running, mapped, controls, conn>>
serverVars == <<stored, owned, recorded, gate, abandoned>>
vars == <<session, loopVars, serverVars, request>>

Versions == 0..MaxVersion
Control == [op: {"start", "stop"}, rule: Rules, version: Versions, from: Requests]
Request == [phase: {"idle", "starting", "stopping", "gone"}, session: Sessions \cup {None},
            rule: Rules \cup {None}, reply: {"none", "ok", "error"}]
Conn == [phase: {"none", "accepted", "queued", "accepting", "live"},
         session: Sessions \cup {None}, rule: Rules \cup {None}, version: Versions]
Loop == [at: {"select", "asking", "withdrawing", "opening", "draining", "ended"},
         control: Control \cup {None}, conn: Conns \cup {None}]

IdleRequest == [phase |-> "idle", session |-> None, rule |-> None, reply |-> "none"]
NoConn == [phase |-> "none", session |-> None, rule |-> None, version |-> 0]
LoopAt(phase) == [at |-> phase, control |-> None, conn |-> None]

TypeOK ==
  /\ stored \in [Rules -> Versions]
  /\ session \in [Sessions -> {"connected", "closing", "failed", "closed"}]
  /\ cancelled \subseteq Sessions /\ owned \subseteq Sessions
  /\ loop \in [Sessions -> Loop]
  /\ running \in [Sessions -> [Rules -> Versions]]
  /\ mapped \in [Sessions -> SUBSET RemoteRules]
  /\ controls \in [Sessions -> Seq(Control)]
  /\ recorded \in [Sessions -> SUBSET Rules]
  /\ gate \in Requests \cup {None}
  /\ request \in [Requests -> Request]
  /\ conn \in [Conns -> Conn]
  /\ abandoned \subseteq Sessions \X Rules

Init ==
  /\ stored = [r \in Rules |-> 1]
  /\ session = [s \in Sessions |-> "connected"] /\ cancelled = {} /\ owned = Sessions
  /\ loop = [s \in Sessions |-> LoopAt("select")]
  /\ running = [s \in Sessions |-> [r \in Rules |-> 0]]
  /\ mapped = [s \in Sessions |-> {}]
  /\ controls = [s \in Sessions |-> <<>>]
  /\ recorded = [s \in Sessions |-> {}]
  /\ gate = None
  /\ request = [q \in Requests |-> IdleRequest]
  /\ conn = [c \in Conns |-> NoConn]
  /\ abandoned = {}

-----------------------------------------------------------------------------
(* Requests. *)

Live(s) == loop[s].at # "ended"
Waits(q) == request[q].phase \in {"starting", "stopping"}
Send(s, op, r, q) ==
  controls' = [controls EXCEPT ![s] =
                 Append(@, [op |-> op, rule |-> r, version |-> stored[r], from |-> q])]
Asks(q, s, r, phase) ==
  /\ gate = None /\ gate' = q
  /\ request' = [request EXCEPT ![q] = [phase |-> phase, session |-> s, rule |-> r,
                                        reply |-> "none"]]
  /\ UNCHANGED <<session, cancelled, loop, running, mapped, conn, stored, owned, recorded, abandoned>>

\* network::start, to the reply it waits for.  A refusal changes nothing.
Start(q, s, r) ==
  /\ request[q].phase = "idle"
  /\ s \in owned /\ stored[r] # 0
  /\ Live(s) /\ session[s] = "connected"
  /\ Send(s, "start", r, q)
  /\ Asks(q, s, r, "starting")

\* network::stop; the state of the session does not matter.
Stop(q, s, r) ==
  /\ request[q].phase = "idle"
  /\ s \in owned
  /\ Live(s)
  /\ Send(s, "stop", r, q)
  /\ Asks(q, s, r, "stopping")

\* Fault: the session's record is made anew for the rule that was started.
FinishAnew(q) ==
  LET s == request[q].session
      r == request[q].rule
  IN /\ Waits(q)
     /\ request[q].reply # "none" \/ ~Live(s)
     /\ recorded' = [recorded EXCEPT ![s] =
                       IF request[q].reply # "ok" THEN @
                       ELSE IF request[q].phase = "starting" THEN {r} ELSE @ \ {r}]
     /\ request' = [request EXCEPT ![q] = IdleRequest]
     /\ gate' = None
     /\ UNCHANGED <<session, loopVars, stored, owned, abandoned>>

\* The answer arrives, or the session has ended without one.
Finish(q) ==
  LET s == request[q].session
      r == request[q].rule
  IN /\ Waits(q)
     /\ request[q].reply # "none" \/ ~Live(s)
     /\ recorded' = [recorded EXCEPT ![s] =
                       IF request[q].reply # "ok" THEN @
                       ELSE IF request[q].phase = "starting" THEN @ \cup {r} ELSE @ \ {r}]
     /\ request' = [request EXCEPT ![q] = IdleRequest]
     /\ gate' = None
     /\ UNCHANGED <<session, loopVars, stored, owned, abandoned>>

\* The page goes: the handler is dropped, the control stays in the queue.
HangUp(q) ==
  /\ Waits(q)
  /\ abandoned' = abandoned \cup {<<request[q].session, request[q].rule>>}
  /\ request' = [request EXCEPT ![q] = [IdleRequest EXCEPT !.phase = "gone"]]
  /\ gate' = None
  /\ UNCHANGED <<session, loopVars, stored, owned, recorded>>

\* network::update and network::delete, unless editable finds the rule running.
Edit(r, version) ==
  /\ gate = None /\ stored[r] # 0
  /\ \A s \in Sessions : r \notin recorded[s]
  /\ version \in {0, stored[r] + 1} \cap Versions
  /\ stored' = [stored EXCEPT ![r] = version]
  /\ UNCHANGED <<session, loopVars, owned, recorded, gate, abandoned, request>>

-----------------------------------------------------------------------------
(* The end of a session. *)

\* SessionEntry::begin_close
Closing(sessions) ==
  /\ session' = [s \in Sessions |->
                   IF s \in sessions /\ session[s] = "connected" THEN "closing" ELSE session[s]]
  /\ cancelled' = cancelled \cup sessions

\* catalog::delete_profile: the rules go, and the sessions that run them.
DeleteProfile ==
  /\ gate = None
  /\ stored' = [r \in Rules |-> 0]
  /\ Closing(Sessions)
  /\ UNCHANGED <<loop, running, mapped, controls, conn, owned, recorded, gate, abandoned, request>>

\* retained_socket::destroy, which does without the gate.
Destroy(s) ==
  /\ s \in owned
  /\ Closing({s})
  /\ owned' = owned \ {s}
  /\ recorded' = [recorded EXCEPT ![s] = {}]
  /\ UNCHANGED <<loop, running, mapped, controls, conn, stored, gate, abandoned, request>>

\* ClientHandler::disconnected: fail_connected emits Failed, on which the
\* server forgets the session's rules, and tells the loop to end.
Lose(s) ==
  /\ session[s] = "connected"
  /\ session' = [session EXCEPT ![s] = "failed"]
  /\ recorded' = [recorded EXCEPT ![s] = {}]
  /\ cancelled' = cancelled \cup {s}
  /\ UNCHANGED <<loop, running, mapped, controls, conn, stored, owned, gate, abandoned, request>>

-----------------------------------------------------------------------------
(* The loop of a session. *)

Selects(s) == loop[s].at = "select" /\ session[s] = "connected"
HasControl(s, op) == Selects(s) /\ controls[s] # <<>> /\ Head(controls[s]).op = op
Taken(s) == controls' = [controls EXCEPT ![s] = Tail(@)]

\* reply.send, for a requester that still waits.
Reply(control, answer) ==
  request' = [request EXCEPT ![control.from].reply = IF Waits(control.from) THEN answer ELSE @]

\* abort_forward_tasks
WithoutTasks(s, r) ==
  [c \in Conns |-> IF conn[c].phase = "live" /\ conn[c].session = s /\ conn[c].rule = r
                   THEN NoConn ELSE conn[c]]

\* Fault: a rule that runs already is passed over without a reply.
LoopStartSilent(s) ==
  LET control == Head(controls[s])
      r == control.rule
  IN /\ HasControl(s, "start")
     /\ Taken(s)
     /\ \/ /\ running[s][r] # 0
           /\ UNCHANGED <<running, loop, request>>
        \/ /\ running[s][r] = 0 /\ r \in RemoteRules
           /\ loop' = [loop EXCEPT ![s] = [LoopAt("asking") EXCEPT !.control = control]]
           /\ UNCHANGED <<running, request>>
        \/ /\ running[s][r] = 0 /\ r \notin RemoteRules
           /\ running' = [running EXCEPT ![s][r] = control.version]
           /\ Reply(control, "ok")
           /\ UNCHANGED loop
     /\ UNCHANGED <<session, cancelled, mapped, conn, serverVars>>

\* StartNetworkRule: it runs already; or its listener is bound, or cannot be;
\* or the remote is asked.
LoopStart(s) ==
  LET control == Head(controls[s])
      r == control.rule
  IN /\ HasControl(s, "start")
     /\ Taken(s)
     /\ \/ /\ running[s][r] # 0
           /\ Reply(control, "ok")
           /\ UNCHANGED <<running, loop>>
        \/ /\ running[s][r] = 0 /\ r \in RemoteRules
           /\ loop' = [loop EXCEPT ![s] = [LoopAt("asking") EXCEPT !.control = control]]
           /\ UNCHANGED <<running, request>>
        \/ /\ running[s][r] = 0 /\ r \notin RemoteRules
           /\ \/ running' = [running EXCEPT ![s][r] = control.version] /\ Reply(control, "ok")
              \/ Reply(control, "error") /\ UNCHANGED running
           /\ UNCHANGED loop
     /\ UNCHANGED <<session, cancelled, mapped, conn, serverVars>>

\* tcpip_forward is answered.  A lost connection answers with an error.
Answered(s) ==
  LET control == loop[s].control
  IN /\ loop[s].at = "asking"
     /\ loop' = [loop EXCEPT ![s] = LoopAt("select")]
     /\ \/ /\ running' = [running EXCEPT ![s][control.rule] = control.version]
           /\ mapped' = [mapped EXCEPT ![s] = @ \cup {control.rule}]
           /\ Reply(control, "ok")
        \/ Reply(control, "error") /\ UNCHANGED <<running, mapped>>
     /\ UNCHANGED <<session, cancelled, controls, conn, serverVars>>

\* Fault: the connections of a rule outlive it.
LoopStopKeepsTasks(s) ==
  LET control == Head(controls[s])
      r == control.rule
  IN /\ HasControl(s, "stop")
     /\ Taken(s)
     /\ running' = [running EXCEPT ![s][r] = 0]
     /\ mapped' = [mapped EXCEPT ![s] = @ \ {r}]
     /\ IF running[s][r] # 0 /\ r \in RemoteRules
        THEN /\ loop' = [loop EXCEPT ![s] = [LoopAt("withdrawing") EXCEPT !.control = control]]
             /\ UNCHANGED request
        ELSE Reply(control, "ok") /\ UNCHANGED loop
     /\ UNCHANGED <<session, cancelled, conn, serverVars>>

\* StopNetworkRule: listener or mapping go, then the connections.
LoopStop(s) ==
  LET control == Head(controls[s])
      r == control.rule
  IN /\ HasControl(s, "stop")
     /\ Taken(s)
     /\ running' = [running EXCEPT ![s][r] = 0]
     /\ mapped' = [mapped EXCEPT ![s] = @ \ {r}]
     /\ conn' = WithoutTasks(s, r)
     /\ IF running[s][r] # 0 /\ r \in RemoteRules
        THEN /\ loop' = [loop EXCEPT ![s] = [LoopAt("withdrawing") EXCEPT !.control = control]]
             /\ UNCHANGED request
        ELSE Reply(control, "ok") /\ UNCHANGED loop
     /\ UNCHANGED <<session, cancelled, serverVars>>

\* cancel_tcpip_forward is answered.
Withdrawn(s) ==
  /\ loop[s].at = "withdrawing"
  /\ loop' = [loop EXCEPT ![s] = LoopAt("select")]
  /\ \E answer \in {"ok", "error"} : Reply(loop[s].control, answer)
  /\ UNCHANGED <<session, cancelled, running, mapped, controls, conn, serverVars>>

\* direct_receiver: connections of rules that do not run are dropped.
TakeDirect(s, c) ==
  /\ Selects(s)
  /\ conn[c].phase = "queued" /\ conn[c].session = s
  /\ IF running[s][conn[c].rule] # 0
     THEN /\ loop' = [loop EXCEPT ![s] = [LoopAt("opening") EXCEPT !.conn = c]]
          /\ UNCHANGED conn
     ELSE conn' = [conn EXCEPT ![c] = NoConn] /\ UNCHANGED loop
  /\ UNCHANGED <<session, cancelled, running, mapped, controls, serverVars, request>>

\* channel_open_direct_tcpip is answered, or given up after 15 s.
Opened(s) ==
  LET c == loop[s].conn
  IN /\ loop[s].at = "opening"
     /\ loop' = [loop EXCEPT ![s] = LoopAt("select")]
     /\ conn' = [conn EXCEPT ![c].phase = "live"] \/ conn' = [conn EXCEPT ![c] = NoConn]
     /\ UNCHANGED <<session, cancelled, running, mapped, controls, serverVars, request>>

\* The loop is cancelled, or sees that the session is connected no more.  The
\* rules go first; a withdrawal may take its time.
Drain(s) ==
  /\ loop[s].at = "select" /\ s \in cancelled
  /\ session' = [session EXCEPT ![s] = IF @ = "connected" THEN "closing" ELSE @]
  /\ loop' = [loop EXCEPT ![s] = LoopAt("draining")]
  /\ running' = [running EXCEPT ![s] = [r \in Rules |-> 0]]
  /\ UNCHANGED <<cancelled, mapped, controls, conn, serverVars, request>>

\* Then connections and mappings, and the session is closed: the server
\* forgets its rules, and the controls in the queue lose their replies.
End(s) ==
  /\ loop[s].at = "draining"
  /\ loop' = [loop EXCEPT ![s] = LoopAt("ended")]
  /\ conn' = [c \in Conns |-> IF conn[c].session = s THEN NoConn ELSE conn[c]]
  /\ mapped' = [mapped EXCEPT ![s] = {}]
  /\ controls' = [controls EXCEPT ![s] = <<>>]
  /\ session' = [session EXCEPT ![s] = IF @ = "closing" THEN "closed" ELSE @]
  /\ recorded' = [recorded EXCEPT ![s] = IF session[s] = "closing" THEN {} ELSE @]
  /\ UNCHANGED <<cancelled, running, stored, owned, gate, abandoned, request>>

-----------------------------------------------------------------------------
(* Connections. *)

\* A listener accepts one and prepares it in a task of its own ...
Accept(c, s, r) ==
  /\ conn[c].phase = "none"
  /\ r \notin RemoteRules /\ running[s][r] # 0
  /\ conn' = [conn EXCEPT ![c] = [phase |-> "accepted", session |-> s, rule |-> r,
                                  version |-> running[s][r]]]
  /\ UNCHANGED <<session, cancelled, loop, running, mapped, controls, serverVars, request>>

\* ... which hands it to the loop; a listener that was stopped may be late to
\* end its tasks.
Enqueue(c) ==
  /\ conn[c].phase = "accepted"
  /\ conn' = [conn EXCEPT ![c].phase = "queued"]
  /\ UNCHANGED <<session, cancelled, loop, running, mapped, controls, serverVars, request>>

\* server_channel_open_forwarded_tcpip looks the rule up ...
RemoteOpens(c, s, r) ==
  /\ conn[c].phase = "none"
  /\ session[s] # "failed" /\ r \in mapped[s]
  /\ conn' = [conn EXCEPT ![c] = [phase |-> "accepting", session |-> s, rule |-> r,
                                  version |-> running[s][r]]]
  /\ UNCHANGED <<session, cancelled, loop, running, mapped, controls, serverVars, request>>

\* ... and adds its task when the reply is sent.
Accepted(c) ==
  /\ conn[c].phase = "accepting"
  /\ conn' = [conn EXCEPT ![c].phase = "live"]
  /\ UNCHANGED <<session, cancelled, loop, running, mapped, controls, serverVars, request>>

\* An end of it goes away, or its preparation times out.
HangUpConn(c) ==
  /\ conn[c].phase \in {"accepted", "accepting", "live"}
  /\ conn' = [conn EXCEPT ![c] = NoConn]
  /\ UNCHANGED <<session, cancelled, loop, running, mapped, controls, serverVars, request>>

Asking(q) ==
  \/ \E s \in Sessions, r \in Rules : Start(q, s, r) \/ Stop(q, s, r)
  \/ Finish(q) \/ HangUp(q)
Looping(s) ==
  \/ LoopStart(s) \/ Answered(s) \/ LoopStop(s) \/ Withdrawn(s)
  \/ \E c \in Conns : TakeDirect(s, c)
  \/ Opened(s) \/ Drain(s) \/ End(s)
Connecting(c) ==
  \/ \E s \in Sessions, r \in Rules : Accept(c, s, r) \/ RemoteOpens(c, s, r)
  \/ Enqueue(c) \/ Accepted(c) \/ HangUpConn(c)

Next ==
  \/ \E q \in Requests : Asking(q)
  \/ \E r \in Rules, version \in Versions : Edit(r, version)
  \/ DeleteProfile
  \/ \E s \in Sessions : Destroy(s) \/ Lose(s) \/ Looping(s)
  \/ \E c \in Conns : Connecting(c)

Spec == Init /\ [][Next]_vars

\* The runtime runs loops and handlers that can go on; select! is fair to the
\* control queue and to the cancellation.  That the remote answers a request
\* for a forward is an assumption: nothing in the code limits the wait.
Fairness ==
  /\ \A s \in Sessions :
       /\ SF_vars(LoopStart(s)) /\ SF_vars(LoopStop(s)) /\ SF_vars(Drain(s))
       /\ WF_vars(Answered(s) \/ Withdrawn(s) \/ Opened(s) \/ End(s))
  /\ \A q \in Requests : WF_vars(Finish(q))
FairSpec == Spec /\ Fairness

-----------------------------------------------------------------------------
(* While a session is connected, a rule that runs in it is on record, so   *)
(* that it can be seen, stopped, and not be edited - unless a request for  *)
(* it is under way, or a page hung up on one.                              *)
RunningIsRecorded ==
  \A s \in Sessions, r \in Rules :
    session[s] = "connected" /\ running[s][r] # 0 =>
      \/ r \in recorded[s]
      \/ s \notin owned
      \/ \E q \in Requests : Waits(q) /\ request[q].session = s /\ request[q].rule = r
      \/ <<s, r>> \in abandoned

(* A connection a listener accepted carries data only while its rule runs: *)
(* stopping the rule ends those that are open and those that wait their    *)
(* turn (ssh/client/network.rs:61-63, 93).                                 *)
StoppedRuleIsQuiet ==
  \A c \in Conns :
    conn[c].phase = "live" /\ conn[c].rule \notin RemoteRules
      /\ loop[conn[c].session].at # "draining"
    => running[conn[c].session][conn[c].rule] # 0

(* Whoever takes the gate gives it back: no answer is forgotten, whatever  *)
(* ends the session, so that rules can go on being managed.                *)
GateIsReleased == \A q \in Requests : gate = q ~> gate # q

(* The safety of it: while the gate is held its holder has an answer, or   *)
(* its session has ended, or the session's loop still owes the answer: the *)
(* control is in its queue, or the remote was asked for it                 *)
(* (ssh/client/network.rs:36-120).                                         *)
OwesAnswer(s, q) ==
  \/ \E i \in 1..Len(controls[s]) : controls[s][i].from = q
  \/ loop[s].at \in {"asking", "withdrawing"} /\ loop[s].control.from = q
HolderIsAnswered ==
  gate # None => /\ Waits(gate)
                 /\ \/ request[gate].reply # "none"
                    \/ ~Live(request[gate].session)
                    \/ OwesAnswer(request[gate].session, gate)

(* docs/server-runtime.md:70: a running rule has to be stopped before it   *)
(* is changed or deleted.                                                  *)
EditedWhileStopped ==
  [][\A r \in Rules, s \in Sessions :
       stored'[r] # stored[r] /\ session[s] = "connected" /\ s \in owned /\ session'[s] = "connected"
       => running[s][r] = 0]_vars

(* docs/server-runtime.md:70: when the session of a rule ends, so does the *)
(* rule: it is not on record as running, and can be edited.                *)
RecordEndsWithSession ==
  \A s \in Sessions : session[s] \in {"failed", "closed"} => recorded[s] = {}

(* A connection goes where its rule, as it runs, says.                     *)
TargetIsCurrent ==
  \A c \in Conns :
    conn[c].phase = "live" /\ loop[conn[c].session].at # "draining"
    => running[conn[c].session][conn[c].rule] \in {0, conn[c].version}

(* The same as StoppedRuleIsQuiet, for the channels of remote rules.       *)
StoppedRemoteRuleIsQuiet ==
  \A c \in Conns :
    conn[c].phase = "live" /\ conn[c].rule \in RemoteRules
      /\ loop[conn[c].session].at # "draining"
    => running[conn[c].session][conn[c].rule] # 0
=============================================================================
