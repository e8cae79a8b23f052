---------------------------- MODULE ScreenWorker ----------------------------
(***************************************************************************)
(* The recoverable screens of the server: a Node process keeps one         *)
(* headless terminal per screen; the server keeps, per screen, the last    *)
(* checkpoint and the operations since (screen_worker.rs, recovery.rs), so *)
(* that the process can fail at any call and be rebuilt.  One mutex is     *)
(* held for a whole call, so calls do not interleave; what interleaves is  *)
(* a call with the failures of the process it talks to.                    *)
(*                                                                         *)
(* Every exchange with the process may succeed, be rejected by it, or fail *)
(* (stdio closed, timeout, malformed reply): the process may have died at  *)
(* any time before, and may or may not have done what was asked.  It is    *)
(* killed then, with all it holds.                                         *)
(***************************************************************************)
EXTENDS Naturals, Sequences, FiniteSets

CONSTANTS
  Ids,            \* screen identities
  Outputs,        \* output written: "text", or "query" when it asks for a reply
  CheckpointOps,  \* operations after which a checkpoint is taken
  MaxTail,        \* operations kept at most (8 MiB or 4,096 of them)
  MaxOps          \* bound: operations accepted per screen

ASSUME LimitAssumption ==
  /\ CheckpointOps \in Nat \ {0} /\ MaxTail \in Nat /\ MaxOps \in Nat
  /\ CheckpointOps <= MaxTail
ASSUME OutputsAssumption == Outputs \subseteq {"text", "query"}

VARIABLES
  screens,   \* WorkerState.screens
  process,   \* WorkerState.process: a process is there
  terminal,  \* what the process holds
  todo,      \* screens that `recover` has yet to restore
  retry,     \* WorkerState.retry_at may lie in the future
  call,      \* the call that holds the mutex
  answer,    \* what the last call returned
  answered   \* history: replies handed back, per screen

vars == <<screens, process, terminal, todo, retry, call, answer, answered>>

Ops == Outputs \cup {"resize"}
Requests == Ops \cup {"create", "snapshot"}
Replay == [op : Ops, pending : BOOLEAN]

Screen == [state : {"absent", "live", "lost"}, saved : Seq(Ops),
           tail : Seq(Replay), replies : Nat]
Terminal == [open : BOOLEAN, content : Seq(Ops)]
Call == [phase : {"idle", "trying", "checkpoint"}, id : Ids \cup {"none"},
         op : Requests \cup {"none"}, attempt : {1, 2}]
Answer == [result : {"none", "ok", "unavailable", "lost", "refused"},
           data : Seq(Ops), replies : Nat]

NoScreen == [state |-> "absent", saved |-> << >>, tail |-> << >>, replies |-> 0]
NewScreen == [NoScreen EXCEPT !.state = "live"]
NoTerminal == [open |-> FALSE, content |-> << >>]
NoTerminals == [s \in Ids |-> NoTerminal]
Idle == [phase |-> "idle", id |-> "none", op |-> "none", attempt |-> 1]

TypeOK ==
  /\ screens \in [Ids -> Screen]
  /\ process \in BOOLEAN /\ retry \in BOOLEAN
  /\ terminal \in [Ids -> Terminal]
  /\ todo \in SUBSET Ids
  /\ call \in Call
  /\ answer \in Answer
  /\ answered \in [Ids -> Nat]

Init ==
  /\ screens = [s \in Ids |-> NoScreen]
  /\ process = FALSE
  /\ terminal = NoTerminals
  /\ todo = {}
  /\ retry = FALSE
  /\ call = Idle
  /\ answer = [result |-> "none", data |-> << >>, replies |-> 0]
  /\ answered = [s \in Ids |-> 0]

-----------------------------------------------------------------------------
(* Screen: the checkpoint and the tail (recovery.rs).                      *)

Own(op) == IF op = "query" THEN 1 ELSE 0
TailOps(scr) == [i \in DOMAIN scr.tail |-> scr.tail[i].op]
Content(scr) == scr.saved \o TailOps(scr)
PendingQueries(scr) ==
  Cardinality({i \in DOMAIN scr.tail : scr.tail[i].pending /\ scr.tail[i].op = "query"})

Invalidate(scr) == [NoScreen EXCEPT !.state = "lost"]

\* Fault: an acknowledged resize is not kept for the next recovery.
RecordWrites(scr, op, delivered) ==
  IF scr.state # "live" \/ op \notin Outputs THEN scr
  ELSE IF Len(scr.tail) >= MaxTail THEN Invalidate(scr)
  ELSE [scr EXCEPT !.tail = Append(@, [op |-> op, pending |-> ~delivered])]

\* Fault: one operation more than the limit is kept.
RecordOneMore(scr, op, delivered) ==
  IF scr.state # "live" \/ op \notin Ops \/ (op = "resize" /\ ~delivered) THEN scr
  ELSE IF Len(scr.tail) > MaxTail THEN Invalidate(scr)
  ELSE [scr EXCEPT !.tail = Append(@, [op |-> op, pending |-> ~delivered])]

\* Operations that were never delivered are kept, except for a resize.
Record(scr, op, delivered) ==
  IF scr.state # "live" \/ op \notin Ops \/ (op = "resize" /\ ~delivered) THEN scr
  ELSE IF Len(scr.tail) >= MaxTail THEN Invalidate(scr)
  ELSE [scr EXCEPT !.tail = Append(@, [op |-> op, pending |-> ~delivered])]

\* The replies were handed back.
Complete(scr) ==
  [scr EXCEPT !.replies = 0,
              !.tail = [i \in DOMAIN scr.tail |-> [scr.tail[i] EXCEPT !.pending = FALSE]]]

\* Never while replies are owed: a checkpoint would forget them.
NeedsCheckpoint(scr) ==
  /\ scr.state = "live"
  /\ Len(scr.tail) >= CheckpointOps
  /\ \A i \in DOMAIN scr.tail : ~scr.tail[i].pending

Checkpoint(scr, snapshot) == [scr EXCEPT !.saved = snapshot, !.tail = << >>]

LiveScreens == {s \in Ids : screens[s].state = "live"}

-----------------------------------------------------------------------------
(* A call begins.                                                          *)

Return(result) == answer' = [result |-> result, data |-> << >>, replies |-> 0]
Discard == process' = FALSE /\ terminal' = NoTerminals /\ todo' = {}

\* destroy never starts a process; one that fails to follow is discarded.
Destroy(s) ==
  /\ call.phase = "idle"
  /\ screens' = [screens EXCEPT ![s] = NoScreen]
  /\ \/ terminal' = [terminal EXCEPT ![s] = NoTerminal] /\ UNCHANGED <<process, todo>>
     \/ process /\ Discard
  /\ Return("ok")
  /\ UNCHANGED <<retry, call, answered>>

Refuse(s, op) ==
  /\ call.phase = "idle"
  /\ screens[s].state \notin IF op = "create" THEN {"absent"} ELSE {"live"}
  /\ Return(IF op # "create" /\ screens[s].state = "lost" THEN "lost" ELSE "refused")
  /\ UNCHANGED <<screens, process, terminal, todo, retry, call, answered>>

Accepts(s, op) ==
  /\ call.phase = "idle"
  /\ screens[s].state = IF op = "create" THEN "absent" ELSE "live"
  /\ op \in Ops => Len(Content(screens[s])) < MaxOps

\* retry_at is not set, or has passed: it stays in the past from now on.
Try(s, op) ==
  /\ Accepts(s, op)
  /\ call' = [phase |-> "trying", id |-> s, op |-> op, attempt |-> 1]
  /\ retry' = FALSE
  /\ UNCHANGED <<screens, process, terminal, todo, answer, answered>>

\* It has not passed: the operation is recorded for the next recovery.
Postpone(s, op) ==
  /\ retry
  /\ Accepts(s, op)
  /\ screens' = [screens EXCEPT ![s] = Record(@, op, FALSE)]
  /\ Return("unavailable")
  /\ UNCHANGED <<process, terminal, todo, retry, call, answered>>

-----------------------------------------------------------------------------
(* Two attempts, each recovers the process first.                          *)

Trying == call.phase = "trying"
Recovered == process /\ todo = {}

\* Fault: a third attempt.
FailOnceMore ==
  /\ Discard
  /\ IF call.attempt < 3
     THEN /\ call' = [call EXCEPT !.attempt = @ + 1]
          /\ UNCHANGED <<screens, retry, answer>>
     ELSE /\ call' = Idle
          /\ retry' = TRUE
          /\ screens' = [screens EXCEPT ![call.id] = Record(@, call.op, FALSE)]
          /\ Return("unavailable")
  /\ UNCHANGED answered

\* Fault: attempts do not count.
FailForever ==
  /\ Discard
  /\ UNCHANGED <<call, screens, retry, answer, answered>>

\* An attempt that fails kills the process; after the second the call ends.
Fail ==
  /\ Discard
  /\ IF call.attempt = 1
     THEN /\ call' = [call EXCEPT !.attempt = 2]
          /\ UNCHANGED <<screens, retry, answer>>
     ELSE /\ call' = Idle
          /\ retry' = TRUE
          /\ screens' = [screens EXCEPT ![call.id] = Record(@, call.op, FALSE)]
          /\ Return("unavailable")
  /\ UNCHANGED answered

\* Process::start, or its failure.
Launch ==
  /\ Trying /\ ~process
  /\ \/ /\ process' = TRUE
        /\ todo' = LiveScreens
        /\ UNCHANGED <<screens, terminal, retry, call, answer, answered>>
     \/ Fail

\* Fault: the replies of every replayed operation are kept.
RestoreAll(s) ==
  /\ Trying /\ process /\ s \in todo
  /\ todo' = todo \ {s}
  /\ terminal' = [terminal EXCEPT ![s] =
                    [open |-> TRUE, content |-> Content(screens[s])]]
  /\ screens' = [screens EXCEPT ![s].replies =
                   Cardinality({i \in DOMAIN screens[s].tail :
                                  screens[s].tail[i].op = "query"})]
  /\ UNCHANGED <<process, retry, call, answer, answered>>

\* One screen: its checkpoint and its tail are replayed, and only replies
\* never handed back are kept.  A rejected replay loses this screen alone.
Restore(s) ==
  /\ Trying /\ process /\ s \in todo
  /\ \/ /\ todo' = todo \ {s}
        /\ \/ /\ terminal' = [terminal EXCEPT ![s] =
                                [open |-> TRUE, content |-> Content(screens[s])]]
              /\ screens' = [screens EXCEPT ![s].replies = PendingQueries(screens[s])]
           \/ /\ screens' = [screens EXCEPT ![s] = Invalidate(@)]
              /\ UNCHANGED terminal
        /\ UNCHANGED <<process, retry, call, answer, answered>>
     \/ Fail

\* The recovery lost the very screen of the call.
GiveUp ==
  /\ Trying /\ Recovered
  /\ screens[call.id].state = "lost"
  /\ call' = Idle
  /\ Return("lost")
  /\ UNCHANGED <<screens, process, terminal, todo, retry, answered>>

\* The process performs the operation (worker.mjs).
Performed(t, op) ==
  CASE op = "create" -> [open |-> TRUE, content |-> << >>]
    [] op = "snapshot" -> t
    [] OTHER -> [t EXCEPT !.content = Append(@, op)]

\* The screen once the operation was acknowledged.
Acknowledged(scr, op) ==
  CASE op = "create" -> NewScreen
    [] op = "resize" -> Record(scr, op, TRUE)
    [] OTHER -> Complete(Record(scr, op, TRUE))

Perform ==
  LET s == call.id
      op == call.op
      replies == IF op \in {"create", "resize"} THEN 0
                 ELSE Record(screens[s], op, TRUE).replies + Own(op)
  IN
  /\ Trying /\ Recovered
  /\ screens[s].state # "lost"
  /\ \/ /\ op # "create" => terminal[s].open
        /\ terminal' = [terminal EXCEPT ![s] = Performed(@, op)]
        /\ screens' = [screens EXCEPT ![s] = Acknowledged(@, op)]
        /\ answer' = [result |-> "ok", replies |-> replies,
                      data |-> IF op = "snapshot" THEN terminal[s].content ELSE << >>]
        /\ answered' = [answered EXCEPT ![s] = IF op = "create" THEN 0 ELSE @ + replies]
        /\ call' = IF NeedsCheckpoint(screens'[s])
                   THEN [call EXCEPT !.phase = "checkpoint"] ELSE Idle
        /\ UNCHANGED <<process, todo, retry>>
     \/ Fail

\* Fault: the tail is dropped when the checkpoint fails, too.
TakeCheckpointAnyway ==
  /\ call.phase = "checkpoint"
  /\ call' = Idle
  /\ screens' = [screens EXCEPT ![call.id].tail = << >>]
  /\ Discard
  /\ UNCHANGED <<retry, answer, answered>>

\* If it fails the operations stay in the tail.
TakeCheckpoint ==
  /\ call.phase = "checkpoint"
  /\ call' = Idle
  /\ \/ /\ screens' = [screens EXCEPT ![call.id] =
                         Checkpoint(@, terminal[call.id].content)]
        /\ UNCHANGED <<process, terminal, todo>>
     \/ Discard /\ UNCHANGED screens
  /\ UNCHANGED <<retry, answer, answered>>

-----------------------------------------------------------------------------

Attempt == Launch \/ (\E s \in Ids : Restore(s)) \/ GiveUp \/ Perform

Next ==
  \/ \E s \in Ids : Destroy(s)
  \/ \E s \in Ids, op \in Requests : Refuse(s, op) \/ Try(s, op) \/ Postpone(s, op)
  \/ Attempt
  \/ TakeCheckpoint

Spec == Init /\ [][Next]_vars

\* A call under way goes on: every exchange with the process has a timeout.
FairSpec == Spec /\ WF_vars(Attempt \/ TakeCheckpoint)

-----------------------------------------------------------------------------
(* Properties. *)

\* The terminal the process holds is the screen the server would rebuild:
\* whatever failed before, no operation is missing, doubled or out of order.
TerminalIsContent ==
  process => \A s \in LiveScreens \ todo :
    terminal[s].open /\ terminal[s].content = Content(screens[s])

\* Every terminal query of a screen was answered exactly once, or its reply
\* is still owed by the tail: none is lost in a crash, none is repeated.
QueriesAnsweredOnce ==
  \A s \in LiveScreens :
    answered[s] + PendingQueries(screens[s]) =
      Cardinality({i \in DOMAIN Content(screens[s]) : Content(screens[s])[i] = "query"})

\* What is kept for a screen stays within the limit, and a lost screen keeps
\* nothing (recovery.rs outage_tail_is_bounded_and_never_silently_drops_history).
TailBounded ==
  \A s \in Ids :
    /\ Len(screens[s].tail) <= MaxTail
    /\ screens[s].state = "lost" => screens[s].tail = << >>

\* The screens refine their abstract specification: failures of the process
\* show only as unavailable calls and lost screens.
Promise == INSTANCE RecoverableScreens WITH
  screen <- [s \in Ids |-> [state |-> screens[s].state,
                            content |-> Content(screens[s]),
                            owed |-> PendingQueries(screens[s])]]
Recoverable == Promise!Spec

\* Two attempts are all a call makes: it returns, whatever the process does.
CallReturns == call.phase # "idle" ~> call.phase = "idle"
=============================================================================
