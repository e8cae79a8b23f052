---------------------------- MODULE SessionProofs ----------------------------
(***************************************************************************)
(* The safety of a session's connection, and of the workbench that shows   *)
(* the sessions and outlives its pages.                                    *)
(*                                                                         *)
(* The connection (SshSession), for every route, any transfers, every size *)
(* of the queue and every pair of time limits.  A question about a key     *)
(* travels: the handler asks it, a request takes it, an answer is sent for *)
(* it, the handler acts on the answer.  The inductive invariant says that  *)
(* it is in one place at a time, that it never leaves the connection it    *)
(* was asked for, and what is known wherever it is: an acceptance on its   *)
(* way has been stored, a rejection on its way is the user's, and neither  *)
(* is left when the runner goes on to authenticate.                        *)
(*                                                                         *)
(* The workbench (WorkspaceRuntime), for all blocks, files, limits of the  *)
(* server and bounds of the model.  A layout or a text is replaced by      *)
(* whatever has its revision, so the inductive invariants say, of          *)
(* everything that has the revision of the server or may still get it      *)
(* (what a page shows, queues, asks and has sent, and what gone pages have *)
(* left behind), which edits it comes after.                               *)
(***************************************************************************)
EXTENDS SshSession, WorkspaceRuntime, FiniteSetTheorems, SequenceTheorems, TLAPS

-----------------------------------------------------------------------------
(* The connection of a session. *)

Online == {"authenticate", "opening", "startup", "loop", "write", "job", "closing"}

\* The connection of a runner that waits for it, or has it.
LinkInv ==
  /\ At("tunnel") => link = "none"
  /\ runner.phase \in Online => link \in {"open", "lost"}

\* The question is in one place.
QuestionInv ==
  /\ question => link \in {"asking", "expired"} /\ answering = "none" /\ decision = "none"
  /\ answering # "none" => link \in {"asking", "expired", "refused"} /\ decision = "none"
  /\ decision # "none" => link = "asking"

\* What is trusted, and what is about to be.
KeyInv ==
  /\ \A n \in 1..(runner.node - 1) : known[n] = "trusted"
  /\ link \in {"trusted", "open", "lost"} => known[runner.node] = "trusted"
  /\ answering = "accept" \/ decision = "accept" => known[runner.node] = "trusted"

\* What a rejection leaves.
RejectInv ==
  /\ "reject" \in {answering, decision} => user.answer = "reject"
  /\ failure = "keyRejected" => user.answer = "reject"
  /\ user.answer = "reject" =>
       /\ ~question
       /\ link \in {"asking", "expired", "refused"}
       /\ link = "asking" => "reject" \in {answering, decision}

Safety == LinkInv /\ QuestionInv /\ KeyInv /\ RejectInv
SshInv == TypeOK /\ Safety

\* The states each phase of the runner meets, and what begins their end: only
\* the user, or the runner itself, closes a session.
ProgressInv ==
  /\ At("tunnel") => state \in {"connecting", "closing", "failed"}
  /\ At("connect") => state \in {"connecting", "awaiting", "closing", "failed"}
  /\ runner.phase \in {"authenticate", "opening", "startup"}
       => state \in {"authenticating", "closing", "failed"}
  /\ runner.phase \in {"loop", "write", "job"} => state \in {"connected", "closing", "failed"}
  /\ At("closing") => state \in {"closing", "failed"}
  /\ At("ended") => state \in {"closed", "failed"} \/ user.closed
  /\ user.closed => state \in {"closing", "closed", "failed"}
  /\ state = "closing" => user.closed \/ At("closing")
  /\ owing \/ cancel = "sent" => user.closed \/ state = "failed"

-----------------------------------------------------------------------------
(* Types. *)

\* Whatever moves the session's state leaves it a state, and its failure one.
LEMMA StateTypes ==
  ASSUME TypeOK
  PROVE  /\ Stay => state' \in States /\ failure' \in Failures
         /\ \A next \in States : Transition(next) => state' \in States /\ failure' \in Failures
         /\ \A reason \in Failures : Fail(reason) => state' \in States /\ failure' \in Failures
BY DEF TypeOK, Stay, Transition, Fail, States

LEMMA TypeInit == Init => TypeOK
<1> SUFFICES ASSUME Init PROVE TypeOK
  OBVIOUS
<1>1. runner \in [phase : Phases, node : Nodes]
  BY RouteAssumption DEF Init, Phases, Nodes
<1>2. queue \in Seq(Jobs \cup {"write"}) /\ Len(queue) <= QueueSize
  BY QueueAssumption DEF Init
<1>3. connectAge \in 0..ConnectLimit /\ questionAge \in 0..DecisionLimit
  BY LimitAssumption DEF Init
<1>4. user \in [closed : BOOLEAN, answer : {"none", "accept", "reject"}]
  BY DEF Init
<1> QED
  BY <1>1, <1>2, <1>3, <1>4 DEF Init, TypeOK, States, Failures, Links, Decisions, JobPhases

LEMMA TypeConnection ==
  ASSUME TypeOK, Connection PROVE TypeOK'
<1> USE DEF keyVars, jobVars, ages
<1>1. CASE KeyArrives
  <2>1. state' \in States /\ failure' \in Failures
    BY <1>1, StateTypes DEF KeyArrives, States, Failures
  <2>2. link' \in Links /\ question' \in BOOLEAN /\ decision' \in Decisions
    BY <1>1 DEF KeyArrives, TypeOK, Links, Decisions
  <2>3. questionAge' \in 0..DecisionLimit
    BY <1>1, LimitAssumption DEF KeyArrives, TypeOK
  <2> QED
    BY <1>1, <2>1, <2>2, <2>3 DEF KeyArrives, TypeOK, Links
<1>2. CASE Decide
  <2>1. state' \in States /\ failure' \in Failures
    BY <1>2, StateTypes DEF Decide, States, Failures, TypeOK, Decisions
  <2>2. link' \in Links /\ decision' \in Decisions
    BY <1>2 DEF Decide, TypeOK, Links, Decisions
  <2> QED
    BY <1>2, <2>1, <2>2 DEF Decide, TypeOK
<1>3. CASE Expire
  BY <1>3, StateTypes DEF Expire, TypeOK, Goto, States, Failures, Phases, Links, Decisions, JobPhases, Nodes
<1>4. CASE Expired
  <2>1. state' \in States /\ failure' \in Failures
    BY <1>4, StateTypes DEF Expired, Failures
  <2> QED
    BY <1>4, <2>1 DEF Expired, TypeOK, Links
<1>5. CASE Lose
  <2>1. state' \in States /\ failure' \in Failures
    BY <1>5, StateTypes DEF Lose, Failures
  <2>2. owing' \in BOOLEAN
    BY <1>5 DEF Lose, TypeOK
  <2> QED
    BY <1>5, <2>1, <2>2 DEF Lose, TypeOK, Links
<1> QED
  BY <1>1, <1>2, <1>3, <1>4, <1>5 DEF Connection

LEMMA TypeConnecting ==
  ASSUME TypeOK, Connecting PROVE TypeOK'
<1> USE DEF keyVars, jobVars, ages
<1>1. CASE ConnectFails
  BY <1>1, StateTypes DEF ConnectFails, TypeOK, Goto, States, Failures, Phases, Links, Decisions, JobPhases, Nodes
<1>2. CASE Connect
  BY <1>2, StateTypes DEF Connect, TypeOK, Goto, States, Failures, Phases, Links, Decisions, JobPhases, Nodes
<1>3. CASE Authenticate
  <2>1. state' \in States /\ failure' \in Failures
    BY <1>3, StateTypes DEF Authenticate, States, Failures
  <2>2. runner' \in [phase : Phases, node : Nodes]
    BY <1>3, RouteAssumption DEF Authenticate, TypeOK, Goto, Phases, Nodes
  <2>3. link' \in Links
    BY <1>3 DEF Authenticate, TypeOK, Links
  <2> QED
    BY <1>3, <2>1, <2>2, <2>3 DEF Authenticate, TypeOK
<1>4. CASE OpenTunnel
  <2>1. state' \in States /\ failure' \in Failures
    BY <1>4, StateTypes DEF OpenTunnel, Failures
  <2>2. runner' \in [phase : Phases, node : Nodes]
    BY <1>4 DEF OpenTunnel, TypeOK, Goto, Phases
  <2>3. link' \in Links /\ connectAge' \in 0..ConnectLimit
    BY <1>4, LimitAssumption DEF OpenTunnel, TypeOK, Links
  <2> QED
    BY <1>4, <2>1, <2>2, <2>3 DEF OpenTunnel, TypeOK
<1>5. CASE Cancelled
  BY <1>5, StateTypes DEF Cancelled, TypeOK, Goto, States, Failures, Phases, Links, Decisions, JobPhases, Nodes
<1> QED
  BY <1>1, <1>2, <1>3, <1>4, <1>5 DEF Connecting

LEMMA TypeShell ==
  ASSUME TypeOK, Shell PROVE TypeOK'
<1> USE DEF keyVars, jobVars, ages
<1>1. CASE OpenShell
  BY <1>1, StateTypes DEF OpenShell, TypeOK, Goto, Serve, States, Failures, Phases, Links, Decisions, JobPhases, Nodes
<1>2. CASE StartShell
  BY <1>2, StateTypes DEF StartShell, TypeOK, Goto, Serve, States, Failures, Phases, Links, Decisions, JobPhases, Nodes
<1>3. CASE LoopCancelled
  BY <1>3, StateTypes DEF LoopCancelled, TypeOK, Goto, Serve, States, Failures, Phases, Links, Decisions, JobPhases, Nodes
<1>4. CASE ShellEnds
  BY <1>4, StateTypes DEF ShellEnds, TypeOK, Goto, Serve, States, Failures, Phases, Links, Decisions, JobPhases, Nodes
<1>5. CASE TakeControl
  <2>1. state' \in States /\ failure' \in Failures
    BY <1>5, StateTypes DEF TakeControl
  <2>2. runner' \in [phase : Phases, node : Nodes]
    BY <1>5 DEF TakeControl, TypeOK, Goto, Phases
  <2>3. queue' \in Seq(Jobs \cup {"write"}) /\ Len(queue') <= QueueSize
    BY <1>5, QueueAssumption DEF TakeControl, TypeOK
  <2>4. job' \in [Jobs -> JobPhases]
    BY <1>5 DEF TakeControl, TypeOK, JobPhases
  <2> QED
    BY <1>5, <2>1, <2>2, <2>3, <2>4 DEF TakeControl, TypeOK
<1>6. CASE WriteShell
  BY <1>6, StateTypes DEF WriteShell, TypeOK, Goto, Serve, States, Failures, Phases, Links, Decisions, JobPhases, Nodes
<1>7. CASE OpenJob
  BY <1>7, StateTypes DEF OpenJob, TypeOK, Goto, Serve, States, Failures, Phases, Links, Decisions, JobPhases, Nodes
<1>8. CASE Finish
  <2>1. state' \in States /\ failure' \in Failures
    BY <1>8, StateTypes DEF Finish, States
  <2>2. runner' \in [phase : Phases, node : Nodes]
    BY <1>8 DEF Finish, TypeOK, Goto, Phases
  <2>3. queue' \in Seq(Jobs \cup {"write"}) /\ Len(queue') <= QueueSize
    BY <1>8, QueueAssumption DEF Finish
  <2>4. job' \in [Jobs -> JobPhases]
    BY <1>8 DEF Finish, TypeOK, JobPhases
  <2> QED
    BY <1>8, <2>1, <2>2, <2>3, <2>4 DEF Finish, TypeOK
<1> QED
  BY <1>1, <1>2, <1>3, <1>4, <1>5, <1>6, <1>7, <1>8 DEF Shell

LEMMA TypeRequest ==
  ASSUME TypeOK, Request PROVE TypeOK'
<1> USE DEF keyVars, jobVars, ages
<1>1. CASE Accept
  <2>1. state' \in States /\ failure' \in Failures
    BY <1>1, StateTypes DEF Accept, Failures
  <2>2. known' \in [Nodes -> {"trusted", "unknown", "changed"}]
    BY <1>1 DEF Accept, TypeOK
  <2>3. answering' \in Decisions
    BY <1>1 DEF Accept, Decisions
  <2>4. user' \in [closed : BOOLEAN, answer : {"none", "accept", "reject"}]
    BY <1>1 DEF Accept, TypeOK
  <2> QED
    BY <1>1, <2>1, <2>2, <2>3, <2>4 DEF Accept, TypeOK
<1>2. CASE Reject
  <2>1. state' \in States /\ failure' \in Failures
    BY <1>2, StateTypes DEF Reject
  <2>2. answering' \in Decisions
    BY <1>2 DEF Reject, Decisions
  <2>3. user' \in [closed : BOOLEAN, answer : {"none", "accept", "reject"}]
    BY <1>2 DEF Reject, TypeOK
  <2> QED
    BY <1>2, <2>1, <2>2, <2>3 DEF Reject, TypeOK
<1>3. CASE Answer
  BY <1>3, StateTypes DEF Answer, TypeOK, Goto, States, Failures, Phases, Links, Decisions, JobPhases, Nodes
<1>4. CASE Close
  <2>1. state' \in States /\ failure' \in Failures
    BY <1>4, StateTypes DEF Close, States
  <2>2. decision' \in Decisions
    BY <1>4 DEF Close, TypeOK, Decisions
  <2>3. user' \in [closed : BOOLEAN, answer : {"none", "accept", "reject"}]
    BY <1>4 DEF Close, TypeOK
  <2> QED
    BY <1>4, <2>1, <2>2, <2>3 DEF Close, TypeOK
<1>5. CASE CancelOwnedWork
  <2>1. state' \in States /\ failure' \in Failures
    BY <1>5, StateTypes DEF CancelOwnedWork
  <2>2. cancel' \in {"armed", "sent", "taken"}
    BY <1>5 DEF CancelOwnedWork, TypeOK
  <2>3. sender' \subseteq Jobs /\ told' \subseteq Jobs
    BY <1>5 DEF CancelOwnedWork, TypeOK
  <2> QED
    BY <1>5, <2>1, <2>2, <2>3 DEF CancelOwnedWork, TypeOK
<1>6. CASE Write
  <2>1. state' \in States /\ failure' \in Failures
    BY <1>6, StateTypes DEF Write
  <2>2. queue' \in Seq(Jobs \cup {"write"}) /\ Len(queue') <= QueueSize
    BY <1>6, QueueAssumption DEF Write, TypeOK
  <2> QED
    BY <1>6, <2>1, <2>2 DEF Write, TypeOK
<1> QED
  BY <1>1, <1>2, <1>3, <1>4, <1>5, <1>6 DEF Request

LEMMA TypeTransfer ==
  ASSUME TypeOK, NEW j \in Jobs, Transfer(j) PROVE TypeOK'
<1> USE DEF keyVars, jobVars, ages
<1>1. CASE CheckJob(j)
  BY <1>1, StateTypes DEF CheckJob, TypeOK, Goto, States, Failures, Phases, Links, Decisions, JobPhases, Nodes
<1>2. CASE RegisterJob(j)
  BY <1>2, StateTypes DEF RegisterJob, TypeOK, Goto, States, Failures, Phases, Links, Decisions, JobPhases, Nodes
<1>3. CASE SubmitJob(j)
  <2>1. state' \in States /\ failure' \in Failures
    BY <1>3, StateTypes DEF SubmitJob
  <2>2. queue' \in Seq(Jobs \cup {"write"}) /\ Len(queue') <= QueueSize
    <3>1. CASE queue' = Append(queue, j) /\ Len(queue) < QueueSize
      BY <3>1, QueueAssumption DEF TypeOK
    <3>2. CASE UNCHANGED queue
      BY <3>2 DEF TypeOK
    <3> QED
      BY <1>3, <3>1, <3>2 DEF SubmitJob
  <2>3. job' \in [Jobs -> JobPhases]
    BY <1>3 DEF SubmitJob, TypeOK, JobPhases
  <2>4. sender' \subseteq Jobs /\ told' \subseteq Jobs
    BY <1>3 DEF SubmitJob, TypeOK
  <2> QED
    BY <1>3, <2>1, <2>2, <2>3, <2>4 DEF SubmitJob, TypeOK
<1>4. CASE CancelJob(j)
  BY <1>4, StateTypes DEF CancelJob, TypeOK, Goto, States, Failures, Phases, Links, Decisions, JobPhases, Nodes
<1>5. CASE EndJob(j)
  BY <1>5, StateTypes DEF EndJob, TypeOK, Goto, States, Failures, Phases, Links, Decisions, JobPhases, Nodes
<1> QED
  BY <1>1, <1>2, <1>3, <1>4, <1>5 DEF Transfer

LEMMA TypeNext == TypeOK /\ [Next]_vars => TypeOK'
<1>1. ASSUME TypeOK, Tick PROVE TypeOK'
  <2>1. connectAge' \in 0..ConnectLimit
    BY <1>1, LimitAssumption DEF Tick, TypeOK
  <2>2. questionAge' \in 0..DecisionLimit
    BY <1>1, LimitAssumption DEF Tick, TypeOK
  <2> QED
    BY <1>1, <2>1, <2>2 DEF Tick, Stay, TypeOK, keyVars, jobVars
<1>2. ASSUME TypeOK, UNCHANGED vars PROVE TypeOK'
  BY <1>2 DEF vars, keyVars, jobVars, ages, TypeOK
<1> QED
  BY <1>1, <1>2, TypeConnection, TypeConnecting, TypeShell, TypeRequest, TypeTransfer DEF Next

-----------------------------------------------------------------------------
(* Safety. *)

LEMMA SafetyInit == Init => Safety
BY RouteAssumption DEF Init, Safety, LinkInv, QuestionInv, KeyInv, RejectInv, At, Online, Nodes

LEMMA SafetyConnection ==
  ASSUME SshInv, Connection PROVE Safety'
<1> USE DEF SshInv, TypeOK, keyVars, jobVars, ages, Stay, Transition, Fail, Goto, At, Nodes,
  Safety, LinkInv, QuestionInv, KeyInv, RejectInv, Online
<1>1. CASE KeyArrives
  BY <1>1 DEF KeyArrives
<1>2. CASE Decide
  BY <1>2 DEF Decide
<1>3. CASE Expire
  BY <1>3 DEF Expire
<1>4. CASE Expired
  BY <1>4 DEF Expired
<1>5. CASE Lose
  BY <1>5 DEF Lose
<1> QED
  BY <1>1, <1>2, <1>3, <1>4, <1>5 DEF Connection

LEMMA SafetyConnecting ==
  ASSUME SshInv, Connecting PROVE Safety'
<1> USE DEF SshInv, TypeOK, keyVars, jobVars, ages, Stay, Transition, Fail, Goto, At, Nodes,
  Safety, LinkInv, QuestionInv, KeyInv, RejectInv, Online
<1>1. CASE ConnectFails
  BY <1>1 DEF ConnectFails
<1>2. CASE Connect
  BY <1>2 DEF Connect
<1>3. CASE Authenticate
  BY <1>3 DEF Authenticate
<1>4. CASE OpenTunnel
  BY <1>4 DEF OpenTunnel
<1>5. CASE Cancelled
  BY <1>5 DEF Cancelled
<1> QED
  BY <1>1, <1>2, <1>3, <1>4, <1>5 DEF Connecting

LEMMA SafetyShell ==
  ASSUME SshInv, Shell PROVE Safety'
<1> USE DEF SshInv, TypeOK, keyVars, jobVars, ages, Stay, Transition, Fail, Goto, At, Nodes,
  Safety, LinkInv, QuestionInv, KeyInv, RejectInv, Online
<1>1. CASE OpenShell
  BY <1>1 DEF OpenShell, Serve
<1>2. CASE StartShell
  BY <1>2 DEF StartShell, Serve
<1>3. CASE LoopCancelled
  BY <1>3 DEF LoopCancelled, Serve
<1>4. CASE ShellEnds
  BY <1>4 DEF ShellEnds, Serve
<1>5. CASE TakeControl
  BY <1>5 DEF TakeControl
<1>6. CASE WriteShell
  BY <1>6 DEF WriteShell, Serve
<1>7. CASE OpenJob
  BY <1>7 DEF OpenJob, Serve
<1>8. CASE Finish
  BY <1>8 DEF Finish
<1> QED
  BY <1>1, <1>2, <1>3, <1>4, <1>5, <1>6, <1>7, <1>8 DEF Shell

LEMMA SafetyRequest ==
  ASSUME SshInv, Request PROVE Safety'
<1> USE DEF SshInv, TypeOK, keyVars, jobVars, ages, Stay, Transition, Fail, Goto, At, Nodes,
  Safety, LinkInv, QuestionInv, KeyInv, RejectInv, Online
<1>1. CASE Accept
  <2>1. link \in {"asking", "expired"} /\ answering = "none" /\ decision = "none"
    BY <1>1 DEF Accept
  <2>2. CASE known' = [known EXCEPT ![runner.node] = "trusted"] /\ answering' = "accept" /\ Stay
    <3>1. runner.node \in Nodes /\ \A n \in Nodes : known'[n] \in {known[n], "trusted"}
      BY <2>2
    <3>2. known'[runner.node] = "trusted"
      BY <2>2
    <3>3. KeyInv'
      BY <1>1, <2>1, <2>2, <3>1, <3>2 DEF Accept
    <3>4. user'.answer = "accept"
      BY <1>1 DEF Accept
    <3>5. LinkInv' /\ QuestionInv'
      BY <1>1, <2>1, <2>2 DEF Accept
    <3>6. RejectInv'
      BY <1>1, <2>1, <2>2, <3>4 DEF Accept
    <3> QED
      BY <3>3, <3>5, <3>6
  <2>3. CASE Fail("knownHosts") /\ answering' = "cancel" /\ UNCHANGED known
    BY <1>1, <2>1, <2>3 DEF Accept
  <2> QED
    BY <1>1, <2>2, <2>3 DEF Accept
<1>2. CASE Reject
  BY <1>2 DEF Reject
<1>3. CASE Answer
  BY <1>3 DEF Answer
<1>4. CASE Close
  BY <1>4 DEF Close
<1>5. CASE CancelOwnedWork
  BY <1>5 DEF CancelOwnedWork
<1>6. CASE Write
  BY <1>6 DEF Write
<1> QED
  BY <1>1, <1>2, <1>3, <1>4, <1>5, <1>6 DEF Request

LEMMA SafetyTransfer ==
  ASSUME SshInv, NEW j \in Jobs, Transfer(j) PROVE Safety'
<1> USE DEF SshInv, TypeOK, keyVars, jobVars, ages, Stay, Transition, Fail, Goto, At, Nodes,
  Safety, LinkInv, QuestionInv, KeyInv, RejectInv, Online
<1>1. CASE CheckJob(j)
  BY <1>1 DEF CheckJob
<1>2. CASE RegisterJob(j)
  BY <1>2 DEF RegisterJob
<1>3. CASE SubmitJob(j)
  BY <1>3 DEF SubmitJob
<1>4. CASE CancelJob(j)
  BY <1>4 DEF CancelJob
<1>5. CASE EndJob(j)
  BY <1>5 DEF EndJob
<1> QED
  BY <1>1, <1>2, <1>3, <1>4, <1>5 DEF Transfer

LEMMA SafetyNext == SshInv /\ [Next]_vars => Safety'
<1> USE DEF Safety, LinkInv, QuestionInv, KeyInv, RejectInv, At
<1>1. ASSUME SshInv, Tick PROVE Safety'
  BY <1>1 DEF Tick, Stay, SshInv, keyVars
<1>2. ASSUME SshInv, UNCHANGED vars PROVE Safety'
  BY <1>2 DEF SshInv, vars, keyVars
<1> QED
  BY <1>1, <1>2, SafetyConnection, SafetyConnecting, SafetyShell, SafetyRequest,
     SafetyTransfer DEF Next

-----------------------------------------------------------------------------
(* The end of a session. *)

LEMMA ProgressInit == Init => ProgressInv
BY DEF Init, ProgressInv, At

LEMMA ProgressConnection ==
  ASSUME SshInv, ProgressInv, Connection PROVE ProgressInv'
<1> USE DEF SshInv, TypeOK, keyVars, jobVars, ages, Stay, Transition, Fail, Goto, At,
  CanMove, Moves, States, ProgressInv
<1>1. CASE KeyArrives
  BY <1>1 DEF KeyArrives, Safety, LinkInv, Online, Phases
<1>2. CASE Decide
  BY <1>2 DEF Decide
<1>3. CASE Expire
  BY <1>3 DEF Expire
<1>4. CASE Expired
  BY <1>4 DEF Expired
<1>5. CASE Lose
  BY <1>5 DEF Lose
<1> QED
  BY <1>1, <1>2, <1>3, <1>4, <1>5 DEF Connection

LEMMA ProgressConnecting ==
  ASSUME SshInv, ProgressInv, Connecting PROVE ProgressInv'
<1> USE DEF SshInv, TypeOK, keyVars, jobVars, ages, Stay, Transition, Fail, Goto, At,
  CanMove, Moves, States, ProgressInv
<1>1. CASE ConnectFails
  BY <1>1 DEF ConnectFails
<1>2. CASE Connect
  BY <1>2 DEF Connect
<1>3. CASE Authenticate
  BY <1>3 DEF Authenticate
<1>4. CASE OpenTunnel
  BY <1>4 DEF OpenTunnel
<1>5. CASE Cancelled
  BY <1>5 DEF Cancelled
<1> QED
  BY <1>1, <1>2, <1>3, <1>4, <1>5 DEF Connecting

LEMMA ProgressShell ==
  ASSUME SshInv, ProgressInv, Shell PROVE ProgressInv'
<1> USE DEF SshInv, TypeOK, keyVars, jobVars, ages, Stay, Transition, Fail, Goto, At,
  CanMove, Moves, States, ProgressInv
<1>1. CASE OpenShell
  BY <1>1 DEF OpenShell, Serve
<1>2. CASE StartShell
  BY <1>2 DEF StartShell, Serve
<1>3. CASE LoopCancelled
  BY <1>3 DEF LoopCancelled, Serve
<1>4. CASE ShellEnds
  BY <1>4 DEF ShellEnds, Serve
<1>5. CASE TakeControl
  BY <1>5 DEF TakeControl
<1>6. CASE WriteShell
  BY <1>6 DEF WriteShell, Serve
<1>7. CASE OpenJob
  BY <1>7 DEF OpenJob, Serve
<1>8. CASE Finish
  BY <1>8 DEF Finish
<1> QED
  BY <1>1, <1>2, <1>3, <1>4, <1>5, <1>6, <1>7, <1>8 DEF Shell

LEMMA ProgressRequest ==
  ASSUME SshInv, ProgressInv, Request PROVE ProgressInv'
<1> USE DEF SshInv, TypeOK, keyVars, jobVars, ages, Stay, Transition, Fail, Goto, At,
  CanMove, Moves, States, ProgressInv
<1>1. CASE Accept
  BY <1>1 DEF Accept
<1>2. CASE Reject
  BY <1>2 DEF Reject
<1>3. CASE Answer
  BY <1>3 DEF Answer
<1>4. CASE Close
  BY <1>4 DEF Close
<1>5. CASE CancelOwnedWork
  BY <1>5 DEF CancelOwnedWork
<1>6. CASE Write
  BY <1>6 DEF Write
<1> QED
  BY <1>1, <1>2, <1>3, <1>4, <1>5, <1>6 DEF Request

LEMMA ProgressTransfer ==
  ASSUME SshInv, ProgressInv, NEW j \in Jobs, Transfer(j) PROVE ProgressInv'
<1> USE DEF SshInv, TypeOK, keyVars, jobVars, ages, Stay, Transition, Fail, Goto, At,
  CanMove, Moves, States, ProgressInv
<1>1. CASE CheckJob(j)
  BY <1>1 DEF CheckJob
<1>2. CASE RegisterJob(j)
  BY <1>2 DEF RegisterJob
<1>3. CASE SubmitJob(j)
  BY <1>3 DEF SubmitJob
<1>4. CASE CancelJob(j)
  BY <1>4 DEF CancelJob
<1>5. CASE EndJob(j)
  BY <1>5 DEF EndJob
<1> QED
  BY <1>1, <1>2, <1>3, <1>4, <1>5 DEF Transfer

LEMMA ProgressNext == SshInv /\ ProgressInv /\ [Next]_vars => ProgressInv'
<1>1. ASSUME ProgressInv, Tick PROVE ProgressInv'
  BY <1>1 DEF ProgressInv, At, Tick, Stay, keyVars
<1>2. ASSUME ProgressInv, UNCHANGED vars PROVE ProgressInv'
  BY <1>2 DEF ProgressInv, At, vars
<1> QED
  BY <1>1, <1>2, ProgressConnection, ProgressConnecting, ProgressShell, ProgressRequest,
     ProgressTransfer DEF Next

-----------------------------------------------------------------------------

\* The question is in one place, and what is on its way is warranted.
THEOREM SshInvariant == Spec => []SshInv
<1>1. Init => SshInv
  BY TypeInit, SafetyInit DEF SshInv
<1>2. SshInv /\ [Next]_vars => SshInv'
  BY TypeNext, SafetyNext DEF SshInv
<1> QED
  BY <1>1, <1>2, PTL DEF Spec

\* Every state of a session is well typed (SessionEntry and its runner).
THEOREM SshTypeCorrect == Spec => []TypeOK
<1>1. SshInv => TypeOK
  BY DEF SshInv
<1> QED
  BY <1>1, SshInvariant, PTL

\* connect_route authenticates to a node, and opens a tunnel through it, only
\* after its key is in the known hosts.
THEOREM KeyBeforeCredentialsSound == Spec => []KeyBeforeCredentials
<1>1. SshInv => KeyBeforeCredentials
  <2> SUFFICES ASSUME SshInv PROVE KeyBeforeCredentials
    OBVIOUS
  <2>1. \A n \in 1..(runner.node - 1) : known[n] = "trusted"
    BY DEF SshInv, Safety, KeyInv
  <2>2. ASSUME runner.phase \notin {"tunnel", "connect", "ended"}
        PROVE known[runner.node] = "trusted"
    <3>1. runner.phase \in Online
      BY <2>2 DEF SshInv, TypeOK, Phases, Online
    <3> QED
      BY <3>1 DEF SshInv, Safety, LinkInv, KeyInv
  <2> QED
    BY <2>1, <2>2 DEF KeyBeforeCredentials
<1> QED
  BY <1>1, SshInvariant, PTL

\* check_server_key reports a rejection only if the user rejected the key, not
\* when begin_close cancels the decision.
THEOREM RejectionSound == Spec => []RejectionIsUsers
<1>1. SshInv => RejectionIsUsers
  BY DEF SshInv, Safety, RejectInv, RejectionIsUsers
<1> QED
  BY <1>1, SshInvariant, PTL

\* SessionEntry.pending never outlives the handler that asked.
THEOREM QuestionSound == Spec => []QuestionHasListener
<1>1. SshInv => QuestionHasListener
  BY DEF SshInv, Safety, QuestionInv, QuestionHasListener
<1> QED
  BY <1>1, SshInvariant, PTL

\* Whatever way run_session returns, the last state the page was told is
\* Closed or Failed, or the user had closed the session.
THEOREM EndsVisiblySound == Spec => []EndsVisibly
<1>1. Init => ProgressInv
  BY ProgressInit
<1>2. SshInv /\ ProgressInv /\ [Next]_vars => ProgressInv'
  BY ProgressNext
<1>3. ProgressInv => EndsVisibly
  BY DEF ProgressInv, EndsVisibly
<1> QED
  BY <1>1, <1>2, <1>3, SshInvariant, PTL DEF Spec

-----------------------------------------------------------------------------
(* The transfers of a session.  The queue belongs to a shell that serves    *)
(* it; before there is one nothing is accepted.                             *)

Serving == {"loop", "write", "job", "closing"}
JobsInv ==
  /\ AcceptedJobsKept
  /\ \A j, k \in Jobs : job[j] = "opening" /\ job[k] = "opening" => j = k
  /\ runner.phase \notin Serving => queue = << >>
  /\ runner.phase \notin Serving \cup {"ended"} => \A j \in Jobs : job[j] = "idle"

\* Steps that neither queue, take nor open a transfer.
LEMMA JobsStay ==
  ASSUME JobsInv, UNCHANGED queue,
         \A j \in Jobs : job'[j] = job[j] \/ {job[j], job'[j]} \cap {"queued", "opening"} = {},
         runner' = runner \/ ~At("job"),
         runner'.phase \notin Serving => runner.phase \notin Serving,
         runner'.phase \notin Serving \cup {"ended"} =>
           runner.phase \notin Serving \cup {"ended"} /\ job' = job
  PROVE  JobsInv'
<1>1. \A j \in Jobs : /\ job'[j] = "queued" <=> job[j] = "queued"
                      /\ job'[j] = "opening" <=> job[j] = "opening"
  <2> SUFFICES ASSUME NEW j \in Jobs
               PROVE  /\ job'[j] = "queued" <=> job[j] = "queued"
                      /\ job'[j] = "opening" <=> job[j] = "opening"
    OBVIOUS
  <2>1. CASE job'[j] = job[j]
    BY <2>1
  <2>2. CASE job[j] \notin {"queued", "opening"} /\ job'[j] \notin {"queued", "opening"}
    BY <2>2
  <2> QED BY <2>1, <2>2
<1>2. \A j \in Jobs : InQueue(j)' <=> InQueue(j)
  BY DEF InQueue
<1>3. \A j \in Jobs : job'[j] = "opening" => runner'.phase = "job"
  BY <1>1 DEF JobsInv, AcceptedJobsKept, At
<1>4. runner'.phase \notin Serving => queue' = << >>
  BY DEF JobsInv
<1>5. AcceptedJobsKept'
  <2>1. \A j \in Jobs : job'[j] = "queued" <=> InQueue(j)'
    BY <1>1, <1>2 DEF JobsInv, AcceptedJobsKept
  <2>2. \A i, k \in 1..Len(queue') : i # k /\ queue'[i] \in Jobs => queue'[i] # queue'[k]
    BY DEF JobsInv, AcceptedJobsKept
  <2> QED BY <1>3, <1>4, <2>1, <2>2 DEF AcceptedJobsKept, At, Serving
<1>6. \A j, k \in Jobs : job'[j] = "opening" /\ job'[k] = "opening" => j = k
  BY <1>1 DEF JobsInv
<1>7. runner'.phase \notin Serving \cup {"ended"} => \A j \in Jobs : job'[j] = "idle"
  BY DEF JobsInv
<1> QED BY <1>4, <1>5, <1>6, <1>7 DEF JobsInv

LEMMA JobsConnected ==
  ASSUME ProgressInv, TypeOK, state = "connected"
  PROVE  runner.phase \in {"loop", "write", "job"}
BY DEF ProgressInv, TypeOK, Phases, At

\* What comes last in a queue, and what is left when its head is taken.
LEMMA QueueLonger ==
  ASSUME NEW q \in Seq(Jobs \cup {"write"}), NEW x \in Jobs \cup {"write"}
  PROVE  /\ Len(Append(q, x)) = Len(q) + 1 /\ Len(q) \in Nat
         /\ Append(q, x)[Len(q) + 1] = x
         /\ \A i \in 1..Len(q) : Append(q, x)[i] = q[i]
OBVIOUS

LEMMA QueueShorter ==
  ASSUME NEW q \in Seq(Jobs \cup {"write"}), q # << >>
  PROVE  /\ Len(q) \in Nat \ {0} /\ Len(Tail(q)) = Len(q) - 1 /\ Head(q) = q[1]
         /\ \A i \in 1..Len(Tail(q)) : Tail(q)[i] = q[i + 1]
<1>1. Len(q) \in Nat \ {0} /\ Len(Tail(q)) = Len(q) - 1 /\ Head(q) = q[1]
  OBVIOUS
<1>2. \A i \in 1..Len(Tail(q)) : Tail(q)[i] = q[i + 1]
  OBVIOUS
<1> QED BY <1>1, <1>2

\* Something is queued: a write, or a transfer that was not.
LEMMA JobsQueue ==
  ASSUME TypeOK, JobsInv, NEW x \in Jobs \cup {"write"}, queue' = Append(queue, x),
         x \in Jobs => job[x] \notin {"queued", "opening"} /\ job' = [job EXCEPT ![x] = "queued"],
         x = "write" => job' = job,
         runner' = runner, runner.phase \in Serving
  PROVE  JobsInv'
<1>1. queue \in Seq(Jobs \cup {"write"}) /\ job \in [Jobs -> JobPhases]
  BY DEF TypeOK
<1>2. PICK n \in Nat : n = Len(queue)
  BY <1>1, QueueLonger
<1>3. /\ Len(queue') = n + 1 /\ queue'[n + 1] = x
      /\ \A i \in 1..n : queue'[i] = queue[i]
  BY <1>1, <1>2, QueueLonger
<1>4. /\ \A i \in 1..(n + 1) : i \in 1..n \/ i = n + 1
      /\ \A i \in 1..n : i \in 1..(n + 1) /\ i # n + 1
      /\ n + 1 \in 1..(n + 1)
  OBVIOUS
<1>5. \A j \in Jobs : InQueue(j)' <=> InQueue(j) \/ j = x
  BY <1>2, <1>3, <1>4 DEF InQueue
<1>6. \A j \in Jobs : /\ job'[j] = "queued" <=> job[j] = "queued" \/ j = x
                      /\ job'[j] = "opening" <=> job[j] = "opening"
  <2>1. CASE x \in Jobs
    BY <1>1, <2>1
  <2>2. CASE x = "write"
    BY <2>2, TransfersAssumption
  <2> QED BY <2>1, <2>2
<1>7. \A j \in Jobs : job'[j] = "queued" <=> InQueue(j)'
  BY <1>5, <1>6 DEF JobsInv, AcceptedJobsKept
<1>8. \A i \in 1..n : queue[i] \in Jobs => queue[i] # x
  <2> SUFFICES ASSUME NEW i \in 1..n, queue[i] \in Jobs, queue[i] = x PROVE FALSE
    OBVIOUS
  <2>1. InQueue(x) /\ x \in Jobs
    BY <1>2 DEF InQueue
  <2> QED BY <2>1 DEF JobsInv, AcceptedJobsKept
<1>9. ASSUME NEW i \in 1..(n + 1), NEW k \in 1..(n + 1), i # k, queue'[i] \in Jobs
      PROVE  queue'[i] # queue'[k]
  <2>1. CASE i \in 1..n /\ k \in 1..n
    BY <1>2, <1>3, <1>9, <2>1 DEF JobsInv, AcceptedJobsKept
  <2>2. CASE i = n + 1 /\ k \in 1..n
    BY <1>3, <1>8, <1>9, <2>2
  <2>3. CASE i \in 1..n /\ k = n + 1
    BY <1>3, <1>8, <1>9, <2>3
  <2> QED BY <1>4, <1>9, <2>1, <2>2, <2>3
<1>10. \A j \in Jobs : job'[j] = "opening" => runner'.phase = "job"
  BY <1>6 DEF JobsInv, AcceptedJobsKept, At
<1>11. AcceptedJobsKept'
  BY <1>3, <1>7, <1>9, <1>10 DEF AcceptedJobsKept, At, Serving
<1>12. \A j, k \in Jobs : job'[j] = "opening" /\ job'[k] = "opening" => j = k
  BY <1>6 DEF JobsInv
<1> QED BY <1>11, <1>12 DEF JobsInv

\* The runner takes what comes first.
LEMMA JobsTake ==
  ASSUME TypeOK, JobsInv, TakeControl
  PROVE  JobsInv'
<1>1. /\ queue \in Seq(Jobs \cup {"write"}) /\ job \in [Jobs -> JobPhases]
      /\ runner \in [phase : Phases, node : Nodes] /\ runner.phase = "loop" /\ queue # << >>
      /\ queue' = Tail(queue)
  BY DEF TypeOK, TakeControl, At
<1>2. PICK n \in Nat : Len(queue) = n + 1
  <2>1. Len(queue) \in Nat \ {0}
    BY <1>1, QueueShorter
  <2> QED BY <2>1
<1>3. PICK x \in Jobs \cup {"write"} : x = Head(queue)
  BY <1>1
<1>4. /\ x = queue[1] /\ Len(queue') = n
      /\ \A i \in 1..n : queue'[i] = queue[i + 1]
  BY <1>1, <1>2, <1>3, QueueShorter
<1>5. /\ \A i \in 1..n : i + 1 \in 1..(n + 1) /\ i + 1 # 1
      /\ \A i \in 1..n : \A k \in 1..n : i # k => i + 1 # k + 1
      /\ \A i \in 1..(n + 1) : i # 1 => i - 1 \in 1..n /\ (i - 1) + 1 = i
      /\ 1 \in 1..(n + 1)
  OBVIOUS
<1>6. \A j \in Jobs : job[j] # "opening"
  BY <1>1 DEF JobsInv, AcceptedJobsKept, At
<1>7. \A j \in Jobs : InQueue(j)' <=> InQueue(j) /\ j # x
  <2> SUFFICES ASSUME NEW j \in Jobs PROVE InQueue(j)' <=> InQueue(j) /\ j # x
    OBVIOUS
  <2>1. ASSUME NEW i \in 1..n, queue'[i] = j PROVE InQueue(j) /\ j # x
    <3>1. queue[i + 1] = j /\ i + 1 \in 1..Len(queue) /\ 1 \in 1..Len(queue) /\ i + 1 # 1
      BY <1>2, <1>4, <1>5, <2>1
    <3>2. queue[i + 1] # queue[1]
      BY <3>1 DEF JobsInv, AcceptedJobsKept
    <3> QED BY <1>4, <3>1, <3>2 DEF InQueue
  <2>2. ASSUME NEW i \in 1..(n + 1), queue[i] = j, j # x PROVE InQueue(j)'
    <3>1. i - 1 \in 1..n /\ (i - 1) + 1 = i
      BY <1>4, <1>5, <2>2
    <3>2. queue'[i - 1] = j
      BY <1>4, <2>2, <3>1
    <3> QED BY <1>4, <3>1, <3>2 DEF InQueue
  <2> QED BY <1>2, <1>4, <2>1, <2>2 DEF InQueue
<1>8. \A i \in 1..n : \A k \in 1..n : i # k /\ queue'[i] \in Jobs => queue'[i] # queue'[k]
  <2> SUFFICES ASSUME NEW i \in 1..n, NEW k \in 1..n, i # k, queue'[i] \in Jobs
               PROVE  queue'[i] # queue'[k]
    OBVIOUS
  <2>1. i + 1 \in 1..Len(queue) /\ k + 1 \in 1..Len(queue) /\ i + 1 # k + 1
    BY <1>2, <1>5
  <2>2. queue'[i] = queue[i + 1] /\ queue'[k] = queue[k + 1]
    BY <1>4
  <2> QED BY <2>1, <2>2 DEF JobsInv, AcceptedJobsKept
<1>9. CASE x = "write"
  <2>1. job' = job /\ runner'.phase = "write"
    BY <1>1, <1>3, <1>9 DEF TakeControl, Goto
  <2>2. \A j \in Jobs : job'[j] = "queued" <=> InQueue(j)'
    BY <1>7, <1>9, <2>1, TransfersAssumption DEF JobsInv, AcceptedJobsKept
  <2>3. AcceptedJobsKept'
    BY <1>4, <1>6, <1>8, <2>1, <2>2 DEF AcceptedJobsKept, At
  <2> QED BY <1>6, <2>1, <2>3 DEF JobsInv, Serving
<1>10. CASE x \in Jobs
  <2>1. job' = [job EXCEPT ![x] = "opening"] /\ runner'.phase = "job"
    BY <1>1, <1>3, <1>10, TransfersAssumption DEF TakeControl, Goto
  <2>2. \A j \in Jobs : /\ job'[j] = "queued" <=> job[j] = "queued" /\ j # x
                        /\ job'[j] = "opening" <=> j = x
    BY <1>1, <1>6, <1>10, <2>1
  <2>3. \A j \in Jobs : job'[j] = "queued" <=> InQueue(j)'
    BY <1>7, <2>2 DEF JobsInv, AcceptedJobsKept
  <2>4. AcceptedJobsKept'
    BY <1>4, <1>8, <2>1, <2>3 DEF AcceptedJobsKept, At
  <2> QED BY <2>1, <2>2, <2>4 DEF JobsInv, Serving
<1> QED BY <1>9, <1>10

LEMMA JobsShell ==
  ASSUME TypeOK, JobsInv, Shell
  PROVE  JobsInv'
<1>1. runner \in [phase : Phases, node : Nodes] /\ job \in [Jobs -> JobPhases]
  BY DEF TypeOK
<1>2. CASE OpenShell \/ StartShell \/ LoopCancelled \/ ShellEnds \/ WriteShell
  <2>1. /\ UNCHANGED <<queue, job>> /\ ~At("job")
        /\ runner.phase \in Serving => runner'.phase \in {"loop", "closing"}
        /\ runner'.phase \in {"loop", "closing", "startup", "ended"}
        /\ runner.phase \in {"opening", "startup", "loop", "write"}
    BY <1>1, <1>2 DEF OpenShell, StartShell, LoopCancelled, ShellEnds, WriteShell, jobVars, Serve,
       Goto, At, Serving
  <2> QED BY <2>1, JobsStay DEF Serving
<1>3. CASE OpenJob
  <2>1. PICK j \in Jobs : /\ job[j] = "opening"
                          /\ \/ job' = [job EXCEPT ![j] = "running"]
                             \/ job' = [job EXCEPT ![j] = "reported"]
    BY <1>3 DEF OpenJob
  <2>2. UNCHANGED queue /\ At("job") /\ runner'.phase \in {"loop", "closing"}
    BY <1>1, <1>3 DEF OpenJob, Serve, Goto
  <2>3. \A k \in Jobs : /\ job'[k] # "opening"
                        /\ job'[k] = "queued" <=> job[k] = "queued"
    BY <1>1, <2>1 DEF JobsInv
  <2>4. \A k \in Jobs : InQueue(k)' <=> InQueue(k)
    BY <2>2 DEF InQueue
  <2>5. AcceptedJobsKept'
    BY <2>2, <2>3, <2>4 DEF JobsInv, AcceptedJobsKept, At
  <2> QED BY <2>2, <2>3, <2>5 DEF JobsInv, Serving
<1>4. CASE Finish
  <2>1. /\ queue' = << >> /\ runner'.phase = "ended" /\ runner.phase = "closing"
        /\ \A j \in Jobs : job'[j] = IF job[j] = "queued" THEN "dropped" ELSE job[j]
    BY <1>1, <1>4 DEF Finish, Goto, At
  <2>2. \A j \in Jobs : job'[j] \notin {"queued", "opening"} /\ ~InQueue(j)'
    BY <2>1 DEF JobsInv, AcceptedJobsKept, At, InQueue
  <2>3. AcceptedJobsKept'
    BY <2>1, <2>2 DEF AcceptedJobsKept
  <2> QED BY <2>1, <2>2, <2>3 DEF JobsInv, Serving
<1> QED BY <1>2, <1>3, <1>4, JobsTake DEF Shell

LEMMA JobsTransfer ==
  ASSUME TypeOK, ProgressInv, JobsInv, NEW j \in Jobs, Transfer(j)
  PROVE  JobsInv'
<1>1. job \in [Jobs -> JobPhases] /\ runner' = runner
  BY DEF TypeOK, Transfer, CheckJob, RegisterJob, SubmitJob, CancelJob, EndJob
<1>2. CASE CheckJob(j)
  <2>1. runner.phase \in Serving
    BY <1>2, JobsConnected DEF CheckJob, Serving
  <2>2. UNCHANGED queue /\ job[j] = "idle" /\ job' = [job EXCEPT ![j] = "checked"]
    BY <1>2 DEF CheckJob
  <2>3. \A k \in Jobs : job'[k] = job[k] \/ {job[k], job'[k]} \cap {"queued", "opening"} = {}
    BY <1>1, <2>2
  <2> QED BY <1>1, <2>1, <2>2, <2>3, JobsStay
\* The others go on with a transfer, which a shell had accepted.
<1>3. ASSUME job[j] # "idle" PROVE runner.phase \in Serving \cup {"ended"}
  BY <1>3 DEF JobsInv
<1>4. CASE RegisterJob(j) \/ EndJob(j) \/ (SubmitJob(j) /\ ~(Registered /\ Len(queue) < QueueSize))
  <2>1. /\ UNCHANGED queue /\ job[j] \in {"checked", "registered", "running"}
        /\ \E p \in {"registered", "reported", "refused"} : job' = [job EXCEPT ![j] = p]
    BY <1>4 DEF RegisterJob, EndJob, SubmitJob
  <2>2. \A k \in Jobs : job'[k] = job[k] \/ {job[k], job'[k]} \cap {"queued", "opening"} = {}
    BY <1>1, <2>1
  <2>3. runner.phase \in Serving \cup {"ended"}
    BY <1>3, <2>1
  <2> QED BY <1>1, <2>1, <2>2, <2>3, JobsStay
<1>5. CASE CancelJob(j)
  <2>1. UNCHANGED <<queue, job>>
    BY <1>5 DEF CancelJob
  <2> QED BY <1>1, <2>1, JobsStay
<1>6. CASE SubmitJob(j) /\ Registered /\ Len(queue) < QueueSize
  <2>1. /\ job[j] = "registered" /\ job' = [job EXCEPT ![j] = "queued"]
        /\ queue' = Append(queue, j) /\ ~At("ended")
    BY <1>6 DEF SubmitJob, Registered
  <2>2. runner.phase \in Serving
    BY <1>3, <2>1 DEF At
  <2>3. j # "write"
    BY TransfersAssumption
  <2> QED BY <1>1, <2>1, <2>2, <2>3, JobsQueue
<1> QED BY <1>2, <1>4, <1>5, <1>6 DEF Transfer

LEMMA JobsNext == SshInv /\ ProgressInv /\ JobsInv /\ [Next]_vars => JobsInv'
<1> SUFFICES ASSUME TypeOK, ProgressInv, JobsInv, [Next]_vars PROVE JobsInv'
  BY DEF SshInv
<1>1. CASE UNCHANGED vars \/ Connection \/ Tick
  <2>1. UNCHANGED <<queue, job, runner>>
    BY <1>1 DEF vars, jobVars, Connection, KeyArrives, Decide, Expire, Expired, Lose, Tick
  <2> QED BY <2>1, JobsStay
<1>2. CASE Connecting
  <2>1. /\ UNCHANGED <<queue, job>> /\ runner.phase \in {"tunnel", "connect", "authenticate"}
        /\ runner'.phase \in {"tunnel", "connect", "authenticate", "opening", "ended"}
    BY <1>2 DEF TypeOK, Connecting, ConnectFails, Connect, Authenticate, OpenTunnel, Cancelled,
       jobVars, Goto, At
  <2> QED BY <2>1, JobsStay DEF Serving, At
<1>3. CASE Request /\ ~Write
  <2>1. UNCHANGED <<queue, job, runner>>
    BY <1>3 DEF Request, Accept, Reject, Answer, Close, CancelOwnedWork, jobVars
  <2> QED BY <2>1, JobsStay
<1>4. CASE Write
  <2>1. runner.phase \in Serving
    BY <1>4, JobsConnected DEF Write, Serving
  <2>2. queue' = Append(queue, "write") /\ UNCHANGED <<job, runner>>
    BY <1>4 DEF Write
  <2> QED BY <2>1, <2>2, JobsQueue, TransfersAssumption
<1> QED BY <1>1, <1>2, <1>3, <1>4, JobsShell, JobsTransfer DEF Next, Request

\* An accepted transfer waits once in the queue, or the runner has it: whatever
\* is written, cancelled and closed in whichever order, none is taken twice and
\* none is left behind by a runner that goes.
THEOREM JobsAreKept == Spec => []AcceptedJobsKept
<1>1. Init => ProgressInv
  BY ProgressInit
<1>2. SshInv /\ ProgressInv /\ [Next]_vars => ProgressInv'
  BY ProgressNext
<1>3. Init => JobsInv
  BY DEF Init, JobsInv, AcceptedJobsKept, InQueue, At, Serving
<1>4. JobsInv => AcceptedJobsKept
  BY DEF JobsInv
<1> QED
  BY <1>1, <1>2, <1>3, <1>4, JobsNext, SshInvariant, PTL DEF Spec

-----------------------------------------------------------------------------
(* The workbench. *)

\* The page that has the login, and what it can be waiting for.
PageFits ==
  /\ login <= count.logins /\ page.since <= count.edits
  /\ page.phase # "out" => login = count.logins /\ login # 0
  /\ page.phase = "out" => ~page.hydrated /\ call.kind = "idle"
  /\ call.kind = "load" => ~page.hydrated
  /\ call.kind \in {"ask", "save"} => page.hydrated /\ page.queue # << >>
  /\ ~page.hydrated => page.queue = << >> /\ page.since = count.edits

-----------------------------------------------------------------------------
(* Sessions. *)

OpeningFits(o) ==
  /\ o.owner \in 1..count.logins
  /\ o.step = "starting" => o.owner = login
  /\ page.phase # "out" /\ o.owner = login
       => page.hydrated /\ o.block \in page.shown.blocks \cup page.closed
SessionsInv ==
  /\ \A o \in openings : OpeningFits(o)
  /\ call.kind = "load" /\ call.done /\ call.ok
       => sessions \subseteq call.doc.blocks \/ Cardinality(call.doc.blocks) >= MaxBlocks
  /\ SessionsShown

-----------------------------------------------------------------------------
(* Layouts. *)

Follows(d, e) == d.blind \/ e = d.edit \/ e \in d.seen
\* The edits a page was told are stored, or is about to be told.
Told(e) ==
  \/ e \in acked
  \/ /\ call.kind = "save" /\ call.done /\ call.ok
     /\ e = Head(page.queue).edit /\ Own(e)
Holds(d) == \A e \in Nat : Told(e) => Follows(d, e)
\* Everything the page shows or is about to store comes after edit e.
PageFollows(e) ==
  /\ Follows(page.shown, e)
  /\ \A i \in 1..Len(page.queue) : Follows(page.queue[i], e)
Saves == {r \in late : r.kind = "save"}

FilesAgree ==
  document # None =>
    /\ file # None /\ document.edit = file.edit
    /\ document.seen = file.seen /\ document.blind = file.blind
RevisionsPassed ==
  /\ page.revision <= revision
  /\ call.done => call.revision <= revision
  /\ \A r \in late : r.revision <= revision
EditsCounted ==
  /\ \A e \in acked : e <= count.edits
  /\ file # None => file.edit <= count.edits
  /\ page.shown.edit <= count.edits /\ call.doc.edit <= count.edits
  /\ \A i \in 1..Len(page.queue) : page.queue[i].edit <= count.edits
  /\ \A r \in late : r.doc.edit <= count.edits
ToldHeld ==
  /\ \A e \in Nat : Told(e) => file # None
  /\ file # None => Holds(file)
  /\ page.hydrated => \A e \in Nat : Told(e) => PageFollows(e)
  /\ call.kind = "load" /\ call.done /\ call.ok => Holds(call.doc)
  /\ \A r \in Saves : r.revision = revision => Holds(r.doc)
OwnHeld ==
  /\ file # None /\ Own(file.edit) =>
       /\ PageFollows(file.edit)
       /\ \A r \in Saves : r.revision = revision => Follows(r.doc, file.edit)
  /\ \A r \in Saves : Own(r.doc.edit) => PageFollows(r.doc.edit)
QueueOrdered ==
  \A i \in 1..Len(page.queue) :
    /\ Follows(page.shown, page.queue[i].edit)
    /\ \A j \in i..Len(page.queue) : Follows(page.queue[j], page.queue[i].edit)
LayoutsInv ==
  FilesAgree /\ RevisionsPassed /\ EditsCounted /\ ToldHeld /\ OwnHeld /\ QueueOrdered

-----------------------------------------------------------------------------
(* Drafts. *)

BlocksDrawn ==
  /\ file # None => file.blocks \subseteq count.drawn
  /\ document # None => document.blocks \subseteq count.drawn
  /\ sessions \subseteq count.drawn
  /\ page.shown.blocks \subseteq count.drawn /\ call.doc.blocks \subseteq count.drawn
  /\ \A i \in 1..Len(page.queue) : page.queue[i].blocks \subseteq count.drawn
  /\ \A r \in late : r.doc.blocks \subseteq count.drawn
  /\ \A o \in openings : o.block \in count.drawn
  /\ page.closed \subseteq count.drawn /\ page.closed \cap page.shown.blocks = {}
  /\ ~page.hydrated => page.closed = {}
  /\ page.closing # None => page.closing \in count.drawn

\* A text on its way to the server, or about to be sent.
Sending(c) == \/ c.kind \in {"ask", "write"} /\ ~c.done
              \/ c.kind = "ask" /\ c.ok
LateOf(f) == {r \in lateDraft : r.file = f /\ r.owner = login}
PaneFits(f) ==
  /\ ~panes[f].restored /\ panes[f].text.id # 0 => panes[f].text.rash
  /\ panes[f].dirty => panes[f].restored
  /\ panes[f].restored => page.phase # "out" /\ f \notin page.closed
  /\ page.phase = "out" => draftCall[f].kind = "idle"
  /\ draftCall[f].kind = "restore" => ~panes[f].restored
  /\ draftCall[f].kind \in {"ask", "write"} => panes[f].restored \/ f \in page.closed
  /\ LateOf(f) # {} => page.phase = "out" \/ panes[f].restored \/ f \in page.closed
TextsFollow(f) ==
  /\ panes[f].restored =>
       /\ Sending(draftCall[f]) => Replaces(panes[f].text, draftCall[f].text)
       /\ \A r \in LateOf(f) : Replaces(panes[f].text, r.text)
  /\ Sending(draftCall[f]) => \A r \in LateOf(f) : Replaces(draftCall[f].text, r.text)
DraftFits(f) ==
  LET d == drafts[f] c == draftCall[f] p == panes[f] IN
  /\ p.revision # None => p.revision <= d.revision
  /\ c.kind # "idle" /\ (c.kind = "write" /\ c.done => c.ok) => c.revision <= d.revision
  /\ \A r \in LateOf(f) : /\ r.revision <= d.revision
                          /\ d.revision # 0 /\ r.revision = d.revision => Replaces(r.text, d.text)
  /\ d.revision # 0 =>
       /\ p.restored => Replaces(p.text, d.text)
       /\ Sending(c) => Replaces(c.text, d.text)
       /\ c.kind = "restore" /\ c.done /\ c.ok /\ f \notin page.closed => c.text = d.text
DraftsInv ==
  /\ \A r \in lateDraft : r.owner \in 1..count.logins
  /\ \A f \in Files : PaneFits(f) /\ TextsFollow(f)
  /\ \A f \in Files \ count.pruned : DraftFits(f)

-----------------------------------------------------------------------------
(* Values. *)

LEMMA WorkspaceValues ==
  /\ NewLayout \in Layout /\ NoText \in Text /\ NoDraft \in Draft
  /\ NoCall \in Call /\ NoDraftCall \in DraftCall /\ UnreadPane \in Pane
<1>1. NewLayout \in Layout /\ NoText \in Text
  BY DEF NewLayout, NoText, Layout, Text
<1> QED BY <1>1 DEF NoDraft, Draft, NoCall, Call, NoDraftCall, DraftCall, UnreadPane, Pane

LEMMA MountedPages ==
  ASSUME NEW phase \in {"out", "active", "paused"}, NEW since \in Nat
  PROVE  Mounted(phase, since) \in Page
<1>1. << >> \in Queues
  BY DEF Queues
<1> QED BY <1>1, WorkspaceValues DEF Mounted, Page

LEMMA LayoutRequests ==
  ASSUME NEW k \in {"load", "ask", "save"}
  PROVE  /\ LayoutRequest(k) \in Call
         /\ LayoutRequest(k).kind = k /\ ~LayoutRequest(k).done /\ ~LayoutRequest(k).ok
         /\ LayoutRequest(k).revision = 0 /\ LayoutRequest(k).doc = NewLayout
BY WorkspaceValues DEF LayoutRequest, NoCall, Call

LEMMA DraftRequests ==
  ASSUME NEW k \in {"restore", "ask", "write"}
  PROVE  /\ DraftRequest(k) \in DraftCall
         /\ DraftRequest(k).kind = k /\ ~DraftRequest(k).done /\ ~DraftRequest(k).ok
         /\ DraftRequest(k).revision = 0 /\ DraftRequest(k).text = NoText
BY WorkspaceValues DEF DraftRequest, NoDraftCall, DraftCall

LEMMA Queued ==
  ASSUME NEW q \in Queues
  PROVE  /\ Len(q) \in Nat
         /\ \A i \in 1..Len(q) : q[i] \in Layout
         /\ q # << >> => /\ Len(q) > 0 /\ Head(q) = q[1] /\ Head(q) \in Layout
                         /\ Tail(q) \in Queues /\ Len(Tail(q)) = Len(q) - 1
                         /\ \A i \in 1..Len(Tail(q)) : Tail(q)[i] = q[i + 1]
         /\ \A d \in Layout : /\ Append(q, d) \in Queues /\ Len(Append(q, d)) = Len(q) + 1
                              /\ \A i \in 1..Len(q) : Append(q, d)[i] = q[i]
                              /\ Append(q, d)[Len(q) + 1] = d
BY DEF Queues

-----------------------------------------------------------------------------
(* What the server does with a layout. *)

First == IF document # None THEN document ELSE IF file # None THEN file ELSE NewLayout
Keeps(a, b) ==
  /\ a \in Layout /\ a.edit = b.edit /\ a.seen = b.seen /\ a.blind = b.blind
  /\ b.blocks \subseteq a.blocks /\ a.blocks \subseteq b.blocks \cup sessions
Shows(doc) == sessions \subseteq doc.blocks \/ Cardinality(doc.blocks) >= MaxBlocks
Refused(o) ==
  /\ o.file = file /\ o.document = document /\ o.revision = revision
  /\ o.drafts = drafts /\ o.answer = Failed
Loaded(o) ==
  /\ \/ o.file = file /\ document # None
     \/ Keeps(o.file, First)
  /\ Keeps(o.document, First)
  /\ o.revision \in {revision, revision + 1} /\ o.drafts = drafts
  /\ \/ o.answer = Failed
     \/ o.answer = Reply(TRUE, o.revision, o.document) /\ Shows(o.document)
Confirmed(o, doc) ==
  /\ document # None /\ document.edit = doc.edit
  /\ o.file = file /\ o.document = document /\ o.revision = revision
  /\ o.drafts = drafts /\ o.answer = Reply(TRUE, revision, NewLayout)
Stored(o, doc) ==
  /\ o.file = doc /\ o.document = doc /\ o.revision = revision + 1
  /\ o.drafts = Pruned(doc) /\ o.answer = Reply(TRUE, revision + 1, NewLayout)

\* Either every session gets a block, or the layout is full.
LEMMA RecoveredShow ==
  ASSUME sessions \subseteq Blocks, NEW doc \in Layout, NEW add \in Recovered(doc)
  PROVE  /\ add \subseteq sessions
         /\ sessions \subseteq doc.blocks \cup add
            \/ Cardinality(doc.blocks \cup add) >= MaxBlocks
<1> DEFINE missing == sessions \ doc.blocks
           filled == Cardinality(doc.blocks)
           room == MaxBlocks - Smaller(MaxBlocks, filled)
<1>1. add \subseteq missing /\ Cardinality(add) = Smaller(room, Cardinality(missing))
  BY DEF Recovered
<1>2. IsFiniteSet(Blocks) /\ MaxBlocks \in Nat
  BY BlocksAssumption
<1>3. doc.blocks \in SUBSET Blocks /\ missing \in SUBSET Blocks /\ add \in SUBSET Blocks
  BY <1>1 DEF Layout
<1>4. IsFiniteSet(doc.blocks) /\ IsFiniteSet(missing) /\ IsFiniteSet(add)
  BY <1>2, <1>3, FS_Subset
<1>5. filled \in Nat /\ Cardinality(missing) \in Nat /\ Cardinality(add) \in Nat
  BY <1>4, FS_CardinalityType
<1>6. CASE Cardinality(missing) <= room
  <2>1. Cardinality(missing) = Cardinality(add)
    BY <1>1, <1>2, <1>5, <1>6 DEF Smaller
  <2>2. missing = add
    BY <1>1, <1>4, <2>1, FS_Subset
  <2> QED BY <1>1, <2>2
<1>7. CASE ~(Cardinality(missing) <= room)
  <2>1. Cardinality(add) = room
    BY <1>1, <1>2, <1>5, <1>7 DEF Smaller
  <2>2. doc.blocks \cap add = {}
    BY <1>1
  <2>3. Cardinality(doc.blocks \cap add) = 0
    BY <2>2, FS_EmptySet
  <2>4. Cardinality(doc.blocks \cup add) = filled + Cardinality(add) - Cardinality(doc.blocks \cap add)
    BY <1>4, FS_Union
  <2>5. filled + room >= MaxBlocks
    BY <1>2, <1>5 DEF Smaller
  <2>6. Cardinality(doc.blocks \cup add) >= MaxBlocks
    <3> HIDE DEF filled, room
    <3> QED BY <2>1, <2>3, <2>4, <2>5, <1>5
  <2> QED BY <1>1, <2>6
<1> QED BY <1>6, <1>7

LEMMA LoadOutcomes ==
  ASSUME WorkspaceTypeOK, NEW o \in LoadWorkspace
  PROVE  Refused(o) \/ Loaded(o)
<1> DEFINE With(add) == [First EXCEPT !.blocks = @ \cup add]
           After(add) == IF add = {} THEN revision ELSE revision + 1
<1>0. First \in Layout
  BY WorkspaceValues DEF First, WorkspaceTypeOK
<1>1. ASSUME NEW add \in Recovered(First)
      PROVE  Keeps(With(add), First) /\ Shows(With(add)) /\ Keeps(First, First)
  <2>1. /\ add \subseteq sessions
        /\ sessions \subseteq First.blocks \cup add
           \/ Cardinality(First.blocks \cup add) >= MaxBlocks
    BY <1>0, <1>1, RecoveredShow DEF WorkspaceTypeOK
  <2>2. sessions \subseteq Blocks
    BY DEF WorkspaceTypeOK
  <2>3. /\ With(add) \in Layout /\ With(add).blocks = First.blocks \cup add
        /\ With(add).edit = First.edit /\ With(add).seen = First.seen
        /\ With(add).blind = First.blind
    BY <1>0, <2>1, <2>2 DEF Layout
  <2> HIDE DEF With
  <2> QED BY <1>0, <2>1, <2>3 DEF Keeps, Shows
<1>2. \/ \E add \in Recovered(First) :
           o = Outcome(IF document = None \/ add # {} THEN With(add) ELSE file, With(add), After(add),
                       drafts, Reply(TRUE, After(add), With(add)))
      \/ \E add \in Recovered(First) :
           o = Outcome(IF document = None THEN First ELSE file, With(add), revision, drafts, Failed)
      \/ o = Unchanged(Failed)
  BY DEF LoadWorkspace, First
<1> HIDE DEF With
<1>3. ASSUME NEW add \in Recovered(First),
             o = Outcome(IF document = None \/ add # {} THEN With(add) ELSE file, With(add), After(add),
                         drafts, Reply(TRUE, After(add), With(add)))
      PROVE  Loaded(o)
  BY <1>1, <1>3 DEF Loaded, Outcome
<1>4. ASSUME NEW add \in Recovered(First),
             o = Outcome(IF document = None THEN First ELSE file, With(add), revision, drafts, Failed)
      PROVE  Loaded(o)
  BY <1>1, <1>4 DEF Loaded, Outcome
<1>5. CASE o = Unchanged(Failed)
  BY <1>5 DEF Refused, Unchanged, Outcome
<1> QED BY <1>2, <1>3, <1>4, <1>5

LEMMA SaveOutcomes ==
  ASSUME NEW x, NEW doc, NEW o \in SaveWorkspace(x, doc)
  PROVE  Refused(o) \/ (x = revision /\ (Confirmed(o, doc) \/ Stored(o, doc)))
<1>1. CASE x # revision
  BY <1>1 DEF SaveWorkspace, Refused, Unchanged, Outcome
<1>2. CASE x = revision /\ document # None /\ Same(document, doc)
  <2>1. o = Unchanged(Reply(TRUE, revision, NewLayout))
    BY <1>2 DEF SaveWorkspace
  <2>2. document.edit = doc.edit
    BY <1>2 DEF Same
  <2> QED BY <1>2, <2>1, <2>2 DEF Confirmed, Unchanged, Outcome
<1>3. CASE x = revision /\ ~(document # None /\ Same(document, doc))
  <2>1. o = Outcome(doc, doc, revision + 1, Pruned(doc), Reply(TRUE, revision + 1, NewLayout))
        \/ o = Unchanged(Failed)
    BY <1>3 DEF SaveWorkspace
  <2>2. CASE o = Unchanged(Failed)
    BY <2>2 DEF Refused, Unchanged, Outcome
  <2>3. CASE o = Outcome(doc, doc, revision + 1, Pruned(doc), Reply(TRUE, revision + 1, NewLayout))
    BY <1>3, <2>3 DEF Stored, Outcome
  <2> QED BY <2>1, <2>2, <2>3
<1> QED BY <1>1, <1>2, <1>3

LEMMA HandleOutcomes ==
  ASSUME WorkspaceTypeOK, NEW k, NEW x, NEW doc, NEW o \in Handle(k, x, doc)
  PROVE  \/ Refused(o)
         \/ k # "save" /\ Loaded(o)
         \/ k = "save" /\ x = revision /\ (Confirmed(o, doc) \/ Stored(o, doc))
BY LoadOutcomes, SaveOutcomes DEF Handle

LEMMA AnswerFields ==
  ASSUME NEW o
  PROVE  /\ o.answer = Failed
              => o.answer.ok = FALSE /\ o.answer.revision = 0 /\ o.answer.doc = NewLayout
         /\ o.answer = Reply(TRUE, o.revision, o.document)
              => o.answer.ok = TRUE /\ o.answer.revision = o.revision /\ o.answer.doc = o.document
         /\ o.answer = Reply(TRUE, revision, NewLayout)
              => o.answer.ok = TRUE /\ o.answer.revision = revision /\ o.answer.doc = NewLayout
         /\ o.answer = Reply(TRUE, revision + 1, NewLayout)
              => o.answer.ok = TRUE /\ o.answer.revision = revision + 1 /\ o.answer.doc = NewLayout
BY DEF Reply, Failed

LEMMA PruneTypes ==
  ASSUME WorkspaceTypeOK, NEW doc
  PROVE  Pruned(doc) \in [Files -> Draft]
<1>1. drafts \in [Files -> Draft]
  BY DEF WorkspaceTypeOK
<1> QED BY <1>1, WorkspaceValues DEF Pruned

\* Whatever the server does, the layout stays one and the answer is typed.
LEMMA OutcomeTypes ==
  ASSUME WorkspaceTypeOK, NEW k, NEW x, NEW doc \in Layout, NEW o \in Handle(k, x, doc)
  PROVE  /\ o.file \in Layout \cup {None} /\ o.document \in Layout \cup {None}
         /\ o.revision \in Nat /\ o.drafts \in [Files -> Draft]
         /\ o.answer.ok \in BOOLEAN /\ o.answer.revision \in Nat /\ o.answer.doc \in Layout
<1>0. /\ file \in Layout \cup {None} /\ document \in Layout \cup {None}
      /\ revision \in Nat /\ drafts \in [Files -> Draft]
  BY DEF WorkspaceTypeOK
<1>2. NewLayout \in Layout
  BY WorkspaceValues
<1>3. CASE Refused(o)
  <2>1. o.answer.ok = FALSE /\ o.answer.revision = 0 /\ o.answer.doc = NewLayout
    BY <1>3, AnswerFields DEF Refused
  <2>2. o.answer.ok \in BOOLEAN
    BY <2>1
  <2> QED BY <1>0, <1>2, <1>3, <2>1, <2>2 DEF Refused
<1>4. CASE Loaded(o)
  <2>1. o.file \in Layout \cup {None} /\ o.document \in Layout /\ o.revision \in Nat
    BY <1>0, <1>4 DEF Loaded, Keeps
  <2>2. \/ o.answer.ok = FALSE /\ o.answer.revision = 0 /\ o.answer.doc = NewLayout
        \/ o.answer.ok = TRUE /\ o.answer.revision = o.revision /\ o.answer.doc = o.document
    BY <1>4, AnswerFields DEF Loaded
  <2>3. o.answer.ok \in BOOLEAN
    BY <2>2
  <2> QED BY <1>0, <1>2, <1>4, <2>1, <2>2, <2>3 DEF Loaded
<1>5. CASE Confirmed(o, doc)
  <2>1. o.answer.ok = TRUE /\ o.answer.revision = revision /\ o.answer.doc = NewLayout
    BY <1>5, AnswerFields DEF Confirmed
  <2>2. o.answer.ok \in BOOLEAN
    BY <2>1
  <2> QED BY <1>0, <1>2, <1>5, <2>1, <2>2 DEF Confirmed
<1>6. CASE Stored(o, doc)
  <2>1. o.answer.ok = TRUE /\ o.answer.revision = revision + 1 /\ o.answer.doc = NewLayout
    BY <1>6, AnswerFields DEF Stored
  <2>2. o.answer.ok \in BOOLEAN
    BY <2>1
  <2>3. revision + 1 \in Nat
    BY <1>0
  <2>4. o.revision \in Nat /\ o.answer.revision \in Nat
    BY <1>6, <2>1, <2>3 DEF Stored
  <2> QED BY <1>2, <1>6, <2>1, <2>2, <2>4, PruneTypes DEF Stored
<1> QED BY <1>3, <1>4, <1>5, <1>6, HandleOutcomes

LEMMA PutCounts ==
  ASSUME WorkspaceTypeOK, NEW o, Put(o)
  PROVE  /\ count' \in Count
         /\ count'.drawn = count.drawn /\ count'.logins = count.logins /\ count'.edits = count.edits
         /\ count'.texts = count.texts /\ count'.limit = count.limit
         /\ count'.pruned = count.pruned \cup Thrown(o.drafts)
<1>1. count \in Count /\ Thrown(o.drafts) \subseteq Files
  BY DEF WorkspaceTypeOK, Thrown
<1>2. count' = [count EXCEPT !.pruned = @ \cup Thrown(o.drafts)]
  BY DEF Put
<1> HIDE DEF Thrown
<1> QED BY <1>1, <1>2 DEF Count

LEMMA CountFields ==
  ASSUME WorkspaceTypeOK
  PROVE  /\ count.drawn \subseteq Blocks /\ count.pruned \subseteq Files /\ count.logins \in Nat
         /\ count.edits \in Nat /\ count.texts \in Nat
BY DEF WorkspaceTypeOK, Count

LEMMA PageFields ==
  ASSUME WorkspaceTypeOK
  PROVE  /\ page.phase \in {"out", "active", "paused"} /\ page.hydrated \in BOOLEAN
         /\ page.shown \in Layout /\ page.hidden \subseteq Blocks /\ page.closed \subseteq Blocks
         /\ page.due \in BOOLEAN /\ page.queue \in Queues /\ page.revision \in Nat
         /\ page.uncertain \in BOOLEAN /\ page.since \in Nat
BY DEF WorkspaceTypeOK, Page

LEMMA CallFields ==
  ASSUME WorkspaceTypeOK
  PROVE  /\ call.kind \in {"idle", "load", "ask", "save"} /\ call.done \in BOOLEAN
         /\ call.ok \in BOOLEAN /\ call.revision \in Nat /\ call.doc \in Layout
BY DEF WorkspaceTypeOK, Call

\* The layout a request of the page carries.
Carried == IF page.queue = << >> THEN NewLayout ELSE Head(page.queue)

LEMMA CarriedTypes ==
  ASSUME WorkspaceTypeOK
  PROVE  Carried \in Layout
BY PageFields, Queued, WorkspaceValues DEF Carried

\* What is left behind is what was asked.
LEMMA InFlightTypes ==
  ASSUME WorkspaceTypeOK, PageFits
  PROVE  /\ InFlight \subseteq Late
         /\ \A r \in InFlight :
              /\ r.kind = call.kind /\ ~call.done /\ r.revision = page.revision
              /\ r.kind = "save" => page.queue # << >> /\ r.doc = Head(page.queue)
              /\ r.kind # "save" => r.doc = NewLayout
<1>1. ASSUME NEW r \in InFlight
      PROVE  /\ r \in Late /\ r.kind = call.kind /\ ~call.done /\ r.revision = page.revision
             /\ r.kind = "save" => page.queue # << >> /\ r.doc = Head(page.queue)
             /\ r.kind # "save" => r.doc = NewLayout
  <2>1. /\ call.kind # "idle" /\ ~call.done
        /\ r = [kind |-> call.kind, revision |-> page.revision,
                doc |-> IF call.kind = "save" THEN Head(page.queue) ELSE NewLayout]
    BY DEF InFlight
  <2>2. call.kind \in {"load", "ask", "save"} /\ page.revision \in Nat
    BY <2>1, CallFields, PageFields
  <2>3. call.kind = "save" => page.queue # << >> /\ Head(page.queue) \in Layout
    BY PageFields, Queued DEF PageFits
  <2>4. NewLayout \in Layout
    BY WorkspaceValues
  <2>5. (IF call.kind = "save" THEN Head(page.queue) ELSE NewLayout) \in Layout
    BY <2>3, <2>4
  <2>6. r \in Late
    BY <2>1, <2>2, <2>5 DEF Late
  <2> QED BY <2>1, <2>3, <2>6
<1> QED BY <1>1

LEMMA DraftsInFlightTypes ==
  ASSUME WorkspaceTypeOK
  PROVE  /\ DraftsInFlight \subseteq LateDraft
         /\ \A r \in DraftsInFlight :
              /\ r.file \in Files /\ r.owner = login
              /\ draftCall[r.file].kind = "write" /\ ~draftCall[r.file].done
              /\ r.revision = draftCall[r.file].revision /\ r.text = draftCall[r.file].text
<1>1. ASSUME NEW r \in DraftsInFlight
      PROVE  /\ r \in LateDraft /\ r.file \in Files /\ r.owner = login
             /\ draftCall[r.file].kind = "write" /\ ~draftCall[r.file].done
             /\ r.revision = draftCall[r.file].revision /\ r.text = draftCall[r.file].text
  <2>1. PICK f \in Files :
          /\ draftCall[f].kind = "write" /\ ~draftCall[f].done
          /\ r = [file |-> f, owner |-> login, revision |-> draftCall[f].revision,
                  text |-> draftCall[f].text]
    BY DEF DraftsInFlight
  <2>2. draftCall[f] \in DraftCall /\ login \in Nat
    BY DEF WorkspaceTypeOK
  <2>3. draftCall[f].revision \in Nat /\ draftCall[f].text \in Text
    BY <2>2 DEF DraftCall
  <2> QED BY <2>1, <2>2, <2>3 DEF LateDraft
<1> QED BY <1>1

LEMMA Abandoned ==
  ASSUME WorkspaceTypeOK, PageFits, Abandon
  PROVE  /\ late' \subseteq Late /\ late \subseteq late'
         /\ \A r \in late' : r \in late \/ r \in InFlight
         /\ lateDraft' \subseteq LateDraft
         /\ \A r \in lateDraft' : r \in lateDraft \/ r \in DraftsInFlight
         /\ call' = NoCall /\ draftCall' = [f \in Files |-> NoDraftCall]
         /\ openings' \subseteq Opening
         /\ \A o \in openings' : \E p \in openings :
              o.block = p.block /\ o.owner = p.owner /\ o.step = p.step
<1>1. late \subseteq Late /\ lateDraft \subseteq LateDraft /\ openings \subseteq Opening
  BY DEF WorkspaceTypeOK
<1>2. PICK s \in SUBSET InFlight : late' = late \cup s
  BY DEF Abandon
<1>3. PICK t \in SUBSET DraftsInFlight : lateDraft' = lateDraft \cup t
  BY DEF Abandon
<1>4. ASSUME NEW o \in openings'
      PROVE  /\ o \in Opening
             /\ \E p \in openings : o.block = p.block /\ o.owner = p.owner /\ o.step = p.step
  <2>1. PICK p \in openings : o = [p EXCEPT !.heard = FALSE]
    BY DEF Abandon
  <2>2. p \in Opening
    BY <1>1
  <2> QED BY <2>1, <2>2 DEF Opening
<1>5. call' = NoCall /\ draftCall' = [f \in Files |-> NoDraftCall]
  BY DEF Abandon
<1>6. InFlight \subseteq Late /\ DraftsInFlight \subseteq LateDraft
  BY InFlightTypes, DraftsInFlightTypes
<1> QED BY <1>1, <1>2, <1>3, <1>4, <1>5, <1>6

-----------------------------------------------------------------------------
(* What each operation does to the page. *)

LEMMA MountedFields ==
  ASSUME NEW phase, NEW since
  PROVE  /\ Mounted(phase, since).phase = phase /\ ~Mounted(phase, since).hydrated
         /\ Mounted(phase, since).shown = NewLayout /\ Mounted(phase, since).hidden = {}
         /\ Mounted(phase, since).closed = {} /\ Mounted(phase, since).queue = << >>
         /\ Mounted(phase, since).revision = 0 /\ Mounted(phase, since).since = since
BY DEF Mounted

\* The parts of the page an operation may leave alone.
SameMount == page'.phase = page.phase /\ page'.hydrated = page.hydrated /\ page'.since = page.since
SameShown ==
  page'.shown = page.shown /\ page'.hidden = page.hidden /\ page'.closed = page.closed
SameStore == page'.queue = page.queue /\ page'.revision = page.revision

LEMMA PagePauses ==
  ASSUME WorkspaceTypeOK, Pause
  PROVE  /\ page' \in Page /\ SameShown
         /\ page'.phase = "paused" /\ page'.hydrated = page.hydrated /\ page'.since = page.since
         /\ page'.queue = << >> /\ page'.revision = page.revision
<1>1. << >> \in Queues
  BY DEF Queues
<1> QED BY <1>1 DEF WorkspaceTypeOK, Pause, Page, SameShown

LEMMA PageResumes ==
  ASSUME WorkspaceTypeOK, Resume
  PROVE  /\ page' \in Page /\ SameShown /\ SameStore
         /\ page'.phase = "active" /\ page'.hydrated = page.hydrated /\ page'.since = page.since
BY DEF WorkspaceTypeOK, Resume, Page, SameShown, SameStore

LEMMA PageHydrates ==
  ASSUME WorkspaceTypeOK, Hydrate
  PROVE  /\ page' \in Page
         /\ page'.phase = page.phase /\ page'.hydrated /\ page'.since = page.since
         /\ page'.shown = call.doc /\ page'.closed = page.closed
         /\ page'.hidden = IF Cardinality(call.doc.blocks) >= MaxBlocks
                           THEN sessions \ call.doc.blocks ELSE {}
         /\ page'.queue = page.queue /\ page'.revision = call.revision
<1> DEFINE hidden == IF Cardinality(call.doc.blocks) >= MaxBlocks
                     THEN sessions \ call.doc.blocks ELSE {}
<1>1. hidden \subseteq Blocks /\ call.doc \in Layout /\ call.revision \in Nat
  BY CallFields DEF WorkspaceTypeOK
<1>2. page' = [page EXCEPT !.hydrated = TRUE, !.shown = call.doc, !.due = TRUE,
                 !.hidden = hidden, !.revision = call.revision, !.uncertain = FALSE]
  BY DEF Hydrate
<1> HIDE DEF hidden
<1>3. /\ page' \in Page
      /\ page'.phase = page.phase /\ page'.hydrated = TRUE /\ page'.since = page.since
      /\ page'.shown = call.doc /\ page'.closed = page.closed /\ page'.hidden = hidden
      /\ page'.queue = page.queue /\ page'.revision = call.revision
  BY <1>1, <1>2 DEF WorkspaceTypeOK, Page
<1> QED BY <1>3 DEF hidden

LEMMA PageHydratesBlind ==
  ASSUME WorkspaceTypeOK, HydrateBlind
  PROVE  /\ page' \in Page
         /\ page'.phase = page.phase /\ page'.hydrated /\ page'.since = page.since
         /\ page'.shown.blind /\ page'.shown.blocks = {} /\ page'.shown.edit = count.edits + 1
         /\ page'.closed = page.closed /\ page'.hidden = page.hidden
         /\ page'.queue = page.queue
         /\ page'.revision = IF call.ok THEN call.revision ELSE page.revision
<1> DEFINE shown == [blocks |-> {}, edit |-> count.edits + 1, seen |-> {}, blind |-> TRUE]
           rev == IF call.ok THEN call.revision ELSE page.revision
           uncertain == ~call.ok
<1>1. count.edits + 1 \in Nat
  BY CountFields
<1>2. shown \in Layout
  BY <1>1 DEF Layout
<1>3. rev \in Nat /\ uncertain \in BOOLEAN
  BY CallFields, PageFields
<1>4. count'.edits = count.edits + 1
  BY DEF HydrateBlind, WorkspaceTypeOK, Count
<1>5. page' = [page EXCEPT !.hydrated = TRUE, !.due = TRUE, !.shown = shown, !.revision = rev,
                            !.uncertain = uncertain]
  BY <1>4 DEF HydrateBlind
<1>6. shown.blind /\ shown.blocks = {} /\ shown.edit = count.edits + 1
  OBVIOUS
<1> HIDE DEF shown, rev, uncertain
<1>7. /\ page' \in Page
      /\ page'.phase = page.phase /\ page'.hydrated = TRUE /\ page'.since = page.since
      /\ page'.shown = shown /\ page'.closed = page.closed /\ page'.hidden = page.hidden
      /\ page'.queue = page.queue /\ page'.revision = rev
  BY <1>2, <1>3, <1>5 DEF WorkspaceTypeOK, Page
<1> QED BY <1>6, <1>7 DEF rev

LEMMA PageEnqueues ==
  ASSUME WorkspaceTypeOK, Enqueue
  PROVE  /\ page' \in Page /\ SameMount /\ SameShown
         /\ page'.queue = Append(page.queue, page.shown) /\ page'.revision = page.revision
<1>1. Append(page.queue, page.shown) \in Queues
  BY PageFields, Queued
<1> QED BY <1>1 DEF WorkspaceTypeOK, Enqueue, Page, SameMount, SameShown

LEMMA PageAsked ==
  ASSUME WorkspaceTypeOK, PageFits, AskAnswered
  PROVE  /\ page' \in Page /\ SameMount /\ SameShown
         /\ \/ /\ call.ok /\ page'.queue = page.queue /\ page'.revision = call.revision
               /\ call' = LayoutRequest("save")
            \/ /\ ~call.ok /\ page'.queue = Tail(page.queue) /\ page'.revision = page.revision
               /\ call' = NoCall
<1>1. page.queue # << >>
  BY DEF AskAnswered, PageFits
<1>2. Tail(page.queue) \in Queues /\ call.revision \in Nat
  BY <1>1, PageFields, CallFields, Queued
<1>3. CASE call.ok
  <2>1. page' = [page EXCEPT !.revision = call.revision, !.uncertain = FALSE]
        /\ call' = LayoutRequest("save")
    BY <1>3 DEF AskAnswered
  <2> QED BY <1>2, <1>3, <2>1 DEF WorkspaceTypeOK, Page, SameMount, SameShown
<1>4. CASE ~call.ok
  <2>1. page' = [page EXCEPT !.queue = Tail(@)] /\ call' = NoCall
    BY <1>4 DEF AskAnswered
  <2> QED BY <1>2, <1>4, <2>1 DEF WorkspaceTypeOK, Page, SameMount, SameShown
<1> QED BY <1>3, <1>4

LEMMA PageSaved ==
  ASSUME WorkspaceTypeOK, PageFits, SaveAnswered
  PROVE  /\ page' \in Page /\ SameMount /\ SameShown
         /\ page'.queue = Tail(page.queue)
         /\ page'.revision = IF call.ok THEN call.revision ELSE page.revision
<1> DEFINE rev == IF call.ok THEN call.revision ELSE page.revision
<1>1. page.queue # << >>
  BY DEF SaveAnswered, PageFits
<1>2. Tail(page.queue) \in Queues /\ rev \in Nat
  BY <1>1, PageFields, CallFields, Queued
<1>3. page' = [page EXCEPT !.queue = Tail(page.queue), !.revision = rev]
  BY DEF SaveAnswered
<1> HIDE DEF rev
<1>4. /\ page' \in Page /\ SameMount /\ SameShown
      /\ page'.queue = Tail(page.queue) /\ page'.revision = rev
  BY <1>2, <1>3 DEF WorkspaceTypeOK, Page, SameMount, SameShown
<1> QED BY <1>4 DEF rev

LEMMA EditedLayouts ==
  ASSUME WorkspaceTypeOK, NEW blocks \in SUBSET Blocks
  PROVE  /\ Edited(blocks) \in Layout
         /\ Edited(blocks).blocks = blocks /\ Edited(blocks).edit = count.edits + 1
         /\ Edited(blocks).seen = page.shown.seen \cup {page.shown.edit}
         /\ Edited(blocks).blind = page.shown.blind
<1>1. page.shown \in Layout /\ count.edits + 1 \in Nat
  BY PageFields, CountFields
<1> QED BY <1>1 DEF Edited, Layout

\* The page shows a layout made from the one it showed.
EditsTo(blocks) ==
  /\ page' \in Page /\ SameMount /\ SameStore
  /\ page'.shown \in Layout /\ page'.shown.blocks = blocks
  /\ page'.shown.edit = count.edits + 1
  /\ page'.shown.seen = page.shown.seen \cup {page.shown.edit}
  /\ page'.shown.blind = page.shown.blind
  /\ page'.hidden = page.hidden

LEMMA PageAddsBlock ==
  ASSUME WorkspaceTypeOK, NEW b \in Blocks, AddBlock(b)
  PROVE  EditsTo(page.shown.blocks \cup {b}) /\ page'.closed = page.closed
<1> DEFINE blocks == page.shown.blocks \cup {b}
<1>1. blocks \in SUBSET Blocks
  BY PageFields DEF Layout
<1>2. page' = [page EXCEPT !.shown = Edited(blocks), !.due = TRUE]
  BY DEF AddBlock
<1> HIDE DEF blocks
<1>3. Edited(blocks) \in Layout
  BY <1>1, EditedLayouts
<1>4. page' \in Page /\ SameMount /\ SameStore /\ page'.shown = Edited(blocks)
      /\ page'.hidden = page.hidden /\ page'.closed = page.closed
  BY <1>2, <1>3 DEF WorkspaceTypeOK, Page, SameMount, SameStore
<1>5. EditsTo(blocks) /\ page'.closed = page.closed
  BY <1>1, <1>4, EditedLayouts DEF EditsTo
<1> QED BY <1>5 DEF blocks

LEMMA PageRearranges ==
  ASSUME WorkspaceTypeOK, Rearrange
  PROVE  EditsTo(page.shown.blocks) /\ page'.closed = page.closed
<1> DEFINE blocks == page.shown.blocks
<1>1. blocks \in SUBSET Blocks
  BY PageFields DEF Layout
<1>2. page' = [page EXCEPT !.shown = Edited(blocks), !.due = TRUE]
  BY DEF Rearrange
<1> HIDE DEF blocks
<1>3. Edited(blocks) \in Layout
  BY <1>1, EditedLayouts
<1>4. page' \in Page /\ SameMount /\ SameStore /\ page'.shown = Edited(blocks)
      /\ page'.hidden = page.hidden /\ page'.closed = page.closed
  BY <1>2, <1>3 DEF WorkspaceTypeOK, Page, SameMount, SameStore
<1>5. EditsTo(blocks) /\ page'.closed = page.closed
  BY <1>1, <1>4, EditedLayouts DEF EditsTo
<1> QED BY <1>5 DEF blocks

LEMMA PageRemovesBlock ==
  ASSUME WorkspaceTypeOK, RemoveBlock
  PROVE  /\ EditsTo(page.shown.blocks \ {page.closing})
         /\ page.closing \in Blocks /\ page'.closed = page.closed \cup {page.closing}
<1> DEFINE blocks == page.shown.blocks \ {page.closing}
           closed == page.closed \cup {page.closing}
<1>0. page.closing \in Blocks
  BY DEF RemoveBlock, WorkspaceTypeOK, Page
<1>1. blocks \in SUBSET Blocks /\ closed \in SUBSET Blocks
  BY <1>0, PageFields DEF Layout
<1>2. page' = [page EXCEPT !.shown = Edited(blocks), !.due = TRUE, !.closed = closed,
                            !.closing = None, !.step = "list"]
  BY DEF RemoveBlock
<1> HIDE DEF blocks, closed
<1>3. Edited(blocks) \in Layout
  BY <1>1, EditedLayouts
<1>4. page' \in Page /\ SameMount /\ SameStore /\ page'.shown = Edited(blocks)
      /\ page'.hidden = page.hidden /\ page'.closed = closed
  BY <1>1, <1>2, <1>3 DEF WorkspaceTypeOK, Page, SameMount, SameStore
<1>5. EditsTo(blocks) /\ page'.closed = closed
  BY <1>1, <1>4, EditedLayouts DEF EditsTo
<1> QED BY <1>0, <1>5 DEF blocks, closed

LEMMA PageCloses ==
  ASSUME WorkspaceTypeOK, NEW b \in Blocks, BeginClose(b) \/ ListForClose \/ DestroyForClose
  PROVE  page' \in Page /\ SameMount /\ SameShown /\ SameStore
<1>1. CASE BeginClose(b)
  BY <1>1 DEF BeginClose, WorkspaceTypeOK, Page, SameMount, SameShown, SameStore
<1>2. CASE ListForClose
  <2>1. PICK next \in {"destroy", "remove"} : page' = [page EXCEPT !.step = next]
    BY <1>2 DEF ListForClose
  <2> QED BY <2>1 DEF WorkspaceTypeOK, Page, SameMount, SameShown, SameStore
<1>3. CASE DestroyForClose
  BY <1>3 DEF DestroyForClose, WorkspaceTypeOK, Page, SameMount, SameShown, SameStore
<1> QED BY <1>1, <1>2, <1>3

-----------------------------------------------------------------------------
(* Types, and the page that has the login. *)

Fits == WorkspaceTypeOK /\ PageFits

LEMMA MountsFit ==
  ASSUME Fits, Login \/ Leave \/ Pause
  PROVE  Fits'
<1> USE DEF Fits
<1>1. /\ late' \subseteq Late /\ lateDraft' \subseteq LateDraft /\ openings' \subseteq Opening
      /\ call' = NoCall /\ draftCall' = [f \in Files |-> NoDraftCall]
  BY Abandoned DEF Login, Leave, Pause
<1>2. call' \in Call /\ draftCall' \in [Files -> DraftCall] /\ call'.kind = "idle"
  BY <1>1, WorkspaceValues DEF NoCall
<1>3. CASE Login
  <2>1. /\ count' \in Count /\ count'.logins = count.logins + 1 /\ count'.edits = count.edits
    <3> DEFINE n == count.logins + 1
               none == {}
    <3>1. count' = [count EXCEPT !.logins = n, !.pruned = none] /\ count \in Count
      BY <1>3 DEF Login, WorkspaceTypeOK
    <3>2. n \in Nat /\ none \in SUBSET Files
      BY CountFields
    <3> HIDE DEF n, none
    <3>3. count' \in Count /\ count'.logins = n /\ count'.edits = count.edits
      BY <3>1, <3>2 DEF Count
    <3> QED BY <3>3 DEF n
  <2>2. count.edits \in Nat /\ count.logins \in Nat
    BY CountFields
  <2>3. page' = Mounted("active", count.edits) /\ panes' = [f \in Files |-> UnreadPane]
        /\ login' = count'.logins
        /\ UNCHANGED <<file, document, revision, drafts, sessions, acked>>
    BY <1>3 DEF Login, server
  <2>4. page' \in Page /\ panes' \in [Files -> Pane]
    BY <2>2, <2>3, MountedPages, WorkspaceValues
  <2>5. WorkspaceTypeOK'
    BY <1>1, <1>2, <2>1, <2>2, <2>3, <2>4 DEF WorkspaceTypeOK
  <2>6. PageFits'
    BY <1>2, <2>1, <2>2, <2>3, MountedFields DEF PageFits
  <2> QED BY <2>5, <2>6
<1>4. CASE Leave
  <2>2. count.edits \in Nat /\ count.logins \in Nat /\ login \in Nat /\ login <= count.logins
    BY CountFields DEF WorkspaceTypeOK, PageFits
  <2>3. page' = Mounted("out", count.edits) /\ panes' = [f \in Files |-> UnreadPane]
        /\ login' \in {login, 0}
        /\ UNCHANGED <<file, document, revision, drafts, sessions, acked, count>>
    BY <1>4 DEF Leave, server
  <2>4. page' \in Page /\ panes' \in [Files -> Pane]
    BY <2>2, <2>3, MountedPages, WorkspaceValues
  <2>5. WorkspaceTypeOK'
    BY <1>1, <1>2, <2>2, <2>3, <2>4 DEF WorkspaceTypeOK
  <2>6. PageFits'
    BY <1>2, <2>2, <2>3, MountedFields DEF PageFits
  <2> QED BY <2>5, <2>6
<1>5. CASE Pause
  <2>1. /\ count' \in Count /\ count'.logins = count.logins /\ count'.edits = count.edits
    <3>1. count' = [count EXCEPT !.pauses = @ + 1] /\ count \in Count
      BY <1>5 DEF Pause, WorkspaceTypeOK
    <3> QED BY <3>1 DEF Count
  <2>2. /\ page' \in Page /\ page'.phase = "paused" /\ page'.hydrated = page.hydrated
        /\ page'.since = page.since /\ page'.queue = << >>
    BY <1>5, PagePauses
  <2>3. /\ page.phase = "active" /\ UNCHANGED <<file, document, revision, drafts, sessions, login, acked>>
    BY <1>5 DEF Pause, server
  <2>4. panes' \in [Files -> Pane]
    <3>1. panes' = [f \in Files |-> [panes[f] EXCEPT !.revision = None, !.dirty = FALSE,
                                                       !.tried = FALSE]]
      BY <1>5 DEF Pause
    <3>2. panes \in [Files -> Pane]
      BY DEF WorkspaceTypeOK
    <3> QED BY <3>1, <3>2 DEF Pane
  <2>5. WorkspaceTypeOK'
    BY <1>1, <1>2, <2>1, <2>2, <2>3, <2>4 DEF WorkspaceTypeOK
  <2>6. PageFits'
    BY <1>2, <2>1, <2>2, <2>3 DEF PageFits
  <2> QED BY <2>5, <2>6
<1> QED BY <1>3, <1>4, <1>5

LEMMA ResumeFits ==
  ASSUME Fits, Resume
  PROVE  Fits'
<1> USE DEF Fits
<1>1. /\ page' \in Page /\ page'.phase = "active" /\ page'.hydrated = page.hydrated
      /\ page'.since = page.since /\ page'.queue = page.queue
  BY PageResumes DEF SameStore
<1>2. /\ page.phase = "paused"
      /\ UNCHANGED <<file, document, revision, drafts, sessions, openings, login, call, draftCall,
                     late, lateDraft, acked, count>>
  BY DEF Resume, server, requests
<1>3. panes' \in [Files -> Pane]
  <2>1. ASSUME NEW f \in Files
        PROVE  (panes[f].restored /\ panes[f].text.id # panes[f].last) \in BOOLEAN
    OBVIOUS
  <2> DEFINE dirty(f) == panes[f].restored /\ panes[f].text.id # panes[f].last
  <2>2. panes' = [f \in Files |-> [panes[f] EXCEPT !.dirty = dirty(f)]]
    BY DEF Resume
  <2>3. \A f \in Files : dirty(f) \in BOOLEAN
    BY <2>1
  <2> HIDE DEF dirty
  <2> QED BY <2>2, <2>3 DEF WorkspaceTypeOK, Pane
<1>4. WorkspaceTypeOK'
  BY <1>1, <1>2, <1>3 DEF WorkspaceTypeOK
<1>5. PageFits'
  BY <1>1, <1>2 DEF PageFits
<1> QED BY <1>4, <1>5

LEMMA RestartFits ==
  ASSUME Fits, Restart
  PROVE  Fits'
<1> USE DEF Fits
<1>1. count' \in Count /\ count'.logins = count.logins /\ count'.edits = count.edits
  BY CountFields DEF Restart, WorkspaceTypeOK, Count
<1>2. count.edits \in Nat /\ count.logins \in Nat
  BY CountFields
<1>3. /\ page' = Mounted("out", count.edits) /\ panes' = [f \in Files |-> UnreadPane]
      /\ document' = None /\ revision' = 0 /\ drafts' = [f \in Files |-> NoDraft]
      /\ sessions' = {} /\ openings' = {} /\ login' = 0
      /\ call' = NoCall /\ draftCall' = [f \in Files |-> NoDraftCall]
      /\ late' = {} /\ lateDraft' = {} /\ UNCHANGED <<file, acked>>
  BY DEF Restart
<1>4. page' \in Page /\ panes' \in [Files -> Pane] /\ drafts' \in [Files -> Draft]
      /\ call' \in Call /\ draftCall' \in [Files -> DraftCall] /\ call'.kind = "idle"
  BY <1>2, <1>3, MountedPages, WorkspaceValues DEF NoCall
<1>5. WorkspaceTypeOK'
  BY <1>1, <1>2, <1>3, <1>4 DEF WorkspaceTypeOK
<1>6. PageFits'
  BY <1>1, <1>2, <1>3, <1>4, MountedFields DEF PageFits
<1> QED BY <1>5, <1>6

LEMMA LandingsFit ==
  ASSUME Fits, LandLate \/ LandCall
  PROVE  Fits'
<1> USE DEF Fits
<1>1. CASE LandLate
  <2>0. PICK r \in late : \E o \in Handle(r.kind, r.revision, r.doc) :
          /\ Put(o) /\ late' = late \ {r}
          /\ UNCHANGED <<sessions, openings, login, page, panes, call, draftCall, lateDraft, acked>>
    BY <1>1 DEF LandLate
  <2>1. PICK o \in Handle(r.kind, r.revision, r.doc) :
          /\ Put(o) /\ late' = late \ {r}
          /\ UNCHANGED <<sessions, openings, login, page, panes, call, draftCall, lateDraft, acked>>
    BY <2>0
  <2>2. r.doc \in Layout
    BY DEF WorkspaceTypeOK, Late
  <2>3. /\ file' \in Layout \cup {None} /\ document' \in Layout \cup {None}
        /\ revision' \in Nat /\ drafts' \in [Files -> Draft]
    BY <2>1, <2>2, OutcomeTypes DEF Put
  <2>4. count' \in Count /\ count'.logins = count.logins /\ count'.edits = count.edits
    BY <2>1, PutCounts
  <2>5. WorkspaceTypeOK'
    BY <2>1, <2>3, <2>4 DEF WorkspaceTypeOK
  <2>6. PageFits'
    BY <2>1, <2>4 DEF PageFits
  <2> QED BY <2>5, <2>6
<1>2. CASE LandCall
  <2>1. PICK o \in Handle(call.kind, page.revision, Carried) :
          /\ Put(o)
          /\ call' = [kind |-> call.kind, done |-> TRUE, ok |-> o.answer.ok,
                      revision |-> o.answer.revision, doc |-> o.answer.doc]
          /\ UNCHANGED <<sessions, openings, login, page, panes, draftCall, late, lateDraft, acked>>
    BY <1>2 DEF LandCall, Carried
  <2>3. /\ file' \in Layout \cup {None} /\ document' \in Layout \cup {None}
        /\ revision' \in Nat /\ drafts' \in [Files -> Draft]
        /\ o.answer.ok \in BOOLEAN /\ o.answer.revision \in Nat /\ o.answer.doc \in Layout
    BY <2>1, CarriedTypes, OutcomeTypes DEF Put
  <2>4. count' \in Count /\ count'.logins = count.logins /\ count'.edits = count.edits
    BY <2>1, PutCounts
  <2>5. call' \in Call /\ call'.kind = call.kind
    BY <2>1, <2>3, CallFields DEF Call
  <2>6. WorkspaceTypeOK'
    BY <2>1, <2>3, <2>4, <2>5 DEF WorkspaceTypeOK
  <2>7. PageFits'
    BY <2>1, <2>4, <2>5 DEF PageFits
  <2> QED BY <2>6, <2>7
<1> QED BY <1>1, <1>2

LEMMA RequestsFit ==
  ASSUME Fits, StartLoad \/ LoseCall \/ StartSave
  PROVE  Fits'
<1> USE DEF Fits
<1>1. /\ UNCHANGED <<file, document, revision, drafts, sessions, openings, login, panes, draftCall,
                     late, lateDraft, page, acked, count>>
  BY DEF StartLoad, LoseCall, StartSave, Elsewhere, server
<1>2. CASE StartLoad
  <2>1. call' \in Call /\ call'.kind = "load" /\ ~page.hydrated /\ page.phase = "active"
    BY <1>2, LayoutRequests DEF StartLoad
  <2> QED BY <1>1, <2>1 DEF WorkspaceTypeOK, PageFits
<1>3. CASE LoseCall
  <2>1. call' = [LayoutRequest(call.kind) EXCEPT !.done = TRUE] /\ call.kind \in {"load", "ask", "save"}
    BY <1>3, CallFields DEF LoseCall
  <2>2. call' \in Call /\ call'.kind = call.kind
    BY <2>1, LayoutRequests DEF Call
  <2> QED BY <1>1, <2>2 DEF WorkspaceTypeOK, PageFits
<1>4. CASE StartSave
  <2>1. PICK k \in {"ask", "save"} : call' = LayoutRequest(k)
    BY <1>4 DEF StartSave
  <2>2. call' \in Call /\ call'.kind \in {"ask", "save"}
    BY <2>1, LayoutRequests
  <2>3. page.phase = "active" /\ page.hydrated /\ page.queue # << >>
    BY <1>4 DEF StartSave, Active
  <2>4. WorkspaceTypeOK'
    BY <1>1, <2>2 DEF WorkspaceTypeOK
  <2>5. PageFits'
    BY <1>1, <2>2, <2>3 DEF PageFits
  <2> QED BY <2>4, <2>5
<1> QED BY <1>2, <1>3, <1>4

LEMMA AnswersFit ==
  ASSUME Fits, Hydrate \/ HydrateBlind \/ AskAnswered \/ SaveAnswered
  PROVE  Fits'
<1> USE DEF Fits
<1>1. /\ UNCHANGED <<file, document, revision, drafts, sessions, openings, login, panes, draftCall,
                     late, lateDraft>>
  BY DEF Hydrate, HydrateBlind, AskAnswered, SaveAnswered, Elsewhere, server
<1>2. NoCall \in Call /\ NoCall.kind = "idle"
  BY WorkspaceValues DEF NoCall
<1>3. CASE Hydrate
  <2>1. /\ page' \in Page /\ page'.phase = page.phase /\ page'.hydrated
        /\ page'.since = page.since
    BY <1>3, PageHydrates
  <2>2. call.kind = "load" /\ call' = NoCall /\ UNCHANGED <<acked, count>>
    BY <1>3 DEF Hydrate
  <2>3. WorkspaceTypeOK'
    BY <1>1, <1>2, <2>1, <2>2 DEF WorkspaceTypeOK
  <2>4. PageFits'
    BY <1>1, <1>2, <2>1, <2>2 DEF PageFits
  <2> QED BY <2>3, <2>4
<1>4. CASE HydrateBlind
  <2>1. /\ page' \in Page /\ page'.phase = page.phase /\ page'.hydrated
        /\ page'.since = page.since
    BY <1>4, PageHydratesBlind
  <2>2. call.kind = "load" /\ call' = NoCall /\ acked' = acked
    BY <1>4 DEF HydrateBlind
  <2>3. count' \in Count /\ count'.logins = count.logins /\ count'.edits = count.edits + 1
    BY <1>4, CountFields DEF HydrateBlind, WorkspaceTypeOK, Count
  <2>4. WorkspaceTypeOK'
    BY <1>1, <1>2, <2>1, <2>2, <2>3 DEF WorkspaceTypeOK
  <2>5. PageFits'
    BY <1>1, <1>2, <2>1, <2>2, <2>3, CountFields, PageFields DEF PageFits
  <2> QED BY <2>4, <2>5
<1>5. CASE AskAnswered
  <2>1. /\ page' \in Page /\ SameMount
        /\ \/ page'.queue = page.queue /\ call' = LayoutRequest("save")
           \/ call' = NoCall
    BY <1>5, PageAsked
  <2>2. page.hydrated /\ page.queue # << >> /\ page.phase # "out"
    BY <1>5 DEF AskAnswered, PageFits
  <2>3. /\ call' \in Call /\ call'.kind \in {"idle", "save"}
        /\ call'.kind = "save" => page'.queue = page.queue
    BY <1>2, <2>1, LayoutRequests
  <2>4. UNCHANGED <<acked, count>>
    BY <1>5 DEF AskAnswered
  <2>5. WorkspaceTypeOK'
    BY <1>1, <2>1, <2>3, <2>4 DEF WorkspaceTypeOK
  <2>6. PageFits'
    BY <1>1, <2>1, <2>2, <2>3, <2>4 DEF PageFits, SameMount
  <2> QED BY <2>5, <2>6
<1>6. CASE SaveAnswered
  <2>1. page' \in Page /\ SameMount
    BY <1>6, PageSaved
  <2>2. page.hydrated /\ page.queue # << >> /\ page.phase # "out"
    BY <1>6 DEF SaveAnswered, PageFits
  <2>3. call' = NoCall /\ count' = count
    BY <1>6 DEF SaveAnswered
  <2>4. acked' \subseteq Nat
    <3>1. Head(page.queue) \in Layout
      BY <2>2, PageFields, Queued
    <3>2. Head(page.queue).edit \in Nat /\ acked \subseteq Nat
      BY <3>1 DEF Layout, WorkspaceTypeOK
    <3> QED BY <1>6, <3>2 DEF SaveAnswered
  <2>5. WorkspaceTypeOK'
    BY <1>1, <1>2, <2>1, <2>3, <2>4 DEF WorkspaceTypeOK
  <2>6. PageFits'
    BY <1>1, <1>2, <2>1, <2>2, <2>3 DEF PageFits, SameMount
  <2> QED BY <2>5, <2>6
<1> QED BY <1>3, <1>4, <1>5, <1>6

LEMMA EditsFit ==
  ASSUME Fits,
         Rearrange \/ ListForClose \/ DestroyForClose \/ RemoveBlock \/ Enqueue
         \/ \E b \in Blocks : AddBlock(b) \/ BeginClose(b)
  PROVE  Fits'
<1> USE DEF Fits
<1>1. /\ UNCHANGED <<file, document, revision, drafts, openings, login, call, draftCall,
                     late, lateDraft, acked>>
      /\ sessions' \subseteq sessions
  BY DEF Rearrange, ListForClose, DestroyForClose, RemoveBlock, Enqueue, AddBlock, BeginClose,
         Elsewhere, server, requests
<1>2. count.edits \in Nat /\ count.logins \in Nat /\ page.since \in Nat
  BY CountFields, PageFields
<1>3. ASSUME NEW blocks, EditsTo(blocks), CanEdit, count' \in Count, count'.logins = count.logins,
             count'.edits = count.edits + 1, panes' \in [Files -> Pane]
      PROVE  Fits'
  <2>1. WorkspaceTypeOK'
    BY <1>1, <1>3 DEF WorkspaceTypeOK, EditsTo
  <2>2. PageFits'
    BY <1>1, <1>2, <1>3 DEF PageFits, EditsTo, SameMount, SameStore, CanEdit, Active
  <2> QED BY <2>1, <2>2
<1>4. CASE Rearrange
  <2>1. count' \in Count /\ count'.logins = count.logins /\ count'.edits = count.edits + 1
    BY <1>4 DEF Rearrange, WorkspaceTypeOK, Count
  <2>2. CanEdit /\ panes' = panes
    BY <1>4 DEF Rearrange, Elsewhere
  <2>3. panes' \in [Files -> Pane]
    BY <2>2 DEF WorkspaceTypeOK
  <2> QED BY <1>3, <1>4, <2>1, <2>2, <2>3, PageRearranges
<1>5. ASSUME NEW b \in Blocks, AddBlock(b)
      PROVE  Fits'
  <2>1. count' \in Count /\ count'.logins = count.logins /\ count'.edits = count.edits + 1
    <3> DEFINE n == count.edits + 1
               drawn == count.drawn \cup {b}
    <3>1. count' = [count EXCEPT !.edits = n, !.drawn = drawn] /\ count \in Count
      BY <1>5 DEF AddBlock, WorkspaceTypeOK
    <3>2. n \in Nat /\ drawn \in SUBSET Blocks
      BY CountFields
    <3> HIDE DEF n, drawn
    <3>3. count' \in Count /\ count'.logins = count.logins /\ count'.edits = n
      BY <3>1, <3>2 DEF Count
    <3> QED BY <3>3 DEF n
  <2>2. CanEdit /\ panes' = panes
    BY <1>5 DEF AddBlock, Elsewhere
  <2>3. panes' \in [Files -> Pane]
    BY <2>2 DEF WorkspaceTypeOK
  <2>4. EditsTo(page.shown.blocks \cup {b})
    BY <1>5, PageAddsBlock
  <2> QED BY <1>3, <2>1, <2>2, <2>3, <2>4
<1>6. CASE RemoveBlock
  <2>1. count' \in Count /\ count'.logins = count.logins /\ count'.edits = count.edits + 1
    BY <1>6 DEF RemoveBlock, WorkspaceTypeOK, Count
  <2>2. CanEdit /\ panes' = [f \in Files |-> IF f = page.closing THEN UnreadPane ELSE panes[f]]
    BY <1>6 DEF RemoveBlock
  <2>3. panes' \in [Files -> Pane]
    BY <2>2, WorkspaceValues DEF WorkspaceTypeOK
  <2> QED BY <1>3, <1>6, <2>1, <2>2, <2>3, PageRemovesBlock
<1>7. ASSUME page' \in Page, SameMount,
             page'.queue = page.queue \/ (page'.queue # << >> /\ page.hydrated),
             UNCHANGED <<panes, count>>
      PROVE  Fits'
  <2>1. WorkspaceTypeOK'
    BY <1>1, <1>7 DEF WorkspaceTypeOK
  <2>2. PageFits'
    BY <1>1, <1>7 DEF PageFits, SameMount
  <2> QED BY <2>1, <2>2
<1>8. ASSUME NEW b \in Blocks, BeginClose(b) \/ ListForClose \/ DestroyForClose
      PROVE  Fits'
  <2>1. page' \in Page /\ SameMount /\ SameStore
    BY <1>8, PageCloses
  <2>2. UNCHANGED <<panes, count>>
    BY <1>8 DEF BeginClose, ListForClose, DestroyForClose, Elsewhere
  <2> QED BY <1>7, <2>1, <2>2 DEF SameStore
<1>9. CASE Enqueue
  <2>1. page' \in Page /\ SameMount /\ page'.queue = Append(page.queue, page.shown)
    BY <1>9, PageEnqueues
  <2>2. page.hydrated /\ UNCHANGED <<panes, count>>
    BY <1>9 DEF Enqueue, Active, Elsewhere
  <2>3. Len(page'.queue) = Len(page.queue) + 1 /\ Len(page.queue) \in Nat
    BY <2>1, PageFields, Queued
  <2>4. page'.queue # << >>
    BY <2>3
  <2> QED BY <1>7, <2>1, <2>2, <2>4
<1>10. CASE ListForClose \/ DestroyForClose
  <2>1. page.closing \in Blocks
    BY <1>10 DEF ListForClose, DestroyForClose, WorkspaceTypeOK, Page
  <2> QED BY <1>8, <1>10, <2>1
<1> QED BY <1>4, <1>5, <1>6, <1>8, <1>9, <1>10

\* The requests about drafts touch drafts only.
LEMMA DraftTypes ==
  ASSUME WorkspaceTypeOK, NEW f \in Files
  PROVE  /\ drafts[f] \in Draft /\ drafts[f].revision \in Nat /\ drafts[f].text \in Text
         /\ draftCall[f] \in DraftCall /\ draftCall[f].revision \in Nat /\ draftCall[f].text \in Text
         /\ draftCall[f].kind \in {"idle", "restore", "ask", "write"}
         /\ draftCall[f].done \in BOOLEAN /\ draftCall[f].ok \in BOOLEAN
         /\ panes[f] \in Pane /\ panes[f].text \in Text /\ panes[f].last \in Nat
         /\ panes[f].restored \in BOOLEAN /\ panes[f].dirty \in BOOLEAN
         /\ panes[f].revision \in Nat \cup {None}
<1>1. drafts[f] \in Draft /\ draftCall[f] \in DraftCall /\ panes[f] \in Pane
  BY DEF WorkspaceTypeOK
<1> QED BY <1>1 DEF Draft, DraftCall, Pane

\* A draft request of the page, or the draft of the server, or the pane, is
\* replaced: what is left to show is that it is one.
LEMMA DraftsFit ==
  ASSUME Fits, UNCHANGED <<file, document, revision, sessions, openings, login, page, call, late, acked>>,
         drafts' \in [Files -> Draft], panes' \in [Files -> Pane],
         draftCall' \in [Files -> DraftCall], lateDraft' \subseteq LateDraft,
         count' \in Count, count'.logins = count.logins, count'.edits = count.edits
  PROVE  Fits'
<1>1. WorkspaceTypeOK'
  BY DEF Fits, WorkspaceTypeOK
<1>2. PageFits'
  BY DEF Fits, PageFits
<1> QED BY <1>1, <1>2 DEF Fits

\* The server's draft of a file after a request to replace it.
LEMMA SavedDrafts ==
  ASSUME WorkspaceTypeOK, NEW f \in Files, NEW owner, NEW expected \in Nat, NEW text \in Text,
         drafts' = SavePane(f, owner, expected, text)
  PROVE  /\ drafts' \in [Files -> Draft]
         /\ \A g \in Files \ {f} : drafts'[g] = drafts[g]
         /\ ~Kept(f, owner, expected) => drafts' = drafts
         /\ Kept(f, owner, expected) =>
              drafts'[f].revision = expected + 1 /\ drafts'[f].text = text
<1>1. drafts \in [Files -> Draft]
  BY DEF WorkspaceTypeOK
<1>2. [revision |-> expected + 1, text |-> text] \in Draft
  BY DEF Draft
<1>3. CASE Kept(f, owner, expected)
  BY <1>1, <1>2, <1>3 DEF SavePane
<1>4. CASE ~Kept(f, owner, expected)
  BY <1>1, <1>4 DEF SavePane
<1> QED BY <1>3, <1>4

-----------------------------------------------------------------------------
(* What each operation does to the drafts. *)

\* A step that is about the drafts only, typed.
AboutDrafts ==
  /\ UNCHANGED <<file, document, revision, sessions, openings, login, page, call, late, acked>>
  /\ drafts' \in [Files -> Draft] /\ panes' \in [Files -> Pane]
  /\ draftCall' \in [Files -> DraftCall] /\ lateDraft' \subseteq LateDraft
  /\ count' \in Count /\ count'.drawn = count.drawn /\ count'.pruned = count.pruned
  /\ count'.logins = count.logins /\ count'.edits = count.edits
\* About the draft of file f.
Only(f) ==
  \A g \in Files \ {f} :
    drafts'[g] = drafts[g] /\ panes'[g] = panes[g] /\ draftCall'[g] = draftCall[g]
SamePane(f) ==
  /\ panes'[f].text = panes[f].text /\ panes'[f].restored = panes[f].restored
  /\ panes'[f].revision = panes[f].revision

LEMMA RestoreStarts ==
  ASSUME WorkspaceTypeOK, NEW f \in Files, StartRestore(f)
  PROVE  /\ AboutDrafts /\ Only(f) /\ SamePane(f) /\ panes'[f].dirty = panes[f].dirty
         /\ UNCHANGED <<drafts, lateDraft>> /\ Open(f) /\ ~panes[f].restored
         /\ draftCall'[f] = DraftRequest("restore")
<1>1. /\ panes' = [panes EXCEPT ![f].tried = TRUE]
      /\ draftCall' = [draftCall EXCEPT ![f] = DraftRequest("restore")]
      /\ UNCHANGED <<Beside, drafts, lateDraft, count>> /\ Open(f) /\ ~panes[f].restored
  BY DEF StartRestore
<1>2. panes \in [Files -> Pane] /\ draftCall \in [Files -> DraftCall] /\ count \in Count
      /\ drafts \in [Files -> Draft] /\ lateDraft \subseteq LateDraft
  BY DEF WorkspaceTypeOK
<1>3. panes' \in [Files -> Pane] /\ SamePane(f) /\ panes'[f].dirty = panes[f].dirty
      /\ \A g \in Files \ {f} : panes'[g] = panes[g]
  BY <1>1, <1>2 DEF Pane, SamePane
<1>4. draftCall' \in [Files -> DraftCall] /\ draftCall'[f] = DraftRequest("restore")
      /\ \A g \in Files \ {f} : draftCall'[g] = draftCall[g]
  BY <1>1, <1>2, DraftRequests
<1> QED BY <1>1, <1>2, <1>3, <1>4 DEF AboutDrafts, Only, Beside

LEMMA DraftLands ==
  ASSUME WorkspaceTypeOK, NEW f \in Files, LandDraft(f)
  PROVE  /\ AboutDrafts /\ Only(f) /\ UNCHANGED <<panes, lateDraft>>
         /\ draftCall[f].kind # "idle" /\ ~draftCall[f].done
         /\ draftCall'[f].kind = draftCall[f].kind /\ draftCall'[f].done
         /\ \/ /\ draftCall[f].kind # "write" /\ drafts' = drafts
               /\ draftCall'[f].ok /\ draftCall'[f].revision = drafts[f].revision
               /\ draftCall'[f].text = IF draftCall[f].kind = "restore" THEN drafts[f].text
                                       ELSE draftCall[f].text
            \/ /\ draftCall[f].kind = "write"
               /\ drafts' = SavePane(f, login, draftCall[f].revision, draftCall[f].text)
               /\ draftCall'[f].ok <=> Kept(f, login, draftCall[f].revision)
               /\ draftCall'[f].revision = draftCall[f].revision + 1
               /\ draftCall'[f].text = draftCall[f].text
<1> DEFINE c == draftCall[f]
           text == IF c.kind = "restore" THEN drafts[f].text ELSE c.text
           kept == Kept(f, login, c.revision)
<1>1. panes \in [Files -> Pane] /\ draftCall \in [Files -> DraftCall] /\ count \in Count
      /\ drafts \in [Files -> Draft] /\ lateDraft \subseteq LateDraft
  BY DEF WorkspaceTypeOK
<1>2. /\ c.revision \in Nat /\ c.text \in Text /\ c.kind \in {"idle", "restore", "ask", "write"}
      /\ drafts[f].revision \in Nat /\ text \in Text
  BY DraftTypes
<1>3. UNCHANGED <<Beside, panes, lateDraft, count>> /\ c.kind # "idle" /\ ~c.done
  BY DEF LandDraft
<1>4. kept \in BOOLEAN
  BY DEF Kept
<1>5. CASE /\ c.kind # "write" /\ drafts' = drafts
           /\ draftCall' = [draftCall EXCEPT ![f] =
                [kind |-> c.kind, done |-> TRUE, ok |-> TRUE, revision |-> drafts[f].revision,
                 text |-> text]]
  <2> HIDE DEF c, text
  <2>1. [kind |-> c.kind, done |-> TRUE, ok |-> TRUE, revision |-> drafts[f].revision, text |-> text]
          \in DraftCall
    BY <1>2 DEF DraftCall
  <2>2. /\ draftCall' \in [Files -> DraftCall] /\ \A g \in Files \ {f} : draftCall'[g] = draftCall[g]
        /\ draftCall'[f].kind = c.kind /\ draftCall'[f].done /\ draftCall'[f].ok
        /\ draftCall'[f].revision = drafts[f].revision /\ draftCall'[f].text = text
    BY <1>1, <1>5, <2>1
  <2> QED BY <1>1, <1>3, <1>5, <2>2 DEF AboutDrafts, Only, Beside, c, text
<1>6. CASE /\ c.kind = "write"
           /\ drafts' = SavePane(f, login, c.revision, c.text)
           /\ draftCall' = [draftCall EXCEPT ![f] =
                [kind |-> "write", done |-> TRUE, ok |-> kept, revision |-> c.revision + 1,
                 text |-> c.text]]
  <2>0. /\ drafts' \in [Files -> Draft] /\ \A g \in Files \ {f} : drafts'[g] = drafts[g]
    <3>1. drafts' = SavePane(f, login, c.revision, c.text) /\ c.revision \in Nat /\ c.text \in Text
      BY <1>2, <1>6
    <3> HIDE DEF c
    <3> QED BY <3>1, SavedDrafts
  <2> HIDE DEF c, kept
  <2>1. [kind |-> "write", done |-> TRUE, ok |-> kept, revision |-> c.revision + 1, text |-> c.text]
          \in DraftCall
    BY <1>2, <1>4 DEF DraftCall
  <2>2. /\ draftCall' \in [Files -> DraftCall] /\ \A g \in Files \ {f} : draftCall'[g] = draftCall[g]
        /\ draftCall'[f].kind = c.kind /\ draftCall'[f].done /\ draftCall'[f].ok = kept
        /\ draftCall'[f].revision = c.revision + 1 /\ draftCall'[f].text = c.text
    BY <1>1, <1>6, <2>1
  <2> QED BY <1>1, <1>3, <1>6, <2>0, <2>2 DEF AboutDrafts, Only, Beside, c, kept
<1> QED BY <1>5, <1>6 DEF LandDraft

LEMMA DraftLost ==
  ASSUME WorkspaceTypeOK, NEW f \in Files, LoseDraft(f)
  PROVE  /\ AboutDrafts /\ Only(f) /\ UNCHANGED <<drafts, panes, lateDraft>>
         /\ draftCall[f].kind # "idle" /\ draftCall'[f].kind = draftCall[f].kind
         /\ draftCall'[f].done /\ ~draftCall'[f].ok /\ draftCall'[f].revision = 0
<1>1. /\ draftCall' = [draftCall EXCEPT ![f] = [DraftRequest(draftCall[f].kind) EXCEPT !.done = TRUE]]
      /\ UNCHANGED <<Beside, drafts, panes, lateDraft, count>> /\ draftCall[f].kind # "idle"
  BY DEF LoseDraft
<1>2. panes \in [Files -> Pane] /\ draftCall \in [Files -> DraftCall] /\ count \in Count
      /\ drafts \in [Files -> Draft] /\ lateDraft \subseteq LateDraft
  BY DEF WorkspaceTypeOK
<1>3. draftCall[f].kind \in {"restore", "ask", "write"}
  BY <1>1, DraftTypes
<1>4. PICK c \in DraftCall : c = [DraftRequest(draftCall[f].kind) EXCEPT !.done = TRUE]
  BY <1>3, DraftRequests DEF DraftCall
<1>5. c.kind = draftCall[f].kind /\ c.done /\ ~c.ok /\ c.revision = 0
  BY <1>3, <1>4, DraftRequests DEF DraftCall
<1>6. draftCall' \in [Files -> DraftCall] /\ draftCall'[f] = c
      /\ \A g \in Files \ {f} : draftCall'[g] = draftCall[g]
  BY <1>1, <1>2, <1>4
<1> QED BY <1>1, <1>2, <1>5, <1>6 DEF AboutDrafts, Only, Beside

LEMMA LateDraftLands ==
  ASSUME WorkspaceTypeOK, LandLateDraft
  PROVE  \E r \in lateDraft :
           /\ r.file \in Files /\ r.owner \in Nat /\ r.revision \in Nat /\ r.text \in Text
           /\ AboutDrafts /\ Only(r.file) /\ UNCHANGED <<panes, draftCall>>
           /\ lateDraft' = lateDraft \ {r}
           /\ drafts' = SavePane(r.file, r.owner, r.revision, r.text)
<1>1. PICK r \in lateDraft :
        /\ drafts' = SavePane(r.file, r.owner, r.revision, r.text)
        /\ lateDraft' = lateDraft \ {r} /\ UNCHANGED <<Beside, panes, draftCall, count>>
  BY DEF LandLateDraft
<1>2. panes \in [Files -> Pane] /\ draftCall \in [Files -> DraftCall] /\ count \in Count
      /\ drafts \in [Files -> Draft] /\ lateDraft \subseteq LateDraft
  BY DEF WorkspaceTypeOK
<1>3. r.file \in Files /\ r.owner \in Nat /\ r.revision \in Nat /\ r.text \in Text
  BY <1>2 DEF LateDraft
<1>4. drafts' \in [Files -> Draft] /\ \A g \in Files \ {r.file} : drafts'[g] = drafts[g]
  BY <1>1, <1>3, SavedDrafts
<1>5. lateDraft' \subseteq LateDraft
  BY <1>1, <1>2
<1>6. AboutDrafts /\ Only(r.file)
  BY <1>1, <1>2, <1>4, <1>5 DEF AboutDrafts, Only, Beside
<1> QED BY <1>1, <1>3, <1>6

LEMMA DraftRestored ==
  ASSUME WorkspaceTypeOK, NEW f \in Files, Restored(f)
  PROVE  /\ AboutDrafts /\ Only(f) /\ UNCHANGED <<drafts, lateDraft>>
         /\ draftCall[f].kind = "restore" /\ draftCall[f].done /\ draftCall'[f] = NoDraftCall
         /\ \/ panes' = panes
            \/ /\ draftCall[f].ok /\ Open(f) /\ panes'[f].restored
               /\ panes'[f].text = IF panes[f].text.id = 0 THEN draftCall[f].text ELSE panes[f].text
               /\ panes'[f].revision = draftCall[f].revision
<1> DEFINE c == draftCall[f]
           text == IF panes[f].text.id = 0 THEN c.text ELSE panes[f].text
           dirty == text.id # c.text.id
<1>1. panes \in [Files -> Pane] /\ draftCall \in [Files -> DraftCall] /\ count \in Count
      /\ drafts \in [Files -> Draft] /\ lateDraft \subseteq LateDraft
  BY DEF WorkspaceTypeOK
<1>2. /\ c.revision \in Nat /\ c.text \in Text /\ text \in Text /\ dirty \in BOOLEAN
      /\ c.text.id \in Nat
  BY DraftTypes DEF Text
<1>3. /\ UNCHANGED <<Beside, drafts, lateDraft, count>> /\ c.kind = "restore" /\ c.done
      /\ draftCall' = [draftCall EXCEPT ![f] = NoDraftCall]
  BY DEF Restored
<1>4. /\ draftCall' \in [Files -> DraftCall] /\ draftCall'[f] = NoDraftCall
      /\ \A g \in Files \ {f} : draftCall'[g] = draftCall[g]
  BY <1>1, <1>3, WorkspaceValues
<1>5. CASE panes' = panes
  BY <1>1, <1>3, <1>4, <1>5 DEF AboutDrafts, Only, Beside
<1>6. CASE /\ c.ok /\ Open(f)
           /\ panes' = [panes EXCEPT ![f] =
                [text |-> text, last |-> c.text.id, restored |-> TRUE, tried |-> TRUE,
                 dirty |-> dirty, revision |-> c.revision]]
  <2> HIDE DEF c, text, dirty
  <2>1. [text |-> text, last |-> c.text.id, restored |-> TRUE, tried |-> TRUE,
         dirty |-> dirty, revision |-> c.revision] \in Pane
    BY <1>2 DEF Pane
  <2>2. /\ panes' \in [Files -> Pane] /\ \A g \in Files \ {f} : panes'[g] = panes[g]
        /\ panes'[f].restored /\ panes'[f].text = text /\ panes'[f].revision = c.revision
    BY <1>1, <1>6, <2>1
  <2> QED BY <1>1, <1>3, <1>4, <1>6, <2>2 DEF AboutDrafts, Only, Beside, c, text
<1> QED BY <1>5, <1>6 DEF Restored

LEMMA TextEdited ==
  ASSUME WorkspaceTypeOK, NEW f \in Files, EditText(f)
  PROVE  /\ AboutDrafts /\ Only(f) /\ UNCHANGED <<drafts, draftCall, lateDraft>> /\ Open(f)
         /\ panes'[f].restored = panes[f].restored /\ panes'[f].revision = panes[f].revision
         /\ panes'[f].dirty = panes[f].restored
         /\ panes'[f].text.seen = panes[f].text.seen \cup {panes[f].text.id}
         /\ panes'[f].text.rash <=> panes[f].text.rash \/ ~panes[f].restored
<1> DEFINE p == panes[f]
           rash == p.text.rash \/ ~p.restored
           text == [id |-> count.texts + 1, seen |-> p.text.seen \cup {p.text.id}, rash |-> rash]
<1>1. panes \in [Files -> Pane] /\ draftCall \in [Files -> DraftCall] /\ count \in Count
      /\ drafts \in [Files -> Draft] /\ lateDraft \subseteq LateDraft
  BY DEF WorkspaceTypeOK
<1>2. count' = [count EXCEPT !.texts = @ + 1]
  BY DEF EditText
<1>3. /\ count' \in Count /\ count'.drawn = count.drawn /\ count'.pruned = count.pruned
      /\ count'.logins = count.logins /\ count'.edits = count.edits
      /\ count'.texts = count.texts + 1
  BY <1>1, <1>2 DEF Count
<1>4. /\ UNCHANGED <<Beside, drafts, draftCall, lateDraft>> /\ Open(f)
      /\ panes' = [panes EXCEPT ![f].text = text, ![f].dirty = p.restored]
  BY <1>3 DEF EditText
<1>5. p \in Pane /\ p.text \in Text /\ p.restored \in BOOLEAN /\ count.texts + 1 \in Nat
  BY DraftTypes, CountFields
<1>6. rash \in BOOLEAN
  OBVIOUS
<1>7. text \in Text
  <2> HIDE DEF rash, p
  <2> QED BY <1>5, <1>6 DEF Text
<1>8. text.seen = p.text.seen \cup {p.text.id} /\ text.rash = rash
  OBVIOUS
<1>9. /\ panes' \in [Files -> Pane] /\ \A g \in Files \ {f} : panes'[g] = panes[g]
      /\ panes'[f].restored = p.restored /\ panes'[f].revision = p.revision
      /\ panes'[f].dirty = p.restored /\ panes'[f].text = text
  <2> HIDE DEF text
  <2> QED BY <1>1, <1>4, <1>5, <1>7 DEF Pane
<1>10. AboutDrafts /\ Only(f)
  <2> HIDE DEF text, rash, p
  <2> QED BY <1>1, <1>3, <1>4, <1>9 DEF AboutDrafts, Only, Beside
<1>11. /\ panes'[f].text.seen = panes[f].text.seen \cup {panes[f].text.id}
       /\ panes'[f].text.rash <=> panes[f].text.rash \/ ~panes[f].restored
  <2>1. panes'[f].text.rash = rash /\ panes'[f].text.seen = p.text.seen \cup {p.text.id}
    <3> HIDE DEF rash, p, text
    <3> QED BY <1>8, <1>9
  <2> QED BY <2>1
<1> QED BY <1>4, <1>9, <1>10, <1>11

LEMMA WriteStarts ==
  ASSUME WorkspaceTypeOK, NEW f \in Files, StartWrite(f)
  PROVE  /\ AboutDrafts /\ Only(f) /\ UNCHANGED <<drafts, lateDraft>> /\ SamePane(f)
         /\ ~panes'[f].dirty /\ panes[f].dirty /\ draftCall[f].kind = "idle" /\ Open(f)
         /\ draftCall'[f].text = panes[f].text /\ ~draftCall'[f].done /\ ~draftCall'[f].ok
         /\ \/ draftCall'[f].kind = "ask" /\ draftCall'[f].revision = 0
            \/ /\ draftCall'[f].kind = "write" /\ panes[f].revision # None
               /\ draftCall'[f].revision = panes[f].revision
<1>1. panes \in [Files -> Pane] /\ draftCall \in [Files -> DraftCall] /\ count \in Count
      /\ drafts \in [Files -> Draft] /\ lateDraft \subseteq LateDraft
  BY DEF WorkspaceTypeOK
<1>2. /\ UNCHANGED <<Beside, drafts, lateDraft, count>> /\ Open(f) /\ panes[f].dirty
      /\ draftCall[f].kind = "idle" /\ panes' = [panes EXCEPT ![f].dirty = FALSE]
  BY DEF StartWrite
<1>3. panes[f].text \in Text /\ panes[f].revision \in Nat \cup {None}
  BY DraftTypes
<1>4. /\ panes' \in [Files -> Pane] /\ \A g \in Files \ {f} : panes'[g] = panes[g]
      /\ SamePane(f) /\ ~panes'[f].dirty
  BY <1>1, <1>2 DEF Pane, SamePane
<1>5. PICK c \in DraftCall :
        /\ draftCall' = [draftCall EXCEPT ![f] = c]
        /\ c.text = panes[f].text /\ ~c.done /\ ~c.ok
        /\ \/ c.kind = "ask" /\ c.revision = 0
           \/ c.kind = "write" /\ panes[f].revision # None /\ c.revision = panes[f].revision
  <2>1. CASE panes[f].revision = None
    <3> DEFINE c == [DraftRequest("ask") EXCEPT !.text = panes[f].text]
    <3>1. c \in DraftCall /\ c.text = panes[f].text /\ ~c.done /\ ~c.ok /\ c.kind = "ask" /\ c.revision = 0
      BY <1>3, DraftRequests DEF DraftCall
    <3>2. draftCall' = [draftCall EXCEPT ![f] = c]
      BY <2>1 DEF StartWrite
    <3> HIDE DEF c
    <3> QED BY <3>1, <3>2
  <2>2. CASE panes[f].revision # None
    <3> DEFINE c == [DraftRequest("write") EXCEPT !.text = panes[f].text, !.revision = panes[f].revision]
    <3>1. c \in DraftCall /\ c.text = panes[f].text /\ ~c.done /\ ~c.ok /\ c.kind = "write"
          /\ c.revision = panes[f].revision
      BY <1>3, <2>2, DraftRequests DEF DraftCall
    <3>2. draftCall' = [draftCall EXCEPT ![f] = c]
      BY <2>2 DEF StartWrite
    <3> HIDE DEF c
    <3> QED BY <2>2, <3>1, <3>2
  <2> QED BY <2>1, <2>2
<1>6. draftCall' \in [Files -> DraftCall] /\ draftCall'[f] = c
      /\ \A g \in Files \ {f} : draftCall'[g] = draftCall[g]
  BY <1>1, <1>5
<1>7. AboutDrafts /\ Only(f)
  BY <1>1, <1>2, <1>4, <1>6 DEF AboutDrafts, Only, Beside
<1> QED BY <1>2, <1>4, <1>5, <1>6, <1>7

LEMMA AskedDraft ==
  ASSUME WorkspaceTypeOK, NEW f \in Files, DraftAsked(f)
  PROVE  /\ AboutDrafts /\ Only(f) /\ UNCHANGED <<drafts, lateDraft>>
         /\ draftCall[f].kind = "ask" /\ draftCall[f].done
         /\ panes'[f].text = panes[f].text /\ panes'[f].restored = panes[f].restored
         /\ panes'[f].dirty = panes[f].dirty
         /\ \/ panes'[f].revision = panes[f].revision
            \/ draftCall[f].ok /\ panes'[f].revision = draftCall[f].revision
         /\ \/ ~draftCall[f].ok /\ draftCall'[f] = NoDraftCall
            \/ /\ draftCall[f].ok /\ draftCall'[f].kind = "write" /\ ~draftCall'[f].done
               /\ ~draftCall'[f].ok
               /\ draftCall'[f].text = draftCall[f].text
               /\ draftCall'[f].revision = draftCall[f].revision
<1>1. panes \in [Files -> Pane] /\ draftCall \in [Files -> DraftCall] /\ count \in Count
      /\ drafts \in [Files -> Draft] /\ lateDraft \subseteq LateDraft
  BY DEF WorkspaceTypeOK
<1>2. /\ UNCHANGED <<Beside, drafts, lateDraft, count>>
      /\ draftCall[f].kind = "ask" /\ draftCall[f].done
  BY DEF DraftAsked
<1>3. draftCall[f].text \in Text /\ draftCall[f].revision \in Nat
  BY DraftTypes
<1>4. /\ panes' \in [Files -> Pane] /\ \A g \in Files \ {f} : panes'[g] = panes[g]
      /\ panes'[f].text = panes[f].text /\ panes'[f].restored = panes[f].restored
      /\ panes'[f].dirty = panes[f].dirty
      /\ \/ panes'[f].revision = panes[f].revision
         \/ draftCall[f].ok /\ panes'[f].revision = draftCall[f].revision
  <2>1. CASE panes' = panes
    BY <1>1, <2>1
  <2>2. CASE draftCall[f].ok /\ panes' = [panes EXCEPT ![f].revision = draftCall[f].revision]
    BY <1>1, <1>3, <2>2 DEF Pane
  <2> QED BY <2>1, <2>2 DEF DraftAsked
<1>5. PICK c \in DraftCall :
        /\ draftCall' = [draftCall EXCEPT ![f] = c]
        /\ \/ ~draftCall[f].ok /\ c = NoDraftCall
           \/ /\ draftCall[f].ok /\ c.kind = "write" /\ ~c.done /\ ~c.ok
              /\ c.text = draftCall[f].text /\ c.revision = draftCall[f].revision
  <2>1. CASE ~draftCall[f].ok
    BY <2>1, WorkspaceValues DEF DraftAsked
  <2>2. CASE draftCall[f].ok
    <3> DEFINE c == [DraftRequest("write") EXCEPT !.text = draftCall[f].text,
                                                  !.revision = draftCall[f].revision]
    <3>1. c \in DraftCall /\ c.text = draftCall[f].text /\ ~c.done /\ ~c.ok /\ c.kind = "write"
          /\ c.revision = draftCall[f].revision
      BY <1>3, DraftRequests DEF DraftCall
    <3>2. draftCall' = [draftCall EXCEPT ![f] = c]
      BY <2>2 DEF DraftAsked
    <3> HIDE DEF c
    <3> QED BY <2>2, <3>1, <3>2
  <2> QED BY <2>1, <2>2
<1>6. draftCall' \in [Files -> DraftCall] /\ draftCall'[f] = c
      /\ \A g \in Files \ {f} : draftCall'[g] = draftCall[g]
  BY <1>1, <1>5
<1>7. AboutDrafts /\ Only(f)
  BY <1>1, <1>2, <1>4, <1>6 DEF AboutDrafts, Only, Beside
<1> QED BY <1>2, <1>4, <1>5, <1>6, <1>7

LEMMA WrittenDraft ==
  ASSUME WorkspaceTypeOK, NEW f \in Files, DraftWritten(f)
  PROVE  /\ AboutDrafts /\ Only(f) /\ UNCHANGED <<drafts, lateDraft>>
         /\ draftCall[f].kind = "write" /\ draftCall[f].done /\ draftCall'[f] = NoDraftCall
         /\ panes'[f].text = panes[f].text /\ panes'[f].restored = panes[f].restored
         /\ panes'[f].dirty = panes[f].dirty
         /\ \/ panes'[f].revision = panes[f].revision
            \/ draftCall[f].ok /\ panes'[f].revision = draftCall[f].revision
<1>1. panes \in [Files -> Pane] /\ draftCall \in [Files -> DraftCall] /\ count \in Count
      /\ drafts \in [Files -> Draft] /\ lateDraft \subseteq LateDraft
  BY DEF WorkspaceTypeOK
<1>2. /\ UNCHANGED <<Beside, drafts, lateDraft, count>>
      /\ draftCall[f].kind = "write" /\ draftCall[f].done
      /\ draftCall' = [draftCall EXCEPT ![f] = NoDraftCall]
  BY DEF DraftWritten
<1>3. draftCall[f].text \in Text /\ draftCall[f].text.id \in Nat /\ draftCall[f].revision \in Nat
  BY DraftTypes DEF Text
<1>4. /\ panes' \in [Files -> Pane] /\ \A g \in Files \ {f} : panes'[g] = panes[g]
      /\ panes'[f].text = panes[f].text /\ panes'[f].restored = panes[f].restored
      /\ panes'[f].dirty = panes[f].dirty
      /\ \/ panes'[f].revision = panes[f].revision
         \/ draftCall[f].ok /\ panes'[f].revision = draftCall[f].revision
  <2>1. CASE panes' = panes
    BY <1>1, <2>1
  <2>2. CASE draftCall[f].ok /\ panes' = [panes EXCEPT ![f].revision = draftCall[f].revision,
                                                       ![f].last = draftCall[f].text.id]
    <3>1. PICK pane : pane = [panes[f] EXCEPT !.revision = draftCall[f].revision,
                                              !.last = draftCall[f].text.id]
      OBVIOUS
    <3>2. /\ pane \in Pane /\ pane.text = panes[f].text /\ pane.restored = panes[f].restored
          /\ pane.dirty = panes[f].dirty /\ pane.revision = draftCall[f].revision
      BY <1>1, <1>3, <3>1 DEF Pane
    <3>3. panes' = [panes EXCEPT ![f] = pane]
      BY <1>1, <2>2, <3>1
    <3> QED BY <1>1, <2>2, <3>2, <3>3
  <2> QED BY <2>1, <2>2 DEF DraftWritten
<1>5. draftCall' \in [Files -> DraftCall] /\ draftCall'[f] = NoDraftCall
      /\ \A g \in Files \ {f} : draftCall'[g] = draftCall[g]
  BY <1>1, <1>2, WorkspaceValues
<1>6. AboutDrafts /\ Only(f)
  BY <1>1, <1>2, <1>4, <1>5 DEF AboutDrafts, Only, Beside
<1> QED BY <1>2, <1>4, <1>5, <1>6

-----------------------------------------------------------------------------
(* What each step of an opening does. *)

Goes(o) == Enter(o) \/ Refuse(o) \/ Started(o) \/ NotStarted(o) \/ Opened(o)
AboutSessions ==
  /\ UNCHANGED <<file, document, revision, drafts, login, page, panes, call, draftCall, late,
                 lateDraft, acked>>
  /\ sessions' \subseteq Blocks /\ openings' \subseteq Opening
  /\ count' \in Count /\ count'.drawn = count.drawn /\ count'.pruned = count.pruned
  /\ count'.logins = count.logins /\ count'.edits = count.edits

LEMMA OpeningStarts ==
  ASSUME WorkspaceTypeOK, NEW b \in Blocks, StartOpen(b)
  PROVE  /\ AboutSessions /\ sessions' = sessions /\ Active /\ b \in page.shown.blocks
         /\ \A p \in openings' : p \in openings \/ (p.block = b /\ p.owner = login /\ p.step = "waiting")
<1> DEFINE o == [block |-> b, owner |-> login, step |-> "waiting", heard |-> TRUE]
<1>1. o \in Opening /\ o.block = b /\ o.owner = login /\ o.step = "waiting"
  BY DEF WorkspaceTypeOK, Opening
<1>2. /\ count' = [count EXCEPT !.openings = @ + 1] /\ Active /\ b \in page.shown.blocks
      /\ openings' = openings \cup {o}
      /\ UNCHANGED <<server, login, page, panes, requests, acked, sessions>>
  BY DEF StartOpen
<1>3. /\ count' \in Count /\ count'.drawn = count.drawn /\ count'.pruned = count.pruned
      /\ count'.logins = count.logins /\ count'.edits = count.edits
  BY <1>2 DEF WorkspaceTypeOK, Count
<1> HIDE DEF o
<1>4. AboutSessions /\ sessions' = sessions
  BY <1>1, <1>2, <1>3 DEF AboutSessions, WorkspaceTypeOK, server, requests
<1> QED BY <1>1, <1>2, <1>4

LEMMA OpeningGoes ==
  ASSUME WorkspaceTypeOK, NEW o \in openings, Goes(o)
  PROVE  /\ AboutSessions
         /\ \A s \in sessions' : s \in sessions \/ (o.step = "starting" /\ s = o.block)
         /\ \A p \in openings' :
              \/ p \in openings
              \/ p.block = o.block /\ p.owner = o.owner /\ (p.step = "starting" => o.owner = login)
<1>1. o \in Opening /\ openings \subseteq Opening /\ sessions \subseteq Blocks /\ count \in Count
  BY DEF WorkspaceTypeOK
<1>2. o.block \in Blocks /\ o.owner \in Nat
  BY <1>1 DEF Opening
<1>3. UNCHANGED Around
  BY DEF Goes, Enter, Refuse, Started, NotStarted, Opened
<1>4. ASSUME NEW step \in {"ready", "starting"}, NEW p, p = [o EXCEPT !.step = step]
      PROVE  p \in Opening /\ p.block = o.block /\ p.owner = o.owner /\ p.step = step
  BY <1>1, <1>4 DEF Opening
<1>5. \A s \in sessions' : s \in sessions \/ (o.step = "starting" /\ s = o.block)
  BY DEF Goes, Enter, Refuse, Started, NotStarted, Opened
<1>6. ASSUME NEW p \in openings'
      PROVE  /\ p \in Opening
             /\ \/ p \in openings
                \/ p.block = o.block /\ p.owner = o.owner /\ (p.step = "starting" => o.owner = login)
  <2>1. CASE p \in openings
    BY <1>1, <2>1
  <2>2. CASE /\ p \notin openings /\ Enter(o)
    <3>1. o.owner = login /\ (p = [o EXCEPT !.step = "ready"] \/ p = [o EXCEPT !.step = "starting"])
      BY <2>2 DEF Enter, Move
    <3> QED BY <1>4, <3>1
  <2>3. CASE /\ p \notin openings /\ Started(o)
    <3>1. p = [o EXCEPT !.step = "ready"]
      BY <2>3 DEF Started, Move
    <3> QED BY <1>4, <3>1
  <2>4. CASE Refuse(o) \/ NotStarted(o) \/ Opened(o)
    <3>1. p \in openings
      BY <2>4 DEF Refuse, NotStarted, Opened, Move
    <3> QED BY <1>1, <3>1
  <2> QED BY <2>1, <2>2, <2>3, <2>4 DEF Goes
<1>7. AboutSessions
  BY <1>1, <1>2, <1>3, <1>5, <1>6 DEF AboutSessions, Around, server, requests
<1> QED BY <1>5, <1>6, <1>7

LEMMA SessionsFit ==
  ASSUME Fits, AboutSessions
  PROVE  Fits'
<1>1. WorkspaceTypeOK'
  BY DEF Fits, WorkspaceTypeOK, AboutSessions
<1>2. PageFits'
  BY DEF Fits, PageFits, AboutSessions
<1> QED BY <1>1, <1>2 DEF Fits

-----------------------------------------------------------------------------
(* The operations, by what they are about. *)

Mounts == Login \/ Leave \/ Pause
Requests == StartLoad \/ LoseCall \/ StartSave
Answers == Hydrate \/ HydrateBlind \/ AskAnswered \/ SaveAnswered
Edits ==
  \/ Rearrange \/ ListForClose \/ DestroyForClose \/ RemoveBlock \/ Enqueue
  \/ \E b \in Blocks : AddBlock(b) \/ BeginClose(b)
DraftStep(f) ==
  \/ StartRestore(f) \/ LandDraft(f) \/ LoseDraft(f) \/ Restored(f)
  \/ EditText(f) \/ StartWrite(f) \/ DraftAsked(f) \/ DraftWritten(f)

LEMMA WorkspaceSteps ==
  ASSUME WorkspaceTypeOK, WorkspaceNext
  PROVE  \/ Mounts \/ Resume \/ Restart
         \/ LandLate \/ LandCall
         \/ Requests \/ Answers \/ Edits
         \/ \E f \in Files : DraftStep(f)
         \/ LandLateDraft
         \/ \E b \in Blocks : StartOpen(b)
         \/ \E o \in openings : Goes(o)
<1>1. limit.files \subseteq Files
  BY DEF WorkspaceTypeOK, Count, Limit, limit
<1> QED BY <1>1 DEF WorkspaceNext, Mounts, Requests, Answers, Edits, DraftStep, Goes

LEMMA StepsAboutDrafts ==
  ASSUME WorkspaceTypeOK, (\E f \in Files : DraftStep(f)) \/ LandLateDraft
  PROVE  AboutDrafts
<1>1. ASSUME NEW f \in Files, DraftStep(f)
      PROVE  AboutDrafts
  BY <1>1, RestoreStarts, DraftLands, DraftLost, DraftRestored, TextEdited, WriteStarts,
     AskedDraft, WrittenDraft DEF DraftStep
<1>2. CASE LandLateDraft
  BY <1>2, LateDraftLands
<1> QED BY <1>1, <1>2

LEMMA FitsKept ==
  ASSUME Fits, [WorkspaceNext]_workspaceVars
  PROVE  Fits'
<1>1. CASE Mounts \/ Resume \/ Restart
  BY <1>1, MountsFit, ResumeFits, RestartFits DEF Mounts
<1>2. CASE LandLate \/ LandCall
  BY <1>2, LandingsFit
<1>3. CASE Requests \/ Answers \/ Edits
  BY <1>3, RequestsFit, AnswersFit, EditsFit DEF Requests, Answers, Edits
<1>4. CASE (\E f \in Files : DraftStep(f)) \/ LandLateDraft
  <2>1. AboutDrafts
    BY <1>4, StepsAboutDrafts DEF Fits
  <2> QED BY <2>1, DraftsFit DEF AboutDrafts
<1>5. CASE (\E b \in Blocks : StartOpen(b)) \/ (\E o \in openings : Goes(o))
  <2>1. AboutSessions
    BY <1>5, OpeningStarts, OpeningGoes DEF Fits
  <2> QED BY <2>1, SessionsFit
<1>6. CASE UNCHANGED workspaceVars
  <2>1. WorkspaceTypeOK'
    BY <1>6 DEF Fits, WorkspaceTypeOK, workspaceVars, server, requests
  <2>2. PageFits'
    BY <1>6 DEF Fits, PageFits, workspaceVars, server, requests
  <2> QED BY <2>1, <2>2 DEF Fits
<1> QED BY <1>1, <1>2, <1>3, <1>4, <1>5, <1>6, WorkspaceSteps DEF Fits

LEMMA FitsInit ==
  ASSUME WorkspaceInit
  PROVE  Fits
<1>1. PICK l \in Limits :
        count = [drawn |-> {}, pruned |-> {}, logins |-> 0, pauses |-> 0, restarts |-> 0, edits |-> 0,
                 texts |-> 0, openings |-> 0, limit |-> l]
  BY DEF WorkspaceInit
<1>2. l \in Limit
  BY LimitsAssumption
<1>3. count \in Count /\ count.logins = 0 /\ count.edits = 0
  BY <1>1, <1>2 DEF Count
<1>4. /\ file = None /\ document = None /\ revision = 0
      /\ drafts = [f \in Files |-> NoDraft]
      /\ sessions = {} /\ openings = {} /\ login = 0
      /\ page = Mounted("out", 0) /\ panes = [f \in Files |-> UnreadPane]
      /\ call = NoCall /\ draftCall = [f \in Files |-> NoDraftCall]
      /\ late = {} /\ lateDraft = {} /\ acked = {}
  BY DEF WorkspaceInit
<1>5. page \in Page
  BY <1>4, MountedPages
<1>6. WorkspaceTypeOK
  BY <1>3, <1>4, <1>5, WorkspaceValues DEF WorkspaceTypeOK
<1>7. PageFits
  BY <1>3, <1>4, MountedFields DEF PageFits, NoCall
<1> QED BY <1>6, <1>7 DEF Fits

\* The page that has the login, its panes and its requests, the server's
\* layout and drafts, and everything of gone pages keep to their kinds.
THEOREM WorkspaceTypeCorrect == WorkspaceSpec => []WorkspaceTypeOK
<1>1. Fits => WorkspaceTypeOK
  BY DEF Fits
<1> QED BY <1>1, FitsInit, FitsKept, PTL DEF WorkspaceSpec

-----------------------------------------------------------------------------
(* Every session is shown. *)

LEMMA OpeningFields ==
  ASSUME WorkspaceTypeOK
  PROVE  \A o \in openings : /\ o.block \in Blocks /\ o.owner \in Nat
                             /\ o.step \in {"waiting", "starting", "ready"}
BY DEF WorkspaceTypeOK, Opening

LEMMA MountsShow ==
  ASSUME Fits, SessionsInv, Mounts
  PROVE  SessionsInv'
<1> USE DEF Fits
<1>1. /\ call' = NoCall
      /\ \A o \in openings' : \E p \in openings :
           o.block = p.block /\ o.owner = p.owner /\ o.step = p.step
  BY Abandoned DEF Mounts, Login, Leave, Pause
<1>2. call'.kind = "idle"
  BY <1>1 DEF NoCall
<1>3. count.logins \in Nat /\ \A o \in openings : o.owner \in Nat /\ OpeningFits(o)
  BY CountFields, OpeningFields DEF SessionsInv
<1>4. CASE Login
  <2>1. count'.logins = count.logins + 1
    BY <1>4 DEF Login, WorkspaceTypeOK, Count
  <2>2. login' = count'.logins /\ \A o \in openings : o.step # "starting"
    BY <1>4 DEF Login, GateFree
  <2>3. ~page'.hydrated
    BY <1>4, MountedFields DEF Login
  <2>4. \A o \in openings' : OpeningFits(o)'
    BY <1>1, <1>3, <2>1, <2>2 DEF OpeningFits
  <2> QED BY <1>2, <2>3, <2>4 DEF SessionsInv, SessionsShown
<1>5. CASE Leave
  <2>1. count' = count /\ (login' = login \/ \A o \in openings : o.step # "starting")
    BY <1>5 DEF Leave, GateFree
  <2>2. ~page'.hydrated /\ page'.phase = "out"
    BY <1>5, MountedFields DEF Leave
  <2>3. \A o \in openings' : OpeningFits(o)'
    BY <1>1, <1>3, <2>1, <2>2 DEF OpeningFits
  <2> QED BY <1>2, <2>2, <2>3 DEF SessionsInv, SessionsShown
<1>6. CASE Pause
  <2>1. count'.logins = count.logins
    BY <1>6 DEF Pause, WorkspaceTypeOK, Count
  <2>2. UNCHANGED <<sessions, login>> /\ page.phase = "active"
    BY <1>6 DEF Pause
  <2>3. SameShown /\ page'.phase # "out" /\ page'.hydrated = page.hydrated
    BY <1>6, PagePauses
  <2>4. \A o \in openings' : OpeningFits(o)'
    BY <1>1, <1>3, <2>1, <2>2, <2>3 DEF OpeningFits, SameShown
  <2>5. SessionsShown'
    BY <2>2, <2>3 DEF SessionsInv, SessionsShown, SameShown
  <2> QED BY <1>2, <2>4, <2>5 DEF SessionsInv
<1> QED BY <1>4, <1>5, <1>6 DEF Mounts

\* What a session, its opening and the list of the page depend on.
LEMMA ShownStays ==
  ASSUME SessionsInv, openings' \subseteq openings, sessions' \subseteq sessions,
         login' = login, count'.logins = count.logins,
         page'.phase = page.phase, page'.hydrated = page.hydrated, SameShown,
         call' = call \/ call'.kind # "load" \/ ~call'.done \/ ~call'.ok
  PROVE  SessionsInv'
<1>1. \A o \in openings' : OpeningFits(o)'
  BY DEF SessionsInv, OpeningFits, SameShown
<1>2. SessionsShown'
  BY DEF SessionsInv, SessionsShown, SameShown
<1>3. call'.kind = "load" /\ call'.done /\ call'.ok
        => sessions' \subseteq call'.doc.blocks \/ Cardinality(call'.doc.blocks) >= MaxBlocks
  BY DEF SessionsInv
<1> QED BY <1>1, <1>2, <1>3 DEF SessionsInv

LEMMA LandingsShow ==
  ASSUME Fits, SessionsInv, LandLate \/ LandCall
  PROVE  SessionsInv'
<1> USE DEF Fits
<1>1. /\ UNCHANGED <<sessions, openings, login, page>>
      /\ \E o : Put(o)
  BY DEF LandLate, LandCall
<1>2. count'.logins = count.logins
  BY <1>1, PutCounts
<1>3. CASE LandLate
  BY <1>1, <1>2, <1>3, ShownStays DEF LandLate, SameShown
<1>4. CASE LandCall
  <2>1. PICK o \in Handle(call.kind, page.revision, Carried) :
          call' = [kind |-> call.kind, done |-> TRUE, ok |-> o.answer.ok,
                   revision |-> o.answer.revision, doc |-> o.answer.doc]
    BY <1>4 DEF LandCall, Carried
  <2>2. call'.kind = "load" /\ call'.ok
          => sessions \subseteq call'.doc.blocks \/ Cardinality(call'.doc.blocks) >= MaxBlocks
    <3> SUFFICES ASSUME call'.kind = "load", call'.ok
                 PROVE  Shows(call'.doc)
      BY DEF Shows
    <3>1. call.kind = "load" /\ o.answer.ok /\ call'.doc = o.answer.doc
      BY <2>1
    <3>2. Refused(o) \/ Loaded(o)
      BY <2>1, <3>1, CarriedTypes, HandleOutcomes
    <3>3. o.answer = Reply(TRUE, o.revision, o.document) /\ Shows(o.document)
      BY <3>1, <3>2, AnswerFields DEF Refused, Loaded
    <3> QED BY <3>1, <3>3, AnswerFields
  <2>3. \A p \in openings' : OpeningFits(p)'
    BY <1>1, <1>2 DEF SessionsInv, OpeningFits
  <2>4. SessionsShown'
    BY <1>1 DEF SessionsInv, SessionsShown
  <2> QED BY <1>1, <2>2, <2>3, <2>4 DEF SessionsInv
<1> QED BY <1>3, <1>4

LEMMA AnswersShow ==
  ASSUME Fits, SessionsInv, Answers
  PROVE  SessionsInv'
<1> USE DEF Fits
<1>1. UNCHANGED <<sessions, openings, login>>
  BY DEF Answers, Hydrate, HydrateBlind, AskAnswered, SaveAnswered, Elsewhere
<1>2. ASSUME call.kind = "load", call' = NoCall, page'.hydrated, page'.phase = page.phase,
             page'.closed = page.closed, count'.logins = count.logins, SessionsShown'
      PROVE  SessionsInv'
  <2>1. call'.kind = "idle" /\ page.phase # "out" /\ ~page.hydrated
    BY <1>2 DEF NoCall, PageFits
  <2>2. \A o \in openings' : OpeningFits(o)'
    BY <1>1, <1>2, <2>1 DEF SessionsInv, OpeningFits
  <2> QED BY <1>2, <2>1, <2>2 DEF SessionsInv
<1>3. CASE Hydrate
  <2>1. /\ page'.phase = page.phase /\ page'.hydrated
        /\ page'.shown = call.doc /\ page'.closed = page.closed
        /\ page'.hidden = IF Cardinality(call.doc.blocks) >= MaxBlocks
                          THEN sessions \ call.doc.blocks ELSE {}
    BY <1>3, PageHydrates
  <2>2. call.kind = "load" /\ call.done /\ call.ok /\ call' = NoCall /\ count' = count
    BY <1>3 DEF Hydrate
  <2>3. sessions \subseteq call.doc.blocks \/ Cardinality(call.doc.blocks) >= MaxBlocks
    BY <2>2 DEF SessionsInv
  <2>4. SessionsShown'
    BY <1>1, <2>1, <2>3 DEF SessionsShown
  <2> QED BY <1>2, <2>1, <2>2, <2>4
<1>4. CASE HydrateBlind
  <2>1. /\ page'.phase = page.phase /\ page'.hydrated /\ page'.shown.blind
        /\ page'.closed = page.closed
    BY <1>4, PageHydratesBlind
  <2>2. call.kind = "load" /\ call' = NoCall
    BY <1>4 DEF HydrateBlind
  <2>3. count'.logins = count.logins
    BY <1>4 DEF HydrateBlind, WorkspaceTypeOK, Count
  <2>4. SessionsShown'
    BY <2>1 DEF SessionsShown
  <2> QED BY <1>2, <2>1, <2>2, <2>3, <2>4
<1>5. CASE AskAnswered
  <2>1. SameMount /\ SameShown /\ (call' = LayoutRequest("save") \/ call' = NoCall)
    BY <1>5, PageAsked
  <2>2. call'.kind # "load" /\ count' = count
    BY <1>5, <2>1, LayoutRequests DEF NoCall, AskAnswered
  <2> QED BY <1>1, <2>1, <2>2, ShownStays DEF SameMount
<1>6. CASE SaveAnswered
  <2>1. SameMount /\ SameShown
    BY <1>6, PageSaved
  <2>2. call'.kind # "load" /\ count' = count
    BY <1>6 DEF NoCall, SaveAnswered
  <2> QED BY <1>1, <2>1, <2>2, ShownStays DEF SameMount
<1> QED BY <1>3, <1>4, <1>5, <1>6 DEF Answers

\* A layout that is edited loses a block only when it is closed.
LEMMA EditedShows ==
  ASSUME Fits, SessionsInv, openings' = openings, sessions' = sessions, login' = login, call' = call,
         count'.logins = count.logins, NEW blocks, EditsTo(blocks),
         page.shown.blocks \cup page.closed \subseteq blocks \cup page'.closed
  PROVE  SessionsInv'
<1>1. \A o \in openings' : OpeningFits(o)'
  BY DEF SessionsInv, OpeningFits, EditsTo, SameMount
<1>2. SessionsShown'
  BY DEF SessionsInv, SessionsShown, EditsTo, SameMount
<1> QED BY <1>1, <1>2 DEF SessionsInv

LEMMA EditsShow ==
  ASSUME Fits, SessionsInv, Edits
  PROVE  SessionsInv'
<1> USE DEF Fits
<1>1. UNCHANGED <<openings, login, call>> /\ sessions' \subseteq sessions
  BY DEF Edits, Rearrange, ListForClose, DestroyForClose, RemoveBlock, Enqueue, AddBlock, BeginClose,
         Elsewhere, requests
<1>2. count'.logins = count.logins
  BY DEF Edits, Rearrange, ListForClose, DestroyForClose, RemoveBlock, Enqueue, AddBlock, BeginClose,
         WorkspaceTypeOK, Count
<1>3. CASE Rearrange
  <2>1. sessions' = sessions
    BY <1>3 DEF Rearrange, Elsewhere
  <2> QED BY <1>1, <1>2, <1>3, <2>1, PageRearranges, EditedShows
<1>4. ASSUME NEW b \in Blocks, AddBlock(b)
      PROVE  SessionsInv'
  <2>1. sessions' = sessions
    BY <1>4 DEF AddBlock, Elsewhere
  <2>2. EditsTo(page.shown.blocks \cup {b}) /\ page'.closed = page.closed
    BY <1>4, PageAddsBlock
  <2>3. page.shown.blocks \cup page.closed \subseteq (page.shown.blocks \cup {b}) \cup page'.closed
    BY <2>2
  <2> QED BY <1>1, <1>2, <2>1, <2>2, <2>3, EditedShows
<1>5. CASE RemoveBlock
  <2>1. sessions' = sessions
    BY <1>5 DEF RemoveBlock
  <2>2. EditsTo(page.shown.blocks \ {page.closing}) /\ page'.closed = page.closed \cup {page.closing}
    BY <1>5, PageRemovesBlock
  <2>3. page.shown.blocks \cup page.closed
          \subseteq (page.shown.blocks \ {page.closing}) \cup page'.closed
    BY <2>2
  <2> QED BY <1>1, <1>2, <2>1, <2>2, <2>3, EditedShows
<1>6. ASSUME NEW b \in Blocks, BeginClose(b) \/ ListForClose \/ DestroyForClose
      PROVE  SessionsInv'
  BY <1>1, <1>2, <1>6, PageCloses, ShownStays DEF SameMount
<1>7. CASE Enqueue
  BY <1>1, <1>2, <1>7, PageEnqueues, ShownStays DEF SameMount
<1>8. CASE ListForClose \/ DestroyForClose
  <2>1. page.closing \in Blocks
    BY <1>8 DEF ListForClose, DestroyForClose, WorkspaceTypeOK, Page
  <2> QED BY <1>6, <1>8, <2>1
<1> QED BY <1>3, <1>4, <1>5, <1>6, <1>7, <1>8 DEF Edits

LEMMA SessionsInvKept ==
  ASSUME Fits, SessionsInv, [WorkspaceNext]_workspaceVars
  PROVE  SessionsInv'
<1> USE DEF Fits
<1>1. CASE Mounts
  BY <1>1, MountsShow
<1>2. CASE Resume
  <2>1. SameShown /\ page'.hydrated = page.hydrated /\ page'.phase # "out" /\ page.phase # "out"
    BY <1>2, PageResumes DEF Resume
  <2>2. UNCHANGED <<sessions, openings, login, call, count>>
    BY <1>2 DEF Resume, requests
  <2>3. \A o \in openings' : OpeningFits(o)'
    BY <2>1, <2>2 DEF SessionsInv, OpeningFits, SameShown
  <2>4. SessionsShown'
    BY <2>1, <2>2 DEF SessionsInv, SessionsShown, SameShown
  <2> QED BY <2>2, <2>3, <2>4 DEF SessionsInv
<1>3. CASE Restart
  BY <1>3, MountedFields DEF Restart, SessionsInv, SessionsShown, NoCall
<1>4. CASE LandLate \/ LandCall
  BY <1>4, LandingsShow
<1>5. CASE Requests
  <2>1. UNCHANGED <<sessions, openings, login, page, count>>
    BY <1>5 DEF Requests, StartLoad, LoseCall, StartSave, Elsewhere
  <2>2. ~call'.done \/ ~call'.ok
    <3>1. CASE StartLoad \/ StartSave
      BY <3>1, LayoutRequests DEF StartLoad, StartSave
    <3>2. CASE LoseCall
      <4>1. call' = [LayoutRequest(call.kind) EXCEPT !.done = TRUE] /\ call.kind \in {"load", "ask", "save"}
        BY <3>2, CallFields DEF LoseCall
      <4> QED BY <4>1, LayoutRequests DEF Call
    <3> QED BY <1>5, <3>1, <3>2 DEF Requests
  <2> QED BY <2>1, <2>2, ShownStays DEF SameShown
<1>6. CASE Answers
  BY <1>6, AnswersShow
<1>7. CASE Edits
  BY <1>7, EditsShow
<1>8. CASE (\E f \in Files : DraftStep(f)) \/ LandLateDraft
  <2>1. AboutDrafts
    BY <1>8, StepsAboutDrafts
  <2> QED BY <2>1, ShownStays DEF AboutDrafts, SameShown
<1>9. ASSUME NEW b \in Blocks, StartOpen(b)
      PROVE  SessionsInv'
  <2>1. /\ AboutSessions /\ sessions' = sessions /\ Active /\ b \in page.shown.blocks
        /\ \A p \in openings' : p \in openings \/ (p.block = b /\ p.owner = login /\ p.step = "waiting")
    BY <1>9, OpeningStarts
  <2>2. login \in 1..count.logins
    BY <2>1, CountFields DEF PageFits, Active
  <2>3. \A p \in openings' : OpeningFits(p)'
    BY <2>1, <2>2 DEF SessionsInv, OpeningFits, AboutSessions, Active
  <2>4. SessionsShown'
    BY <2>1 DEF SessionsInv, SessionsShown, AboutSessions
  <2> QED BY <2>1, <2>3, <2>4 DEF SessionsInv, AboutSessions
<1>10. ASSUME NEW o \in openings, Goes(o)
       PROVE  SessionsInv'
  <2>1. /\ AboutSessions
        /\ \A s \in sessions' : s \in sessions \/ (o.step = "starting" /\ s = o.block)
        /\ \A p \in openings' :
              \/ p \in openings
              \/ p.block = o.block /\ p.owner = o.owner /\ (p.step = "starting" => o.owner = login)
    BY <1>10, OpeningGoes
  <2>2. OpeningFits(o)
    BY DEF SessionsInv
  <2>3. \A p \in openings' : OpeningFits(p)'
    BY <2>1, <2>2 DEF SessionsInv, OpeningFits, AboutSessions
  <2>4. SessionsShown'
    BY <2>1, <2>2 DEF SessionsInv, SessionsShown, AboutSessions, OpeningFits
  <2>5. ASSUME call.kind = "load", call.done, call.ok
        PROVE  sessions' \subseteq sessions
    <3>1. page.phase # "out" /\ ~page.hydrated
      BY <2>5 DEF PageFits
    <3> QED BY <2>1, <2>2, <3>1 DEF OpeningFits
  <2> QED BY <2>1, <2>3, <2>4, <2>5 DEF SessionsInv, AboutSessions
<1>11. CASE UNCHANGED workspaceVars
  BY <1>11, ShownStays DEF workspaceVars, requests, SameShown
<1> QED BY <1>1, <1>2, <1>3, <1>4, <1>5, <1>6, <1>7, <1>8, <1>9, <1>10, <1>11, WorkspaceSteps

\* A page that has loaded the layout shows every retained session, except of
\* the blocks it has closed itself and of those a full layout has no room for
\* (run of local_socket.rs and socket.rs, recover of workspace_recovery.rs).
THEOREM SessionsAreShown == WorkspaceSpec => []SessionsShown
<1>1. WorkspaceInit => Fits /\ SessionsInv
  <2> SUFFICES ASSUME WorkspaceInit
               PROVE  Fits /\ SessionsInv
    OBVIOUS
  <2>1. sessions = {} /\ openings = {} /\ call.kind = "idle"
    BY DEF WorkspaceInit, NoCall
  <2> QED BY <2>1, FitsInit DEF SessionsInv, SessionsShown
<1>2. Fits /\ SessionsInv /\ [WorkspaceNext]_workspaceVars => (Fits /\ SessionsInv)'
  BY FitsKept, SessionsInvKept
<1>3. SessionsInv => SessionsShown
  BY DEF SessionsInv
<1> QED BY <1>1, <1>2, <1>3, PTL DEF WorkspaceSpec

-----------------------------------------------------------------------------
(* Layouts descend from those their pages were told of. *)

LEMMA LayoutEdits == \A d \in Layout : d.edit \in Nat
BY DEF Layout

LEMMA LayoutTypes ==
  ASSUME WorkspaceTypeOK
  PROVE  /\ file # None => file \in Layout /\ file.edit \in Nat
         /\ document # None => document \in Layout /\ document.edit \in Nat
         /\ revision \in Nat
         /\ page.shown.edit \in Nat /\ call.doc.edit \in Nat
         /\ \A i \in 1..Len(page.queue) : page.queue[i].edit \in Nat
         /\ \A r \in late : r.doc \in Layout /\ r.doc.edit \in Nat /\ r.revision \in Nat
         /\ acked \subseteq Nat
<1>1. \A r \in late : r.doc \in Layout /\ r.revision \in Nat
  BY DEF WorkspaceTypeOK, Late
<1>2. page.shown \in Layout /\ call.doc \in Layout /\ page.queue \in Queues
  BY PageFields, CallFields
<1>3. \A i \in 1..Len(page.queue) : page.queue[i] \in Layout
  BY <1>2, Queued
<1> QED BY <1>1, <1>2, <1>3, LayoutEdits DEF WorkspaceTypeOK

\* A page that waits for its layout to be stored has one that waits.
LEMMA HeadOfQueue ==
  ASSUME Fits, call.kind \in {"ask", "save"}
  PROVE  /\ page.hydrated /\ page.queue # << >> /\ 1 \in 1..Len(page.queue)
         /\ Head(page.queue) = page.queue[1] /\ Head(page.queue) \in Layout
         /\ Head(page.queue).edit \in Nat /\ Carried = page.queue[1]
<1>1. page.hydrated /\ page.queue # << >> /\ page.queue \in Queues
  BY PageFields DEF Fits, PageFits
<1>2. Len(page.queue) \in Nat /\ Len(page.queue) > 0 /\ Head(page.queue) = page.queue[1]
      /\ Head(page.queue) \in Layout
  BY <1>1, Queued
<1> QED BY <1>1, <1>2, LayoutEdits DEF Carried

LEMMA ToldCounted ==
  ASSUME Fits, LayoutsInv, NEW e \in Nat, Told(e)
  PROVE  e <= count.edits
<1>1. CASE e \in acked
  BY <1>1 DEF LayoutsInv, EditsCounted
<1>2. CASE call.kind = "save" /\ e = Head(page.queue).edit
  BY <1>2, HeadOfQueue DEF LayoutsInv, EditsCounted
<1> QED BY <1>1, <1>2 DEF Told

\* A step of the page, or one that is about neither the layouts nor the page.
LEMMA PageMoves ==
  ASSUME Fits, Fits', LayoutsInv, UNCHANGED <<file, document, revision>>, late' \subseteq late,
         page'.since = page.since, count.edits <= count'.edits,
         \A e \in Nat : Told(e)' => Told(e),
         page'.hydrated => page.hydrated,
         \A e \in Nat : PageFollows(e) => PageFollows(e)',
         QueueOrdered',
         page'.shown.edit <= count'.edits,
         \A i \in 1..Len(page'.queue) : page'.queue[i].edit <= count'.edits,
         page'.revision <= revision, call'.done => call'.revision <= revision,
         call'.doc.edit <= count'.edits,
         call'.kind = "load" /\ call'.done /\ call'.ok => call' = call
  PROVE  LayoutsInv'
<1>0. /\ WorkspaceTypeOK /\ WorkspaceTypeOK' /\ count.edits \in Nat /\ count'.edits \in Nat
      /\ acked' \subseteq Nat
  BY CountFields DEF Fits, WorkspaceTypeOK, Count
<1>1. FilesAgree'
  BY DEF LayoutsInv, FilesAgree
<1>2. RevisionsPassed'
  BY DEF LayoutsInv, RevisionsPassed
<1>3. EditsCounted'
  <2>1. ASSUME NEW e \in acked'
        PROVE  e <= count'.edits
    <3>1. e \in Nat /\ Told(e)'
      BY <1>0, <2>1 DEF Told
    <3>2. e <= count.edits
      BY <3>1, ToldCounted
    <3> QED BY <1>0, <3>1, <3>2
  <2>2. file' # None => file'.edit <= count'.edits
    BY <1>0, LayoutTypes DEF LayoutsInv, EditsCounted
  <2>3. \A r \in late' : r.doc.edit <= count'.edits
    BY <1>0, LayoutTypes DEF LayoutsInv, EditsCounted
  <2> QED BY <2>1, <2>2, <2>3 DEF EditsCounted
<1>4. ToldHeld'
  <2>1. \A e \in Nat : Told(e)' => file' # None
    BY DEF LayoutsInv, ToldHeld
  <2>2. ASSUME NEW d, Holds(d)
        PROVE  \A e \in Nat : Told(e)' => Follows(d, e)
    BY <2>2 DEF Holds
  <2>3. file' # None => Holds(file)'
    BY <2>2 DEF LayoutsInv, ToldHeld, Holds
  <2>4. page'.hydrated => \A e \in Nat : Told(e)' => PageFollows(e)'
    BY DEF LayoutsInv, ToldHeld
  <2>5. call'.kind = "load" /\ call'.done /\ call'.ok => Holds(call.doc)'
    BY <2>2 DEF LayoutsInv, ToldHeld, Holds
  <2>6. \A r \in Saves' : r.revision = revision' => \A e \in Nat : Told(e)' => Follows(r.doc, e)
    BY <2>2 DEF LayoutsInv, ToldHeld, Saves
  <2> QED BY <2>1, <2>3, <2>4, <2>5, <2>6 DEF ToldHeld, Holds
<1>5. OwnHeld'
  <2>1. ASSUME file' # None, Own(file.edit)'
        PROVE  /\ PageFollows(file.edit)'
               /\ \A r \in Saves' : r.revision = revision' => Follows(r.doc, file'.edit)
    <3>1. file # None /\ Own(file.edit) /\ file.edit \in Nat
      BY <1>0, <2>1, LayoutTypes DEF Own
    <3>2. PageFollows(file.edit)
          /\ \A r \in Saves : r.revision = revision => Follows(r.doc, file.edit)
      BY <3>1 DEF LayoutsInv, OwnHeld
    <3>3. PageFollows(file.edit)'
      <4> DEFINE k == file.edit
      <4>1. k' = k /\ k \in Nat /\ PageFollows(k)
        BY <3>1, <3>2
      <4>2. \A i \in 1..Len(page'.queue) : Follows(page'.queue[i], k)
        BY <4>1 DEF PageFollows
      <4>3. Follows(page'.shown, k)
        BY <4>1 DEF PageFollows
      <4> QED BY <4>1, <4>2, <4>3 DEF PageFollows
    <3> QED BY <3>2, <3>3 DEF Saves
  <2>2. ASSUME NEW r \in Saves', Own(r.doc.edit)'
        PROVE  PageFollows(r.doc.edit)'
    <3>1. r \in Saves /\ r.doc.edit \in Nat /\ Own(r.doc.edit)
      BY <1>0, <2>2, LayoutTypes DEF Saves, Own
    <3> QED BY <3>1 DEF LayoutsInv, OwnHeld
  <2> QED BY <2>1, <2>2 DEF OwnHeld
<1> QED BY <1>1, <1>2, <1>3, <1>4, <1>5 DEF LayoutsInv

LEMMA FollowsItself == \A d : Follows(d, d.edit)
BY DEF Follows

\* The page shows what it showed, and stores what it was about to.
LEMMA SamePageMoves ==
  ASSUME Fits, Fits', LayoutsInv, UNCHANGED <<file, document, revision, acked>>, late' \subseteq late,
         SameShown, SameStore, page'.hydrated = page.hydrated, page'.since = page.since,
         count'.edits = count.edits,
         call' = call \/ (~(call'.done /\ call'.ok) /\ call'.revision = 0 /\ call'.doc = NewLayout)
  PROVE  LayoutsInv'
<1>0. revision \in Nat /\ count.edits \in Nat /\ NewLayout.edit = 0
  BY LayoutTypes, CountFields DEF Fits, NewLayout
<1>1. \A e \in Nat : Told(e)' => Told(e)
  BY DEF Told, SameStore, Own
<1>2. \A e \in Nat : PageFollows(e) => PageFollows(e)'
  BY DEF PageFollows, SameShown, SameStore
<1>3. QueueOrdered'
  BY DEF LayoutsInv, QueueOrdered, SameShown, SameStore
<1>4. page'.shown.edit <= count'.edits /\ \A i \in 1..Len(page'.queue) : page'.queue[i].edit <= count'.edits
  BY DEF LayoutsInv, EditsCounted, SameShown, SameStore
<1>5. page'.revision <= revision /\ (call'.done => call'.revision <= revision)
      /\ call'.doc.edit <= count'.edits
  BY <1>0 DEF LayoutsInv, EditsCounted, RevisionsPassed, SameStore
<1>6. count.edits <= count'.edits
  BY <1>0
<1> QED BY <1>1, <1>2, <1>3, <1>4, <1>5, <1>6, PageMoves

LEMMA RequestsFollow ==
  ASSUME Fits, Fits', LayoutsInv, Requests
  PROVE  LayoutsInv'
<1>1. UNCHANGED <<file, document, revision, acked, late, page, count>>
  BY DEF Requests, StartLoad, LoseCall, StartSave, Elsewhere, server
<1>2. ~(call'.done /\ call'.ok) /\ call'.revision = 0 /\ call'.doc = NewLayout
  <2>1. CASE StartLoad \/ StartSave
    BY <2>1, LayoutRequests DEF StartLoad, StartSave
  <2>2. CASE LoseCall
    <3>1. call' = [LayoutRequest(call.kind) EXCEPT !.done = TRUE] /\ call.kind \in {"load", "ask", "save"}
      BY <2>2, CallFields DEF LoseCall, Fits
    <3> QED BY <3>1, LayoutRequests DEF Call
  <2> QED BY <2>1, <2>2 DEF Requests
<1> QED BY <1>1, <1>2, SamePageMoves DEF SameShown, SameStore

LEMMA EditedFollows ==
  ASSUME Fits, Fits', LayoutsInv, UNCHANGED <<file, document, revision, acked, late, call>>,
         NEW blocks, EditsTo(blocks), count'.edits = count.edits + 1
  PROVE  LayoutsInv'
<1>0. count.edits \in Nat /\ page.shown.edit \in Nat
  BY LayoutTypes, CountFields DEF Fits
<1>1. \A e \in Nat : Told(e)' => Told(e)
  BY DEF Told, EditsTo, SameStore, SameMount, Own
<1>2. \A e : Follows(page.shown, e) => Follows(page'.shown, e)
  BY DEF Follows, EditsTo
<1>3. \A e \in Nat : PageFollows(e) => PageFollows(e)'
  BY <1>2 DEF PageFollows, EditsTo, SameStore
<1>4. QueueOrdered'
  BY <1>2 DEF LayoutsInv, QueueOrdered, EditsTo, SameStore
<1>5. page'.shown.edit <= count'.edits
  BY <1>0 DEF EditsTo
<1>6. \A i \in 1..Len(page'.queue) : page'.queue[i].edit <= count'.edits
  BY <1>0, LayoutTypes DEF LayoutsInv, EditsCounted, EditsTo, SameStore, Fits
<1>7. call'.doc.edit <= count'.edits
  BY <1>0, LayoutTypes DEF LayoutsInv, EditsCounted, Fits
<1>8. page'.revision <= revision /\ (call'.done => call'.revision <= revision)
  BY DEF LayoutsInv, RevisionsPassed, EditsTo, SameStore
<1>9. page'.since = page.since /\ page'.hydrated = page.hydrated
  BY DEF EditsTo, SameMount
<1>10. count.edits <= count'.edits
  BY <1>0
<1> QED BY <1>1, <1>3, <1>4, <1>5, <1>6, <1>7, <1>8, <1>9, <1>10, PageMoves

LEMMA EditsFollow ==
  ASSUME Fits, Fits', LayoutsInv, Edits
  PROVE  LayoutsInv'
<1> USE DEF Fits
<1>1. UNCHANGED <<file, document, revision, acked, late, call>>
  BY DEF Edits, Rearrange, ListForClose, DestroyForClose, RemoveBlock, Enqueue, AddBlock, BeginClose,
         Elsewhere, requests, server
<1>2. CASE Rearrange \/ RemoveBlock \/ \E b \in Blocks : AddBlock(b)
  <2>1. count'.edits = count.edits + 1
    BY <1>2 DEF Rearrange, RemoveBlock, AddBlock, WorkspaceTypeOK, Count
  <2>2. \E blocks : EditsTo(blocks)
    BY <1>2, PageRearranges, PageRemovesBlock, PageAddsBlock
  <2> QED BY <1>1, <2>1, <2>2, EditedFollows
<1>3. CASE ListForClose \/ DestroyForClose \/ \E b \in Blocks : BeginClose(b)
  <2>1. \E b \in Blocks : BeginClose(b) \/ ListForClose \/ DestroyForClose
    BY <1>3 DEF ListForClose, DestroyForClose, WorkspaceTypeOK, Page
  <2>2. SameMount /\ SameShown /\ SameStore
    BY <2>1, PageCloses
  <2>3. count' = count
    BY <1>3 DEF ListForClose, DestroyForClose, BeginClose
  <2> QED BY <1>1, <2>2, <2>3, SamePageMoves DEF SameMount
<1>4. CASE Enqueue
  <2> DEFINE n == Len(page.queue)
  <2>0. n \in Nat /\ page.queue \in Queues /\ page.shown \in Layout
    BY PageFields, Queued
  <2>1. /\ SameMount /\ SameShown /\ page'.revision = page.revision
        /\ page'.queue = Append(page.queue, page.shown) /\ count' = count
    BY <1>4, PageEnqueues DEF Enqueue
  <2>2. /\ Len(page'.queue) = n + 1 /\ page'.queue[n + 1] = page.shown
        /\ \A i \in 1..n : page'.queue[i] = page.queue[i]
    BY <2>0, <2>1, Queued
  <2>3. \A i \in 1..Len(page'.queue) : i \in 1..n \/ i = n + 1
    BY <2>0, <2>2
  <2>4. ASSUME NEW e \in Nat, Told(e)'
        PROVE  Told(e)
    <3>1. CASE e \in acked
      BY <3>1 DEF Told
    <3>2. CASE call.kind = "save" /\ call.done /\ call.ok /\ e = Head(page'.queue).edit /\ e > page'.since
      <4>1. page.queue # << >> /\ Head(page.queue) = page.queue[1] /\ 1 \in 1..n
        BY <3>2, HeadOfQueue
      <4>2. Head(page'.queue) = page'.queue[1]
        <5>1. page'.queue \in Queues /\ page'.queue # << >>
          BY <2>0, <2>1, <2>2, Queued
        <5> QED BY <5>1, Queued
      <4>3. Head(page'.queue) = Head(page.queue)
        BY <2>2, <4>1, <4>2
      <4> QED BY <2>1, <3>2, <4>3 DEF Told, Own, SameMount
    <3> QED BY <1>1, <2>4, <3>1, <3>2 DEF Told, Own
  <2>5. \A e \in Nat : PageFollows(e) => PageFollows(e)'
    BY <2>1, <2>2, <2>3 DEF PageFollows, SameShown
  <2>6. QueueOrdered'
    <3>1. \A i \in 1..n : Follows(page.shown, page.queue[i].edit)
          /\ \A j \in i..n : Follows(page.queue[j], page.queue[i].edit)
      BY DEF LayoutsInv, QueueOrdered
    <3>2. ASSUME NEW i \in 1..Len(page'.queue)
          PROVE  Follows(page'.shown, page'.queue[i].edit)
      BY <2>1, <2>2, <2>3, <3>1, FollowsItself DEF SameShown
    <3>3. ASSUME NEW i \in 1..Len(page'.queue), NEW j \in i..Len(page'.queue)
          PROVE  Follows(page'.queue[j], page'.queue[i].edit)
      <4>1. CASE i \in 1..n /\ j \in i..n
        <5>1. j \in 1..n
          BY <2>0, <4>1
        <5> QED BY <2>2, <3>1, <4>1, <5>1
      <4>2. CASE i \in 1..n /\ j = n + 1
        BY <2>2, <3>1, <4>2
      <4>3. CASE i = n + 1
        <5>1. j = i
          BY <2>0, <2>2, <4>3
        <5> QED BY <5>1, FollowsItself
      <4> QED BY <2>0, <2>2, <2>3, <4>1, <4>2, <4>3
    <3> QED BY <3>2, <3>3 DEF QueueOrdered
  <2>7. page'.shown.edit <= count'.edits /\ \A i \in 1..Len(page'.queue) : page'.queue[i].edit <= count'.edits
    BY <2>1, <2>2, <2>3 DEF LayoutsInv, EditsCounted, SameShown
  <2>8. page'.revision <= revision /\ (call'.done => call'.revision <= revision)
        /\ call'.doc.edit <= count'.edits
    BY <1>1, <2>1 DEF LayoutsInv, EditsCounted, RevisionsPassed
  <2>9. count.edits <= count'.edits
    BY <2>1, CountFields
  <2> QED BY <1>1, <2>1, <2>4, <2>5, <2>6, <2>7, <2>8, <2>9, PageMoves DEF SameMount
<1> QED BY <1>2, <1>3, <1>4 DEF Edits

\* The layout that waited first waits no longer.
LEMMA QueueShrinks ==
  ASSUME Fits, Fits', LayoutsInv, UNCHANGED <<file, document, revision, late>>,
         call.kind \in {"ask", "save"}, count' = count,
         SameMount, SameShown, page'.queue = Tail(page.queue), page'.revision <= revision,
         call' = NoCall, \A e \in acked' : Told(e)
  PROVE  LayoutsInv'
<1> DEFINE n == Len(page.queue)
<1>0. /\ page.queue \in Queues /\ page.queue # << >> /\ n \in Nat /\ n > 0
      /\ Len(Tail(page.queue)) = n - 1
      /\ \A i \in 1..Len(Tail(page.queue)) : Tail(page.queue)[i] = page.queue[i + 1]
      /\ count.edits \in Nat /\ revision \in Nat
  BY HeadOfQueue, PageFields, Queued, CountFields, LayoutTypes DEF Fits
<1>1. /\ Len(page'.queue) = n - 1
      /\ \A i \in 1..(n - 1) : page'.queue[i] = page.queue[i + 1] /\ i + 1 \in 1..n
  BY <1>0
<1>2. call'.kind = "idle" /\ ~call'.done /\ call'.doc.edit = 0
  BY DEF NoCall, NewLayout
<1>3. \A e \in Nat : Told(e)' => Told(e)
  BY <1>2 DEF Told
<1>4. \A e \in Nat : PageFollows(e) => PageFollows(e)'
  BY <1>1 DEF PageFollows, SameShown
<1>5. QueueOrdered'
  <2>1. \A i \in 1..n : Follows(page.shown, page.queue[i].edit)
        /\ \A j \in i..n : Follows(page.queue[j], page.queue[i].edit)
    BY DEF LayoutsInv, QueueOrdered
  <2>2. ASSUME NEW i \in 1..(n - 1)
        PROVE  /\ Follows(page'.shown, page'.queue[i].edit)
               /\ \A j \in i..(n - 1) : Follows(page'.queue[j], page'.queue[i].edit)
    <3>1. \A j \in i..(n - 1) : j \in 1..(n - 1) /\ j + 1 \in (i + 1)..n
      BY <1>0
    <3> QED BY <1>1, <2>1, <3>1 DEF SameShown
  <2> QED BY <1>1, <2>2 DEF QueueOrdered
<1>6. page'.shown.edit <= count'.edits /\ \A i \in 1..Len(page'.queue) : page'.queue[i].edit <= count'.edits
  BY <1>1 DEF LayoutsInv, EditsCounted, SameShown
<1>7. count.edits <= count'.edits /\ call'.doc.edit <= count'.edits
  BY <1>0, <1>2
<1> QED BY <1>2, <1>3, <1>4, <1>5, <1>6, <1>7, PageMoves DEF SameMount

\* The page shows the layout it has loaded, or one that descends from none.
LEMMA HydratesFollow ==
  ASSUME Fits, Fits', LayoutsInv, Hydrate \/ HydrateBlind
  PROVE  LayoutsInv'
<1> USE DEF Fits
<1>0. /\ call.kind = "load" /\ call.done /\ call' = NoCall /\ ~page.hydrated /\ page.queue = << >>
      /\ page.since = count.edits
      /\ UNCHANGED <<file, document, revision, late, acked>>
  BY DEF Hydrate, HydrateBlind, Elsewhere, server, PageFits
<1>1. /\ page'.since = page.since /\ page'.queue = << >> /\ page'.revision \in {call.revision, page.revision}
      /\ \/ page'.shown = call.doc /\ call.ok /\ count' = count
         \/ page'.shown.blind /\ page'.shown.edit = count.edits + 1 /\ count'.edits = count.edits + 1
  <2>1. CASE Hydrate
    BY <1>0, <2>1, PageHydrates DEF Hydrate
  <2>2. CASE HydrateBlind
    <3>1. count'.edits = count.edits + 1
      BY <2>2 DEF HydrateBlind, WorkspaceTypeOK, Count
    <3> QED BY <1>0, <2>2, <3>1, PageHydratesBlind
  <2> QED BY <2>1, <2>2
<1>2. count.edits \in Nat /\ count'.edits \in Nat /\ revision \in Nat /\ Len(page'.queue) = 0
  BY <1>1, CountFields, LayoutTypes
<1>3. count.edits <= count'.edits
  BY <1>1, <1>2
<1>4. call'.kind = "idle" /\ ~call'.done /\ call'.doc.edit = 0
  BY <1>0 DEF NoCall, NewLayout
<1>5. \A e : Told(e)' <=> Told(e)
  BY <1>0, <1>4 DEF Told
<1>6. FilesAgree'
  BY <1>0 DEF LayoutsInv, FilesAgree
<1>7. RevisionsPassed'
  BY <1>0, <1>1, <1>4 DEF LayoutsInv, RevisionsPassed
<1>8. EditsCounted'
  <2>1. \A e \in acked' : e <= count'.edits
    BY <1>0, <1>2, <1>3, LayoutTypes DEF LayoutsInv, EditsCounted
  <2>2. file' # None => file'.edit <= count'.edits
    BY <1>0, <1>2, <1>3, LayoutTypes DEF LayoutsInv, EditsCounted
  <2>3. page'.shown.edit <= count'.edits
    BY <1>0, <1>1, <1>2 DEF LayoutsInv, EditsCounted
  <2>4. \A r \in late' : r.doc.edit <= count'.edits
    BY <1>0, <1>2, <1>3, LayoutTypes DEF LayoutsInv, EditsCounted
  <2> QED BY <1>2, <1>4, <2>1, <2>2, <2>3, <2>4 DEF EditsCounted
<1>9. ToldHeld'
  <2>1. \A e \in Nat : Told(e)' => file' # None
    BY <1>0, <1>5 DEF LayoutsInv, ToldHeld
  <2>2. file' # None => \A e \in Nat : Told(e)' => Follows(file', e)
    BY <1>0, <1>5 DEF LayoutsInv, ToldHeld, Holds
  <2>3. ASSUME NEW e \in Nat, Told(e)'
        PROVE  PageFollows(e)'
    <3>1. Follows(page'.shown, e)
      <4>1. CASE page'.shown.blind
        BY <4>1 DEF Follows
      <4>2. CASE page'.shown = call.doc /\ call.ok
        BY <1>0, <1>5, <2>3, <4>2 DEF LayoutsInv, ToldHeld, Holds
      <4> QED BY <1>1, <4>1, <4>2
    <3> QED BY <1>2, <3>1 DEF PageFollows
  <2>4. \A r \in Saves' : r.revision = revision' => \A e \in Nat : Told(e)' => Follows(r.doc, e)
    BY <1>0, <1>5 DEF LayoutsInv, ToldHeld, Holds, Saves
  <2> QED BY <1>4, <2>1, <2>2, <2>3, <2>4 DEF ToldHeld, Holds
<1>10. OwnHeld'
  <2>1. file' # None => ~Own(file.edit)'
    BY <1>0, <1>1, <1>2, LayoutTypes DEF LayoutsInv, EditsCounted, Own
  <2>2. \A r \in Saves' : ~Own(r.doc.edit)'
    BY <1>0, <1>1, <1>2, LayoutTypes DEF LayoutsInv, EditsCounted, Own, Saves
  <2> QED BY <2>1, <2>2 DEF OwnHeld
<1>11. QueueOrdered'
  BY <1>2 DEF QueueOrdered
<1> QED BY <1>6, <1>7, <1>8, <1>9, <1>10, <1>11 DEF LayoutsInv

LEMMA AnswersFollow ==
  ASSUME Fits, Fits', LayoutsInv, Answers
  PROVE  LayoutsInv'
<1> USE DEF Fits
<1>1. UNCHANGED <<file, document, revision, late>>
  BY DEF Answers, Hydrate, HydrateBlind, AskAnswered, SaveAnswered, Elsewhere, server
<1>2. revision \in Nat /\ page.revision <= revision /\ (call.done => call.revision <= revision)
  BY LayoutTypes DEF LayoutsInv, RevisionsPassed
<1>3. CASE Hydrate \/ HydrateBlind
  BY <1>3, HydratesFollow
<1>4. CASE AskAnswered
  <2>1. SameMount /\ SameShown /\ call.kind = "ask" /\ call.done /\ UNCHANGED <<acked, count>>
    BY <1>4, PageAsked DEF AskAnswered
  <2>2. CASE ~call.ok
    <3>1. page'.queue = Tail(page.queue) /\ page'.revision = page.revision /\ call' = NoCall
      BY <1>4, <2>2, PageAsked
    <3>2. \A e \in acked' : Told(e)
      BY <2>1 DEF Told
    <3> QED BY <1>1, <1>2, <2>1, <3>1, <3>2, QueueShrinks
  <2>3. CASE call.ok
    <3>1. page'.queue = page.queue /\ page'.revision = call.revision /\ call' = LayoutRequest("save")
      BY <1>4, <2>3, PageAsked
    <3>2. ~call'.done /\ call'.kind = "save" /\ call'.doc.edit = 0
      BY <3>1, LayoutRequests DEF NewLayout
    <3>3. \A e \in Nat : Told(e)' => Told(e)
      BY <2>1, <3>2 DEF Told
    <3>4. \A e \in Nat : PageFollows(e) => PageFollows(e)'
      BY <2>1, <3>1 DEF PageFollows, SameShown
    <3>5. QueueOrdered'
      BY <2>1, <3>1 DEF LayoutsInv, QueueOrdered, SameShown
    <3>6. page'.shown.edit <= count'.edits
          /\ \A i \in 1..Len(page'.queue) : page'.queue[i].edit <= count'.edits
      BY <2>1, <3>1 DEF LayoutsInv, EditsCounted, SameShown
    <3>7. count.edits <= count'.edits /\ call'.doc.edit <= count'.edits
      BY <2>1, <3>2, CountFields
    <3>8. page'.revision <= revision
      BY <1>2, <2>1, <3>1
    <3> QED BY <1>1, <2>1, <3>2, <3>3, <3>4, <3>5, <3>6, <3>7, <3>8, PageMoves DEF SameMount
  <2> QED BY <2>2, <2>3
<1>5. CASE SaveAnswered
  <2>1. /\ SameMount /\ SameShown /\ page'.queue = Tail(page.queue)
        /\ page'.revision = IF call.ok THEN call.revision ELSE page.revision
    BY <1>5, PageSaved
  <2>2. call.kind = "save" /\ call.done /\ call' = NoCall /\ count' = count
        /\ acked' = acked \cup IF call.ok /\ Own(Head(page.queue).edit)
                               THEN {Head(page.queue).edit} ELSE {}
    BY <1>5 DEF SaveAnswered
  <2>3. \A e \in acked' : Told(e)
    BY <2>2 DEF Told
  <2>4. page'.revision <= revision
    BY <1>2, <2>1, <2>2
  <2> QED BY <1>1, <2>1, <2>2, <2>3, <2>4, QueueShrinks
<1> QED BY <1>3, <1>4, <1>5 DEF Answers

\* What is left behind by a page was about to be stored by it.
LEMMA MountsFollow ==
  ASSUME Fits, Fits', LayoutsInv, Mounts
  PROVE  LayoutsInv'
<1> USE DEF Fits
<1>1. /\ late' \subseteq Late /\ \A r \in late' : r \in late \/ r \in InFlight
      /\ call' = NoCall
  BY Abandoned DEF Mounts, Login, Leave, Pause
<1>2. call'.kind = "idle" /\ ~call'.done /\ call'.doc.edit = 0
  BY <1>1 DEF NoCall, NewLayout
<1>3. UNCHANGED <<file, document, revision, acked>> /\ count'.edits = count.edits
  BY DEF Mounts, Login, Leave, Pause, server, WorkspaceTypeOK, Count
<1>4. /\ page'.queue = << >>
      /\ \/ /\ page'.revision = 0 /\ page'.since = count.edits /\ ~page'.hydrated
            /\ page'.shown.edit = 0
         \/ /\ page'.revision = page.revision /\ page'.since = page.since
            /\ page'.hydrated = page.hydrated /\ page'.shown = page.shown
  <2>1. CASE Login \/ Leave
    BY <2>1, MountedFields DEF Login, Leave, NewLayout
  <2>2. CASE Pause
    BY <2>2, PagePauses DEF SameShown
  <2> QED BY <2>1, <2>2 DEF Mounts
<1>5. count.edits \in Nat /\ revision \in Nat /\ Len(page'.queue) = 0
  BY <1>4, CountFields, LayoutTypes
<1>6. \A e \in Nat : Told(e)' => Told(e)
  BY <1>2, <1>3 DEF Told
<1>7. ASSUME NEW r \in late'
      PROVE  \/ r \in late
             \/ /\ r.revision = page.revision
                /\ r.doc.edit <= count.edits
                /\ r.kind = "save" => /\ call.kind = "save" /\ page.hydrated
                                      /\ 1 \in 1..Len(page.queue) /\ r.doc = page.queue[1]
  <2>1. CASE r \in InFlight
    <3>1. /\ r.kind = call.kind /\ r.revision = page.revision
          /\ r.kind = "save" => r.doc = Head(page.queue)
          /\ r.kind # "save" => r.doc = NewLayout
      BY <2>1, InFlightTypes
    <3>2. CASE r.kind = "save"
      <4>1. page.hydrated /\ 1 \in 1..Len(page.queue) /\ r.doc = page.queue[1]
        BY <3>1, <3>2, HeadOfQueue
      <4>2. r.doc.edit <= count.edits
        BY <4>1 DEF LayoutsInv, EditsCounted
      <4> QED BY <3>1, <3>2, <4>1, <4>2
    <3>3. CASE r.kind # "save"
      BY <1>5, <3>1, <3>3 DEF NewLayout
    <3> QED BY <3>2, <3>3
  <2> QED BY <1>1, <2>1
<1>8. FilesAgree'
  BY <1>3 DEF LayoutsInv, FilesAgree
<1>9. RevisionsPassed'
  <2>1. \A r \in late' : r.revision <= revision
    BY <1>7 DEF LayoutsInv, RevisionsPassed
  <2> QED BY <1>2, <1>3, <1>4, <1>5, <2>1 DEF LayoutsInv, RevisionsPassed
<1>10. EditsCounted'
  <2>1. \A r \in late' : r.doc.edit <= count.edits
    BY <1>7 DEF LayoutsInv, EditsCounted
  <2> QED BY <1>2, <1>3, <1>4, <1>5, <2>1 DEF LayoutsInv, EditsCounted
<1>11. ToldHeld'
  <2>1. \A e \in Nat : Told(e)' => file' # None
    BY <1>3, <1>6 DEF LayoutsInv, ToldHeld
  <2>2. file' # None => \A e \in Nat : Told(e)' => Follows(file', e)
    BY <1>3, <1>6 DEF LayoutsInv, ToldHeld, Holds
  <2>3. page'.hydrated => \A e \in Nat : Told(e)' => PageFollows(e)'
    <3> SUFFICES ASSUME page'.hydrated, NEW e \in Nat, Told(e)'
                 PROVE  PageFollows(e)'
      OBVIOUS
    <3>1. page.hydrated /\ page'.shown = page.shown
      BY <1>4
    <3>2. Follows(page.shown, e)
      BY <1>6, <3>1 DEF LayoutsInv, ToldHeld, PageFollows
    <3> QED BY <1>5, <3>1, <3>2 DEF PageFollows
  <2>4. ASSUME NEW r \in Saves', r.revision = revision', NEW e \in Nat, Told(e)'
        PROVE  Follows(r.doc, e)
    <3>0. r \in late' /\ r.kind = "save"
      BY DEF Saves
    <3>1. CASE r \in late
      BY <1>3, <1>6, <2>4, <3>0, <3>1 DEF LayoutsInv, ToldHeld, Holds, Saves
    <3>2. CASE page.hydrated /\ 1 \in 1..Len(page.queue) /\ r.doc = page.queue[1]
      BY <1>6, <2>4, <3>2 DEF LayoutsInv, ToldHeld, PageFollows
    <3> QED BY <1>7, <3>0, <3>1, <3>2
  <2> QED BY <1>2, <2>1, <2>2, <2>3, <2>4 DEF ToldHeld, Holds
<1>12. OwnHeld'
  <2>1. CASE page'.since = count.edits
    <3>1. file' # None => ~Own(file.edit)'
      BY <1>3, <1>5, <2>1, LayoutTypes DEF LayoutsInv, EditsCounted, Own
    <3>2. \A r \in Saves' : r.doc.edit \in Nat /\ r.doc.edit <= count.edits
      BY <1>1, <1>3, <1>10, LayoutEdits DEF EditsCounted, Saves, Late
    <3>3. \A r \in Saves' : ~Own(r.doc.edit)'
      BY <1>5, <2>1, <3>2 DEF Own
    <3> QED BY <3>1, <3>3 DEF OwnHeld
  <2>2. CASE page'.since = page.since /\ page'.shown = page.shown
    <3>1. ASSUME NEW e \in Nat, PageFollows(e)
          PROVE  Follows(page'.shown, e) /\ \A i \in 1..Len(page'.queue) : Follows(page'.queue[i], e)
      BY <1>5, <2>2, <3>1 DEF PageFollows
    <3>2. ASSUME file' # None, Own(file.edit)'
          PROVE  /\ PageFollows(file.edit)'
                 /\ \A r \in Saves' : r.revision = revision' => Follows(r.doc, file'.edit)
      <4>1. file # None /\ Own(file.edit) /\ file.edit \in Nat
        BY <1>3, <2>2, <3>2, LayoutTypes DEF Own
      <4>2. PageFollows(file.edit)
            /\ \A r \in Saves : r.revision = revision => Follows(r.doc, file.edit)
        BY <4>1 DEF LayoutsInv, OwnHeld
      <4>3. \A r \in Saves' : r.revision = revision' => Follows(r.doc, file'.edit)
        BY <1>3, <1>7, <4>2 DEF Saves, PageFollows
      <4>4. PageFollows(file.edit)'
        BY <1>3, <3>1, <4>1, <4>2 DEF PageFollows
      <4> QED BY <4>3, <4>4
    <3>3. ASSUME NEW r \in Saves', Own(r.doc.edit)'
          PROVE  PageFollows(r.doc.edit)'
      <4>0. r \in late' /\ r.kind = "save" /\ r.doc.edit \in Nat
        BY <1>1, LayoutEdits DEF Saves, Late
      <4>1. CASE r \in late
        <5>1. PageFollows(r.doc.edit)
          BY <2>2, <3>3, <4>0, <4>1 DEF LayoutsInv, OwnHeld, Saves, Own
        <5> QED BY <3>1, <4>0, <5>1 DEF PageFollows
      <4>2. CASE 1 \in 1..Len(page.queue) /\ r.doc = page.queue[1]
        <5>1. PageFollows(r.doc.edit)
          BY <4>2 DEF LayoutsInv, QueueOrdered, PageFollows
        <5> QED BY <3>1, <4>0, <5>1 DEF PageFollows
      <4> QED BY <1>7, <4>0, <4>1, <4>2
    <3> QED BY <3>2, <3>3 DEF OwnHeld
  <2> QED BY <1>4, <2>1, <2>2
<1>13. QueueOrdered'
  BY <1>5 DEF QueueOrdered
<1> QED BY <1>8, <1>9, <1>10, <1>11, <1>12, <1>13 DEF LayoutsInv

LEMMA RestartFollows ==
  ASSUME Fits, Fits', LayoutsInv, Restart
  PROVE  LayoutsInv'
<1> USE DEF Fits
<1>1. /\ page' = Mounted("out", count.edits) /\ document' = None /\ revision' = 0
      /\ call' = NoCall /\ late' = {} /\ UNCHANGED <<file, acked>>
      /\ count'.edits = count.edits
  BY DEF Restart, WorkspaceTypeOK, Count
<1>2. /\ call'.kind = "idle" /\ ~call'.done /\ call'.doc.edit = 0
      /\ page'.since = count.edits /\ page'.queue = << >> /\ page'.revision = 0 /\ ~page'.hydrated
      /\ page'.shown.edit = 0
  BY <1>1, MountedFields DEF NoCall, NewLayout
<1>3. count.edits \in Nat /\ Len(page'.queue) = 0
  BY <1>2, CountFields
<1>4. \A e \in Nat : Told(e)' => Told(e)
  BY <1>1, <1>2 DEF Told
<1>5. FilesAgree' /\ RevisionsPassed' /\ QueueOrdered'
  BY <1>1, <1>2, <1>3 DEF FilesAgree, RevisionsPassed, QueueOrdered
<1>6. EditsCounted'
  BY <1>1, <1>2, <1>3 DEF LayoutsInv, EditsCounted
<1>7. ToldHeld'
  <2>1. Saves' = {}
    BY <1>1 DEF Saves
  <2>2. \A e \in Nat : Told(e)' => file' # None
    BY <1>1, <1>4 DEF LayoutsInv, ToldHeld
  <2>3. file' # None => \A e \in Nat : Told(e)' => Follows(file', e)
    BY <1>1, <1>4 DEF LayoutsInv, ToldHeld, Holds
  <2> QED BY <1>2, <2>1, <2>2, <2>3 DEF ToldHeld, Holds
<1>8. OwnHeld'
  <2>1. Saves' = {}
    BY <1>1 DEF Saves
  <2>2. file' # None => ~Own(file.edit)'
    BY <1>1, <1>2, <1>3, LayoutTypes DEF LayoutsInv, EditsCounted, Own
  <2> QED BY <2>1, <2>2 DEF OwnHeld
<1> QED BY <1>5, <1>6, <1>7, <1>8 DEF LayoutsInv

-----------------------------------------------------------------------------
(* The server. *)

\* A layout that is read keeps its edit; a request that waits for a revision
\* that has passed is refused.
LEMMA ReadsFollow ==
  ASSUME Fits, Fits', LayoutsInv, NEW o, Loaded(o), file' = o.file, document' = o.document,
         revision' = o.revision, page' = page, acked' = acked, late' \subseteq late,
         count'.edits = count.edits,
         call' = call \/ (/\ call.kind # "save" /\ call'.kind = call.kind
                          /\ call'.revision = o.answer.revision /\ call'.doc = o.answer.doc
                          /\ call'.ok = o.answer.ok)
  PROVE  LayoutsInv'
<1> USE DEF Fits
<1>0. /\ revision \in Nat /\ count.edits \in Nat /\ page.since \in Nat
      /\ revision' \in {revision, revision + 1}
  BY LayoutTypes, CountFields, PageFields DEF Loaded
<1>1. /\ document' # None /\ file' # None
      /\ document'.edit = file'.edit /\ document'.seen = file'.seen /\ document'.blind = file'.blind
      /\ \/ /\ file # None /\ file'.edit = file.edit /\ file'.seen = file.seen
            /\ file'.blind = file.blind
         \/ file = None /\ file'.edit = 0
  <2>1. Keeps(o.document, First) /\ o.document # None
    BY NoneAssumption DEF Loaded, Keeps
  <2>2. CASE document # None
    <3>1. First = document /\ file # None /\ document.edit = file.edit
          /\ document.seen = file.seen /\ document.blind = file.blind
      BY <2>2 DEF First, LayoutsInv, FilesAgree
    <3>2. o.file = file \/ (Keeps(o.file, First) /\ o.file # None)
      BY NoneAssumption DEF Loaded, Keeps
    <3> QED BY <2>1, <3>1, <3>2 DEF Keeps
  <2>3. CASE document = None
    <3>1. Keeps(o.file, First) /\ o.file # None
      BY <2>3, NoneAssumption DEF Loaded, Keeps
    <3>2. CASE file # None
      BY <2>1, <2>3, <3>1, <3>2 DEF First, Keeps
    <3>3. CASE file = None
      BY <2>1, <2>3, <3>1, <3>3 DEF First, Keeps, NewLayout
    <3> QED BY <3>2, <3>3
  <2> QED BY <2>2, <2>3
<1>2. \A e : Told(e)' <=> Told(e)
  BY DEF Told, Own
<1>3. \A e \in Nat : Told(e) => file # None /\ Follows(file', e)
  BY <1>1 DEF LayoutsInv, ToldHeld, Holds, Follows
<1>4. \A r \in late' : r.revision = revision' => r.revision = revision
  BY <1>0, LayoutTypes DEF LayoutsInv, RevisionsPassed
<1>5. call' # call => \/ call'.ok = FALSE /\ call'.revision = 0 /\ call'.doc = NewLayout
                      \/ call'.revision = revision' /\ call'.doc = document'
  BY AnswerFields DEF Loaded
<1>6. FilesAgree'
  BY <1>1 DEF FilesAgree
<1>7. RevisionsPassed'
  BY <1>0, <1>5, LayoutTypes, PageFields, CallFields DEF LayoutsInv, RevisionsPassed
<1>8. EditsCounted'
  <2>1. file'.edit <= count'.edits
    BY <1>0, <1>1 DEF LayoutsInv, EditsCounted
  <2>2. call'.doc.edit <= count'.edits
    BY <1>0, <1>1, <1>5, <2>1 DEF LayoutsInv, EditsCounted, NewLayout
  <2> QED BY <2>1, <2>2 DEF LayoutsInv, EditsCounted
<1>9. ToldHeld'
  <2>1. page'.hydrated => \A e \in Nat : Told(e)' => PageFollows(e)'
    BY <1>2 DEF LayoutsInv, ToldHeld, PageFollows
  <2>2. ASSUME call'.kind = "load", call'.done, call'.ok, NEW e \in Nat, Told(e)'
        PROVE  Follows(call'.doc, e)
    <3>1. CASE call' = call
      BY <1>2, <2>2, <3>1 DEF LayoutsInv, ToldHeld, Holds
    <3>2. CASE call'.doc = document'
      BY <1>1, <1>2, <1>3, <2>2, <3>2 DEF Follows
    <3> QED BY <1>5, <2>2, <3>1, <3>2
  <2>3. \A r \in Saves' : r.revision = revision' => \A e \in Nat : Told(e)' => Follows(r.doc, e)
    BY <1>2, <1>4 DEF LayoutsInv, ToldHeld, Holds, Saves
  <2> QED BY <1>1, <1>2, <1>3, <2>1, <2>2, <2>3 DEF ToldHeld, Holds
<1>10. OwnHeld'
  <2>1. ASSUME Own(file.edit)'
        PROVE  /\ PageFollows(file.edit)'
               /\ \A r \in Saves' : r.revision = revision' => Follows(r.doc, file'.edit)
    <3>1. file # None /\ file'.edit = file.edit
      BY <1>0, <1>1, <2>1 DEF Own
    <3>2. PageFollows(file.edit)
          /\ \A r \in Saves : r.revision = revision => Follows(r.doc, file.edit)
      BY <2>1, <3>1 DEF LayoutsInv, OwnHeld, Own
    <3> QED BY <1>4, <3>1, <3>2 DEF PageFollows, Saves
  <2>2. \A r \in Saves' : Own(r.doc.edit)' => PageFollows(r.doc.edit)'
    BY DEF LayoutsInv, OwnHeld, PageFollows, Own, Saves
  <2> QED BY <2>1, <2>2 DEF OwnHeld
<1>11. QueueOrdered'
  BY DEF LayoutsInv, QueueOrdered
<1> QED BY <1>6, <1>7, <1>8, <1>9, <1>10, <1>11 DEF LayoutsInv

\* A layout is stored: everything that waits for its revision waits in vain.
LEMMA StoresFollow ==
  ASSUME Fits, Fits', LayoutsInv, NEW doc \in Layout, file' = doc, document' = doc,
         revision' = revision + 1, page' = page, acked' = acked, late' \subseteq late,
         count'.edits = count.edits, doc.edit <= count.edits,
         \A e \in Nat : Told(e) => Follows(doc, e),
         Own(doc.edit) => PageFollows(doc.edit),
         \A e \in Nat : Told(e)' => Told(e) \/ (e = doc.edit /\ Own(e) /\ page.hydrated),
         call'.kind = call.kind, call' = call \/ call.kind = "save",
         call'.done => call'.revision <= revision + 1, call'.doc.edit <= count.edits
  PROVE  LayoutsInv'
<1> USE DEF Fits
<1>0. revision \in Nat /\ doc # None /\ doc.edit \in Nat /\ page.revision \in Nat
  BY LayoutTypes, NoneAssumption, LayoutEdits, PageFields
<1>1. \A r \in late' : r.revision <= revision' /\ r.revision # revision'
  BY <1>0, LayoutTypes DEF LayoutsInv, RevisionsPassed
<1>2. FilesAgree'
  BY <1>0 DEF FilesAgree
<1>3. RevisionsPassed'
  BY <1>0, <1>1 DEF LayoutsInv, RevisionsPassed
<1>4. EditsCounted'
  BY DEF LayoutsInv, EditsCounted
<1>5. \A e : PageFollows(e)' <=> PageFollows(e)
  BY DEF PageFollows
<1>6. ToldHeld'
  <2>1. \A e \in Nat : Told(e)' => Follows(doc, e)
    BY FollowsItself
  <2>2. page'.hydrated => \A e \in Nat : Told(e)' => PageFollows(e)'
    BY <1>5 DEF LayoutsInv, ToldHeld
  <2>3. call'.kind = "load" => call' = call /\ \A e \in Nat : Told(e)' => Told(e)
    BY DEF Told, Own
  <2>4. call'.kind = "load" /\ call'.done /\ call'.ok => \A e \in Nat : Told(e)' => Follows(call'.doc, e)
    BY <2>3 DEF LayoutsInv, ToldHeld, Holds
  <2> QED BY <1>0, <1>1, <2>1, <2>2, <2>4 DEF ToldHeld, Holds, Saves
<1>7. OwnHeld'
  <2>1. Own(file.edit)' => PageFollows(file.edit)'
    BY <1>5 DEF Own
  <2>2. \A r \in Saves' : Own(r.doc.edit)' => PageFollows(r.doc.edit)'
    BY <1>5 DEF LayoutsInv, OwnHeld, Own, Saves
  <2> QED BY <1>1, <2>1, <2>2 DEF OwnHeld, Saves
<1>8. QueueOrdered'
  BY DEF LayoutsInv, QueueOrdered
<1> QED BY <1>2, <1>3, <1>4, <1>6, <1>7, <1>8 DEF LayoutsInv

\* Nothing changes but the answer, which tells the page of no layout.
LEMMA RefusalsFollow ==
  ASSUME Fits, Fits', LayoutsInv, NEW o, Put(o), Refused(o) \/ (\E doc : Confirmed(o, doc)),
         UNCHANGED <<page, acked>>, late' \subseteq late,
         call' = call \/ (~call'.ok /\ call'.revision = 0 /\ call'.doc = NewLayout)
  PROVE  LayoutsInv'
<1>1. UNCHANGED <<file, document, revision>>
  BY DEF Put, Refused, Confirmed
<1>2. count'.edits = count.edits
  BY PutCounts DEF Fits
<1> QED BY <1>1, <1>2, SamePageMoves DEF SameShown, SameStore

LEMMA LateFollows ==
  ASSUME Fits, Fits', LayoutsInv, LandLate
  PROVE  LayoutsInv'
<1> USE DEF Fits
<1>0. PICK r \in late : \E o \in Handle(r.kind, r.revision, r.doc) :
        /\ Put(o) /\ late' = late \ {r}
        /\ UNCHANGED <<sessions, openings, login, page, panes, call, draftCall, lateDraft, acked>>
  BY DEF LandLate
<1>1. PICK o \in Handle(r.kind, r.revision, r.doc) :
        /\ Put(o) /\ late' = late \ {r}
        /\ UNCHANGED <<sessions, openings, login, page, panes, call, draftCall, lateDraft, acked>>
  BY <1>0
<1>2. r.doc \in Layout /\ r.doc.edit \in Nat
  BY LayoutTypes
<1>3. /\ file' = o.file /\ document' = o.document /\ revision' = o.revision
      /\ count'.edits = count.edits
  BY <1>1, PutCounts DEF Put
<1>4. CASE Refused(o) \/ Confirmed(o, r.doc)
  BY <1>1, <1>4, RefusalsFollow
<1>5. CASE Loaded(o)
  BY <1>1, <1>3, <1>5, ReadsFollow
<1>6. CASE r.kind = "save" /\ r.revision = revision /\ Stored(o, r.doc)
  <2>1. r \in Saves
    BY <1>6 DEF Saves
  <2>2. \A e \in Nat : Told(e) => Follows(r.doc, e)
    BY <1>6, <2>1 DEF LayoutsInv, ToldHeld, Holds
  <2>3. Own(r.doc.edit) => PageFollows(r.doc.edit)
    BY <2>1 DEF LayoutsInv, OwnHeld
  <2>4. \A e \in Nat : Told(e)' => Told(e)
    BY <1>1 DEF Told, Own
  <2>5. r.doc.edit <= count.edits /\ call'.doc.edit <= count.edits
    BY <1>1 DEF LayoutsInv, EditsCounted
  <2>6. call'.done => call'.revision <= revision + 1
    BY <1>1, LayoutTypes, CallFields DEF LayoutsInv, RevisionsPassed
  <2>7. file' = r.doc /\ document' = r.doc /\ revision' = revision + 1
    BY <1>3, <1>6 DEF Stored
  <2> QED BY <1>1, <1>2, <1>3, <2>2, <2>3, <2>4, <2>5, <2>6, <2>7, StoresFollow
<1> QED BY <1>1, <1>2, <1>4, <1>5, <1>6, HandleOutcomes

\* The page is about to be told of a layout that everything it shows, and
\* everything that waits to be stored, descends from.
LEMMA CallFollows ==
  ASSUME Fits, Fits', LayoutsInv, LandCall
  PROVE  LayoutsInv'
<1> USE DEF Fits
<1>1. PICK o \in Handle(call.kind, page.revision, Carried) :
        /\ Put(o)
        /\ call' = [kind |-> call.kind, done |-> TRUE, ok |-> o.answer.ok,
                    revision |-> o.answer.revision, doc |-> o.answer.doc]
        /\ UNCHANGED <<sessions, openings, login, page, panes, draftCall, late, lateDraft, acked>>
  BY DEF LandCall, Carried
<1>2. /\ file' = o.file /\ document' = o.document /\ revision' = o.revision
      /\ count'.edits = count.edits /\ ~call.done
  BY <1>1, PutCounts DEF Put, LandCall
<1>3. /\ call'.kind = call.kind /\ call'.done /\ call'.ok = o.answer.ok
      /\ call'.revision = o.answer.revision /\ call'.doc = o.answer.doc
  BY <1>1
<1>4. count.edits \in Nat /\ revision \in Nat
  BY CountFields, LayoutTypes
<1>5. CASE Refused(o)
  <2>1. ~call'.ok /\ call'.revision = 0 /\ call'.doc = NewLayout
    BY <1>3, <1>5, AnswerFields DEF Refused
  <2> QED BY <1>1, <1>5, <2>1, RefusalsFollow
<1>6. CASE call.kind # "save" /\ Loaded(o)
  BY <1>1, <1>2, <1>3, <1>6, ReadsFollow
<1>7. ASSUME call.kind = "save", page.revision = revision
      PROVE  /\ page.hydrated /\ 1 \in 1..Len(page.queue) /\ Carried = page.queue[1]
             /\ Carried \in Layout /\ Carried.edit \in Nat /\ Carried.edit <= count.edits
             /\ PageFollows(Carried.edit)
             /\ \A e \in Nat : Told(e) => Follows(Carried, e)
             /\ \A e \in Nat : Told(e)' => Told(e) \/ (e = Carried.edit /\ Own(e))
  <2>1. /\ page.hydrated /\ 1 \in 1..Len(page.queue) /\ Carried = page.queue[1]
        /\ Head(page.queue) = page.queue[1] /\ Carried \in Layout /\ Carried.edit \in Nat
    BY <1>7, HeadOfQueue
  <2>2. PageFollows(Carried.edit) /\ Carried.edit <= count.edits
    BY <2>1 DEF LayoutsInv, QueueOrdered, EditsCounted, PageFollows
  <2>3. \A e \in Nat : Told(e) => Follows(Carried, e)
    BY <2>1 DEF LayoutsInv, ToldHeld, PageFollows
  <2>4. \A e \in Nat : Told(e)' => Told(e) \/ (e = Carried.edit /\ Own(e))
    BY <1>1, <2>1 DEF Told, Own
  <2> QED BY <2>1, <2>2, <2>3, <2>4
<1>8. CASE call.kind = "save" /\ page.revision = revision /\ Stored(o, Carried)
  <2>1. file' = Carried /\ document' = Carried /\ revision' = revision + 1
    BY <1>2, <1>8 DEF Stored
  <2>2. call'.revision = revision + 1 /\ call'.doc = NewLayout
    BY <1>3, <1>8, AnswerFields DEF Stored
  <2>3. call'.revision <= revision + 1 /\ call'.doc.edit <= count.edits
    BY <1>4, <2>2 DEF NewLayout
  <2>4. \A e \in Nat : Told(e)' => Told(e) \/ (e = Carried.edit /\ Own(e) /\ page.hydrated)
    BY <1>7, <1>8
  <2> QED BY <1>1, <1>2, <1>3, <1>7, <1>8, <2>1, <2>3, <2>4, StoresFollow
<1>9. CASE call.kind = "save" /\ page.revision = revision /\ Confirmed(o, Carried)
  <2>1. UNCHANGED <<file, document, revision>> /\ file # None /\ Carried.edit = file.edit
    BY <1>2, <1>9 DEF Confirmed, LayoutsInv, FilesAgree
  <2>2. call'.revision = revision /\ call'.doc = NewLayout
    BY <1>3, <1>9, AnswerFields DEF Confirmed
  <2>3. FilesAgree' /\ QueueOrdered'
    BY <1>1, <2>1 DEF LayoutsInv, FilesAgree, QueueOrdered
  <2>4. RevisionsPassed'
    BY <1>1, <1>4, <2>1, <2>2 DEF LayoutsInv, RevisionsPassed
  <2>5. EditsCounted'
    BY <1>1, <1>2, <1>4, <2>1, <2>2 DEF LayoutsInv, EditsCounted, NewLayout
  <2>6. \A e : PageFollows(e)' <=> PageFollows(e)
    BY <1>1 DEF PageFollows
  <2>7. \A e \in Nat : Told(e)' => Told(e) \/ (e = file.edit /\ Own(e))
    BY <1>7, <1>9, <2>1
  <2>8. ToldHeld'
    <3>1. \A e \in Nat : Told(e)' => Follows(file, e)
      BY <2>1, <2>7, FollowsItself DEF LayoutsInv, ToldHeld, Holds
    <3>2. \A e \in Nat : Told(e)' => PageFollows(e)'
      BY <1>7, <1>9, <2>1, <2>6, <2>7 DEF LayoutsInv, ToldHeld
    <3>3. ASSUME NEW r \in Saves', r.revision = revision', NEW e \in Nat, Told(e)'
          PROVE  Follows(r.doc, e)
      <4>1. r \in Saves /\ r.revision = revision
        BY <1>1, <2>1, <3>3 DEF Saves
      <4>2. CASE Told(e)
        BY <4>1, <4>2 DEF LayoutsInv, ToldHeld, Holds
      <4>3. CASE e = file.edit /\ Own(e)
        BY <2>1, <4>1, <4>3 DEF LayoutsInv, OwnHeld
      <4> QED BY <2>7, <3>3, <4>2, <4>3
    <3> QED BY <1>3, <1>9, <2>1, <3>1, <3>2, <3>3 DEF ToldHeld, Holds
  <2>9. OwnHeld'
    BY <1>1, <2>1, <2>6 DEF LayoutsInv, OwnHeld, Own, Saves
  <2> QED BY <2>3, <2>4, <2>5, <2>8, <2>9 DEF LayoutsInv
<1> QED BY <1>1, <1>5, <1>6, <1>8, <1>9, CarriedTypes, HandleOutcomes

LEMMA LayoutsInvKept ==
  ASSUME Fits, Fits', LayoutsInv, [WorkspaceNext]_workspaceVars
  PROVE  LayoutsInv'
<1> USE DEF Fits
<1>1. CASE Mounts
  BY <1>1, MountsFollow
<1>2. CASE Resume
  <2>1. SameShown /\ SameStore /\ page'.hydrated = page.hydrated /\ page'.since = page.since
    BY <1>2, PageResumes
  <2>2. UNCHANGED <<file, document, revision, acked, late, call, count>>
    BY <1>2 DEF Resume, requests, server
  <2> QED BY <2>1, <2>2, SamePageMoves
<1>3. CASE Restart
  BY <1>3, RestartFollows
<1>4. CASE LandLate \/ LandCall
  BY <1>4, LateFollows, CallFollows
<1>5. CASE Requests
  BY <1>5, RequestsFollow
<1>6. CASE Answers
  BY <1>6, AnswersFollow
<1>7. CASE Edits
  BY <1>7, EditsFollow
<1>8. CASE (\E f \in Files : DraftStep(f)) \/ LandLateDraft
  <2>1. AboutDrafts
    BY <1>8, StepsAboutDrafts
  <2> QED BY <2>1, SamePageMoves DEF AboutDrafts, SameShown, SameStore
<1>9. CASE (\E b \in Blocks : StartOpen(b)) \/ (\E o \in openings : Goes(o))
  <2>1. AboutSessions
    BY <1>9, OpeningStarts, OpeningGoes
  <2> QED BY <2>1, SamePageMoves DEF AboutSessions, SameShown, SameStore
<1>10. CASE UNCHANGED workspaceVars
  BY <1>10, SamePageMoves DEF workspaceVars, requests, server, SameShown, SameStore
<1> QED BY <1>1, <1>2, <1>3, <1>4, <1>5, <1>6, <1>7, <1>8, <1>9, <1>10, WorkspaceSteps

LEMMA LayoutsInvInit ==
  ASSUME WorkspaceInit
  PROVE  LayoutsInv
<1>1. /\ file = None /\ document = None /\ revision = 0 /\ page = Mounted("out", 0)
      /\ call = NoCall /\ late = {} /\ acked = {} /\ count.edits = 0
  BY DEF WorkspaceInit
<1>2. /\ page.queue = << >> /\ Len(page.queue) = 0 /\ ~page.hydrated /\ page.revision = 0
      /\ page.shown.edit = 0 /\ call.kind = "idle" /\ ~call.done /\ call.doc.edit = 0
  BY <1>1, MountedFields DEF NoCall, NewLayout
<1>3. FilesAgree /\ RevisionsPassed /\ QueueOrdered /\ EditsCounted
  BY <1>1, <1>2 DEF FilesAgree, RevisionsPassed, QueueOrdered, EditsCounted
<1>4. ToldHeld /\ OwnHeld
  BY <1>1, <1>2 DEF ToldHeld, OwnHeld, Told, Saves
<1> QED BY <1>3, <1>4 DEF LayoutsInv

\* The file changes only when the server reads, writes or recovers it.
LEMMA FileDescends ==
  ASSUME Fits, LayoutsInv, LandLate \/ LandCall,
         file # None, file'.edit # file.edit, file.edit \in acked
  PROVE  file'.blind \/ file.edit \in file'.seen
<1> USE DEF Fits
<1>0. file.edit \in Nat /\ Told(file.edit)
  BY LayoutTypes DEF Told
<1>1. ASSUME NEW o, Put(o), Refused(o) \/ Loaded(o) \/ \E doc : Confirmed(o, doc)
      PROVE  FALSE
  <2>1. CASE Loaded(o)
    <3>1. First.edit = file.edit
      BY DEF First, LayoutsInv, FilesAgree
    <3> QED BY <1>1, <2>1, <3>1 DEF Put, Loaded, Keeps
  <2>2. CASE Refused(o) \/ \E doc : Confirmed(o, doc)
    BY <1>1, <2>2 DEF Put, Refused, Confirmed
  <2> QED BY <1>1, <2>1, <2>2
<1>2. ASSUME NEW doc, NEW o, Put(o), Stored(o, doc), Follows(doc, file.edit)
      PROVE  file'.blind \/ file.edit \in file'.seen
  BY <1>2 DEF Put, Stored, Follows
<1>3. CASE LandLate
  <2>0. PICK r \in late : \E o \in Handle(r.kind, r.revision, r.doc) : Put(o)
    BY <1>3 DEF LandLate
  <2>1. PICK o \in Handle(r.kind, r.revision, r.doc) : Put(o)
    BY <2>0
  <2>2. r.doc \in Layout
    BY LayoutTypes
  <2>3. r.kind = "save" /\ r.revision = revision /\ Stored(o, r.doc)
    BY <1>1, <2>1, <2>2, HandleOutcomes
  <2>4. Follows(r.doc, file.edit)
    BY <1>0, <2>3 DEF LayoutsInv, ToldHeld, Holds, Saves
  <2> QED BY <1>2, <2>1, <2>3, <2>4
<1>4. CASE LandCall
  <2>1. PICK o \in Handle(call.kind, page.revision, Carried) : Put(o)
    BY <1>4 DEF LandCall, Carried
  <2>2. call.kind = "save" /\ Stored(o, Carried)
    BY <1>1, <2>1, CarriedTypes, HandleOutcomes
  <2>3. page.hydrated /\ 1 \in 1..Len(page.queue) /\ Carried = page.queue[1]
    BY <2>2, HeadOfQueue
  <2>4. Follows(Carried, file.edit)
    BY <1>0, <2>3 DEF LayoutsInv, ToldHeld, PageFollows
  <2> QED BY <1>2, <2>1, <2>2, <2>4
<1> QED BY <1>3, <1>4

\* A layout the page that made it was told is stored is replaced only by one
\* that descends from it, whichever requests of gone pages land in between
\* (save_workspace and its revision, the question after a pause).
THEOREM LayoutsKeepDescending == WorkspaceSpec => LayoutsDescend
<1> DEFINE Descends == file # None /\ file'.edit # file.edit /\ file.edit \in acked
                         => file'.blind \/ file.edit \in file'.seen
<1>1. WorkspaceInit => Fits /\ LayoutsInv
  BY FitsInit, LayoutsInvInit
<1>2. Fits /\ LayoutsInv /\ [WorkspaceNext]_workspaceVars => (Fits /\ LayoutsInv)'
  BY FitsKept, LayoutsInvKept
<1>3. Fits /\ LayoutsInv /\ [WorkspaceNext]_workspaceVars => [Descends]_workspaceVars
  <2> SUFFICES ASSUME Fits, LayoutsInv, [WorkspaceNext]_workspaceVars
               PROVE  Descends
    BY DEF Descends
  <2>1. CASE LandLate \/ LandCall
    BY <2>1, FileDescends
  <2>2. CASE file' = file
    BY <2>2
  <2>3. ~(LandLate \/ LandCall) => file' = file
    <3>1. CASE Mounts \/ Resume \/ Restart
      BY <3>1 DEF Mounts, Login, Leave, Pause, Resume, Restart, server
    <3>2. CASE Requests \/ Answers \/ Edits
      BY <3>2 DEF Requests, StartLoad, LoseCall, StartSave, Answers, Hydrate, HydrateBlind,
                  AskAnswered, SaveAnswered, Edits, Rearrange, ListForClose, DestroyForClose,
                  RemoveBlock, Enqueue, AddBlock, BeginClose, Elsewhere, server
    <3>3. CASE (\E f \in Files : DraftStep(f)) \/ LandLateDraft
      BY <3>3, StepsAboutDrafts DEF AboutDrafts, Fits
    <3>4. CASE (\E b \in Blocks : StartOpen(b)) \/ (\E o \in openings : Goes(o))
      BY <3>4, OpeningStarts, OpeningGoes DEF AboutSessions, Fits
    <3>5. CASE UNCHANGED workspaceVars
      BY <3>5 DEF workspaceVars, server
    <3> QED BY <3>1, <3>2, <3>3, <3>4, <3>5, WorkspaceSteps DEF Fits
  <2> QED BY <2>1, <2>2, <2>3
<1> QED BY <1>1, <1>2, <1>3, PTL DEF WorkspaceSpec, LayoutsDescend

-----------------------------------------------------------------------------
(* Blocks have been drawn, and a block the page has closed is not shown. *)

\* A block is chosen to be closed among those shown.
LEMMA ClosingSteps ==
  ASSUME WorkspaceTypeOK, WorkspaceNext
  PROVE  page'.closing \in {page.closing, None} \cup page.shown.blocks
<1>0. page \in Page
  BY DEF WorkspaceTypeOK
<1>1. CASE Login \/ Leave \/ Restart
  BY <1>1 DEF Login, Leave, Restart, Mounted
<1>2. CASE Pause \/ Resume
  BY <1>0, <1>2 DEF Pause, Resume, Page
<1>3. CASE LandLate \/ LandCall \/ Requests
  BY <1>3 DEF LandLate, LandCall, Requests, StartLoad, LoseCall, StartSave
<1>4. CASE Hydrate
  BY <1>0, <1>4 DEF Hydrate, Page
<1>5. CASE HydrateBlind
  BY <1>0, <1>5 DEF HydrateBlind, Page
<1>6. CASE AskAnswered \/ SaveAnswered
  BY <1>0, <1>6 DEF AskAnswered, SaveAnswered, Page
<1>7. CASE Enqueue \/ Rearrange \/ \E b \in Blocks : AddBlock(b)
  BY <1>0, <1>7 DEF Enqueue, Rearrange, AddBlock, Page
<1>8. CASE RemoveBlock
  BY <1>0, <1>8 DEF RemoveBlock, Page
<1>9. CASE ListForClose \/ DestroyForClose
  BY <1>0, <1>9 DEF ListForClose, DestroyForClose, Page
<1>10. ASSUME NEW b \in Blocks, BeginClose(b)
       PROVE  page'.closing \in {page.closing, None} \cup page.shown.blocks
  BY <1>0, <1>10 DEF BeginClose, Page
<1>11. CASE (\E f \in Files : DraftStep(f)) \/ LandLateDraft
  BY <1>11, StepsAboutDrafts DEF AboutDrafts
<1>12. CASE (\E b \in Blocks : StartOpen(b)) \/ (\E o \in openings : Goes(o))
  BY <1>12, OpeningStarts, OpeningGoes DEF AboutSessions
<1> QED BY <1>1, <1>2, <1>3, <1>4, <1>5, <1>6, <1>7, <1>8, <1>9, <1>10, <1>11, <1>12, WorkspaceSteps
        DEF Mounts, Answers, Edits

\* What a page shows, stores and asks for, without the page.
PageDrawn ==
  /\ page.shown.blocks \subseteq count.drawn
  /\ \A i \in 1..Len(page.queue) : page.queue[i].blocks \subseteq count.drawn
  /\ page.closed \subseteq count.drawn /\ page.closed \cap page.shown.blocks = {}
  /\ ~page.hydrated => page.closed = {}
ServerDrawn ==
  /\ file # None => file.blocks \subseteq count.drawn
  /\ document # None => document.blocks \subseteq count.drawn
  /\ sessions \subseteq count.drawn
  /\ call.doc.blocks \subseteq count.drawn
  /\ \A r \in late : r.doc.blocks \subseteq count.drawn
  /\ \A o \in openings : o.block \in count.drawn
ClosingDrawn == page.closing # None => page.closing \in count.drawn

LEMMA DrawnParts == BlocksDrawn <=> PageDrawn /\ ServerDrawn /\ ClosingDrawn
BY DEF BlocksDrawn, PageDrawn, ServerDrawn, ClosingDrawn

LEMMA ClosingKept ==
  ASSUME WorkspaceTypeOK, BlocksDrawn, [WorkspaceNext]_workspaceVars,
         count.drawn \subseteq count'.drawn
  PROVE  ClosingDrawn'
<1>1. CASE WorkspaceNext
  BY <1>1, ClosingSteps DEF BlocksDrawn, ClosingDrawn
<1>2. CASE UNCHANGED workspaceVars
  BY <1>2 DEF BlocksDrawn, ClosingDrawn, workspaceVars
<1> QED BY <1>1, <1>2

LEMMA DrawnMounts ==
  ASSUME Fits, BlocksDrawn, Mounts \/ Restart
  PROVE  PageDrawn' /\ ServerDrawn' /\ count'.drawn = count.drawn
<1> USE DEF Fits
<1>1. count'.drawn = count.drawn
  BY DEF Mounts, Login, Leave, Pause, Restart, WorkspaceTypeOK, Count
<1>2. /\ page'.queue = << >> /\ Len(page'.queue) = 0
      /\ \/ page'.shown.blocks = {} /\ page'.closed = {}
         \/ SameShown /\ page'.hydrated = page.hydrated
  <2>1. CASE Login \/ Leave \/ Restart
    BY <2>1, MountedFields DEF Login, Leave, Restart, NewLayout
  <2>2. CASE Pause
    BY <2>2, PagePauses
  <2> QED BY <2>1, <2>2 DEF Mounts
<1>3. PageDrawn'
  BY <1>1, <1>2 DEF PageDrawn, BlocksDrawn, SameShown
<1>4. CASE Restart
  <2>1. /\ document' = None /\ sessions' = {} /\ openings' = {} /\ call' = NoCall /\ late' = {}
        /\ file' = file
    BY <1>4 DEF Restart
  <2>2. call'.doc.blocks = {}
    BY <2>1 DEF NoCall, NewLayout
  <2>3. ServerDrawn'
    BY <1>1, <2>1, <2>2 DEF ServerDrawn, BlocksDrawn
  <2> QED BY <1>1, <1>3, <2>3
<1>5. CASE Mounts
  <2>1. /\ \A r \in late' : r \in late \/ r \in InFlight
        /\ call' = NoCall
        /\ \A o \in openings' : \E p \in openings : o.block = p.block
    BY <1>5, Abandoned DEF Mounts, Login, Leave, Pause
  <2>2. UNCHANGED <<file, document, sessions>>
    BY <1>5 DEF Mounts, Login, Leave, Pause, server
  <2>3. call'.doc.blocks = {}
    BY <2>1 DEF NoCall, NewLayout
  <2>4. ASSUME NEW r \in InFlight
        PROVE  r.doc.blocks \subseteq count.drawn
    <3>1. CASE r.kind = "save"
      BY <3>1, InFlightTypes, HeadOfQueue DEF BlocksDrawn
    <3>2. CASE r.kind # "save"
      BY <3>2, InFlightTypes DEF NewLayout
    <3> QED BY <3>1, <3>2
  <2>5. \A r \in late' : r.doc.blocks \subseteq count.drawn
    BY <2>1, <2>4 DEF BlocksDrawn
  <2>6. ServerDrawn'
    BY <1>1, <2>1, <2>2, <2>3, <2>5 DEF ServerDrawn, BlocksDrawn
  <2> QED BY <1>1, <1>3, <2>6
<1> QED BY <1>4, <1>5

\* What is stored or answered holds blocks of a layout, or of sessions.
LEMMA OutcomesDrawn ==
  ASSUME Fits, BlocksDrawn, NEW k, NEW x, NEW doc \in Layout, doc.blocks \subseteq count.drawn,
         NEW o \in Handle(k, x, doc)
  PROVE  /\ o.file # None => o.file.blocks \subseteq count.drawn
         /\ o.document # None => o.document.blocks \subseteq count.drawn
         /\ o.answer.doc.blocks \subseteq count.drawn
<1> USE DEF Fits
<1>0. /\ First.blocks \subseteq count.drawn /\ NewLayout.blocks = {}
      /\ sessions \subseteq count.drawn
  BY DEF First, BlocksDrawn, NewLayout
<1>1. CASE Refused(o)
  BY <1>0, <1>1, AnswerFields DEF Refused, BlocksDrawn
<1>2. CASE Loaded(o)
  <2>1. o.document.blocks \subseteq count.drawn
    BY <1>0, <1>2 DEF Loaded, Keeps
  <2>2. o.file # None => o.file.blocks \subseteq count.drawn
    BY <1>0, <1>2 DEF Loaded, Keeps, BlocksDrawn
  <2> QED BY <1>0, <1>2, <2>1, <2>2, AnswerFields DEF Loaded
<1>3. CASE Confirmed(o, doc)
  BY <1>0, <1>3, AnswerFields DEF Confirmed, BlocksDrawn
<1>4. CASE Stored(o, doc)
  BY <1>0, <1>4, AnswerFields DEF Stored
<1> QED BY <1>1, <1>2, <1>3, <1>4, HandleOutcomes

LEMMA DrawnLandings ==
  ASSUME Fits, BlocksDrawn, LandLate \/ LandCall
  PROVE  PageDrawn' /\ ServerDrawn' /\ count'.drawn = count.drawn
<1> USE DEF Fits
<1>0. UNCHANGED <<sessions, openings, page>> /\ \E o : Put(o)
  BY DEF LandLate, LandCall
<1>1. count'.drawn = count.drawn
  BY <1>0, PutCounts
<1>2. PageDrawn'
  BY <1>0, <1>1 DEF PageDrawn, BlocksDrawn
<1>3. CASE LandLate
  <2>0. PICK r \in late : \E o \in Handle(r.kind, r.revision, r.doc) :
          Put(o) /\ late' = late \ {r} /\ call' = call
    BY <1>3 DEF LandLate
  <2>1. PICK o \in Handle(r.kind, r.revision, r.doc) :
          Put(o) /\ late' = late \ {r} /\ call' = call
    BY <2>0
  <2>2. r.doc \in Layout /\ r.doc.blocks \subseteq count.drawn
    BY LayoutTypes DEF BlocksDrawn
  <2>3. /\ file' # None => file'.blocks \subseteq count.drawn
        /\ document' # None => document'.blocks \subseteq count.drawn
    BY <2>1, <2>2, OutcomesDrawn DEF Put
  <2>4. ServerDrawn'
    BY <1>0, <1>1, <2>1, <2>3 DEF ServerDrawn, BlocksDrawn
  <2> QED BY <1>1, <1>2, <2>4
<1>4. CASE LandCall
  <2>1. PICK o \in Handle(call.kind, page.revision, Carried) :
          /\ Put(o) /\ late' = late
          /\ call' = [kind |-> call.kind, done |-> TRUE, ok |-> o.answer.ok,
                      revision |-> o.answer.revision, doc |-> o.answer.doc]
    BY <1>4 DEF LandCall, Carried
  <2>2. Carried \in Layout /\ Carried.blocks \subseteq count.drawn
    <3>1. CASE page.queue = << >>
      BY <3>1, WorkspaceValues DEF Carried, NewLayout
    <3>2. CASE page.queue # << >>
      <4>1. Carried = page.queue[1] /\ 1 \in 1..Len(page.queue) /\ Carried \in Layout
        BY <3>2, PageFields, Queued DEF Carried
      <4> QED BY <4>1 DEF BlocksDrawn
    <3> QED BY <3>1, <3>2
  <2>3. /\ file' # None => file'.blocks \subseteq count.drawn
        /\ document' # None => document'.blocks \subseteq count.drawn
        /\ o.answer.doc.blocks \subseteq count.drawn
    BY <2>1, <2>2, OutcomesDrawn DEF Put
  <2>4. call'.doc.blocks \subseteq count.drawn
    BY <2>1, <2>3
  <2>5. ServerDrawn'
    BY <1>0, <1>1, <2>1, <2>3, <2>4 DEF ServerDrawn, BlocksDrawn
  <2> QED BY <1>1, <1>2, <2>5
<1> QED BY <1>3, <1>4

LEMMA DrawnAnswers ==
  ASSUME Fits, BlocksDrawn, Requests \/ Answers
  PROVE  PageDrawn' /\ ServerDrawn' /\ count'.drawn = count.drawn
<1> USE DEF Fits
<1>0. UNCHANGED <<file, document, sessions, openings, late>>
  BY DEF Requests, StartLoad, LoseCall, StartSave, Answers, Hydrate, HydrateBlind, AskAnswered,
         SaveAnswered, Elsewhere, server
<1>1. count'.drawn = count.drawn
  BY DEF Requests, StartLoad, LoseCall, StartSave, Answers, Hydrate, HydrateBlind, AskAnswered,
         SaveAnswered, WorkspaceTypeOK, Count
<1>2. call'.doc = NewLayout
  <2>1. CASE StartLoad \/ StartSave
    BY <2>1, LayoutRequests DEF StartLoad, StartSave
  <2>2. CASE LoseCall
    <3>1. call' = [LayoutRequest(call.kind) EXCEPT !.done = TRUE] /\ call.kind \in {"load", "ask", "save"}
      BY <2>2, CallFields DEF LoseCall
    <3> QED BY <3>1, LayoutRequests DEF Call
  <2>3. CASE Hydrate \/ HydrateBlind \/ SaveAnswered
    BY <2>3 DEF Hydrate, HydrateBlind, SaveAnswered, NoCall
  <2>4. CASE AskAnswered
    BY <2>4, PageAsked, LayoutRequests DEF NoCall
  <2> QED BY <2>1, <2>2, <2>3, <2>4 DEF Requests, Answers
<1>3. ServerDrawn'
  BY <1>0, <1>1, <1>2 DEF ServerDrawn, BlocksDrawn, NewLayout
<1>4. PageDrawn'
  <2>1. CASE Requests
    <3>1. page' = page
      BY <2>1 DEF Requests, StartLoad, LoseCall, StartSave
    <3> QED BY <1>1, <3>1 DEF PageDrawn, BlocksDrawn
  <2>2. CASE Hydrate \/ HydrateBlind
    <3>1. page.queue = << >> /\ page.closed = {}
      BY <2>2 DEF Hydrate, HydrateBlind, PageFits, BlocksDrawn
    <3>2. /\ page'.hydrated /\ page'.queue = << >> /\ page'.closed = {}
          /\ page'.shown.blocks = {} \/ page'.shown = call.doc
      BY <2>2, <3>1, PageHydrates, PageHydratesBlind
    <3> QED BY <1>1, <3>2 DEF PageDrawn, BlocksDrawn
  <2>3. CASE AskAnswered \/ SaveAnswered
    <3>1. /\ page.queue # << >> /\ page.queue \in Queues
      BY <2>3, HeadOfQueue, PageFields DEF AskAnswered, SaveAnswered
    <3>2. /\ SameMount /\ SameShown
          /\ page'.queue = page.queue \/ page'.queue = Tail(page.queue)
      BY <2>3, PageAsked, PageSaved
    <3>3. \A i \in 1..Len(page'.queue) : page'.queue[i].blocks \subseteq count.drawn
      <4>1. CASE page'.queue = page.queue
        BY <4>1 DEF BlocksDrawn
      <4>2. CASE page'.queue = Tail(page.queue)
        <5>1. /\ Len(page'.queue) = Len(page.queue) - 1 /\ Len(page.queue) \in Nat
              /\ \A i \in 1..Len(page'.queue) : page'.queue[i] = page.queue[i + 1]
          BY <3>1, <4>2, Queued
        <5>2. \A i \in 1..Len(page'.queue) : i + 1 \in 1..Len(page.queue)
          BY <5>1
        <5> QED BY <5>1, <5>2 DEF BlocksDrawn
      <4> QED BY <3>2, <4>1, <4>2
    <3> QED BY <1>1, <3>2, <3>3 DEF PageDrawn, BlocksDrawn, SameMount, SameShown
  <2> QED BY <2>1, <2>2, <2>3 DEF Answers
<1> QED BY <1>1, <1>3, <1>4

LEMMA DrawnEdits ==
  ASSUME Fits, BlocksDrawn, Edits
  PROVE  PageDrawn' /\ ServerDrawn' /\ count.drawn \subseteq count'.drawn
<1> USE DEF Fits
<1>0. UNCHANGED <<file, document, openings, call, late>> /\ sessions' \subseteq sessions
  BY DEF Edits, Rearrange, ListForClose, DestroyForClose, RemoveBlock, Enqueue, AddBlock, BeginClose,
         Elsewhere, requests, server
<1>1. ASSUME count.drawn \subseteq count'.drawn
      PROVE  ServerDrawn'
  BY <1>0, <1>1 DEF ServerDrawn, BlocksDrawn
<1>2. CASE Rearrange
  <2>1. count'.drawn = count.drawn
    BY <1>2 DEF Rearrange, WorkspaceTypeOK, Count
  <2>2. EditsTo(page.shown.blocks) /\ page'.closed = page.closed
    BY <1>2, PageRearranges
  <2>3. PageDrawn'
    BY <2>1, <2>2 DEF PageDrawn, BlocksDrawn, EditsTo, SameMount, SameStore
  <2> QED BY <1>1, <2>1, <2>3
<1>3. ASSUME NEW b \in Blocks, AddBlock(b)
      PROVE  PageDrawn' /\ ServerDrawn' /\ count.drawn \subseteq count'.drawn
  <2>1. count'.drawn = count.drawn \cup {b} /\ b \notin count.drawn /\ page.hydrated
    <3> DEFINE n == count.edits + 1
               drawn == count.drawn \cup {b}
    <3>1. count' = [count EXCEPT !.edits = n, !.drawn = drawn] /\ count \in Count
      BY <1>3 DEF AddBlock, WorkspaceTypeOK
    <3>2. n \in Nat /\ drawn \in SUBSET Blocks
      BY CountFields
    <3> HIDE DEF n, drawn
    <3>3. count'.drawn = drawn
      BY <3>1, <3>2 DEF Count
    <3> QED BY <1>3, <3>3 DEF drawn, AddBlock, CanEdit, Active
  <2>2. EditsTo(page.shown.blocks \cup {b}) /\ page'.closed = page.closed
    BY <1>3, PageAddsBlock
  <2>3. PageDrawn'
    BY <2>1, <2>2 DEF PageDrawn, BlocksDrawn, EditsTo, SameMount, SameStore
  <2> QED BY <1>1, <2>1, <2>3
<1>4. CASE RemoveBlock
  <2>1. count'.drawn = count.drawn
    BY <1>4 DEF RemoveBlock, WorkspaceTypeOK, Count
  <2>2. /\ EditsTo(page.shown.blocks \ {page.closing})
        /\ page'.closed = page.closed \cup {page.closing}
    BY <1>4, PageRemovesBlock
  <2>3. page.closing \in count.drawn /\ page.hydrated
    BY <1>4 DEF RemoveBlock, CanEdit, Active, BlocksDrawn
  <2>4. PageDrawn'
    BY <2>1, <2>2, <2>3 DEF PageDrawn, BlocksDrawn, EditsTo, SameMount, SameStore
  <2> QED BY <1>1, <2>1, <2>4
<1>5. ASSUME NEW b \in Blocks, BeginClose(b) \/ ListForClose \/ DestroyForClose
      PROVE  PageDrawn' /\ ServerDrawn' /\ count.drawn \subseteq count'.drawn
  <2>1. count' = count
    BY <1>5 DEF BeginClose, ListForClose, DestroyForClose
  <2>2. SameMount /\ SameShown /\ SameStore
    BY <1>5, PageCloses
  <2>3. PageDrawn'
    BY <2>1, <2>2 DEF PageDrawn, BlocksDrawn, SameMount, SameShown, SameStore
  <2> QED BY <1>1, <2>1, <2>3
<1>6. CASE ListForClose \/ DestroyForClose
  <2>1. page.closing \in Blocks
    BY <1>6 DEF ListForClose, DestroyForClose, WorkspaceTypeOK, Page
  <2> QED BY <1>5, <1>6, <2>1
<1>7. CASE Enqueue
  <2> DEFINE n == Len(page.queue)
  <2>1. count' = count
    BY <1>7 DEF Enqueue
  <2>2. SameMount /\ SameShown /\ page'.queue = Append(page.queue, page.shown)
    BY <1>7, PageEnqueues
  <2>3. /\ n \in Nat /\ Len(page'.queue) = n + 1 /\ page'.queue[n + 1] = page.shown
        /\ \A i \in 1..n : page'.queue[i] = page.queue[i]
    BY <2>2, PageFields, Queued
  <2>4. ASSUME NEW i \in 1..Len(page'.queue)
        PROVE  page'.queue[i].blocks \subseteq count.drawn
    <3>1. CASE i = n + 1
      BY <2>3, <3>1 DEF BlocksDrawn
    <3>2. CASE i \in 1..n
      BY <2>3, <3>2 DEF BlocksDrawn
    <3> QED BY <2>3, <3>1, <3>2
  <2>5. PageDrawn'
    BY <2>1, <2>2, <2>4 DEF PageDrawn, BlocksDrawn, SameMount, SameShown
  <2> QED BY <1>1, <2>1, <2>5
<1> QED BY <1>2, <1>3, <1>4, <1>5, <1>6, <1>7 DEF Edits

LEMMA BlocksDrawnKept ==
  ASSUME Fits, BlocksDrawn, [WorkspaceNext]_workspaceVars
  PROVE  BlocksDrawn'
<1> USE DEF Fits
<1>1. PageDrawn' /\ ServerDrawn' /\ count.drawn \subseteq count'.drawn
  <2>1. CASE Mounts \/ Restart
    BY <2>1, DrawnMounts
  <2>2. CASE Resume
    <3>1. SameShown /\ SameStore /\ page'.hydrated = page.hydrated
      BY <2>2, PageResumes
    <3>2. UNCHANGED <<file, document, sessions, openings, call, late, count>>
      BY <2>2 DEF Resume, requests, server
    <3> QED BY <3>1, <3>2 DEF PageDrawn, ServerDrawn, BlocksDrawn, SameShown, SameStore
  <2>3. CASE LandLate \/ LandCall
    BY <2>3, DrawnLandings
  <2>4. CASE Requests \/ Answers
    BY <2>4, DrawnAnswers
  <2>5. CASE Edits
    BY <2>5, DrawnEdits
  <2>6. CASE (\E f \in Files : DraftStep(f)) \/ LandLateDraft
    <3>1. AboutDrafts
      BY <2>6, StepsAboutDrafts
    <3> QED BY <3>1 DEF PageDrawn, ServerDrawn, BlocksDrawn, AboutDrafts
  <2>7. ASSUME NEW b \in Blocks, StartOpen(b)
        PROVE  PageDrawn' /\ ServerDrawn' /\ count.drawn \subseteq count'.drawn
    <3>1. /\ AboutSessions /\ sessions' = sessions /\ b \in page.shown.blocks
          /\ \A p \in openings' : p \in openings \/ p.block = b
      BY <2>7, OpeningStarts
    <3> QED BY <3>1 DEF PageDrawn, ServerDrawn, BlocksDrawn, AboutSessions
  <2>8. ASSUME NEW o \in openings, Goes(o)
        PROVE  PageDrawn' /\ ServerDrawn' /\ count.drawn \subseteq count'.drawn
    <3>1. /\ AboutSessions /\ \A s \in sessions' : s \in sessions \/ s = o.block
          /\ \A p \in openings' : p \in openings \/ p.block = o.block
      BY <2>8, OpeningGoes
    <3> QED BY <3>1 DEF PageDrawn, ServerDrawn, BlocksDrawn, AboutSessions
  <2>9. CASE UNCHANGED workspaceVars
    BY <2>9 DEF PageDrawn, ServerDrawn, BlocksDrawn, workspaceVars, requests, server
  <2> QED BY <2>1, <2>2, <2>3, <2>4, <2>5, <2>6, <2>7, <2>8, <2>9, WorkspaceSteps
<1>2. ClosingDrawn'
  BY <1>1, ClosingKept
<1>3. BlocksDrawn' <=> PageDrawn' /\ ServerDrawn' /\ ClosingDrawn'
  BY DEF BlocksDrawn, PageDrawn, ServerDrawn, ClosingDrawn
<1> QED BY <1>1, <1>2, <1>3

LEMMA BlocksDrawnInit ==
  ASSUME WorkspaceInit
  PROVE  BlocksDrawn
<1>1. /\ file = None /\ document = None /\ page = Mounted("out", 0) /\ sessions = {} /\ openings = {}
      /\ call = NoCall /\ late = {} /\ count.drawn = {}
  BY DEF WorkspaceInit
<1>2. /\ page.queue = << >> /\ Len(page.queue) = 0 /\ page.closed = {}
      /\ page.shown.blocks = {} /\ call.doc.blocks = {} /\ page.closing = None
  BY <1>1 DEF Mounted, NoCall, NewLayout
<1> QED BY <1>1, <1>2 DEF BlocksDrawn

-----------------------------------------------------------------------------
(* Drafts are replaced by what was typed after them. *)

DraftInv(f) == PaneFits(f) /\ TextsFollow(f) /\ (f \notin count.pruned => DraftFits(f))
OwnersPassed == \A r \in lateDraft : r.owner \in 1..count.logins

LEMMA DraftsParts == DraftsInv <=> OwnersPassed /\ \A f \in Files : DraftInv(f)
BY DEF DraftsInv, OwnersPassed, DraftInv

LEMMA ReplacesItself == \A t : Replaces(t, t)
BY DEF Replaces

\* What an open file is.
LEMMA OpenFiles ==
  ASSUME BlocksDrawn, NEW f, Open(f)
  PROVE  page.phase = "active" /\ f \notin page.closed
BY DEF BlocksDrawn, Open, Active

\* A step that is about neither the draft of the file nor its pane.
LEMMA DraftStays ==
  ASSUME NEW f \in Files, DraftInv(f),
         panes'[f] = panes[f] \/ (SamePane(f) /\ (panes'[f].dirty => panes[f].restored)),
         draftCall'[f] = draftCall[f], LateOf(f)' \subseteq LateOf(f),
         page'.phase # "out" <=> page.phase # "out",
         f \in page'.closed <=> f \in page.closed,
         count.pruned \subseteq count'.pruned,
         f \notin count'.pruned => drafts'[f].revision = drafts[f].revision,
         f \notin count'.pruned /\ drafts[f].revision # 0 => drafts'[f] = drafts[f]
  PROVE  DraftInv(f)'
<1>0. /\ panes'[f].text = panes[f].text /\ panes'[f].restored = panes[f].restored
      /\ panes'[f].revision = panes[f].revision
  BY DEF SamePane
<1>1. PaneFits(f)'
  BY <1>0 DEF DraftInv, PaneFits
<1>2. TextsFollow(f)'
  BY <1>0 DEF DraftInv, TextsFollow, Sending
<1>3. ASSUME f \notin count'.pruned
      PROVE  DraftFits(f)'
  <2>0. DraftFits(f) /\ drafts'[f].revision = drafts[f].revision
    BY <1>3 DEF DraftInv
  <2>1. CASE drafts[f].revision = 0
    BY <1>0, <2>0, <2>1 DEF DraftFits
  <2>2. CASE drafts[f].revision # 0
    <3>1. drafts'[f] = drafts[f]
      BY <1>3, <2>2
    <3> QED BY <1>0, <2>0, <3>1 DEF DraftFits, Sending
  <2> QED BY <2>1, <2>2
<1> QED BY <1>1, <1>2, <1>3 DEF DraftInv

\* What a page that is gone has sent last follows what was sent before.
LEMMA SentFits ==
  ASSUME WorkspaceTypeOK, NEW f \in Files, DraftInv(f), NEW r \in DraftsInFlight, r.file = f
  PROVE  /\ page.phase # "out" /\ r.owner = login
         /\ panes[f].restored \/ f \in page.closed
         /\ panes[f].restored => Replaces(panes[f].text, r.text)
         /\ f \notin count.pruned =>
              /\ r.revision <= drafts[f].revision
              /\ drafts[f].revision # 0 => Replaces(r.text, drafts[f].text)
<1>1. /\ draftCall[f].kind = "write" /\ ~draftCall[f].done /\ r.owner = login
      /\ r.revision = draftCall[f].revision /\ r.text = draftCall[f].text
  BY DraftsInFlightTypes
<1>2. Sending(draftCall[f]) /\ draftCall[f].kind # "idle"
  BY <1>1 DEF Sending
<1>3. page.phase # "out" /\ (panes[f].restored \/ f \in page.closed)
  BY <1>1 DEF DraftInv, PaneFits
<1>4. panes[f].restored => Replaces(panes[f].text, r.text)
  BY <1>1, <1>2 DEF DraftInv, TextsFollow
<1>5. ASSUME f \notin count.pruned
      PROVE  /\ r.revision <= drafts[f].revision
             /\ drafts[f].revision # 0 => Replaces(r.text, drafts[f].text)
  BY <1>1, <1>2, <1>5 DEF DraftInv, DraftFits
<1> QED BY <1>1, <1>3, <1>4, <1>5

LEMMA UnreadFields ==
  /\ UnreadPane.text.id = 0 /\ UnreadPane.restored = FALSE /\ UnreadPane.dirty = FALSE
  /\ UnreadPane.revision = None
  /\ NoDraftCall.kind = "idle" /\ NoDraftCall.done = FALSE /\ NoDraftCall.ok = FALSE
  /\ NoDraft.revision = 0
BY DEF UnreadPane, NoText, NoDraftCall, NoDraft

LEMMA MountsReplace ==
  ASSUME Fits, BlocksDrawn, DraftsInv, Mounts
  PROVE  DraftsInv'
<1> USE DEF Fits
<1>0. /\ \A r \in lateDraft' : r \in lateDraft \/ r \in DraftsInFlight
      /\ draftCall' = [f \in Files |-> NoDraftCall] /\ lateDraft \subseteq LateDraft
  BY Abandoned DEF Mounts, Login, Leave, Pause, WorkspaceTypeOK
<1>1. /\ drafts' = drafts /\ count.logins \in Nat /\ login \in Nat /\ login <= count.logins
  BY CountFields DEF Mounts, Login, Leave, Pause, server, WorkspaceTypeOK, PageFits
<1>2. \A f \in Files : DraftInv(f)
  BY DraftsParts
<1>3. ASSUME NEW r \in lateDraft'
      PROVE  r.owner \in 1..count.logins
  <2>1. CASE r \in lateDraft
    BY <2>1 DEF DraftsInv
  <2>2. CASE r \in DraftsInFlight
    <3>1. r.file \in Files /\ r.owner = login
      BY <2>2, DraftsInFlightTypes
    <3>2. page.phase # "out"
      BY <1>2, <2>2, <3>1, SentFits
    <3> QED BY <1>1, <3>1, <3>2 DEF PageFits
  <2> QED BY <1>0, <1>3, <2>1, <2>2
<1>4. CASE Login
  <2>1. count'.logins = count.logins + 1 /\ login' = count.logins + 1
    <3> DEFINE n == count.logins + 1
               none == {}
    <3>1. count' = [count EXCEPT !.logins = n, !.pruned = none] /\ count \in Count
          /\ login' = count'.logins
      BY <1>4 DEF Login, WorkspaceTypeOK
    <3> HIDE DEF n, none
    <3>2. count'.logins = n /\ login' = n
      BY <3>1 DEF Count
    <3> QED BY <3>2 DEF n
  <2>2. panes' = [f \in Files |-> UnreadPane]
    BY <1>4 DEF Login
  <2>3. OwnersPassed'
    BY <1>1, <1>3, <2>1 DEF OwnersPassed
  <2>4. ASSUME NEW f \in Files
        PROVE  DraftInv(f)'
    <3>1. LateOf(f)' = {}
      BY <1>1, <1>3, <2>1 DEF LateOf
    <3>2. panes'[f] = UnreadPane /\ draftCall'[f] = NoDraftCall
      BY <1>0, <2>2
    <3>3. PaneFits(f)'
      BY <3>1, <3>2, UnreadFields DEF PaneFits
    <3>4. TextsFollow(f)'
      BY <3>1, <3>2, UnreadFields DEF TextsFollow, Sending
    <3>5. DraftFits(f)'
      BY <3>1, <3>2, UnreadFields DEF DraftFits, Sending
    <3> QED BY <3>3, <3>4, <3>5 DEF DraftInv
  <2>5. OwnersPassed' /\ \A f \in Files : DraftInv(f)'
    BY <2>3, <2>4
  <2> QED BY <2>5 DEF DraftsInv, OwnersPassed, DraftInv
<1>5. CASE Leave
  <2>1. count' = count /\ login' \in {login, 0} /\ page'.phase = "out"
    BY <1>5, MountedFields DEF Leave
  <2>2. panes' = [f \in Files |-> UnreadPane]
    BY <1>5 DEF Leave
  <2>3. OwnersPassed'
    BY <1>3, <2>1 DEF OwnersPassed
  <2>4. ASSUME NEW f \in Files
        PROVE  DraftInv(f)'
    <3>1. ASSUME NEW r \in LateOf(f)'
          PROVE  \/ r \in LateOf(f)
                 \/ r \in DraftsInFlight /\ r.file = f
      BY <1>0, <1>1, <1>3, <2>1 DEF LateOf
    <3>2. panes'[f] = UnreadPane /\ draftCall'[f] = NoDraftCall
      BY <1>0, <2>2
    <3>3. PaneFits(f)'
      BY <2>1, <3>2, UnreadFields DEF PaneFits
    <3>4. TextsFollow(f)'
      BY <3>2, UnreadFields DEF TextsFollow, Sending
    <3>5. ASSUME f \notin count.pruned
          PROVE  DraftFits(f)'
      <4>1. DraftFits(f)
        BY <1>2, <3>5 DEF DraftInv
      <4>2. ASSUME NEW r \in LateOf(f)'
            PROVE  /\ r.revision <= drafts[f].revision
                   /\ drafts[f].revision # 0 /\ r.revision = drafts[f].revision
                        => Replaces(r.text, drafts[f].text)
        <5>1. CASE r \in LateOf(f)
          BY <4>1, <5>1 DEF DraftFits
        <5>2. CASE r \in DraftsInFlight /\ r.file = f
          BY <1>2, <3>5, <5>2, SentFits
        <5> QED BY <3>1, <4>2, <5>1, <5>2
      <4> QED BY <1>1, <3>2, <4>2, UnreadFields DEF DraftFits, Sending
    <3> QED BY <2>1, <3>3, <3>4, <3>5 DEF DraftInv
  <2>5. OwnersPassed' /\ \A f \in Files : DraftInv(f)'
    BY <2>3, <2>4
  <2> QED BY <2>5 DEF DraftsInv, OwnersPassed, DraftInv
<1>6. CASE Pause
  <2>1. count'.logins = count.logins /\ count'.pruned = count.pruned /\ login' = login
    BY <1>6 DEF Pause, WorkspaceTypeOK, Count
  <2>2. page.phase # "out" /\ page'.phase # "out" /\ page'.closed = page.closed
    BY <1>6, PagePauses DEF Pause, SameShown
  <2>3. OwnersPassed'
    BY <1>3, <2>1 DEF OwnersPassed
  <2>4. ASSUME NEW f \in Files
        PROVE  DraftInv(f)'
    <3>1. ASSUME NEW r \in LateOf(f)'
          PROVE  \/ r \in LateOf(f)
                 \/ r \in DraftsInFlight /\ r.file = f
      BY <1>0, <2>1 DEF LateOf
    <3>2. /\ panes'[f].text = panes[f].text /\ panes'[f].restored = panes[f].restored
          /\ panes'[f].dirty = FALSE /\ panes'[f].revision = None
      <4>1. panes'[f] = [panes[f] EXCEPT !.revision = None, !.dirty = FALSE, !.tried = FALSE]
        BY <1>6 DEF Pause
      <4>2. panes[f] \in Pane
        BY DraftTypes
      <4> QED BY <4>1, <4>2 DEF Pane
    <3>3. draftCall'[f] = NoDraftCall
      BY <1>0
    <3>4. PaneFits(f)'
      <4>1. LateOf(f)' # {} => panes[f].restored \/ f \in page.closed
        BY <1>2, <2>2, <3>1, SentFits DEF DraftInv, PaneFits
      <4> QED BY <1>2, <2>2, <3>2, <3>3, <4>1, UnreadFields DEF DraftInv, PaneFits
    <3>5. TextsFollow(f)'
      <4>1. ASSUME panes[f].restored, NEW r \in LateOf(f)'
            PROVE  Replaces(panes[f].text, r.text)
        <5>1. CASE r \in LateOf(f)
          BY <1>2, <4>1, <5>1 DEF DraftInv, TextsFollow
        <5>2. CASE r \in DraftsInFlight /\ r.file = f
          BY <1>2, <4>1, <5>2, SentFits
        <5> QED BY <3>1, <4>1, <5>1, <5>2
      <4> QED BY <3>2, <3>3, <4>1, UnreadFields DEF TextsFollow, Sending
    <3>6. ASSUME f \notin count.pruned
          PROVE  DraftFits(f)'
      <4>1. DraftFits(f)
        BY <1>2, <3>6 DEF DraftInv
      <4>2. ASSUME NEW r \in LateOf(f)'
            PROVE  /\ r.revision <= drafts[f].revision
                   /\ drafts[f].revision # 0 /\ r.revision = drafts[f].revision
                        => Replaces(r.text, drafts[f].text)
        <5>1. CASE r \in LateOf(f)
          BY <4>1, <5>1 DEF DraftFits
        <5>2. CASE r \in DraftsInFlight /\ r.file = f
          BY <1>2, <3>6, <5>2, SentFits
        <5> QED BY <3>1, <4>2, <5>1, <5>2
      <4> QED BY <1>1, <3>2, <3>3, <4>1, <4>2, UnreadFields DEF DraftFits, Sending
    <3> QED BY <2>1, <3>4, <3>5, <3>6 DEF DraftInv
  <2>5. OwnersPassed' /\ \A f \in Files : DraftInv(f)'
    BY <2>3, <2>4
  <2> QED BY <2>5 DEF DraftsInv, OwnersPassed, DraftInv
<1> QED BY <1>4, <1>5, <1>6 DEF Mounts

\* A step that is about no draft and no pane.
LEMMA DraftsStay ==
  ASSUME DraftsInv, draftCall' = draftCall, lateDraft' \subseteq lateDraft,
         login' = login, count'.logins = count.logins,
         page'.phase # "out" <=> page.phase # "out", page'.closed = page.closed,
         count.pruned \subseteq count'.pruned,
         \A f \in Files : panes'[f] = panes[f] \/ (SamePane(f) /\ (panes'[f].dirty => panes[f].restored)),
         \A f \in Files \ count'.pruned :
            /\ drafts'[f].revision = drafts[f].revision
            /\ drafts[f].revision # 0 => drafts'[f] = drafts[f]
  PROVE  DraftsInv'
<1>1. OwnersPassed'
  BY DEF DraftsInv, OwnersPassed
<1>2. ASSUME NEW f \in Files
      PROVE  DraftInv(f)'
  <2>1. DraftInv(f)
    BY DraftsParts
  <2>2. LateOf(f)' \subseteq LateOf(f)
    BY DEF LateOf
  <2> QED BY <2>1, <2>2, DraftStays
<1>3. OwnersPassed' /\ \A f \in Files : DraftInv(f)'
  BY <1>1, <1>2
<1> QED BY <1>3 DEF DraftsInv, OwnersPassed, DraftInv

\* What leaves the drafts and the panes as they are.
SameDrafts ==
  /\ UNCHANGED <<drafts, login, panes, draftCall, lateDraft>>
  /\ page'.phase = page.phase /\ page'.closed = page.closed
  /\ count'.logins = count.logins /\ count'.pruned = count.pruned

LEMMA SameDraftsStay ==
  ASSUME DraftsInv, SameDrafts
  PROVE  DraftsInv'
BY DraftsStay DEF SameDrafts

\* The operations on the layout that the page itself makes.
LEMMA PageLeavesDrafts ==
  ASSUME WorkspaceTypeOK, Requests \/ Answers \/ (Edits /\ ~RemoveBlock)
  PROVE  SameDrafts
<1>0. page \in Page /\ count \in Count
  BY DEF WorkspaceTypeOK
<1>1. CASE Requests
  BY <1>1 DEF Requests, StartLoad, LoseCall, StartSave, Elsewhere, server, SameDrafts
<1>2. CASE Hydrate
  BY <1>0, <1>2 DEF Hydrate, Elsewhere, server, SameDrafts, Page
<1>3. CASE HydrateBlind
  <2>1. page'.phase = page.phase /\ page'.closed = page.closed
    BY <1>0, <1>3 DEF HydrateBlind, Page
  <2>2. count'.logins = count.logins /\ count'.pruned = count.pruned
    BY <1>0, <1>3 DEF HydrateBlind, Count
  <2> QED BY <1>3, <2>1, <2>2 DEF HydrateBlind, Elsewhere, server, SameDrafts
<1>4. CASE AskAnswered \/ SaveAnswered
  BY <1>0, <1>4 DEF AskAnswered, SaveAnswered, Elsewhere, server, SameDrafts, Page
<1>5. CASE Enqueue
  BY <1>0, <1>5 DEF Enqueue, Elsewhere, server, SameDrafts, Page
<1>6. CASE Rearrange
  <2>1. page'.phase = page.phase /\ page'.closed = page.closed
    BY <1>0, <1>6 DEF Rearrange, Page
  <2>2. count'.logins = count.logins /\ count'.pruned = count.pruned
    BY <1>0, <1>6 DEF Rearrange, Count
  <2> QED BY <1>6, <2>1, <2>2 DEF Rearrange, Elsewhere, server, SameDrafts
<1>7. CASE ListForClose \/ DestroyForClose
  BY <1>0, <1>7 DEF ListForClose, DestroyForClose, Elsewhere, server, requests, SameDrafts, Page
<1>8. ASSUME NEW b \in Blocks, AddBlock(b)
      PROVE  SameDrafts
  <2>1. page'.phase = page.phase /\ page'.closed = page.closed
    BY <1>0, <1>8 DEF AddBlock, Page
  <2>2. count'.logins = count.logins /\ count'.pruned = count.pruned
    BY <1>0, <1>8 DEF AddBlock, Count
  <2> QED BY <1>8, <2>1, <2>2 DEF AddBlock, Elsewhere, server, SameDrafts
<1>9. ASSUME NEW b \in Blocks, BeginClose(b)
      PROVE  SameDrafts
  BY <1>0, <1>9 DEF BeginClose, Elsewhere, server, SameDrafts, Page
<1> QED BY <1>1, <1>2, <1>3, <1>4, <1>5, <1>6, <1>7, <1>8, <1>9 DEF Answers, Edits

\* A layout is stored: the drafts it throws away are counted.
LEMMA LandingsReplace ==
  ASSUME Fits, DraftsInv, LandLate \/ LandCall
  PROVE  DraftsInv'
<1> USE DEF Fits
<1>1. /\ UNCHANGED <<login, page, panes, draftCall, lateDraft>>
      /\ \E k, x, doc : \E o \in Handle(k, x, doc) : Put(o)
  BY DEF LandLate, LandCall
<1>2. PICK k, x, doc : \E o \in Handle(k, x, doc) : Put(o)
  BY <1>1
<1>3. PICK o \in Handle(k, x, doc) : Put(o)
  BY <1>2
<1>4. o.drafts = drafts \/ o.drafts = Pruned(doc)
  BY <1>3, HandleOutcomes DEF Refused, Loaded, Confirmed, Stored
<1>5. /\ drafts' = o.drafts /\ count'.logins = count.logins
      /\ count'.pruned = count.pruned \cup Thrown(o.drafts)
  BY <1>3, PutCounts DEF Put
<1>6. ASSUME NEW f \in Files \ count'.pruned
      PROVE  /\ drafts'[f].revision = drafts[f].revision
             /\ drafts[f].revision # 0 => drafts'[f] = drafts[f]
  <2>1. CASE drafts' = drafts
    BY <2>1
  <2>2. CASE drafts' = Pruned(doc)
    <3>1. drafts'[f] = drafts[f] \/ drafts'[f] = NoDraft
      BY <2>2 DEF Pruned
    <3>2. ~(drafts[f].revision # 0 /\ drafts'[f].revision = 0)
      BY <1>5, <1>6 DEF Thrown
    <3> QED BY <3>1, <3>2, UnreadFields
  <2> QED BY <1>4, <1>5, <2>1, <2>2
<1> QED BY <1>1, <1>5, <1>6, DraftsStay

LEMMA ResumeReplaces ==
  ASSUME Fits, DraftsInv, Resume
  PROVE  DraftsInv'
<1> USE DEF Fits
<1>1. /\ UNCHANGED <<drafts, login, draftCall, lateDraft, count>>
      /\ page.phase = "paused"
      /\ panes' = [f \in Files |-> [panes[f] EXCEPT
                 !.dirty = panes[f].restored /\ panes[f].text.id # panes[f].last]]
  BY DEF Resume, server, requests
<1>2. page'.phase = "active" /\ page'.closed = page.closed
  BY PageResumes DEF SameShown
<1>3. ASSUME NEW f \in Files
      PROVE  SamePane(f) /\ (panes'[f].dirty => panes[f].restored)
  <2>1. panes'[f] = [panes[f] EXCEPT
                 !.dirty = panes[f].restored /\ panes[f].text.id # panes[f].last]
    BY <1>1
  <2> QED BY <2>1, DraftTypes DEF SamePane, Pane
<1> QED BY <1>1, <1>2, <1>3, DraftsStay

\* Nothing is left of a draft or of a pane.
LEMMA EmptyReplaces ==
  ASSUME lateDraft = {}, drafts = [f \in Files |-> NoDraft],
         panes = [f \in Files |-> UnreadPane], draftCall = [f \in Files |-> NoDraftCall]
  PROVE  DraftsInv
<1>1. OwnersPassed
  BY DEF OwnersPassed
<1>2. ASSUME NEW f \in Files
      PROVE  DraftInv(f)
  <2>1. LateOf(f) = {} /\ panes[f] = UnreadPane /\ draftCall[f] = NoDraftCall /\ drafts[f] = NoDraft
    BY DEF LateOf
  <2>2. PaneFits(f) /\ TextsFollow(f)
    BY <2>1, UnreadFields DEF PaneFits, TextsFollow, Sending
  <2>3. DraftFits(f)
    BY <2>1, UnreadFields DEF DraftFits
  <2> QED BY <2>2, <2>3 DEF DraftInv
<1> QED BY <1>1, <1>2, DraftsParts

LEMMA DraftsInvInit ==
  ASSUME WorkspaceInit
  PROVE  DraftsInv
BY EmptyReplaces DEF WorkspaceInit

LEMMA RestartReplaces ==
  ASSUME Restart
  PROVE  DraftsInv'
<1>1. /\ lateDraft' = {} /\ drafts' = [f \in Files |-> NoDraft]
      /\ panes' = [f \in Files |-> UnreadPane] /\ draftCall' = [f \in Files |-> NoDraftCall]
  BY DEF Restart
<1>2. OwnersPassed'
  BY <1>1 DEF OwnersPassed
<1>3. ASSUME NEW f \in Files
      PROVE  DraftInv(f)'
  <2>1. /\ LateOf(f)' = {} /\ panes'[f] = UnreadPane
        /\ draftCall'[f] = NoDraftCall /\ drafts'[f] = NoDraft
    BY <1>1 DEF LateOf
  <2>2. PaneFits(f)' /\ TextsFollow(f)'
    BY <2>1, UnreadFields DEF PaneFits, TextsFollow, Sending
  <2>3. DraftFits(f)'
    BY <2>1, UnreadFields DEF DraftFits
  <2> QED BY <2>2, <2>3 DEF DraftInv
<1>4. OwnersPassed' /\ \A f \in Files : DraftInv(f)'
  BY <1>2, <1>3
<1> QED BY <1>4 DEF DraftsInv, OwnersPassed, DraftInv

\* The pane of a closed block is forgotten, its last request is not.
LEMMA RemovalReplaces ==
  ASSUME Fits, DraftsInv, RemoveBlock
  PROVE  DraftsInv'
<1> USE DEF Fits
<1>1. /\ UNCHANGED <<drafts, login, draftCall, lateDraft>>
      /\ panes' = [f \in Files |-> IF f = page.closing THEN UnreadPane ELSE panes[f]]
      /\ page.phase = "active"
  BY DEF RemoveBlock, server, requests, CanEdit, Active
<1>2. count'.logins = count.logins /\ count'.pruned = count.pruned
  BY DEF RemoveBlock, WorkspaceTypeOK, Count
<1>3. page'.phase = page.phase /\ page'.closed = page.closed \cup {page.closing}
  <2>1. page \in Page
    BY DEF WorkspaceTypeOK
  <2> QED BY <2>1 DEF RemoveBlock, Page
<1>4. OwnersPassed'
  BY <1>1, <1>2 DEF DraftsInv, OwnersPassed
<1>5. ASSUME NEW f \in Files
      PROVE  DraftInv(f)'
  <2>0. DraftInv(f) /\ LateOf(f)' = LateOf(f)
    BY <1>1, DraftsParts DEF LateOf
  <2>1. CASE f # page.closing
    <3>1. panes'[f] = panes[f] /\ (f \in page'.closed <=> f \in page.closed)
      BY <1>1, <1>3, <2>1
    <3> QED BY <1>1, <1>2, <1>3, <2>0, <3>1, DraftStays
  <2>2. CASE f = page.closing
    <3>1. panes'[f] = UnreadPane /\ f \in page'.closed
      BY <1>1, <1>3, <2>2
    <3>2. PaneFits(f)' /\ TextsFollow(f)'
      BY <1>1, <1>3, <2>0, <3>1, UnreadFields DEF DraftInv, PaneFits, TextsFollow, Sending
    <3>3. ASSUME f \notin count.pruned
          PROVE  DraftFits(f)'
      <4>1. DraftFits(f)
        BY <2>0, <3>3 DEF DraftInv
      <4> QED BY <1>1, <2>0, <3>1, <4>1, UnreadFields DEF DraftFits, Sending
    <3> QED BY <1>2, <3>2, <3>3 DEF DraftInv
  <2> QED BY <2>1, <2>2
<1>6. OwnersPassed' /\ \A f \in Files : DraftInv(f)'
  BY <1>4, <1>5
<1> QED BY <1>6 DEF DraftsInv, OwnersPassed, DraftInv

\* A step that is about the draft of one file.
LEMMA OthersReplace ==
  ASSUME DraftsInv, NEW f \in Files, AboutDrafts, Only(f), lateDraft' \subseteq lateDraft,
         DraftInv(f)'
  PROVE  DraftsInv'
<1>1. OwnersPassed'
  BY DEF DraftsInv, OwnersPassed, AboutDrafts
<1>2. ASSUME NEW g \in Files \ {f}
      PROVE  DraftInv(g)'
  <2>1. DraftInv(g)
    BY DraftsParts
  <2>2. LateOf(g)' \subseteq LateOf(g)
    BY DEF LateOf, AboutDrafts
  <2>3. /\ drafts'[g] = drafts[g] /\ panes'[g] = panes[g] /\ draftCall'[g] = draftCall[g]
        /\ page' = page /\ count'.pruned = count.pruned
    BY DEF Only, AboutDrafts
  <2> QED BY <2>1, <2>2, <2>3, DraftStays
<1>3. OwnersPassed' /\ \A g \in Files : DraftInv(g)'
  BY <1>1, <1>2
<1> QED BY <1>3 DEF DraftsInv, OwnersPassed, DraftInv

-----------------------------------------------------------------------------
(* What the operations on a draft leave of it. *)

\* Of the draft of a file nothing has yet been thrown away.
LEMMA DraftKnown ==
  ASSUME Fits, BlocksDrawn, DraftsInv, NEW f \in Files
  PROVE  /\ PaneFits(f) /\ TextsFollow(f) /\ (f \notin count.pruned => DraftFits(f))
         /\ Open(f) => page.phase = "active" /\ f \notin page.closed
BY DraftsParts, OpenFiles DEF DraftInv

LEMMA StartRestoreReplaces ==
  ASSUME Fits, BlocksDrawn, DraftsInv, NEW f \in Files, StartRestore(f)
  PROVE  DraftInv(f)'
<1> USE DEF Fits
<1>1. /\ AboutDrafts /\ SamePane(f) /\ panes'[f].dirty = panes[f].dirty
      /\ UNCHANGED <<drafts, lateDraft>> /\ Open(f) /\ ~panes[f].restored
      /\ draftCall'[f] = DraftRequest("restore")
  BY RestoreStarts
<1>2. /\ draftCall'[f].kind = "restore" /\ ~draftCall'[f].done /\ ~draftCall'[f].ok
      /\ draftCall'[f].revision = 0
  BY <1>1, DraftRequests
<1>3. /\ page' = page /\ login' = login /\ LateOf(f)' = LateOf(f) /\ count'.pruned = count.pruned
      /\ ~Sending(draftCall'[f])
  BY <1>1, <1>2 DEF AboutDrafts, LateOf, Sending
<1>4. PaneFits(f)'
  BY <1>1, <1>2, <1>3, DraftKnown DEF PaneFits, SamePane
<1>5. TextsFollow(f)'
  BY <1>1, <1>3, DraftKnown DEF TextsFollow, SamePane
<1>6. ASSUME f \notin count.pruned
      PROVE  DraftFits(f)'
  <2>1. DraftFits(f) /\ drafts[f].revision \in Nat
    BY <1>6, DraftKnown, DraftTypes
  <2> QED BY <1>1, <1>2, <1>3, <2>1 DEF DraftFits, SamePane
<1> QED BY <1>3, <1>4, <1>5, <1>6 DEF DraftInv

LEMMA LandDraftReplaces ==
  ASSUME Fits, BlocksDrawn, DraftsInv, NEW f \in Files, LandDraft(f)
  PROVE  DraftInv(f)'
<1> USE DEF Fits
<1> DEFINE c == draftCall[f]
<1>1. /\ AboutDrafts /\ UNCHANGED <<panes, lateDraft>>
      /\ c.kind # "idle" /\ ~c.done /\ draftCall'[f].kind = c.kind /\ draftCall'[f].done
      /\ \/ /\ c.kind # "write" /\ drafts' = drafts
            /\ draftCall'[f].ok /\ draftCall'[f].revision = drafts[f].revision
            /\ draftCall'[f].text = IF c.kind = "restore" THEN drafts[f].text ELSE c.text
         \/ /\ c.kind = "write"
            /\ drafts' = SavePane(f, login, c.revision, c.text)
            /\ draftCall'[f].ok <=> Kept(f, login, c.revision)
            /\ draftCall'[f].revision = c.revision + 1
            /\ draftCall'[f].text = c.text
  BY DraftLands
<1>2. /\ page' = page /\ login' = login /\ LateOf(f)' = LateOf(f) /\ count'.pruned = count.pruned
  BY <1>1 DEF AboutDrafts, LateOf
<1>3. /\ c.kind \in {"idle", "restore", "ask", "write"} /\ c.revision \in Nat
      /\ drafts[f].revision \in Nat
  BY DraftTypes
<1>4. PaneFits(f)'
  BY <1>1, <1>2, DraftKnown DEF PaneFits
<1>5. CASE /\ c.kind # "write" /\ drafts' = drafts
           /\ draftCall'[f].ok /\ draftCall'[f].revision = drafts[f].revision
           /\ draftCall'[f].text = IF c.kind = "restore" THEN drafts[f].text ELSE c.text
  <2>1. /\ Sending(draftCall'[f]) => c.kind = "ask" /\ Sending(c) /\ draftCall'[f].text = c.text
    BY <1>1, <1>3, <1>5 DEF Sending
  <2>2. TextsFollow(f)'
    BY <1>1, <1>2, <2>1, DraftKnown DEF TextsFollow
  <2>3. ASSUME f \notin count.pruned
        PROVE  DraftFits(f)'
    <3>1. DraftFits(f)
      BY <2>3, DraftKnown
    <3>2. draftCall'[f].kind = "restore" => draftCall'[f].text = drafts[f].text
      BY <1>1, <1>5
    <3> QED BY <1>1, <1>2, <1>3, <1>5, <2>1, <3>1, <3>2 DEF DraftFits
  <2> QED BY <1>2, <1>4, <2>2, <2>3 DEF DraftInv
<1>6. CASE /\ c.kind = "write"
           /\ drafts' = SavePane(f, login, c.revision, c.text)
           /\ draftCall'[f].ok <=> Kept(f, login, c.revision)
           /\ draftCall'[f].revision = c.revision + 1
           /\ draftCall'[f].text = c.text
  <2>1. ~Sending(draftCall'[f]) /\ Sending(c)
    BY <1>1, <1>6 DEF Sending
  <2>2. TextsFollow(f)'
    BY <1>1, <1>2, <2>1, DraftKnown DEF TextsFollow
  <2>3. CASE ~Kept(f, login, c.revision)
    <3>1. drafts' = drafts
      BY <1>6, <2>3 DEF SavePane
    <3>2. ASSUME f \notin count.pruned
          PROVE  DraftFits(f)'
      <4>1. DraftFits(f)
        BY <3>2, DraftKnown
      <4> QED BY <1>1, <1>2, <1>6, <2>1, <2>3, <3>1, <4>1 DEF DraftFits
    <3> QED BY <1>2, <1>4, <2>2, <3>2 DEF DraftInv
  <2>4. CASE Kept(f, login, c.revision)
    <3>1. drafts'[f] = [revision |-> c.revision + 1, text |-> c.text]
          /\ c.revision = drafts[f].revision
      BY <1>6, <2>4 DEF SavePane, Kept, WorkspaceTypeOK
    <3>2. drafts'[f].revision = drafts[f].revision + 1 /\ drafts'[f].text = c.text
      BY <3>1
    <3>3. ASSUME f \notin count.pruned
          PROVE  DraftFits(f)'
      <4>1. DraftFits(f)
        BY <3>3, DraftKnown
      <4>2. panes'[f] = panes[f] /\ panes[f].revision \in Nat \cup {None}
        BY <1>1, DraftTypes
      <4>3. panes'[f].revision # None => panes'[f].revision <= drafts'[f].revision
        <5> DEFINE x == panes[f].revision
        <5>1. x # None => x \in Nat /\ x <= drafts[f].revision
          BY <4>1, <4>2 DEF DraftFits
        <5> HIDE DEF x
        <5>2. x # None => x <= drafts[f].revision + 1
          BY <1>3, <5>1
        <5> QED BY <3>2, <4>2, <5>2 DEF x
      <4>4. draftCall'[f].revision <= drafts'[f].revision
        BY <1>3, <1>6, <3>1, <3>2
      <4>5. ASSUME NEW r \in LateOf(f)'
            PROVE  r.revision <= drafts'[f].revision /\ r.revision # drafts'[f].revision
        <5>1. r \in LateDraft
          BY <1>2, <4>5 DEF LateOf, WorkspaceTypeOK
        <5>2. r.revision <= drafts[f].revision /\ r.revision \in Nat
          BY <1>2, <4>1, <4>5, <5>1 DEF DraftFits, LateDraft
        <5> QED BY <1>3, <3>2, <5>2
      <4>6. panes'[f].restored => Replaces(panes'[f].text, drafts'[f].text)
        BY <2>1, <3>2, <4>2, DraftKnown DEF TextsFollow
      <4> QED BY <1>1, <1>6, <2>1, <4>3, <4>4, <4>5, <4>6 DEF DraftFits
    <3> QED BY <1>2, <1>4, <2>2, <3>3 DEF DraftInv
  <2> QED BY <2>3, <2>4
<1> QED BY <1>1, <1>5, <1>6

LEMMA LoseDraftReplaces ==
  ASSUME Fits, BlocksDrawn, DraftsInv, NEW f \in Files, LoseDraft(f)
  PROVE  DraftInv(f)'
<1> USE DEF Fits
<1>1. /\ AboutDrafts /\ UNCHANGED <<drafts, panes, lateDraft>>
      /\ draftCall[f].kind # "idle" /\ draftCall'[f].kind = draftCall[f].kind
      /\ draftCall'[f].done /\ ~draftCall'[f].ok /\ draftCall'[f].revision = 0
  BY DraftLost
<1>2. /\ page' = page /\ login' = login /\ LateOf(f)' = LateOf(f) /\ count'.pruned = count.pruned
      /\ ~Sending(draftCall'[f])
  BY <1>1 DEF AboutDrafts, LateOf, Sending
<1>3. PaneFits(f)' /\ TextsFollow(f)'
  BY <1>1, <1>2, DraftKnown DEF PaneFits, TextsFollow
<1>4. ASSUME f \notin count.pruned
      PROVE  DraftFits(f)'
  <2>1. DraftFits(f) /\ drafts[f].revision \in Nat
    BY <1>4, DraftKnown, DraftTypes
  <2> QED BY <1>1, <1>2, <2>1 DEF DraftFits
<1> QED BY <1>2, <1>3, <1>4 DEF DraftInv

LEMMA LateDraftReplaces ==
  ASSUME Fits, BlocksDrawn, DraftsInv, LandLateDraft
  PROVE  DraftsInv'
<1> USE DEF Fits
<1>1. PICK r \in lateDraft :
        /\ r.file \in Files /\ r.owner \in Nat /\ r.revision \in Nat /\ r.text \in Text
        /\ AboutDrafts /\ Only(r.file) /\ UNCHANGED <<panes, draftCall>>
        /\ lateDraft' = lateDraft \ {r}
        /\ drafts' = SavePane(r.file, r.owner, r.revision, r.text)
  BY LateDraftLands
<1> DEFINE f == r.file
<1>2. /\ page' = page /\ login' = login /\ LateOf(f)' \subseteq LateOf(f)
      /\ count'.pruned = count.pruned
  BY <1>1 DEF AboutDrafts, LateOf
<1>3. PaneFits(f)' /\ TextsFollow(f)'
  BY <1>1, <1>2, DraftKnown DEF PaneFits, TextsFollow
<1>4. ASSUME f \notin count.pruned
      PROVE  DraftFits(f)'
  <2>1. DraftFits(f) /\ drafts[f].revision \in Nat /\ draftCall[f].revision \in Nat
    BY <1>1, <1>4, DraftKnown, DraftTypes
  <2>2. CASE ~Kept(f, r.owner, r.revision)
    <3>1. drafts' = drafts
      BY <1>1, <2>2 DEF SavePane
    <3> QED BY <1>1, <1>2, <2>1, <3>1 DEF DraftFits
  <2>3. CASE Kept(f, r.owner, r.revision)
    <3>1. /\ drafts'[f] = [revision |-> r.revision + 1, text |-> r.text]
          /\ r.revision = drafts[f].revision /\ r.owner = login
      BY <1>1, <2>3 DEF SavePane, Kept, WorkspaceTypeOK
    <3>2. drafts'[f].revision = drafts[f].revision + 1 /\ drafts'[f].text = r.text
      BY <3>1
    <3>3. r \in LateOf(f)
      BY <3>1 DEF LateOf
    <3>4. panes'[f].revision # None => panes'[f].revision <= drafts'[f].revision
      <4> DEFINE x == panes[f].revision
      <4>1. x # None => x \in Nat /\ x <= drafts[f].revision
        BY <1>1, <2>1, DraftTypes DEF DraftFits
      <4> HIDE DEF x
      <4>2. x # None => x <= drafts[f].revision + 1
        BY <2>1, <4>1
      <4> QED BY <1>1, <3>2, <4>2 DEF x
    <3>5. draftCall[f].kind # "idle" /\ (draftCall[f].kind = "write" /\ draftCall[f].done => draftCall[f].ok)
            => draftCall[f].revision <= drafts'[f].revision
      BY <2>1, <3>2 DEF DraftFits
    <3>6. ASSUME NEW s \in LateOf(f)'
          PROVE  s.revision <= drafts'[f].revision /\ s.revision # drafts'[f].revision
      <4>1. s \in LateDraft /\ s \in LateOf(f)
        BY <1>2, <3>6 DEF LateOf, WorkspaceTypeOK
      <4>2. s.revision <= drafts[f].revision /\ s.revision \in Nat
        BY <2>1, <4>1 DEF DraftFits, LateDraft
      <4> QED BY <2>1, <3>2, <4>2
    <3>7. /\ panes[f].restored => Replaces(panes[f].text, drafts'[f].text)
          /\ Sending(draftCall[f]) => Replaces(draftCall[f].text, drafts'[f].text)
      BY <1>1, <3>2, <3>3, DraftKnown DEF TextsFollow
    <3>8. ~(draftCall[f].kind = "restore" /\ f \notin page.closed)
      BY <1>1, <3>3, DraftKnown DEF PaneFits
    <3> QED BY <1>1, <1>2, <3>4, <3>5, <3>6, <3>7, <3>8 DEF DraftFits
  <2> QED BY <2>2, <2>3
<1>5. DraftInv(f)'
  BY <1>2, <1>3, <1>4 DEF DraftInv
<1>6. f \in Files /\ Only(f) /\ AboutDrafts /\ lateDraft' \subseteq lateDraft
  BY <1>1
<1> HIDE DEF f
<1> QED BY <1>5, <1>6, OthersReplace

LEMMA RestoredReplaces ==
  ASSUME Fits, BlocksDrawn, DraftsInv, NEW f \in Files, Restored(f)
  PROVE  DraftInv(f)'
<1> USE DEF Fits
<1> DEFINE c == draftCall[f]
<1>1. /\ AboutDrafts /\ UNCHANGED <<drafts, lateDraft>>
      /\ c.kind = "restore" /\ c.done /\ draftCall'[f] = NoDraftCall
      /\ \/ panes' = panes
         \/ /\ c.ok /\ Open(f) /\ panes'[f].restored
            /\ panes'[f].text = IF panes[f].text.id = 0 THEN c.text ELSE panes[f].text
            /\ panes'[f].revision = c.revision
  BY DraftRestored
<1>2. /\ page' = page /\ login' = login /\ LateOf(f)' = LateOf(f) /\ count'.pruned = count.pruned
      /\ draftCall'[f].kind = "idle" /\ ~Sending(draftCall'[f])
  BY <1>1, UnreadFields DEF AboutDrafts, LateOf, Sending
<1>3. CASE panes' = panes
  <2>1. PaneFits(f)' /\ TextsFollow(f)'
    BY <1>2, <1>3, DraftKnown DEF PaneFits, TextsFollow
  <2>2. ASSUME f \notin count.pruned
        PROVE  DraftFits(f)'
    <3>1. DraftFits(f)
      BY <2>2, DraftKnown
    <3> QED BY <1>1, <1>2, <1>3, <3>1 DEF DraftFits
  <2> QED BY <1>2, <2>1, <2>2 DEF DraftInv
<1>4. CASE /\ c.ok /\ Open(f) /\ panes'[f].restored
           /\ panes'[f].text = IF panes[f].text.id = 0 THEN c.text ELSE panes[f].text
           /\ panes'[f].revision = c.revision
  <2>1. /\ page.phase = "active" /\ f \notin page.closed
        /\ ~panes[f].restored /\ LateOf(f) = {}
        /\ panes[f].text.id # 0 => panes[f].text.rash
    BY <1>1, <1>4, DraftKnown DEF PaneFits
  <2>2. PaneFits(f)' /\ TextsFollow(f)'
    BY <1>2, <1>4, <2>1 DEF PaneFits, TextsFollow
  <2>3. ASSUME f \notin count.pruned
        PROVE  DraftFits(f)'
    <3>1. DraftFits(f)
      BY <2>3, DraftKnown
    <3>2. c.revision <= drafts[f].revision /\ (drafts[f].revision # 0 => c.text = drafts[f].text)
      BY <1>1, <1>4, <2>1, <3>1 DEF DraftFits
    <3>3. drafts[f].revision # 0 => Replaces(panes'[f].text, drafts[f].text)
      BY <1>4, <2>1, <3>2, ReplacesItself DEF Replaces
    <3> QED BY <1>1, <1>2, <1>4, <2>1, <3>2, <3>3 DEF DraftFits
  <2> QED BY <1>2, <2>2, <2>3 DEF DraftInv
<1> QED BY <1>1, <1>3, <1>4

LEMMA EditTextReplaces ==
  ASSUME Fits, BlocksDrawn, DraftsInv, NEW f \in Files, EditText(f)
  PROVE  DraftInv(f)'
<1> USE DEF Fits
<1>1. /\ AboutDrafts /\ UNCHANGED <<drafts, draftCall, lateDraft>>
      /\ panes'[f].restored = panes[f].restored /\ panes'[f].revision = panes[f].revision
      /\ panes'[f].dirty = panes[f].restored
      /\ panes'[f].text.seen = panes[f].text.seen \cup {panes[f].text.id}
      /\ panes'[f].text.rash <=> panes[f].text.rash \/ ~panes[f].restored
  BY TextEdited
<1>2. /\ page' = page /\ login' = login /\ LateOf(f)' = LateOf(f) /\ count'.pruned = count.pruned
  BY <1>1 DEF AboutDrafts, LateOf
<1>3. \A t : Replaces(panes[f].text, t) => Replaces(panes'[f].text, t)
  BY <1>1 DEF Replaces
<1>4. PaneFits(f)'
  BY <1>1, <1>2, DraftKnown DEF PaneFits
<1>5. TextsFollow(f)'
  BY <1>1, <1>2, <1>3, DraftKnown DEF TextsFollow
<1>6. ASSUME f \notin count.pruned
      PROVE  DraftFits(f)'
  <2>1. DraftFits(f)
    BY <1>6, DraftKnown
  <2> QED BY <1>1, <1>2, <1>3, <2>1 DEF DraftFits
<1> QED BY <1>2, <1>4, <1>5, <1>6 DEF DraftInv

LEMMA StartWriteReplaces ==
  ASSUME Fits, BlocksDrawn, DraftsInv, NEW f \in Files, StartWrite(f)
  PROVE  DraftInv(f)'
<1> USE DEF Fits
<1>1. /\ AboutDrafts /\ UNCHANGED <<drafts, lateDraft>> /\ SamePane(f)
      /\ ~panes'[f].dirty /\ panes[f].dirty /\ Open(f)
      /\ draftCall'[f].text = panes[f].text /\ ~draftCall'[f].done /\ ~draftCall'[f].ok
      /\ \/ draftCall'[f].kind = "ask" /\ draftCall'[f].revision = 0
         \/ /\ draftCall'[f].kind = "write" /\ panes[f].revision # None
            /\ draftCall'[f].revision = panes[f].revision
  BY WriteStarts
<1>2. /\ page' = page /\ login' = login /\ LateOf(f)' = LateOf(f) /\ count'.pruned = count.pruned
      /\ page.phase = "active" /\ f \notin page.closed /\ panes[f].restored
  BY <1>1, DraftKnown DEF AboutDrafts, LateOf, PaneFits
<1>3. PaneFits(f)'
  BY <1>1, <1>2, DraftKnown DEF PaneFits, SamePane
<1>4. TextsFollow(f)'
  BY <1>1, <1>2, DraftKnown, ReplacesItself DEF TextsFollow, SamePane
<1>5. ASSUME f \notin count.pruned
      PROVE  DraftFits(f)'
  <2>1. DraftFits(f) /\ drafts[f].revision \in Nat
    BY <1>5, DraftKnown, DraftTypes
  <2>2. draftCall'[f].revision <= drafts[f].revision
    BY <1>1, <2>1 DEF DraftFits
  <2> QED BY <1>1, <1>2, <2>1, <2>2 DEF DraftFits, SamePane
<1> QED BY <1>2, <1>3, <1>4, <1>5 DEF DraftInv

LEMMA DraftAskedReplaces ==
  ASSUME Fits, BlocksDrawn, DraftsInv, NEW f \in Files, DraftAsked(f)
  PROVE  DraftInv(f)'
<1> USE DEF Fits
<1> DEFINE c == draftCall[f]
<1>1. /\ AboutDrafts /\ UNCHANGED <<drafts, lateDraft>> /\ c.kind = "ask" /\ c.done
      /\ panes'[f].text = panes[f].text /\ panes'[f].restored = panes[f].restored
      /\ panes'[f].dirty = panes[f].dirty
      /\ \/ panes'[f].revision = panes[f].revision
         \/ c.ok /\ panes'[f].revision = c.revision
      /\ \/ ~c.ok /\ draftCall'[f] = NoDraftCall
         \/ /\ c.ok /\ draftCall'[f].kind = "write" /\ ~draftCall'[f].done /\ ~draftCall'[f].ok
            /\ draftCall'[f].text = c.text /\ draftCall'[f].revision = c.revision
  BY AskedDraft
<1>2. /\ page' = page /\ login' = login /\ LateOf(f)' = LateOf(f) /\ count'.pruned = count.pruned
  BY <1>1 DEF AboutDrafts, LateOf
<1>3. /\ Sending(draftCall'[f]) => Sending(c) /\ draftCall'[f].text = c.text
      /\ draftCall'[f].kind \in {"idle", "write"}
  BY <1>1, UnreadFields DEF Sending
<1>4. PaneFits(f)'
  BY <1>1, <1>2, <1>3, DraftKnown DEF PaneFits
<1>5. TextsFollow(f)'
  BY <1>1, <1>2, <1>3, DraftKnown DEF TextsFollow
<1>6. ASSUME f \notin count.pruned
      PROVE  DraftFits(f)'
  <2>1. DraftFits(f)
    BY <1>6, DraftKnown
  <2>2. /\ c.revision <= drafts[f].revision
        /\ draftCall'[f].kind # "idle" => draftCall'[f].revision <= drafts[f].revision
        /\ panes'[f].revision # None => panes'[f].revision <= drafts[f].revision
    BY <1>1, <2>1, UnreadFields DEF DraftFits
  <2> QED BY <1>1, <1>2, <1>3, <2>1, <2>2 DEF DraftFits
<1> QED BY <1>2, <1>4, <1>5, <1>6 DEF DraftInv

LEMMA DraftWrittenReplaces ==
  ASSUME Fits, BlocksDrawn, DraftsInv, NEW f \in Files, DraftWritten(f)
  PROVE  DraftInv(f)'
<1> USE DEF Fits
<1> DEFINE c == draftCall[f]
<1>1. /\ AboutDrafts /\ UNCHANGED <<drafts, lateDraft>> /\ c.kind = "write"
      /\ draftCall'[f] = NoDraftCall
      /\ panes'[f].text = panes[f].text /\ panes'[f].restored = panes[f].restored
      /\ panes'[f].dirty = panes[f].dirty
      /\ \/ panes'[f].revision = panes[f].revision
         \/ c.ok /\ panes'[f].revision = c.revision
  BY WrittenDraft
<1>2. /\ page' = page /\ login' = login /\ LateOf(f)' = LateOf(f) /\ count'.pruned = count.pruned
      /\ draftCall'[f].kind = "idle" /\ ~Sending(draftCall'[f])
  BY <1>1, UnreadFields DEF AboutDrafts, LateOf, Sending
<1>3. PaneFits(f)' /\ TextsFollow(f)'
  BY <1>1, <1>2, DraftKnown DEF PaneFits, TextsFollow
<1>4. ASSUME f \notin count.pruned
      PROVE  DraftFits(f)'
  <2>1. DraftFits(f)
    BY <1>4, DraftKnown
  <2>2. panes'[f].revision # None => panes'[f].revision <= drafts[f].revision
    BY <1>1, <2>1 DEF DraftFits
  <2> QED BY <1>1, <1>2, <2>1, <2>2 DEF DraftFits
<1> QED BY <1>2, <1>3, <1>4 DEF DraftInv

LEMMA DraftsInvKept ==
  ASSUME Fits, BlocksDrawn, DraftsInv, [WorkspaceNext]_workspaceVars
  PROVE  DraftsInv'
<1> USE DEF Fits
<1>1. CASE Mounts \/ Resume \/ Restart
  BY <1>1, MountsReplace, ResumeReplaces, RestartReplaces
<1>2. CASE LandLate \/ LandCall
  BY <1>2, LandingsReplace
<1>3. CASE Requests \/ Answers \/ Edits
  BY <1>3, PageLeavesDrafts, SameDraftsStay, RemovalReplaces DEF Edits
<1>4. ASSUME NEW f \in Files, DraftStep(f)
      PROVE  DraftsInv'
  <2>1. DraftInv(f)'
    BY <1>4, StartRestoreReplaces, LandDraftReplaces, LoseDraftReplaces, RestoredReplaces,
       EditTextReplaces, StartWriteReplaces, DraftAskedReplaces, DraftWrittenReplaces DEF DraftStep
  <2>2. AboutDrafts /\ Only(f) /\ lateDraft' = lateDraft
    BY <1>4, RestoreStarts, DraftLands, DraftLost, DraftRestored, TextEdited, WriteStarts,
       AskedDraft, WrittenDraft DEF DraftStep
  <2> QED BY <2>1, <2>2, OthersReplace
<1>5. CASE LandLateDraft
  BY <1>5, LateDraftReplaces
<1>6. CASE (\E b \in Blocks : StartOpen(b)) \/ (\E o \in openings : Goes(o))
  <2>1. AboutSessions
    BY <1>6, OpeningStarts, OpeningGoes
  <2> QED BY <2>1, SameDraftsStay DEF AboutSessions, SameDrafts
<1>7. CASE UNCHANGED workspaceVars
  BY <1>7, SameDraftsStay DEF workspaceVars, server, requests, SameDrafts
<1> QED BY <1>1, <1>2, <1>3, <1>4, <1>5, <1>6, <1>7, WorkspaceSteps

\* What a step may make of a draft.
DraftDescends(f) ==
  drafts[f].revision # 0 /\ drafts'[f].revision # 0 /\ drafts'[f] # drafts[f]
    => Replaces(drafts'[f].text, drafts[f].text)

LEMMA DraftsMove ==
  ASSUME Fits, BlocksDrawn, DraftsInv, [WorkspaceNext]_workspaceVars, NEW f \in Files \ count.pruned
  PROVE  DraftDescends(f)
<1> USE DEF Fits
<1>0. DraftFits(f)
  BY DraftKnown
<1>1. CASE drafts' = drafts
  BY <1>1 DEF DraftDescends
<1>2. CASE Mounts \/ Resume
  BY <1>1, <1>2 DEF Mounts, Login, Leave, Pause, Resume, server
<1>3. CASE Restart
  <2>1. drafts'[f] = NoDraft
    BY <1>3 DEF Restart
  <2> QED BY <2>1, UnreadFields DEF DraftDescends
<1>4. CASE LandLate \/ LandCall
  <2>1. \E k, x, doc : \E o \in Handle(k, x, doc) : Put(o)
    BY <1>4 DEF LandLate, LandCall
  <2>2. PICK k, x, doc : \E o \in Handle(k, x, doc) : Put(o)
    BY <2>1
  <2>3. PICK o \in Handle(k, x, doc) : Put(o)
    BY <2>2
  <2>4. drafts' = drafts \/ drafts' = Pruned(doc)
    BY <2>3, HandleOutcomes DEF Refused, Loaded, Confirmed, Stored, Put
  <2>5. drafts'[f] = drafts[f] \/ drafts'[f] = NoDraft
    BY <2>4 DEF Pruned
  <2> QED BY <2>5, UnreadFields DEF DraftDescends
<1>5. CASE Requests \/ Answers \/ Edits
  <2>1. CASE RemoveBlock
    BY <1>1, <2>1 DEF RemoveBlock, server
  <2>2. CASE ~RemoveBlock
    BY <1>1, <1>5, <2>2, PageLeavesDrafts DEF SameDrafts
  <2> QED BY <2>1, <2>2
<1>6. ASSUME NEW g \in Files, NEW owner, NEW x, NEW t, Only(g), drafts' = SavePane(g, owner, x, t),
             f = g /\ owner = login /\ x = drafts[f].revision /\ drafts[f].revision # 0
               => Replaces(t, drafts[f].text)
      PROVE  DraftDescends(f)
  <2>1. CASE f # g \/ ~Kept(g, owner, x)
    BY <1>6, <2>1 DEF Only, SavePane, DraftDescends
  <2>2. CASE f = g /\ Kept(g, owner, x)
    <3>1. drafts'[f].text = t /\ owner = login /\ x = drafts[f].revision
      BY <1>6, <2>2 DEF SavePane, Kept, WorkspaceTypeOK
    <3> QED BY <1>6, <2>2, <3>1 DEF DraftDescends
  <2> QED BY <2>1, <2>2
<1>7. ASSUME NEW g \in Files, DraftStep(g)
      PROVE  DraftDescends(f)
  <2>1. CASE LandDraft(g)
    <3>1. /\ Only(g) /\ ~draftCall[g].done
          /\ \/ drafts' = drafts
             \/ /\ draftCall[g].kind = "write"
                /\ drafts' = SavePane(g, login, draftCall[g].revision, draftCall[g].text)
      BY <2>1, DraftLands
    <3>2. CASE /\ draftCall[g].kind = "write"
               /\ drafts' = SavePane(g, login, draftCall[g].revision, draftCall[g].text)
      <4>1. f = g /\ drafts[f].revision # 0 => Replaces(draftCall[g].text, drafts[f].text)
        BY <1>0, <3>1, <3>2 DEF DraftFits, Sending
      <4> QED BY <1>6, <3>1, <3>2, <4>1
    <3> QED BY <1>1, <3>1, <3>2
  <2>2. CASE ~LandDraft(g)
    BY <1>1, <1>7, <2>2, RestoreStarts, DraftLost, DraftRestored, TextEdited, WriteStarts,
       AskedDraft, WrittenDraft DEF DraftStep
  <2> QED BY <2>1, <2>2
<1>8. CASE LandLateDraft
  <2>1. PICK r \in lateDraft :
          /\ r.file \in Files /\ Only(r.file)
          /\ drafts' = SavePane(r.file, r.owner, r.revision, r.text)
    BY <1>8, LateDraftLands
  <2>2. f = r.file /\ r.owner = login /\ r.revision = drafts[f].revision /\ drafts[f].revision # 0
          => Replaces(r.text, drafts[f].text)
    BY <1>0, <2>1 DEF DraftFits, LateOf
  <2> QED BY <1>6, <2>1, <2>2
<1>9. CASE (\E b \in Blocks : StartOpen(b)) \/ (\E o \in openings : Goes(o))
  BY <1>1, <1>9, OpeningStarts, OpeningGoes DEF AboutSessions
<1>10. CASE UNCHANGED workspaceVars
  BY <1>1, <1>10 DEF workspaceVars, server
<1> QED BY <1>2, <1>3, <1>4, <1>5, <1>7, <1>8, <1>9, <1>10, WorkspaceSteps

\* A draft no layout has thrown away in this login is replaced only by a text
\* typed after it was seen, or before the pane had restored it, whichever
\* writes of gone pages land in between (save_pane and its revision, the
\* question after a pause).
THEOREM DraftsKeepDescending == WorkspaceSpec => DraftsDescend
<1> DEFINE DInv == Fits /\ BlocksDrawn /\ DraftsInv
           Descends == \A f \in Files \ count.pruned :
             drafts[f].revision # 0 /\ drafts'[f].revision # 0 /\ drafts'[f] # drafts[f]
             => Replaces(drafts'[f].text, drafts[f].text)
<1>1. WorkspaceInit => DInv
  BY FitsInit, BlocksDrawnInit, DraftsInvInit
<1>2. DInv /\ [WorkspaceNext]_workspaceVars => DInv'
  BY FitsKept, BlocksDrawnKept, DraftsInvKept
<1>3. DInv /\ [WorkspaceNext]_workspaceVars => [Descends]_workspaceVars
  BY DraftsMove DEF DraftDescends
<1> QED BY <1>1, <1>2, <1>3, PTL DEF WorkspaceSpec, DraftsDescend
=============================================================================
