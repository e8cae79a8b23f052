----------------------------- MODULE SshSession -----------------------------
(***************************************************************************)
(* One terminal session over SSH (infrastructure/ssh/client.rs and         *)
(* client/).  Three kinds of actors share its SessionEntry:                *)
(*   - the runner (run_session), which connects the nodes of the route one *)
(*     by one, authenticates, opens the shell and serves the control       *)
(*     queue; it is cancelled by a oneshot, where it listens to it;        *)
(*   - the connection, a task of the SSH library, which asks for the trust *)
(*     of the server's key and reports the loss of the transport.  It goes *)
(*     on when the runner gives up on it;                                  *)
(*   - requests: accept or reject the key, close, write, start or cancel a *)
(*     transfer.                                                           *)
(* The remote host and the SSH library are external: the library calls the *)
(* handler's check_server_key within client::connect, and the remote may   *)
(* answer, refuse or vanish.  Time counts in units; a timer never fires    *)
(* early but may fire late.                                                *)
(***************************************************************************)
EXTENDS Naturals, Sequences

CONSTANTS
  Route,          \* nodes of the route: jump hosts, then the target
  Jobs,           \* transfers
  QueueSize,      \* capacity of the control queue (128)
  ConnectLimit,   \* CONNECT_TIMEOUT (15 s)
  DecisionLimit   \* HOST_KEY_DECISION_TIMEOUT (60 s)

ASSUME RouteAssumption == Route \in Nat \ {0}
ASSUME QueueAssumption == QueueSize \in Nat \ {0}
ASSUME TransfersAssumption == "write" \notin Jobs
ASSUME LimitAssumption ==
  /\ ConnectLimit \in Nat \ {0} /\ DecisionLimit \in Nat \ {0}
  /\ ConnectLimit < DecisionLimit

VARIABLES
  state,        \* the session's state machine
  failure,      \* history: the failure reported, or "none"
  runner,       \* what the runner does, and for which node
  link,         \* the connection of that node
  known,        \* what the known hosts say of each node's key
  question,     \* SessionEntry.pending: the user may decide on the key
  answering,    \* the decision a request took the question for
  decision,     \* what was sent to the handler that asked
  cancel,       \* SessionEntry.cancel
  owing,        \* cancel_owned_work is yet to run
  queue,        \* the control queue
  job,          \* the transfers
  sender,       \* SessionEntry.transfers
  told,         \* transfers that were told to cancel
  connectAge,   \* time since the connection was begun
  questionAge,  \* time since the question was asked
  user          \* history: what the user did

keyVars == <<known, question, answering, decision>>
jobVars == <<queue, job, sender, told>>
ages == <<connectAge, questionAge>>
vars == <<state, failure, runner, link, keyVars, cancel, owing, jobVars, ages, user>>

Nodes == 1..Route
States == {"connecting", "awaiting", "authenticating", "connected", "closing",
           "closed", "failed"}
Failures == {"none", "connection", "tunnel", "keyChanged", "keyRejected",
             "decisionTimeout", "knownHosts", "authentication", "startup", "lost"}
Phases == {"tunnel", "connect", "authenticate", "opening", "startup", "loop",
           "write", "job", "closing", "ended"}
Links == {"none", "keying", "asking", "expired", "trusted", "refused", "open", "lost"}
Decisions == {"none", "accept", "reject", "cancel"}
JobPhases == {"idle", "checked", "registered", "queued", "opening", "running",
              "reported", "refused", "dropped"}

TypeOK ==
  /\ state \in States /\ failure \in Failures
  /\ runner \in [phase : Phases, node : Nodes]
  /\ link \in Links
  /\ known \in [Nodes -> {"trusted", "unknown", "changed"}]
  /\ question \in BOOLEAN
  /\ answering \in Decisions /\ decision \in Decisions
  /\ cancel \in {"armed", "sent", "taken"} /\ owing \in BOOLEAN
  /\ queue \in Seq(Jobs \cup {"write"}) /\ Len(queue) <= QueueSize
  /\ job \in [Jobs -> JobPhases]
  /\ sender \subseteq Jobs /\ told \subseteq Jobs
  /\ connectAge \in 0..ConnectLimit /\ questionAge \in 0..DecisionLimit
  /\ user \in [closed : BOOLEAN, answer : {"none", "accept", "reject"}]

\* Manager::connect starts the runner.
Init ==
  /\ state = "connecting" /\ failure = "none"
  /\ runner = [phase |-> "connect", node |-> 1]
  /\ link = "keying"
  /\ known \in [Nodes -> {"trusted", "unknown", "changed"}]
  /\ question = FALSE /\ answering = "none" /\ decision = "none"
  /\ cancel = "armed" /\ owing = FALSE
  /\ queue = << >>
  /\ job = [j \in Jobs |-> "idle"]
  /\ sender = {} /\ told = {}
  /\ connectAge = 0 /\ questionAge = 0
  /\ user = [closed |-> FALSE, answer |-> "none"]

-----------------------------------------------------------------------------
(* The state machine (domain/session.rs) and failures. *)

Moves ==
  {<<"connecting", "awaiting">>, <<"connecting", "authenticating">>,
   <<"awaiting", "authenticating">>, <<"awaiting", "connecting">>,
   <<"authenticating", "connecting">>, <<"authenticating", "connected">>,
   <<"closing", "closed">>}
  \cup ({"connecting", "awaiting", "authenticating", "connected"} \X {"closing"})
  \cup ((States \ {"closed", "failed"}) \X {"failed"})

CanMove(next) == <<state, next>> \in Moves
Transition(next) ==
  /\ state' = IF CanMove(next) THEN next ELSE state
  /\ UNCHANGED failure
Fail(reason) ==
  /\ state' = IF CanMove("failed") THEN "failed" ELSE state
  /\ failure' = IF CanMove("failed") THEN reason ELSE failure
Stay == UNCHANGED <<state, failure>>

At(phase) == runner.phase = phase
Goto(phase) == runner' = [runner EXCEPT !.phase = phase]
Registered == ~At("ended")

-----------------------------------------------------------------------------
(* The connection: check_server_key and the loss of the transport. *)

\* The server presents its key; or the known hosts cannot be read; or the
\* connection breaks before.
KeyArrives ==
  /\ link = "keying"
  /\ \/ /\ known[runner.node] = "trusted"
        /\ link' = "trusted"
        /\ Stay
        /\ UNCHANGED <<question, decision, questionAge>>
     \/ /\ known[runner.node] = "changed"
        /\ link' = "refused"
        /\ Fail("keyChanged")
        /\ UNCHANGED <<question, decision, questionAge>>
     \/ /\ known[runner.node] = "unknown"
        /\ link' = "asking"
        /\ Transition("awaiting")
        /\ question' = TRUE
        /\ decision' = "none"
        /\ questionAge' = 0
     \/ /\ link' = "refused"
        /\ Stay \/ Fail("knownHosts")
        /\ UNCHANGED <<question, decision, questionAge>>
  /\ UNCHANGED <<runner, known, answering, cancel, owing, jobVars, connectAge, user>>

Decide ==
  /\ link = "asking" /\ decision # "none"
  /\ \/ decision = "accept" /\ link' = "trusted" /\ Stay
     \/ decision = "reject" /\ link' = "refused" /\ Fail("keyRejected")
     \/ decision = "cancel" /\ link' = "refused" /\ Stay
  /\ decision' = "none"
  /\ UNCHANGED <<runner, known, question, answering, cancel, owing, jobVars, ages, user>>

\* The time for a decision is over, and nobody receives it any more ...
Expire ==
  /\ link = "asking" /\ decision = "none" /\ questionAge = DecisionLimit
  /\ link' = "expired"
  /\ Stay
  /\ UNCHANGED <<runner, keyVars, cancel, owing, jobVars, ages, user>>

\* Fault: the question is left open.
ExpiredOpen ==
  /\ link = "expired"
  /\ link' = "refused"
  /\ Fail("decisionTimeout")
  /\ UNCHANGED <<runner, keyVars, cancel, owing, jobVars, ages, user>>

\* ... then the question is withdrawn.
Expired ==
  /\ link = "expired"
  /\ link' = "refused"
  /\ question' = FALSE
  /\ Fail("decisionTimeout")
  /\ UNCHANGED <<runner, known, answering, decision, cancel, owing, jobVars, ages, user>>

\* ClientHandler::disconnected and fail_connected.
Lose ==
  /\ link = "open"
  /\ link' = "lost"
  /\ IF state = "connected" THEN Fail("lost") /\ owing' = TRUE
     ELSE Stay /\ UNCHANGED owing
  /\ UNCHANGED <<runner, keyVars, cancel, jobVars, ages, user>>
-----------------------------------------------------------------------------
(* The runner: connect_route. *)

\* Fault: a broken connection is not reported when the handler refused.
ConnectFailsSilently ==
  /\ At("connect")
  /\ link = "refused" \/ connectAge = ConnectLimit
  /\ IF state = "awaiting" THEN Stay ELSE Fail("connection")
  /\ Goto("ended")
  /\ UNCHANGED <<link, keyVars, cancel, owing, jobVars, ages, user>>

\* The connection failed, or took too long: the limit runs from before the
\* server's key until after the user's decision on it.  The connection may go
\* on by itself.
ConnectFails ==
  /\ At("connect")
  /\ link = "refused" \/ connectAge = ConnectLimit
  /\ Fail("connection")
  /\ Goto("ended")
  /\ UNCHANGED <<link, keyVars, cancel, owing, jobVars, ages, user>>

\* A session that cannot go on to authenticate is left in the state it is in.
Connect ==
  /\ At("connect") /\ link = "trusted"
  /\ link' = "open"
  /\ Transition("authenticating")
  /\ Goto(IF CanMove("authenticating") THEN "authenticate" ELSE "ended")
  /\ UNCHANGED <<keyVars, cancel, owing, jobVars, ages, user>>

Authenticate ==
  /\ At("authenticate")
  /\ \/ /\ link = "open" /\ runner.node < Route
        /\ Transition("connecting")
        /\ IF CanMove("connecting")
           THEN /\ runner' = [phase |-> "tunnel", node |-> runner.node + 1]
                /\ link' = "none"
           ELSE Goto("ended") /\ UNCHANGED link
     \/ /\ link = "open" /\ runner.node = Route
        /\ Stay
        /\ Goto("opening")
        /\ UNCHANGED link
     \/ /\ Fail("authentication")
        /\ Goto("ended")
        /\ UNCHANGED link
  /\ UNCHANGED <<keyVars, cancel, owing, jobVars, ages, user>>

\* The next node is reached through the one before.
OpenTunnel ==
  /\ At("tunnel")
  /\ \/ /\ Stay
        /\ Goto("connect")
        /\ link' = "keying"
        /\ connectAge' = 0
     \/ /\ Fail("tunnel")
        /\ Goto("ended")
        /\ UNCHANGED <<link, connectAge>>
  /\ UNCHANGED <<keyVars, cancel, owing, jobVars, questionAge, user>>

Cancelled ==
  /\ runner.phase \in {"tunnel", "connect", "authenticate"}
  /\ cancel = "sent"
  /\ cancel' = "taken"
  /\ Transition("closed")
  /\ Goto("ended")
  /\ UNCHANGED <<link, keyVars, owing, jobVars, ages, user>>

-----------------------------------------------------------------------------
(* The runner: run_terminal_session.  What it awaits of the remote ends    *)
(* when the remote answers or the transport is lost.                       *)

\* The loop looks at the state after each turn.
Serve == Goto(IF state' = "connected" THEN "loop" ELSE "closing")

\* The channel, the PTY and the shell; with a shell free of history, its
\* startup is awaited next.
OpenShell ==
  /\ At("opening")
  /\ \/ link = "open" /\ Transition("connected") /\ Serve
     \/ link = "open" /\ Stay /\ Goto("startup")
     \/ Fail("connection") /\ Goto("ended")
  /\ UNCHANGED <<link, keyVars, cancel, owing, jobVars, ages, user>>

\* history_free::initialize: here a cancelled session is not failed.
StartShell ==
  /\ At("startup")
  /\ \/ link = "open" /\ Transition("connected") /\ Serve /\ UNCHANGED cancel
     \/ /\ cancel' = IF cancel = "sent" THEN "taken" ELSE cancel
        /\ IF state = "closing" THEN Transition("closed") ELSE Fail("startup")
        /\ Goto("ended")
  /\ UNCHANGED <<link, keyVars, owing, jobVars, ages, user>>

LoopCancelled ==
  /\ At("loop") /\ cancel = "sent"
  /\ cancel' = "taken"
  /\ Transition("closing")
  /\ Serve
  /\ UNCHANGED <<link, keyVars, owing, jobVars, ages, user>>

\* The shell has ended, or the transport under it.
ShellEnds ==
  /\ At("loop")
  /\ Transition("closing")
  /\ Serve
  /\ UNCHANGED <<link, keyVars, cancel, owing, jobVars, ages, user>>

TakeControl ==
  /\ At("loop") /\ queue # << >>
  /\ Stay
  /\ queue' = Tail(queue)
  /\ IF Head(queue) = "write"
     THEN Goto("write") /\ UNCHANGED job
     ELSE Goto("job") /\ job' = [job EXCEPT ![Head(queue)] = "opening"]
  /\ UNCHANGED <<link, keyVars, cancel, owing, sender, told, ages, user>>

WriteShell ==
  /\ At("write")
  /\ \/ link = "open" /\ Stay
     \/ Fail("connection")
  /\ Serve
  /\ UNCHANGED <<link, keyVars, cancel, owing, jobVars, ages, user>>

\* Fault: a transfer whose channel was refused is not reported.
OpenJobSilently ==
  /\ At("job")
  /\ Stay /\ Serve
  /\ \E j \in Jobs :
       /\ job[j] = "opening"
       /\ \/ /\ link = "open"
             /\ job' = [job EXCEPT ![j] = "running"]
             /\ UNCHANGED sender
          \/ /\ sender' = sender \ {j}
             /\ UNCHANGED job
  /\ UNCHANGED <<link, keyVars, cancel, owing, queue, told, ages, user>>

\* The transfer gets a channel of its own, or is reported as failed.
OpenJob ==
  /\ At("job")
  /\ Stay /\ Serve
  /\ \E j \in Jobs :
       /\ job[j] = "opening"
       /\ \/ /\ link = "open"
             /\ job' = [job EXCEPT ![j] = "running"]
             /\ UNCHANGED sender
          \/ /\ job' = [job EXCEPT ![j] = "reported"]
             /\ sender' = sender \ {j}
  /\ UNCHANGED <<link, keyVars, cancel, owing, queue, told, ages, user>>

\* The channel is closed, staged files are removed, the connections are shut;
\* the control queue goes with the runner.
Finish ==
  /\ At("closing")
  /\ Transition("closed")
  /\ Goto("ended")
  /\ queue' = << >>
  /\ job' = [j \in Jobs |-> IF job[j] = "queued" THEN "dropped" ELSE job[j]]
  /\ UNCHANGED <<link, keyVars, cancel, owing, sender, told, ages, user>>
-----------------------------------------------------------------------------
(* Requests: the host key, close, write, transfers. *)

\* Fault: the error of storing the key is ignored.
AcceptUnstored ==
  /\ Registered /\ question
  /\ question' = FALSE
  /\ answering' = "accept"
  /\ user' = [user EXCEPT !.answer = "accept"]
  /\ known' \in {known, [known EXCEPT ![runner.node] = "trusted"]}
  /\ Stay
  /\ UNCHANGED <<runner, link, decision, cancel, owing, jobVars, ages>>

\* accept_host_key takes the question and stores the key ...
Accept ==
  /\ Registered /\ question
  /\ question' = FALSE
  /\ user' = [user EXCEPT !.answer = "accept"]
  /\ \/ /\ known' = [known EXCEPT ![runner.node] = "trusted"]
        /\ answering' = "accept"
        /\ Stay
     \/ /\ Fail("knownHosts")
        /\ answering' = "cancel"
        /\ UNCHANGED known
  /\ UNCHANGED <<runner, link, decision, cancel, owing, jobVars, ages>>

\* ... as reject_host_key takes it ...
Reject ==
  /\ Registered /\ question
  /\ question' = FALSE
  /\ answering' = "reject"
  /\ user' = [user EXCEPT !.answer = "reject"]
  /\ Stay
  /\ UNCHANGED <<runner, link, known, decision, cancel, owing, jobVars, ages>>

\* ... and sends the decision, to nobody if the time is over.
Answer ==
  /\ answering # "none"
  /\ answering' = "none"
  /\ decision' = IF link = "asking" THEN answering ELSE decision
  /\ Stay
  /\ UNCHANGED <<runner, link, known, question, cancel, owing, jobVars, ages, user>>

\* begin_close, up to cancel_owned_work ...
Close ==
  /\ Registered
  /\ Transition("closing")
  /\ question' = FALSE
  /\ decision' = IF question /\ link = "asking" THEN "cancel" ELSE decision
  /\ owing' = TRUE
  /\ user' = [user EXCEPT !.closed = TRUE]
  /\ UNCHANGED <<runner, link, known, answering, cancel, jobVars, ages>>

\* Fault: only the transfers are told.
CancelTransfersOnly ==
  /\ owing
  /\ owing' = FALSE
  /\ told' = told \cup sender
  /\ sender' = {}
  /\ Stay
  /\ UNCHANGED <<runner, link, keyVars, cancel, queue, job, ages, user>>

\* ... and cancel_owned_work, also after the loss of the transport.
CancelOwnedWork ==
  /\ owing
  /\ owing' = FALSE
  /\ cancel' = IF cancel = "armed" THEN "sent" ELSE cancel
  /\ told' = told \cup sender
  /\ sender' = {}
  /\ Stay
  /\ UNCHANGED <<runner, link, keyVars, queue, job, ages, user>>

\* Fault: the capacity of the queue is not looked at.
WriteUnbounded ==
  /\ Registered /\ state = "connected"
  /\ Len(queue) <= QueueSize
  /\ queue' = Append(queue, "write")
  /\ Stay
  /\ UNCHANGED <<runner, link, keyVars, cancel, owing, job, sender, told, ages, user>>

\* write and resize.
Write ==
  /\ Registered /\ state = "connected"
  /\ Len(queue) < QueueSize
  /\ queue' = Append(queue, "write")
  /\ Stay
  /\ UNCHANGED <<runner, link, keyVars, cancel, owing, job, sender, told, ages, user>>

\* start_transfer looks at the state, registers the transfer and queues it;
\* anything may happen in between.
CheckJob(j) ==
  /\ job[j] = "idle"
  /\ Registered /\ state = "connected"
  /\ job' = [job EXCEPT ![j] = "checked"]
  /\ Stay
  /\ UNCHANGED <<runner, link, keyVars, cancel, owing, queue, sender, told, ages, user>>

RegisterJob(j) ==
  /\ job[j] = "checked"
  /\ job' = [job EXCEPT ![j] = "registered"]
  /\ sender' = sender \cup {j}
  /\ Stay
  /\ UNCHANGED <<runner, link, keyVars, cancel, owing, queue, told, ages, user>>

SubmitJob(j) ==
  /\ job[j] = "registered"
  /\ IF Registered /\ Len(queue) < QueueSize
     THEN /\ job' = [job EXCEPT ![j] = "queued"]
          /\ queue' = Append(queue, j)
          /\ UNCHANGED <<sender, told>>
     ELSE /\ job' = [job EXCEPT ![j] = "refused"]
          /\ sender' = sender \ {j}
          /\ told' = told \cup (sender \cap {j})
          /\ UNCHANGED queue
  /\ Stay
  /\ UNCHANGED <<runner, link, keyVars, cancel, owing, ages, user>>

CancelJob(j) ==
  /\ Registered
  /\ j \in sender /\ job[j] \in {"queued", "opening", "running"}
  /\ told' = told \cup {j}
  /\ sender' = sender \ {j}
  /\ Stay
  /\ UNCHANGED <<runner, link, keyVars, cancel, owing, queue, job, ages, user>>

\* run_transfer ends: completed, cancelled or failed, which it reports.
EndJob(j) ==
  /\ job[j] = "running"
  /\ job' = [job EXCEPT ![j] = "reported"]
  /\ sender' = sender \ {j}
  /\ Stay
  /\ UNCHANGED <<runner, link, keyVars, cancel, owing, queue, told, ages, user>>

Tick ==
  /\ \/ At("connect") /\ connectAge < ConnectLimit
     \/ link = "asking" /\ questionAge < DecisionLimit
  /\ connectAge' = IF At("connect") /\ connectAge < ConnectLimit
                   THEN connectAge + 1 ELSE connectAge
  /\ questionAge' = IF link = "asking" /\ questionAge < DecisionLimit
                    THEN questionAge + 1 ELSE questionAge
  /\ Stay
  /\ UNCHANGED <<runner, link, keyVars, cancel, owing, jobVars, user>>

-----------------------------------------------------------------------------

Connection == KeyArrives \/ Decide \/ Expire \/ Expired \/ Lose
Connecting == ConnectFails \/ Connect \/ Authenticate \/ OpenTunnel \/ Cancelled
Shell ==
  \/ OpenShell \/ StartShell \/ LoopCancelled \/ ShellEnds \/ TakeControl
  \/ WriteShell \/ OpenJob \/ Finish
Transfer(j) == CheckJob(j) \/ RegisterJob(j) \/ SubmitJob(j) \/ CancelJob(j) \/ EndJob(j)
Request == Accept \/ Reject \/ Answer \/ Close \/ CancelOwnedWork \/ Write

Next ==
  \/ Connection \/ Connecting \/ Shell \/ Request \/ Tick
  \/ \E j \in Jobs : Transfer(j)

Spec == Init /\ [][Next]_vars

\* Tasks run, timers fire, and what was asked of the remote is answered or its
\* transport is lost: the remote is not required to present its key, nor to
\* end the shell.
FairSpec ==
  /\ Spec
  /\ WF_vars(Tick) /\ WF_vars(Decide) /\ WF_vars(Expire) /\ WF_vars(Expired)
  /\ WF_vars(Connecting) /\ WF_vars(Answer) /\ WF_vars(CancelOwnedWork)
  /\ WF_vars(OpenShell) /\ WF_vars(StartShell) /\ WF_vars(WriteShell)
  /\ WF_vars(OpenJob) /\ WF_vars(LoopCancelled) /\ WF_vars(TakeControl)
  /\ WF_vars(Finish)
  /\ \A j \in Jobs : WF_vars(RegisterJob(j)) /\ WF_vars(SubmitJob(j)) /\ WF_vars(EndJob(j))

-----------------------------------------------------------------------------
(* Properties. *)

\* Credentials are sent to a node, and the next node is reached through it,
\* only after its key was known or the user's acceptance of it was stored
\* (docs/security-model.md:29), whatever is closed, answered late or fails.
KeyBeforeCredentials ==
  /\ \A n \in 1..(runner.node - 1) : known[n] = "trusted"
  /\ runner.phase \notin {"tunnel", "connect", "ended"} => known[runner.node] = "trusted"

\* Closing a session while it waits for the user's decision is not reported
\* as a rejection (docs/security-model.md:32): that takes a user's rejection.
RejectionIsUsers == failure = "keyRejected" => user.answer = "reject"

\* A question the user can answer has a handler that receives the answer, or
\* is about to withdraw it: no question outlives its connection.
QuestionHasListener == question => link \in {"asking", "expired"}

\* A session that ends without being closed by the user is seen to end: its
\* state is Closed or Failed.  (One that is closed may stay in Closing.)
EndsVisibly == At("ended") => state \in {"closed", "failed"} \/ user.closed

\* A session that is closed releases its runner and its connections, as long
\* as the remote answers what is asked of it.
CloseReleases == user.closed ~> At("ended")

\* A transfer that was accepted is reported, unless the session ends.
AcceptedJobsEnd ==
  \A j \in Jobs : job[j] = "queued" ~> job[j] = "reported" \/ At("ended")

\* The safety of it (manager_control.rs:330-372): what waits is in the queue,
\* once, of a runner that will take it or drop it, what is being opened the
\* runner has; whatever else a session does, no transfer is taken twice or
\* left behind.
InQueue(j) == \E i \in 1..Len(queue) : queue[i] = j
AcceptedJobsKept ==
  /\ \A j \in Jobs : job[j] = "queued" <=> InQueue(j)
  /\ \A i, k \in 1..Len(queue) : i # k /\ queue[i] \in Jobs => queue[i] # queue[k]
  /\ \A j \in Jobs : job[j] = "opening" => At("job")
  /\ At("ended") => queue = << >>

\* docs/security-model.md:32 gives the user 60 seconds for the decision: while
\* the handler waits and the time is not over, the session has not failed.
AskedForItsTime ==
  link = "asking" /\ decision = "none" /\ answering = "none" /\ questionAge < DecisionLimit
    => state # "failed"
=============================================================================
