---------------------------- MODULE NetworkProofs ----------------------------
(***************************************************************************)
(* Proofs about NetworkRules, for every set of sessions, rules, requests   *)
(* and connections.  TypeInv says which values belong to which phase;      *)
(* QuietInv and RecordInv carry the two safety properties.                 *)
(***************************************************************************)
EXTENDS NetworkRules, TLAPS

USE DEF Versions, IdleRequest, NoConn, LoopAt, loopVars, serverVars, Live, Waits,
        Selects, HasControl, Taken, Send, Reply, Asks, Closing

-----------------------------------------------------------------------------
(* Type correctness.  What a loop, a request or a connection names depends *)
(* on its phase.                                                           *)

Holding == {"asking", "withdrawing"}
LoopShape ==
  \A s \in Sessions :
    /\ loop[s].at \in Holding => loop[s].control \in Control
    /\ loop[s].at = "asking" => loop[s].control.rule \in RemoteRules
    /\ loop[s].at = "opening" => loop[s].conn \in Conns
RequestShape ==
  \A q \in Requests :
    Waits(q) => request[q].session \in Sessions /\ request[q].rule \in Rules
TypeInv == TypeOK /\ LoopShape /\ RequestShape

LEMMA TypeInit == Init => TypeInv
  BY RulesAssumption, VersionsAssumption DEF Init, TypeInv, TypeOK, LoopShape, RequestShape,
      Holding, Request, Conn, Loop

LEMMA HeadTyped ==
  ASSUME TypeOK, NEW s \in Sessions, controls[s] # <<>>
  PROVE  Head(controls[s]) \in Control /\ Tail(controls[s]) \in Seq(Control)
  BY DEF TypeOK

\* What a reply does to the requests.
LEMMA ReplyTyped ==
  ASSUME TypeInv, NEW k \in Control, NEW answer \in {"ok", "error"}, Reply(k, answer)
  PROVE  /\ request' \in [Requests -> Request]
         /\ \A q \in Requests : /\ request'[q].phase = request[q].phase
                                /\ request'[q].session = request[q].session
                                /\ request'[q].rule = request[q].rule
         /\ RequestShape'
<1>1. k.from \in Requests
  BY DEF Control
<1> DEFINE a == IF Waits(k.from) THEN answer ELSE request[k.from].reply
<1>2. a \in {"none", "ok", "error"}
  BY <1>1 DEF TypeInv, TypeOK, Request
<1>3. request' = [request EXCEPT ![k.from].reply = a]
  BY <1>1 DEF TypeInv, TypeOK, Request
<1> HIDE DEF a
<1>4. request' \in [Requests -> Request]
  <2>0. request[k.from] \in Request
    BY <1>1 DEF TypeInv, TypeOK
  <2>1. [request[k.from] EXCEPT !.reply = a] \in Request
    BY <2>0, <1>2 DEF Request
  <2>2. request' = [request EXCEPT ![k.from] = [request[k.from] EXCEPT !.reply = a]]
    BY <1>3
  <2>3. QED BY <1>1, <2>1, <2>2 DEF TypeInv, TypeOK
<1>5. \A q \in Requests : /\ request'[q].phase = request[q].phase
                          /\ request'[q].session = request[q].session
                          /\ request'[q].rule = request[q].rule
  BY <1>1, <1>3 DEF TypeInv, TypeOK, Request
<1>6. QED BY <1>4, <1>5 DEF TypeInv, RequestShape

\* What an action does to one element of a variable.
LEMMA ConnSet ==
  ASSUME TypeInv, NEW c \in Conns,
         \/ UNCHANGED conn
         \/ conn' = [conn EXCEPT ![c] = NoConn]
         \/ \E phase \in {"queued", "live"} : conn' = [conn EXCEPT ![c].phase = phase]
  PROVE  conn' \in [Conns -> Conn]
<1>1. NoConn \in Conn
  BY VersionsAssumption DEF Conn
<1>2. ASSUME NEW phase \in {"queued", "live"}, conn' = [conn EXCEPT ![c].phase = phase]
      PROVE  conn' \in [Conns -> Conn]
  <2>0. conn[c] \in Conn
    BY DEF TypeInv, TypeOK
  <2>1. [conn[c] EXCEPT !.phase = phase] \in Conn
    BY <2>0 DEF Conn
  <2>2. conn' = [conn EXCEPT ![c] = [conn[c] EXCEPT !.phase = phase]]
    BY <1>2
  <2>3. QED BY <2>1, <2>2 DEF TypeInv, TypeOK
<1>3. QED BY <1>1, <1>2 DEF TypeInv, TypeOK

LEMMA RunningSet ==
  ASSUME running \in [Sessions -> [Rules -> Versions]],
         NEW s \in Sessions, NEW r \in Rules, NEW v \in Versions,
         running' = [running EXCEPT ![s][r] = v]
  PROVE  running' \in [Sessions -> [Rules -> Versions]]
<1>1. [running[s] EXCEPT ![r] = v] \in [Rules -> Versions]
  OBVIOUS
<1>2. running' = [running EXCEPT ![s] = [running[s] EXCEPT ![r] = v]]
  OBVIOUS
<1> HIDE DEF Versions
<1>3. QED BY <1>1, <1>2

LEMMA LoopSet ==
  ASSUME TypeInv, NEW s \in Sessions, NEW v \in Loop, loop' = [loop EXCEPT ![s] = v],
         v.at \in Holding => v.control \in Control,
         v.at = "asking" => v.control.rule \in RemoteRules,
         v.at = "opening" => v.conn \in Conns
  PROVE  loop' \in [Sessions -> Loop] /\ LoopShape'
<1>1. loop \in [Sessions -> Loop] /\ LoopShape
  BY DEF TypeInv, TypeOK
<1>2. loop' \in [Sessions -> Loop]
  BY <1>1
<1>3. \A z \in Sessions : loop'[z] = IF z = s THEN v ELSE loop[z]
  BY <1>1
<1>4. LoopShape'
  BY <1>1, <1>3 DEF LoopShape
<1> QED BY <1>2, <1>4

LEMMA LoopTakes ==
  ASSUME TypeInv, NEW s \in Sessions, NEW k \in Control,
         \/ UNCHANGED loop
         \/ loop' = [loop EXCEPT ![s] = [LoopAt("withdrawing") EXCEPT !.control = k]]
         \/ k.rule \in RemoteRules /\ loop' = [loop EXCEPT ![s] = [LoopAt("asking") EXCEPT !.control = k]]
  PROVE  loop' \in [Sessions -> Loop] /\ LoopShape'
<1>1. CASE UNCHANGED loop
  BY <1>1 DEF TypeInv, TypeOK, LoopShape
<1>2. PICK at \in Holding :
        UNCHANGED loop \/ /\ loop' = [loop EXCEPT ![s] = [at |-> at, control |-> k, conn |-> None]]
                          /\ at = "asking" => k.rule \in RemoteRules
  BY DEF Holding
<1> DEFINE v == [at |-> at, control |-> k, conn |-> None]
<1>3. /\ v \in Loop /\ v.at = at /\ v.control = k
  BY DEF Loop, Holding
<1> HIDE DEF v
<1>4. CASE loop' = [loop EXCEPT ![s] = v] /\ (at = "asking" => k.rule \in RemoteRules)
  <2>1. at # "opening"
    BY DEF Holding
  <2> QED BY <1>3, <1>4, <2>1, LoopSet
<1>5. QED BY <1>1, <1>2, <1>4 DEF v

LEMMA LoopOpens ==
  ASSUME TypeInv, NEW s \in Sessions, NEW c \in Conns,
         UNCHANGED loop \/ loop' = [loop EXCEPT ![s] = [LoopAt("opening") EXCEPT !.conn = c]]
  PROVE  loop' \in [Sessions -> Loop] /\ LoopShape'
<1>1. UNCHANGED loop \/ loop' = [loop EXCEPT ![s] = [at |-> "opening", control |-> None, conn |-> c]]
  OBVIOUS
<1> DEFINE v == [at |-> "opening", control |-> None, conn |-> c]
<1>2. /\ v \in Loop /\ v.at = "opening" /\ v.conn = c
  BY DEF Loop
<1> HIDE DEF v
<1>3. CASE loop' = [loop EXCEPT ![s] = v]
  <2>1. v.at \notin Holding /\ v.at # "asking"
    BY <1>2 DEF Holding
  <2> QED BY <1>2, <1>3, <2>1, LoopSet
<1>4. CASE UNCHANGED loop
  BY <1>4 DEF TypeInv, TypeOK, LoopShape
<1>5. QED BY <1>1, <1>3, <1>4 DEF v

LEMMA LoopReturns ==
  ASSUME TypeInv, NEW s \in Sessions, NEW at \in {"select", "draining", "ended"},
         loop' = [loop EXCEPT ![s] = LoopAt(at)]
  PROVE  loop' \in [Sessions -> Loop] /\ LoopShape'
  BY DEF TypeInv, TypeOK, LoopShape, Loop, Holding

LEMMA TypeAsking ==
  ASSUME TypeInv, NEW q \in Requests, Asking(q) PROVE TypeInv'
<1> USE DEF TypeInv, TypeOK
<1>1. ASSUME NEW s \in Sessions, NEW r \in Rules, Start(q, s, r) \/ Stop(q, s, r)
      PROVE TypeInv'
  <2>1. PICK op \in {"start", "stop"}, phase \in {"starting", "stopping"} :
          Send(s, op, r, q) /\ Asks(q, s, r, phase)
    BY <1>1 DEF Start, Stop
  <2>2. [op |-> op, rule |-> r, version |-> stored[r], from |-> q] \in Control
    BY DEF Control
  <2>3. controls' \in [Sessions -> Seq(Control)]
    BY <2>1, <2>2
  <2>4. request' = [request EXCEPT ![q] = [phase |-> phase, session |-> s, rule |-> r,
                                           reply |-> "none"]]
    BY <2>1
  <2>5. request' \in [Requests -> Request]
    BY <2>4 DEF Request
  <2>6. RequestShape'
    BY <2>4 DEF RequestShape
  <2>7. QED BY <2>1, <2>3, <2>5, <2>6 DEF LoopShape
<1>2. CASE Finish(q)
  <2>1. request' \in [Requests -> Request] /\ RequestShape'
    BY <1>2 DEF Finish, Request, RequestShape
  <2>2. recorded' \in [Sessions -> SUBSET Rules]
    BY <1>2 DEF Finish, RequestShape
  <2>3. QED BY <1>2, <2>1, <2>2 DEF Finish, LoopShape
<1>3. CASE HangUp(q)
  <2>1. request' \in [Requests -> Request] /\ RequestShape'
    BY <1>3 DEF HangUp, Request, RequestShape
  <2>2. abandoned' \subseteq Sessions \X Rules
    BY <1>3 DEF HangUp, RequestShape
  <2>3. QED BY <1>3, <2>1, <2>2 DEF HangUp, LoopShape
<1>4. QED BY <1>1, <1>2, <1>3 DEF Asking

LEMMA TypeEnding ==
  ASSUME TypeInv,
         \/ \E r \in Rules, version \in Versions : Edit(r, version)
         \/ DeleteProfile
         \/ \E s \in Sessions : Destroy(s) \/ Lose(s)
  PROVE  TypeInv'
<1> USE DEF TypeInv, TypeOK
<1>1. ASSUME NEW r \in Rules, NEW version \in Versions, Edit(r, version) PROVE TypeInv'
  BY <1>1 DEF Edit, LoopShape, RequestShape
<1>2. CASE DeleteProfile
  BY <1>2, VersionsAssumption, SMTT(30) DEF DeleteProfile, LoopShape, RequestShape
<1>3. ASSUME NEW s \in Sessions, Destroy(s) \/ Lose(s) PROVE TypeInv'
  <2>1. /\ session' \in [Sessions -> {"connected", "closing", "failed", "closed"}]
        /\ cancelled' \subseteq Sessions /\ owned' \subseteq Sessions
        /\ recorded' \in [Sessions -> SUBSET Rules]
    <3>1. CASE Destroy(s)
      BY <3>1 DEF Destroy
    <3>2. CASE Lose(s)
      BY <3>2 DEF Lose
    <3>3. QED BY <1>3, <3>1, <3>2
  <2>2. UNCHANGED <<loop, running, mapped, controls, conn, stored, gate, abandoned, request>>
    BY <1>3 DEF Destroy, Lose
  <2>3. QED BY <2>1, <2>2 DEF LoopShape, RequestShape
<1>4. QED BY <1>1, <1>2, <1>3

LEMMA TypeLooping ==
  ASSUME TypeInv, NEW s \in Sessions, Looping(s) PROVE TypeInv'
<1> USE DEF TypeInv, TypeOK
<1>1. CASE LoopStart(s)
  <2> DEFINE k == Head(controls[s])
  <2>1. k \in Control /\ Tail(controls[s]) \in Seq(Control)
    BY <1>1, HeadTyped DEF LoopStart
  <2>2. controls' \in [Sessions -> Seq(Control)]
    BY <1>1, <2>1 DEF LoopStart
  <2>3. request' \in [Requests -> Request] /\ RequestShape'
    <3>1. CASE UNCHANGED request
      BY <3>1 DEF RequestShape
    <3>2. CASE \E answer \in {"ok", "error"} : Reply(k, answer)
      <4>1. PICK answer \in {"ok", "error"} : Reply(k, answer)
        BY <3>2
      <4> HIDE DEF k
      <4>2. QED BY <4>1, <2>1, ReplyTyped
    <3>3. QED BY <1>1, <3>1, <3>2 DEF LoopStart
  <2>4. running' \in [Sessions -> [Rules -> Versions]]
    <3>1. k.rule \in Rules /\ k.version \in Versions
      BY <2>1 DEF Control
    <3>2. running' = running \/ running' = [running EXCEPT ![s][k.rule] = k.version]
      BY <1>1 DEF LoopStart
    <3> HIDE DEF k, Versions
    <3>3. running \in [Sessions -> [Rules -> Versions]]
      OBVIOUS
    <3> HIDE DEF TypeInv, TypeOK
    <3>4. QED BY <3>1, <3>2, <3>3, RunningSet
  <2>5. loop' \in [Sessions -> Loop] /\ LoopShape'
    <3>1. CASE UNCHANGED loop
      BY <3>1, Zenon DEF LoopShape
    <3>2. CASE /\ k.rule \in RemoteRules
               /\ loop' = [loop EXCEPT ![s] = [LoopAt("asking") EXCEPT !.control = k]]
      <4> HIDE DEF k
      <4>1. QED BY <3>2, <2>1, LoopTakes
    <3>3. QED BY <1>1, <3>1, <3>2 DEF LoopStart
  <2>6. QED BY <1>1, <2>2, <2>3, <2>4, <2>5 DEF LoopStart
<1>2. CASE LoopStop(s)
  <2> DEFINE k == Head(controls[s])
  <2>1. k \in Control /\ Tail(controls[s]) \in Seq(Control)
    BY <1>2, HeadTyped DEF LoopStop
  <2>2. controls' \in [Sessions -> Seq(Control)]
    BY <1>2, <2>1 DEF LoopStop
  <2>3. request' \in [Requests -> Request] /\ RequestShape'
    <3>1. CASE UNCHANGED request
      BY <3>1 DEF RequestShape
    <3>2. CASE Reply(k, "ok")
      <4> HIDE DEF k
      <4>2. QED BY <3>2, <2>1, ReplyTyped
    <3>3. QED BY <1>2, <3>1, <3>2 DEF LoopStop
  <2>4. running' \in [Sessions -> [Rules -> Versions]]
    BY <1>2, <2>1, VersionsAssumption DEF LoopStop, Control
  <2>5. loop' \in [Sessions -> Loop] /\ LoopShape'
    <3>1. \/ UNCHANGED loop
          \/ loop' = [loop EXCEPT ![s] = [LoopAt("withdrawing") EXCEPT !.control = k]]
      BY <1>2 DEF LoopStop
    <3> HIDE DEF k
    <3>2. QED BY <3>1, <2>1, LoopTakes
  <2>6. mapped' \in [Sessions -> SUBSET RemoteRules]
    BY <1>2 DEF LoopStop
  <2>7. conn' \in [Conns -> Conn]
    BY <1>2, VersionsAssumption DEF LoopStop, WithoutTasks, Conn
  <2>8. QED BY <1>2, <2>2, <2>3, <2>4, <2>5, <2>6, <2>7 DEF LoopStop
<1>3. CASE Answered(s)
  <2> DEFINE k == loop[s].control
  <2>1. k \in Control /\ k.rule \in RemoteRules
    BY <1>3 DEF Answered, LoopShape, Holding
  <2>2. request' \in [Requests -> Request] /\ RequestShape'
    <3>1. PICK answer \in {"ok", "error"} : Reply(k, answer)
      BY <1>3 DEF Answered
    <3> HIDE DEF k
    <3>2. QED BY <3>1, <2>1, ReplyTyped
  <2>3. running' \in [Sessions -> [Rules -> Versions]]
    <3>1. k.rule \in Rules /\ k.version \in Versions
      BY <2>1 DEF Control
    <3>2. running' = running \/ running' = [running EXCEPT ![s][k.rule] = k.version]
      BY <1>3 DEF Answered
    <3> HIDE DEF k, Versions
    <3>3. running \in [Sessions -> [Rules -> Versions]]
      OBVIOUS
    <3> HIDE DEF TypeInv, TypeOK
    <3>4. QED BY <3>1, <3>2, <3>3, RunningSet
  <2>4. mapped' \in [Sessions -> SUBSET RemoteRules]
    <3>1. mapped' = mapped \/ mapped' = [mapped EXCEPT ![s] = @ \cup {k.rule}]
      BY <1>3 DEF Answered
    <3> HIDE DEF k
    <3>2. mapped[s] \cup {k.rule} \in SUBSET RemoteRules
      BY <2>1
    <3>3. mapped \in [Sessions -> SUBSET RemoteRules]
      OBVIOUS
    <3> HIDE DEF TypeInv, TypeOK
    <3>4. QED BY <3>1, <3>2, <3>3
  <2>5. loop' \in [Sessions -> Loop] /\ LoopShape'
    BY <1>3, LoopReturns DEF Answered
  <2>6. QED BY <1>3, <2>2, <2>3, <2>4, <2>5 DEF Answered
<1>4. CASE Withdrawn(s)
  <2> DEFINE k == loop[s].control
  <2>1. k \in Control
    BY <1>4 DEF Withdrawn, LoopShape, Holding
  <2>2. request' \in [Requests -> Request] /\ RequestShape'
    <3>1. PICK answer \in {"ok", "error"} : Reply(k, answer)
      BY <1>4 DEF Withdrawn
    <3> HIDE DEF k
    <3>2. QED BY <3>1, <2>1, ReplyTyped
  <2>3. loop' \in [Sessions -> Loop] /\ LoopShape'
    BY <1>4, LoopReturns DEF Withdrawn
  <2>4. QED BY <1>4, <2>2, <2>3 DEF Withdrawn
<1>5. ASSUME NEW c \in Conns, TakeDirect(s, c) PROVE TypeInv'
  <2>1. loop' \in [Sessions -> Loop] /\ LoopShape'
    <3>1. \/ UNCHANGED loop
          \/ loop' = [loop EXCEPT ![s] = [LoopAt("opening") EXCEPT !.conn = c]]
      BY <1>5 DEF TakeDirect
    <3>2. QED BY <3>1, LoopOpens
  <2>2. conn' \in [Conns -> Conn]
    <3>1. UNCHANGED conn \/ conn' = [conn EXCEPT ![c] = NoConn]
      BY <1>5 DEF TakeDirect
    <3>2. QED BY <3>1, ConnSet
  <2>3. QED BY <1>5, <2>1, <2>2 DEF TakeDirect, RequestShape
<1>6. CASE Opened(s)
  <2>0. loop[s].conn \in Conns
    BY <1>6 DEF Opened, LoopShape
  <2>1. loop' \in [Sessions -> Loop] /\ LoopShape'
    BY <1>6, LoopReturns DEF Opened
  <2>2. conn' \in [Conns -> Conn]
    BY <2>0, <1>6, ConnSet DEF Opened
  <2>3. QED BY <1>6, <2>1, <2>2 DEF Opened, RequestShape
<1>7. CASE Drain(s)
  <2>1. loop' \in [Sessions -> Loop] /\ LoopShape'
    BY <1>7, LoopReturns DEF Drain
  <2>2. QED BY <1>7, <2>1, VersionsAssumption DEF Drain, RequestShape
<1>8. CASE End(s)
  <2>1. loop' \in [Sessions -> Loop] /\ LoopShape'
    BY <1>8, LoopReturns DEF End
  <2>2. conn' \in [Conns -> Conn]
    BY <1>8, VersionsAssumption DEF End, Conn
  <2>3. QED BY <1>8, <2>1, <2>2 DEF End, RequestShape
<1>9. QED BY <1>1, <1>2, <1>3, <1>4, <1>5, <1>6, <1>7, <1>8 DEF Looping

LEMMA TypeConnecting ==
  ASSUME TypeInv, NEW c \in Conns, Connecting(c) PROVE TypeInv'
<1> USE DEF TypeInv, TypeOK
<1>1. ASSUME NEW s \in Sessions, NEW r \in Rules, Accept(c, s, r) \/ RemoteOpens(c, s, r)
      PROVE TypeInv'
  <2>1. PICK phase \in {"accepted", "accepting"}, v \in Versions :
          conn' = [conn EXCEPT ![c] = [phase |-> phase, session |-> s, rule |-> r,
                                       version |-> v]]
    BY <1>1 DEF Accept, RemoteOpens
  <2>2. [phase |-> phase, session |-> s, rule |-> r, version |-> v] \in Conn
    BY DEF Conn
  <2>3. conn' \in [Conns -> Conn]
    BY <2>1, <2>2
  <2>4. QED BY <1>1, <2>3 DEF Accept, RemoteOpens, LoopShape, RequestShape
<1>2. CASE Enqueue(c) \/ Accepted(c) \/ HangUpConn(c)
  <2>1. conn' \in [Conns -> Conn]
    BY <1>2, ConnSet DEF Enqueue, Accepted, HangUpConn
  <2>2. QED BY <1>2, <2>1 DEF Enqueue, Accepted, HangUpConn, LoopShape, RequestShape
<1>3. QED BY <1>1, <1>2 DEF Connecting

LEMMA TypeNext == TypeInv /\ [Next]_vars => TypeInv'
<1>1. CASE UNCHANGED vars
  BY <1>1 DEF vars, TypeInv, TypeOK, LoopShape, RequestShape
<1>2. QED
  BY <1>1, TypeAsking, TypeEnding, TypeLooping, TypeConnecting DEF Next

\* Every reachable state is well typed.
THEOREM NetworkTypeCorrect == Spec => []TypeOK
<1>1. TypeInv => TypeOK
  BY DEF TypeInv
<1>2. QED BY <1>1, TypeInit, TypeNext, PTL DEF Spec
-----------------------------------------------------------------------------
(* A stopped rule is quiet.  What becomes a live connection of a local rule *)
(* waits in the queue of a session whose rule runs while the loop opens it. *)

ConnShape ==
  \A c \in Conns :
    /\ conn[c].phase # "none" => conn[c].session \in Sessions /\ conn[c].rule \in Rules
    /\ conn[c].phase \in {"accepted", "queued"} => conn[c].rule \notin RemoteRules
    /\ conn[c].phase = "accepting" => conn[c].rule \in RemoteRules
OpeningRuns ==
  \A s \in Sessions :
    loop[s].at = "opening" =>
      /\ conn[loop[s].conn].phase = "queued"
      /\ conn[loop[s].conn].session = s
      /\ running[s][conn[loop[s].conn].rule] # 0
QuietInv == ConnShape /\ OpeningRuns /\ StoppedRuleIsQuiet

LEMMA QuietInit == Init => QuietInv
  BY DEF Init, QuietInv, ConnShape, OpeningRuns, StoppedRuleIsQuiet

LEMMA QuietSame ==
  QuietInv /\ UNCHANGED <<loop, running, conn>> => QuietInv'
  BY DEF QuietInv, ConnShape, OpeningRuns, StoppedRuleIsQuiet

\* A step that stops nothing leaves the connections that wait as they are.
LEMMA QuietKept ==
  ASSUME TypeInv, QuietInv, UNCHANGED conn,
         \A s \in Sessions :
           /\ loop'[s].at = "opening" => loop[s].at = "opening" /\ loop'[s].conn = loop[s].conn
           /\ loop[s].at = "draining" => loop'[s].at = "draining"
           /\ \A r \in Rules \ RemoteRules : running[s][r] # 0 => running'[s][r] # 0
  PROVE  QuietInv'
<1>1. ConnShape'
  BY DEF QuietInv, ConnShape
<1>2. OpeningRuns'
  BY DEF QuietInv, ConnShape, OpeningRuns, TypeInv, LoopShape
<1>3. StoppedRuleIsQuiet'
  BY DEF QuietInv, ConnShape, StoppedRuleIsQuiet
<1>4. QED BY <1>1, <1>2, <1>3 DEF QuietInv

LEMMA QuietLooping ==
  ASSUME TypeInv, QuietInv, NEW s \in Sessions, Looping(s) PROVE QuietInv'
<1>t. /\ loop \in [Sessions -> Loop] /\ running \in [Sessions -> [Rules -> Versions]]
      /\ conn \in [Conns -> Conn]
      /\ \A z \in Sessions : loop[z].at = "opening" => loop[z].conn \in Conns
  BY DEF TypeInv, TypeOK, LoopShape
<1>1. CASE LoopStart(s)
  <2> DEFINE k == Head(controls[s])
  <2>1. /\ conn' = conn /\ loop[s].at = "select"
        /\ \/ loop' = loop
           \/ loop' = [loop EXCEPT ![s] = [LoopAt("asking") EXCEPT !.control = k]]
        /\ \/ running' = running
           \/ running[s][k.rule] = 0 /\ running' = [running EXCEPT ![s][k.rule] = k.version]
    BY <1>1 DEF LoopStart
  <2> HIDE DEF k
  <2>2. ASSUME NEW z \in Sessions
        PROVE  /\ loop'[z].at = "opening" => loop[z].at = "opening" /\ loop'[z].conn = loop[z].conn
               /\ loop[z].at = "draining" => loop'[z].at = "draining"
    BY <2>1, <1>t
  <2>3. ASSUME NEW z \in Sessions, NEW r \in Rules \ RemoteRules, running[z][r] # 0
        PROVE  running'[z][r] # 0
    BY <2>1, <2>3, <1>t
  <2>4. QED BY <2>1, <2>2, <2>3, QuietKept
<1>2. CASE Answered(s)
  <2> DEFINE k == loop[s].control
  <2>1. /\ conn' = conn /\ loop[s].at = "asking"
        /\ loop' = [loop EXCEPT ![s] = LoopAt("select")]
        /\ \/ running' = running
           \/ running' = [running EXCEPT ![s][k.rule] = k.version]
    BY <1>2 DEF Answered
  <2>v. k.rule \in RemoteRules
    BY <1>2 DEF Answered, TypeInv, LoopShape
  <2> HIDE DEF k
  <2>2. ASSUME NEW z \in Sessions
        PROVE  /\ loop'[z].at = "opening" => loop[z].at = "opening" /\ loop'[z].conn = loop[z].conn
               /\ loop[z].at = "draining" => loop'[z].at = "draining"
    BY <2>1, <1>t
  <2>3. ASSUME NEW z \in Sessions, NEW r \in Rules \ RemoteRules, running[z][r] # 0
        PROVE  running'[z][r] # 0
    BY <2>1, <2>v, <2>3, <1>t
  <2>4. QED BY <2>1, <2>2, <2>3, QuietKept
<1>3. CASE Withdrawn(s)
  <2>1. /\ conn' = conn /\ running' = running /\ loop[s].at = "withdrawing"
        /\ loop' = [loop EXCEPT ![s] = LoopAt("select")]
    BY <1>3 DEF Withdrawn
  <2>2. QED BY <2>1, <1>t, QuietKept
<1>4. CASE LoopStop(s)
  <2> DEFINE k == Head(controls[s])
  <2>1. /\ loop[s].at = "select"
        /\ loop' = loop \/ loop' = [loop EXCEPT ![s] = [LoopAt("withdrawing") EXCEPT !.control = k]]
        /\ running' = [running EXCEPT ![s][k.rule] = 0]
        /\ conn' = WithoutTasks(s, k.rule)
    BY <1>4 DEF LoopStop
  <2> HIDE DEF k
  <2>2. \A z \in Sessions :
          /\ loop'[z].at = "opening" => loop[z].at = "opening" /\ loop'[z].conn = loop[z].conn /\ z # s
          /\ loop[z].at = "draining" => loop'[z].at = "draining"
    BY <2>1, <1>t
  <2>3. \A c \in Conns :
          \/ conn'[c] = NoConn
          \/ conn'[c] = conn[c] /\ ~(conn[c].phase = "live" /\ conn[c].session = s /\ conn[c].rule = k.rule)
    BY <2>1 DEF WithoutTasks
  <2>4. \A c \in Conns : conn[c].phase = "queued" => conn'[c] = conn[c]
    BY <2>1 DEF WithoutTasks
  <2>5. \A z \in Sessions, r \in Rules : z # s \/ r # k.rule => running'[z][r] = running[z][r]
    BY <2>1, <1>t
  <2>6. ConnShape'
    BY <2>3 DEF QuietInv, ConnShape
  <2>7. OpeningRuns'
    BY <2>2, <2>4, <2>5, <1>t DEF QuietInv, ConnShape, OpeningRuns
  <2>8. StoppedRuleIsQuiet'
    BY <2>2, <2>3, <2>5 DEF QuietInv, ConnShape, StoppedRuleIsQuiet
  <2>9. QED BY <2>6, <2>7, <2>8 DEF QuietInv
<1>5. ASSUME NEW c \in Conns, TakeDirect(s, c) PROVE QuietInv'
  <2>1. CASE running[s][conn[c].rule] # 0
    <3>1. /\ running' = running /\ conn' = conn /\ loop[s].at = "select"
          /\ conn[c].phase = "queued" /\ conn[c].session = s
          /\ loop' = [loop EXCEPT ![s] = [at |-> "opening", control |-> None, conn |-> c]]
      BY <1>5, <2>1 DEF TakeDirect
    <3>2. OpeningRuns'
      BY <3>1, <2>1, <1>t DEF QuietInv, OpeningRuns
    <3>3. StoppedRuleIsQuiet'
      BY <3>1, <1>t DEF QuietInv, StoppedRuleIsQuiet, ConnShape
    <3>4. QED BY <3>1, <3>2, <3>3 DEF QuietInv, ConnShape
  <2>2. CASE ~(running[s][conn[c].rule] # 0)
    <3>1. /\ running' = running /\ loop' = loop /\ loop[s].at = "select"
          /\ conn[c].phase = "queued" /\ conn[c].session = s
          /\ conn' = [conn EXCEPT ![c] = NoConn]
      BY <1>5, <2>2 DEF TakeDirect
    <3>2. OpeningRuns'
      BY <3>1, <1>t DEF QuietInv, OpeningRuns
    <3>3. StoppedRuleIsQuiet'
      BY <3>1, <1>t DEF QuietInv, StoppedRuleIsQuiet
    <3>4. ConnShape'
      BY <3>1, <1>t DEF QuietInv, ConnShape
    <3>5. QED BY <3>2, <3>3, <3>4 DEF QuietInv
  <2>3. QED BY <2>1, <2>2
<1>6. CASE Opened(s)
  <2> DEFINE c == loop[s].conn
  <2>1. /\ c \in Conns /\ conn[c].phase = "queued" /\ conn[c].session = s
        /\ running[s][conn[c].rule] # 0
    BY <1>6, <1>t DEF Opened, QuietInv, OpeningRuns
  <2>2. /\ loop[s].at = "opening" /\ loop' = [loop EXCEPT ![s] = LoopAt("select")]
        /\ running' = running
        /\ conn' = [conn EXCEPT ![c].phase = "live"] \/ conn' = [conn EXCEPT ![c] = NoConn]
    BY <1>6 DEF Opened
  <2> HIDE DEF c
  <2>3. \A d \in Conns \ {c} : conn'[d] = conn[d]
    BY <2>2, <1>t
  <2>4. conn'[c].phase \in {"live", "none"}
    BY <2>1, <2>2, <1>t DEF Conn
  <2>5. conn'[c].phase = "live" => conn'[c].session = s /\ conn'[c].rule = conn[c].rule
    BY <2>1, <2>2, <1>t DEF Conn
  <2>6. ConnShape'
    BY <2>1, <2>3, <2>4, <2>5 DEF QuietInv, ConnShape
  <2>7. \A z \in Sessions :
          /\ loop'[z].at = "opening" => loop[z].at = "opening" /\ loop'[z].conn = loop[z].conn /\ z # s
          /\ loop[z].at = "draining" => loop'[z].at = "draining"
    BY <2>2, <1>t
  <2>8. OpeningRuns'
    <3>1. ASSUME NEW z \in Sessions, loop'[z].at = "opening"
          PROVE  loop[z].conn \in Conns \ {c}
      BY <2>1, <2>7, <3>1, <1>t DEF QuietInv, OpeningRuns
    <3>2. \A z \in Sessions : running'[z] = running[z]
      BY <2>2
    <3>3. QED BY <2>3, <2>7, <3>1, <3>2 DEF QuietInv, OpeningRuns
  <2>9. StoppedRuleIsQuiet'
    BY <2>1, <2>2, <2>3, <2>4, <2>5, <2>7 DEF QuietInv, ConnShape, StoppedRuleIsQuiet
  <2>10. QED BY <2>6, <2>8, <2>9 DEF QuietInv
<1>7. CASE Drain(s)
  <2>1. /\ loop[s].at = "select" /\ loop' = [loop EXCEPT ![s] = LoopAt("draining")]
        /\ running' = [running EXCEPT ![s] = [r \in Rules |-> 0]]
        /\ conn' = conn
    BY <1>7 DEF Drain
  <2>2. ConnShape'
    BY <2>1 DEF QuietInv, ConnShape
  <2>3. OpeningRuns'
    BY <2>1, <1>t DEF QuietInv, OpeningRuns
  <2>4. StoppedRuleIsQuiet'
    BY <2>1, <1>t DEF QuietInv, ConnShape, StoppedRuleIsQuiet
  <2>5. QED BY <2>2, <2>3, <2>4 DEF QuietInv
<1>8. CASE End(s)
  <2>1. /\ loop[s].at = "draining" /\ loop' = [loop EXCEPT ![s] = LoopAt("ended")]
        /\ running' = running
        /\ conn' = [c \in Conns |-> IF conn[c].session = s THEN NoConn ELSE conn[c]]
    BY <1>8 DEF End
  <2>2. ConnShape'
    BY <2>1 DEF QuietInv, ConnShape
  <2>3. OpeningRuns'
    BY <2>1, <1>t DEF QuietInv, OpeningRuns
  <2>4. StoppedRuleIsQuiet'
    BY <2>1, <1>t DEF QuietInv, ConnShape, StoppedRuleIsQuiet
  <2>5. QED BY <2>2, <2>3, <2>4 DEF QuietInv
<1>9. QED BY <1>1, <1>2, <1>3, <1>4, <1>5, <1>6, <1>7, <1>8 DEF Looping

LEMMA QuietConnecting ==
  ASSUME TypeInv, QuietInv, NEW c \in Conns, Connecting(c) PROVE QuietInv'
<1>t. /\ loop \in [Sessions -> Loop] /\ running \in [Sessions -> [Rules -> Versions]]
      /\ conn \in [Conns -> Conn] /\ mapped \in [Sessions -> SUBSET RemoteRules]
      /\ \A z \in Sessions : loop[z].at = "opening" => loop[z].conn \in Conns
  BY DEF TypeInv, TypeOK, LoopShape
<1>k. ASSUME loop' = loop, running' = running, conn[c].phase # "queued",
             \A d \in Conns \ {c} : conn'[d] = conn[d],
             conn'[c].phase # "none" => conn'[c].session \in Sessions /\ conn'[c].rule \in Rules,
             conn'[c].phase \in {"accepted", "queued"} => conn'[c].rule \notin RemoteRules,
             conn'[c].phase = "accepting" => conn'[c].rule \in RemoteRules,
             conn'[c].phase = "live" => conn'[c].rule \in RemoteRules
      PROVE  QuietInv'
  <2>1. ConnShape'
    BY <1>k DEF QuietInv, ConnShape
  <2>2. OpeningRuns'
    BY <1>k, <1>t DEF QuietInv, OpeningRuns
  <2>3. StoppedRuleIsQuiet'
    BY <1>k DEF QuietInv, StoppedRuleIsQuiet
  <2>4. QED BY <2>1, <2>2, <2>3 DEF QuietInv
<1>1. ASSUME NEW s \in Sessions, NEW r \in Rules, Accept(c, s, r) PROVE QuietInv'
  BY <1>1, <1>t, <1>k DEF Accept
<1>2. ASSUME NEW s \in Sessions, NEW r \in Rules, RemoteOpens(c, s, r) PROVE QuietInv'
  BY <1>2, <1>t, <1>k DEF RemoteOpens
<1>3. CASE Enqueue(c)
  BY <1>3, <1>t, <1>k DEF Enqueue, Conn, QuietInv, ConnShape
<1>4. CASE Accepted(c)
  BY <1>4, <1>t, <1>k DEF Accepted, Conn, QuietInv, ConnShape
<1>5. CASE HangUpConn(c)
  BY <1>5, <1>t, <1>k DEF HangUpConn
<1>6. QED BY <1>1, <1>2, <1>3, <1>4, <1>5 DEF Connecting

LEMMA QuietNext == TypeInv /\ QuietInv /\ [Next]_vars => QuietInv'
<1> SUFFICES ASSUME TypeInv, QuietInv, [Next]_vars PROVE QuietInv'
    OBVIOUS
<1>1. CASE UNCHANGED vars
  BY <1>1, QuietSame DEF vars
<1>2. ASSUME NEW q \in Requests, Asking(q) PROVE QuietInv'
  BY <1>2, QuietSame DEF Asking, Start, Stop, Finish, HangUp
<1>3. ASSUME NEW s \in Sessions, Destroy(s) \/ Lose(s) PROVE QuietInv'
  BY <1>3, QuietSame DEF Destroy, Lose
<1>4. CASE DeleteProfile \/ \E r \in Rules, version \in Versions : Edit(r, version)
  BY <1>4, QuietSame DEF DeleteProfile, Edit
<1>5. QED
  BY <1>1, <1>2, <1>3, <1>4, QuietLooping, QuietConnecting DEF Next

\* Stopping a rule ends the connections its listener accepted, those that are
\* open as well as those that wait to be.
THEOREM StoppedIsQuiet == Spec => []StoppedRuleIsQuiet
<1>1. QuietInv => StoppedRuleIsQuiet
  BY DEF QuietInv
<1>2. QED BY <1>1, TypeInit, TypeNext, QuietInit, QuietNext, PTL DEF Spec
-----------------------------------------------------------------------------
(* What runs is on record.  The control a request sent is in one place: in  *)
(* the queue, or held by the loop; whoever sent it still waits for its      *)
(* answer, or hung up.                                                      *)

Known(k, s) ==
  \/ request[k.from].phase = "gone" /\ <<s, k.rule>> \in abandoned
  \/ /\ request[k.from].phase = IF k.op = "start" THEN "starting" ELSE "stopping"
     /\ request[k.from].session = s /\ request[k.from].rule = k.rule
     /\ request[k.from].reply = "none"
Quiet(s, r) == running[s][r] = 0 \/ <<s, r>> \in abandoned

GateInv == \A q \in Requests : Waits(q) => gate = q
QueueInv ==
  \A k \in Control : \A s \in Sessions : \A i \in 1..Len(controls[s]) :
    controls[s][i] = k => Known(k, s)
HeldInv ==
  \A k \in Control : \A s \in Sessions :
    loop[s].at \in Holding /\ loop[s].control = k =>
      /\ Known(k, s)
      /\ k.op = IF loop[s].at = "asking" THEN "start" ELSE "stop"
      /\ running[s][k.rule] = 0
DistinctInv ==
  \A s \in Sessions : \A i \in 1..Len(controls[s]) :
    /\ \A j \in 1..Len(controls[s]) : i # j => controls[s][i].from # controls[s][j].from
    /\ loop[s].at \in Holding => controls[s][i].from # loop[s].control.from
AnswerInv ==
  \A q \in Requests :
    /\ Waits(q) /\ request[q].reply # "none"
    /\ request[q].phase = "stopping" \/ request[q].reply = "error"
    => Quiet(request[q].session, request[q].rule)
OverInv ==
  \A s \in Sessions :
    /\ loop[s].at \in {"draining", "ended"} => session[s] # "connected"
    /\ loop[s].at = "ended" => controls[s] = <<>>
RecordInv == GateInv /\ QueueInv /\ HeldInv /\ DistinctInv /\ AnswerInv /\ OverInv /\ RunningIsRecorded

LEMMA RecordInit == Init => RecordInv
  BY DEF Init, RecordInv, GateInv, QueueInv, HeldInv, DistinctInv, AnswerInv, OverInv,
     RunningIsRecorded, Holding

LEMMA QueueTyped ==
  ASSUME TypeInv, NEW s \in Sessions, NEW i \in 1..Len(controls[s])
  PROVE  controls[s][i] \in Control
  BY DEF TypeInv, TypeOK

LEMMA TakenKeeps ==
  ASSUME TypeInv, NEW s \in Sessions, controls[s] # <<>>, Taken(s)
  PROVE  /\ \A z \in Sessions \ {s} : controls'[z] = controls[z]
         /\ \A i \in 1..Len(controls'[s]) :
              i + 1 \in 1..Len(controls[s]) /\ controls'[s][i] = controls[s][i + 1]
         /\ 1 \in 1..Len(controls[s]) /\ Head(controls[s]) = controls[s][1]
<1>1. controls[s] \in Seq(Control) /\ controls'[s] = Tail(controls[s])
  BY DEF TypeInv, TypeOK
<1>2. Len(Tail(controls[s])) = Len(controls[s]) - 1 /\ Len(controls[s]) \in Nat \ {0}
  BY <1>1
<1>3. \A i \in 1..Len(Tail(controls[s])) : Tail(controls[s])[i] = controls[s][i + 1]
  BY <1>1
<1>4. QED BY <1>1, <1>2, <1>3 DEF TypeInv, TypeOK

\* An answer to one control leaves what is known of the others.
LEMMA KnownAfter ==
  ASSUME TypeInv, UNCHANGED abandoned,
         NEW s \in Sessions, NEW k \in Control, Known(k, s),
         UNCHANGED request \/ \E answer \in {"ok", "error"} : Reply(k, answer),
         NEW z \in Sessions, NEW other \in Control, Known(other, z),
         z # s \/ other.from # k.from
  PROVE  Known(other, z)'
<1>0. k.from \in Requests /\ other.from \in Requests
  BY DEF Control
<1>1. CASE UNCHANGED request
  BY <1>1 DEF Known
<1>2. ASSUME NEW answer \in {"ok", "error"}, Reply(k, answer) PROVE Known(other, z)'
  <2>1. CASE other.from # k.from
    BY <1>0, <1>2, <2>1 DEF Known, TypeInv, TypeOK, Request
  <2>2. CASE other.from = k.from
    <3>1. request[k.from].phase = "gone" /\ <<z, other.rule>> \in abandoned
      BY <2>2 DEF Known
    <3>2. request' = request
      BY <3>1, <1>2, <1>0 DEF TypeInv, TypeOK, Request
    <3>3. QED BY <3>1, <3>2, <2>2 DEF Known
  <2>3. QED BY <2>1, <2>2
<1>3. QED BY <1>1, <1>2
\* Steps that send, take and answer nothing.
LEMMA RecordKept ==
  ASSUME TypeInv, RecordInv, UNCHANGED <<request, gate, controls, running, abandoned>>,
         \A s \in Sessions :
           /\ loop'[s].at \in Holding \cup {"draining", "ended"} => loop'[s] = loop[s]
           /\ session'[s] = "connected" =>
                session[s] = "connected" /\ (recorded'[s] = recorded[s] \/ s \notin owned'),
         owned' \subseteq owned
  PROVE  RecordInv'
<1>1. GateInv' /\ QueueInv' /\ AnswerInv'
  BY DEF RecordInv, GateInv, QueueInv, AnswerInv, Known, Quiet
<1>2. HeldInv'
  BY DEF RecordInv, HeldInv, Known, Holding
<1>3. DistinctInv'
  BY DEF RecordInv, DistinctInv
<1>4. OverInv'
  BY DEF RecordInv, OverInv
<1>5. RunningIsRecorded'
  BY DEF RecordInv, RunningIsRecorded
<1>6. QED BY <1>1, <1>2, <1>3, <1>4, <1>5 DEF RecordInv

LEMMA RecordAsking ==
  ASSUME TypeInv, RecordInv, NEW q \in Requests, Asking(q) PROVE RecordInv'
<1>t. /\ request \in [Requests -> Request] /\ controls \in [Sessions -> Seq(Control)]
      /\ recorded \in [Sessions -> SUBSET Rules]
  BY DEF TypeInv, TypeOK
<1>f. \A z \in Sessions : \A i \in 1..Len(controls[z]) :
        controls[z][i] \in Control /\ controls[z][i].from \in Requests
  BY QueueTyped DEF Control
<1>h. \A z \in Sessions : loop[z].at \in Holding =>
        loop[z].control \in Control /\ loop[z].control.from \in Requests
  BY DEF TypeInv, LoopShape, Control
<1>1. ASSUME NEW s \in Sessions, NEW r \in Rules, Start(q, s, r) \/ Stop(q, s, r)
      PROVE RecordInv'
  <2>1. PICK op \in {"start", "stop"} :
          /\ request[q].phase = "idle" /\ Live(s)
          /\ Send(s, op, r, q)
          /\ Asks(q, s, r, IF op = "start" THEN "starting" ELSE "stopping")
    BY <1>1 DEF Start, Stop
  <2>n. PICK new \in Control : new = [op |-> op, rule |-> r, version |-> stored[r], from |-> q]
    BY DEF Control, TypeInv, TypeOK
  <2>2. /\ \A z \in Sessions \ {s} : controls'[z] = controls[z]
        /\ Len(controls'[s]) = Len(controls[s]) + 1
        /\ \A i \in 1..Len(controls[s]) : controls'[s][i] = controls[s][i]
        /\ controls'[s][Len(controls[s]) + 1] = new
    <3>1. controls' = [controls EXCEPT ![s] = Append(controls[s], new)]
      BY <2>1, <2>n
    <3>2. QED BY <3>1, <1>t
  <2>3. /\ gate = None /\ gate' = q
        /\ \A p \in Requests \ {q} : request'[p] = request[p]
        /\ request'[q] = [phase |-> IF op = "start" THEN "starting" ELSE "stopping",
                          session |-> s, rule |-> r, reply |-> "none"]
        /\ UNCHANGED <<session, loop, running, owned, recorded, abandoned>>
    BY <2>1, <1>t
  <2>l. Len(controls[s]) \in Nat
    BY <1>t
  <2>4. ASSUME NEW k \in Control, NEW z \in Sessions, Known(k, z)
        PROVE  Known(k, z)' /\ k.from # q
    <3>1. k.from \in Requests /\ k.from # q
      BY <2>1, <2>4 DEF Known, Control
    <3>2. QED BY <3>1, <2>4, <2>3 DEF Known
  <2>5. GateInv'
    BY <2>3, NoneAssumption DEF RecordInv, GateInv
  <2>6. Known(new, s)'
    BY <2>3, <2>n DEF Known
  <2>7. ASSUME NEW z \in Sessions, NEW i \in 1..Len(controls'[z])
        PROVE  /\ \/ i \in 1..Len(controls[z]) /\ controls'[z][i] = controls[z][i]
                  \/ z = s /\ i = Len(controls[s]) + 1 /\ controls'[z][i] = new
    <3>1. CASE z # s
      BY <3>1, <2>2
    <3>2. CASE z = s
      BY <3>2, <2>2, <2>l
    <3>3. QED BY <3>1, <3>2
  <2>8. QueueInv'
    <3>1. ASSUME NEW k \in Control, NEW z \in Sessions, NEW i \in 1..Len(controls'[z]),
                 controls'[z][i] = k
          PROVE  Known(k, z)'
      <4>1. CASE controls'[z][i] = new /\ z = s
        BY <3>1, <4>1, <2>6
      <4>2. CASE i \in 1..Len(controls[z]) /\ controls'[z][i] = controls[z][i]
        BY <3>1, <4>2, <2>4 DEF RecordInv, QueueInv
      <4>3. QED BY <4>1, <4>2, <2>7
    <3>2. QED BY <3>1 DEF QueueInv
  <2>9. HeldInv'
    BY <2>3, <2>4, <1>h DEF RecordInv, HeldInv
  <2>10. ASSUME NEW z \in Sessions, NEW i \in 1..Len(controls[z]) PROVE controls[z][i].from # q
    BY <2>4, <1>f DEF RecordInv, QueueInv
  <2>11. ASSUME NEW z \in Sessions, loop[z].at \in Holding PROVE loop[z].control.from # q
    BY <2>4, <2>11, <1>h DEF RecordInv, HeldInv
  <2>12. new.from = q
    BY <2>n
  <2>13. DistinctInv'
    <3>1. ASSUME NEW z \in Sessions, NEW i \in 1..Len(controls'[z]),
                 NEW j \in 1..Len(controls'[z]), i # j
          PROVE  controls'[z][i].from # controls'[z][j].from
      <4>1. DistinctInv
        BY DEF RecordInv
      <4>2. i \in 1..Len(controls[z]) \/ j \in 1..Len(controls[z])
        BY <2>7, <3>1
      <4>3. CASE i \notin 1..Len(controls[z])
        <5>1. controls'[z][i] = new /\ j \in 1..Len(controls[z])
          BY <2>7, <3>1, <4>2, <4>3
        <5>2. controls'[z][j].from # q
          BY <2>4, <2>7, <2>10, <5>1, <3>1
        <5>3. QED BY <5>1, <5>2, <2>12
      <4>4. CASE j \notin 1..Len(controls[z])
        <5>1. controls'[z][j] = new /\ i \in 1..Len(controls[z])
          BY <2>7, <3>1, <4>2, <4>4
        <5>2. controls'[z][i].from # q
          BY <2>4, <2>7, <2>10, <5>1, <3>1
        <5>3. QED BY <5>1, <5>2, <2>12
      <4>5. CASE i \in 1..Len(controls[z]) /\ j \in 1..Len(controls[z])
        <5>1. controls[z][i].from # controls[z][j].from
          BY <3>1, <4>1, <4>5 DEF DistinctInv
        <5>2. controls'[z][i] = controls[z][i] /\ controls'[z][j] = controls[z][j]
          BY <2>7, <3>1, <4>5, <2>2, <2>l
        <5>3. QED BY <5>1, <5>2
      <4>6. QED BY <4>3, <4>4, <4>5
    <3>2. ASSUME NEW z \in Sessions, NEW i \in 1..Len(controls'[z]), loop'[z].at \in Holding
          PROVE  controls'[z][i].from # loop'[z].control.from
      <4>1. DistinctInv /\ loop' = loop
        BY <2>3 DEF RecordInv
      <4> QED BY <2>7, <2>11, <2>12, <3>2, <4>1 DEF DistinctInv
    <3> QED BY <3>1, <3>2 DEF DistinctInv
  <2>14. AnswerInv'
    <3>1. ASSUME NEW p \in Requests \ {q} PROVE request'[p] = request[p]
      BY <2>3
    <3>2. request'[q].reply = "none"
      BY <2>3
    <3>3. QED BY <2>3, <3>1, <3>2 DEF RecordInv, AnswerInv, Quiet
  <2>15. OverInv'
    BY <2>1, <2>2, <2>3 DEF RecordInv, OverInv
  <2>16. RunningIsRecorded'
    BY <2>1, <2>3 DEF RecordInv, RunningIsRecorded
  <2>17. QED BY <2>5, <2>8, <2>9, <2>13, <2>14, <2>15, <2>16 DEF RecordInv
<1>2. CASE Finish(q)
  <2> DEFINE s == request[q].session
             r == request[q].rule
  <2>1. /\ Waits(q) /\ s \in Sessions /\ r \in Rules
        /\ request[q].reply # "none" \/ ~Live(s)
        /\ \A z \in Sessions : z # s => recorded'[z] = recorded[z]
        /\ recorded'[s] = IF request[q].reply # "ok" THEN recorded[s]
                          ELSE IF request[q].phase = "starting" THEN recorded[s] \cup {r}
                          ELSE recorded[s] \ {r}
        /\ \A p \in Requests \ {q} : request'[p] = request[p]
        /\ request'[q] = IdleRequest /\ gate' = None
        /\ UNCHANGED <<session, loop, running, controls, owned, abandoned>>
    BY <1>2, <1>t DEF Finish, TypeInv, RequestShape
  <2>2. ASSUME NEW k \in Control, NEW z \in Sessions, Known(k, z), loop[z].at # "ended"
        PROVE  Known(k, z)'
    <3>1. CASE k.from # q
      BY <3>1, <2>1, <2>2 DEF Known, Control
    <3>2. CASE k.from = q
      BY <3>2, <2>1, <2>2 DEF Known
    <3>3. QED BY <3>1, <3>2
  <2>3. GateInv'
    BY <2>1 DEF RecordInv, GateInv
  <2>4. QueueInv'
    <3>1. \A z \in Sessions : loop[z].at = "ended" => Len(controls[z]) = 0
      BY DEF RecordInv, OverInv
    <3>2. QED BY <2>1, <2>2, <1>f, <3>1 DEF RecordInv, QueueInv
  <2>5. HeldInv'
    BY <2>1, <2>2, <1>h DEF RecordInv, HeldInv, Holding
  <2>6. DistinctInv'
    BY <2>1 DEF RecordInv, DistinctInv
  <2>7. AnswerInv'
    BY <2>1 DEF RecordInv, AnswerInv, Quiet
  <2>8. OverInv'
    BY <2>1 DEF RecordInv, OverInv
  <2>9. RunningIsRecorded'
    <3> SUFFICES ASSUME NEW z \in Sessions, NEW x \in Rules,
                        session'[z] = "connected", running'[z][x] # 0, z \in owned',
                        <<z, x>> \notin abandoned',
                        \A p \in Requests : ~(Waits(p) /\ request[p].session = z
                                              /\ request[p].rule = x)'
                 PROVE  x \in recorded'[z]
      BY DEF RunningIsRecorded
    <3>1. CASE z = s /\ x = r
      <4>1. request[q].reply # "none"
        BY <3>1, <2>1 DEF RecordInv, OverInv
      <4>2. request[q].reply = "ok" /\ request[q].phase = "starting"
        BY <4>1, <3>1, <2>1, <1>t DEF RecordInv, AnswerInv, Quiet, Request
      <4>3. QED BY <4>2, <3>1, <2>1
    <3>2. CASE ~(z = s /\ x = r)
      <4>1. x \in recorded[z]
        BY <3>2, <2>1 DEF RecordInv, RunningIsRecorded
      <4>2. QED BY <4>1, <3>2, <2>1
    <3>3. QED BY <3>1, <3>2
  <2>10. QED BY <2>3, <2>4, <2>5, <2>6, <2>7, <2>8, <2>9 DEF RecordInv
<1>3. CASE HangUp(q)
  <2> DEFINE s == request[q].session
             r == request[q].rule
  <2>1. /\ Waits(q) /\ s \in Sessions /\ r \in Rules
        /\ abandoned' = abandoned \cup {<<s, r>>}
        /\ \A p \in Requests \ {q} : request'[p] = request[p]
        /\ request'[q].phase = "gone" /\ gate' = None
        /\ UNCHANGED <<session, loop, running, controls, owned, recorded>>
    BY <1>3, <1>t DEF HangUp, TypeInv, RequestShape
  <2>2. ASSUME NEW k \in Control, NEW z \in Sessions, Known(k, z)
        PROVE  Known(k, z)'
    <3>1. CASE k.from # q
      BY <3>1, <2>1, <2>2 DEF Known, Control
    <3>2. CASE k.from = q
      BY <3>2, <2>1, <2>2 DEF Known
    <3>3. QED BY <3>1, <3>2
  <2>3. GateInv'
    BY <2>1 DEF RecordInv, GateInv
  <2>4. QueueInv'
    BY <2>1, <2>2, <1>f DEF RecordInv, QueueInv
  <2>5. HeldInv'
    BY <2>1, <2>2, <1>h DEF RecordInv, HeldInv
  <2>6. DistinctInv'
    BY <2>1 DEF RecordInv, DistinctInv
  <2>7. AnswerInv'
    BY <2>1 DEF RecordInv, AnswerInv, Quiet
  <2>8. OverInv'
    BY <2>1 DEF RecordInv, OverInv
  <2>9. RunningIsRecorded'
    BY <2>1 DEF RecordInv, RunningIsRecorded
  <2>10. QED BY <2>3, <2>4, <2>5, <2>6, <2>7, <2>8, <2>9 DEF RecordInv
<1>4. QED BY <1>1, <1>2, <1>3 DEF Asking

\* What a reply does to the requests; only one that waits gets it.
LEMMA ReplyEffect ==
  ASSUME TypeInv, NEW k \in Control, NEW answer \in {"ok", "error"}, Reply(k, answer)
  PROVE  \A q \in Requests :
           /\ request'[q].phase = request[q].phase
           /\ request'[q].session = request[q].session /\ request'[q].rule = request[q].rule
           /\ \/ request'[q].reply = request[q].reply
              \/ q = k.from /\ Waits(q) /\ request'[q].reply = answer
<1>1. k.from \in Requests
  BY DEF Control
<1>2. \A q \in Requests \ {k.from} : request'[q] = request[q]
  BY DEF TypeInv, TypeOK
<1>3. request'[k.from].reply = IF Waits(k.from) THEN answer ELSE request[k.from].reply
  BY <1>1 DEF TypeInv, TypeOK, Request
<1>4. QED BY <1>1, <1>2, <1>3, ReplyTyped

\* The loop takes the control at the head of the queue, and answers or holds it.
LEMMA ControlTaken ==
  ASSUME TypeInv, RecordInv, NEW s \in Sessions, NEW k \in Control,
         controls[s] # <<>>, k = Head(controls[s]), loop[s].at = "select", Taken(s),
         UNCHANGED <<gate, abandoned, session>>,
         \/ UNCHANGED loop /\ \E answer \in {"ok", "error"} : Reply(k, answer)
         \/ /\ \E at \in Holding : loop' = [loop EXCEPT ![s] = [LoopAt(at) EXCEPT !.control = k]]
            /\ UNCHANGED request
  PROVE  /\ GateInv' /\ QueueInv' /\ DistinctInv' /\ OverInv' /\ Known(k, s)
         /\ \A other \in Control : \A z \in Sessions \ {s} :
              loop[z].at \in Holding /\ loop[z].control = other => Known(other, z)'
<1>1. /\ \A z \in Sessions \ {s} : controls'[z] = controls[z]
      /\ \A i \in 1..Len(controls'[s]) :
           i + 1 \in 1..Len(controls[s]) /\ controls'[s][i] = controls[s][i + 1]
      /\ 1 \in 1..Len(controls[s]) /\ k = controls[s][1]
  BY TakenKeeps
<1>d. \A a, b \in 1..Len(controls[s]) : a # b => controls[s][a].from # controls[s][b].from
  BY DEF RecordInv, DistinctInv
<1>2. Known(k, s)
  BY <1>1 DEF RecordInv, QueueInv
<1>3. UNCHANGED request \/ \E answer \in {"ok", "error"} : Reply(k, answer)
  OBVIOUS
<1>4. ASSUME NEW z \in Sessions, NEW other \in Control, Known(other, z),
             z # s \/ other.from # k.from
      PROVE  Known(other, z)'
  BY <1>2, <1>3, <1>4, KnownAfter
<1>5. \A q \in Requests : request'[q].phase = request[q].phase
  BY <1>3, ReplyEffect
<1>6. GateInv'
  BY <1>5 DEF RecordInv, GateInv
<1>7. QueueInv'
  <2> SUFFICES ASSUME NEW other \in Control, NEW z \in Sessions, NEW i \in 1..Len(controls'[z]),
                      controls'[z][i] = other
               PROVE  Known(other, z)'
    BY DEF QueueInv
  <2>1. CASE z # s
    BY <2>1, <1>1, <1>4 DEF RecordInv, QueueInv
  <2>2. CASE z = s
    <3>1. i + 1 \in 1..Len(controls[s]) /\ controls[s][i + 1] = other
      BY <2>2, <1>1
    <3>2. Known(other, s)
      BY <3>1 DEF RecordInv, QueueInv
    <3>3. i + 1 # 1
      BY <2>2, <1>1
    <3>4. other.from # k.from
      <4>1. controls[s][1] = k /\ 1 \in 1..Len(controls[s])
        BY <1>1
      <4> QED BY <3>1, <3>3, <4>1, <1>d
    <3>5. Known(other, z)
      BY <2>2, <3>2
    <3>6. QED BY <3>4, <3>5, <1>4, SMTT(30)
  <2>3. QED BY <2>1, <2>2
<1>l. /\ \A z \in Sessions \ {s} : loop'[z] = loop[z]
      /\ loop'[s].at \in Holding => loop'[s].control = k
  BY DEF Holding, TypeInv, TypeOK
<1>8. DistinctInv'
  <2>1. \A z \in Sessions \ {s} : \A i \in 1..Len(controls'[z]) :
          /\ \A j \in 1..Len(controls'[z]) : i # j => controls'[z][i].from # controls'[z][j].from
          /\ loop'[z].at \in Holding => controls'[z][i].from # loop'[z].control.from
    BY <1>1, <1>l, SMTT(60) DEF RecordInv, DistinctInv
  <2>2. ASSUME NEW i \in 1..Len(controls'[s])
        PROVE  /\ \A j \in 1..Len(controls'[s]) : i # j => controls'[s][i].from # controls'[s][j].from
               /\ loop'[s].at \in Holding => controls'[s][i].from # loop'[s].control.from
    <3>1. i \in Nat /\ i + 1 # 1 /\ \A j \in 1..Len(controls'[s]) : i # j => i + 1 # j + 1
      BY <1>1
    <3>2. i + 1 \in 1..Len(controls[s]) /\ controls'[s][i] = controls[s][i + 1]
      BY <1>1
    <3>3. ASSUME NEW j \in 1..Len(controls'[s]), i # j
          PROVE  controls'[s][i].from # controls'[s][j].from
      <4>1. j + 1 \in 1..Len(controls[s]) /\ controls'[s][j] = controls[s][j + 1] /\ i + 1 # j + 1
        BY <1>1, <3>1, <3>3
      <4>2. QED BY <4>1, <3>2, <1>d
    <3>4. controls[s][i + 1].from # controls[s][1].from
      BY <3>1, <3>2, <1>1, <1>d
    <3>5. QED BY <3>2, <3>3, <3>4, <1>1, <1>l
  <2>3. ASSUME NEW z \in Sessions, NEW i \in 1..Len(controls'[z])
        PROVE  /\ \A j \in 1..Len(controls'[z]) : i # j => controls'[z][i].from # controls'[z][j].from
               /\ loop'[z].at \in Holding => controls'[z][i].from # loop'[z].control.from
    <3>1. CASE z = s
      BY <2>2, <2>3, <3>1, SMTT(60)
    <3>2. CASE z # s
      BY <2>1, <2>3, <3>2
    <3>3. QED BY <3>1, <3>2
  <2>4. QED BY <2>3 DEF DistinctInv
<1>9. OverInv'
  <2>1. loop'[s].at \notin {"draining", "ended"}
    BY DEF Holding, TypeInv, TypeOK
  <2>2. QED BY <1>1, <1>l, <2>1 DEF RecordInv, OverInv
<1>10. \A other \in Control : \A z \in Sessions \ {s} :
         loop[z].at \in Holding /\ loop[z].control = other => Known(other, z)'
  BY <1>4 DEF RecordInv, HeldInv
<1>11. QED BY <1>2, <1>6, <1>7, <1>8, <1>9, <1>10

LEMMA RecordControl ==
  ASSUME TypeInv, RecordInv, NEW s \in Sessions, LoopStart(s) \/ LoopStop(s)
  PROVE  RecordInv'
<1> DEFINE k == Head(controls[s])
<1>0. PICK c \in Control : c = k
  BY HeadTyped DEF LoopStart, LoopStop, TypeInv
<1>1. /\ controls[s] # <<>> /\ loop[s].at = "select" /\ Taken(s)
      /\ UNCHANGED <<gate, abandoned, session, recorded, owned>>
  BY DEF LoopStart, LoopStop
<1>t. /\ running \in [Sessions -> [Rules -> Versions]] /\ loop \in [Sessions -> Loop]
      /\ request \in [Requests -> Request]
      /\ c.rule \in Rules /\ c.from \in Requests
  BY DEF TypeInv, TypeOK, Control
\* The four things that can happen to the control.
<1>2. \/ /\ UNCHANGED <<loop, running>> /\ c.op = "start" /\ Reply(c, "ok")
      \/ /\ running[s][c.rule] = 0 /\ c.op = "start" /\ UNCHANGED <<request, running>>
         /\ loop' = [loop EXCEPT ![s] = [LoopAt("asking") EXCEPT !.control = c]]
      \/ /\ running[s][c.rule] = 0 /\ c.op = "start" /\ UNCHANGED loop
         /\ \/ running' = [running EXCEPT ![s][c.rule] = c.version] /\ Reply(c, "ok")
            \/ Reply(c, "error") /\ UNCHANGED running
      \/ /\ c.op = "stop" /\ running' = [running EXCEPT ![s][c.rule] = 0]
         /\ \/ /\ loop' = [loop EXCEPT ![s] = [LoopAt("withdrawing") EXCEPT !.control = c]]
               /\ UNCHANGED request
            \/ Reply(c, "ok") /\ UNCHANGED loop
  BY <1>0 DEF LoopStart, LoopStop
<1>3. \/ UNCHANGED loop /\ \E answer \in {"ok", "error"} : Reply(c, answer)
      \/ /\ \E at \in Holding : loop' = [loop EXCEPT ![s] = [LoopAt(at) EXCEPT !.control = c]]
         /\ UNCHANGED request
  BY <1>2 DEF Holding
<1> HIDE DEF k
<1>4. /\ GateInv' /\ QueueInv' /\ DistinctInv' /\ OverInv' /\ Known(c, s)
      /\ \A other \in Control : \A z \in Sessions \ {s} :
           loop[z].at \in Holding /\ loop[z].control = other => Known(other, z)'
  <2>1. c = Head(controls[s])
    BY <1>0 DEF k
  <2>2. QED BY <1>1, <1>3, <2>1, ControlTaken
<1>5. /\ \A z \in Sessions \ {s} : loop'[z] = loop[z] /\ running'[z] = running[z]
      /\ \A r \in Rules : r # c.rule => running'[s][r] = running[s][r]
      /\ \/ running'[s][c.rule] = running[s][c.rule]
         \/ running'[s][c.rule] = 0
         \/ c.op = "start"
  BY <1>2, <1>t
<1>6. \A q \in Requests :
        /\ request'[q].phase = request[q].phase
        /\ request'[q].session = request[q].session /\ request'[q].rule = request[q].rule
        /\ \/ request'[q].reply = request[q].reply
           \/ q = c.from /\ Waits(q)
  BY <1>2, ReplyEffect
<1>7. HeldInv'
  <2> SUFFICES ASSUME NEW other \in Control, NEW z \in Sessions,
                      loop'[z].at \in Holding, loop'[z].control = other
               PROVE  /\ Known(other, z)'
                      /\ other.op = IF loop'[z].at = "asking" THEN "start" ELSE "stop"
                      /\ running'[z][other.rule] = 0
    BY DEF HeldInv
  <2>1. CASE z # s
    BY <2>1, <1>4, <1>5 DEF RecordInv, HeldInv
  <2>2. CASE z = s
    <3>1. /\ other = c /\ UNCHANGED request /\ running'[s][c.rule] = 0
          /\ other.op = IF loop'[z].at = "asking" THEN "start" ELSE "stop"
      BY <2>2, <1>1, <1>2, <1>t DEF Holding
    <3>2. Known(other, z)'
      BY <3>1, <2>2, <1>1, <1>4 DEF Known
    <3>3. QED BY <3>1, <3>2, <2>2
  <2>3. QED BY <2>1, <2>2
\* The one that waits for this control has no answer yet, and no other waits.
<1>8. ASSUME NEW q \in Requests, Waits(q), c.op = "start", <<s, c.rule>> \notin abandoned
      PROVE  q = c.from /\ request[q].reply = "none"
  <2>1. Waits(c.from) /\ request[c.from].reply = "none"
    BY <1>4, <1>8, <1>t DEF Known
  <2>2. QED BY <2>1, <1>8, <1>t DEF RecordInv, GateInv
<1>9. AnswerInv'
  <2> SUFFICES ASSUME NEW q \in Requests, Waits(q)', request'[q].reply # "none",
                      request'[q].phase = "stopping" \/ request'[q].reply = "error"
               PROVE  Quiet(request[q].session, request[q].rule)'
    BY DEF AnswerInv
  <2>0. PICK z \in Sessions, x \in Rules : z = request[q].session /\ x = request[q].rule
    BY <1>6 DEF TypeInv, RequestShape
  <2>1. CASE request'[q].reply = request[q].reply
    <3>1. running[z][x] = 0 \/ <<z, x>> \in abandoned
      BY <2>0, <2>1, <1>6 DEF RecordInv, AnswerInv, Quiet
    <3>2. CASE running[z][x] = 0 /\ <<z, x>> \notin abandoned
      <4>1. ~(z = s /\ x = c.rule /\ c.op = "start")
        BY <3>2, <2>1, <1>6, <1>8
      <4>2. running'[z][x] = 0
        BY <4>1, <3>2, <1>5
      <4>3. QED BY <4>2, <2>0, <1>6 DEF Quiet
    <3>3. CASE <<z, x>> \in abandoned
      BY <3>3, <2>0, <1>1, <1>6 DEF Quiet
    <3>4. QED BY <3>1, <3>2, <3>3
  <2>2. CASE request'[q].reply # request[q].reply
    <3>1. q = c.from /\ Waits(q)
      BY <2>2, <1>6
    <3>2. z = s /\ x = c.rule /\ request[q].phase = IF c.op = "start" THEN "starting" ELSE "stopping"
      BY <3>1, <2>0, <1>4 DEF Known
    <3>3. c.op = "start" => request'[q].reply = "error"
      BY <3>2, <1>6
    <3>4. running'[s][c.rule] = 0
      <4>1. ASSUME Reply(c, "ok") PROVE request'[q].reply \in {request[q].reply, "ok"}
        BY <4>1, <1>t, ReplyEffect
      <4>2. QED BY <1>2, <1>t, <2>2, <3>3, <4>1
    <3>5. QED BY <3>2, <3>4, <2>0, <1>6 DEF Quiet
  <2>3. QED BY <2>1, <2>2
<1>10. RunningIsRecorded'
  <2> SUFFICES ASSUME NEW z \in Sessions, NEW x \in Rules,
                      session'[z] = "connected", running'[z][x] # 0, z \in owned',
                      <<z, x>> \notin abandoned',
                      \A p \in Requests : ~(Waits(p) /\ request[p].session = z
                                            /\ request[p].rule = x)'
               PROVE  x \in recorded'[z]
    BY DEF RunningIsRecorded
  <2>1. CASE running[z][x] # 0
    BY <2>1, <1>1, <1>6 DEF RecordInv, RunningIsRecorded
  <2>2. CASE running[z][x] = 0
    <3>1. z = s /\ x = c.rule /\ c.op = "start"
      BY <2>2, <1>5
    <3>2. Waits(c.from) /\ request[c.from].session = s /\ request[c.from].rule = x
      BY <3>1, <1>1, <1>4 DEF Known
    <3>3. QED BY <3>1, <3>2, <1>6, <1>t
  <2>3. QED BY <2>1, <2>2, <1>t
<1>11. QED BY <1>4, <1>7, <1>9, <1>10 DEF RecordInv

LEMMA RecordAnswered ==
  ASSUME TypeInv, RecordInv, NEW s \in Sessions, Answered(s) \/ Withdrawn(s)
  PROVE  RecordInv'
<1>0. PICK c \in Control : c = loop[s].control
  BY DEF Answered, Withdrawn, TypeInv, LoopShape, Holding
<1>1. /\ loop[s].at \in Holding /\ loop' = [loop EXCEPT ![s] = LoopAt("select")]
      /\ UNCHANGED <<gate, abandoned, session, recorded, owned, controls>>
  BY DEF Answered, Withdrawn, Holding
<1>t. /\ running \in [Sessions -> [Rules -> Versions]] /\ loop \in [Sessions -> Loop]
      /\ c.rule \in Rules /\ c.from \in Requests
  BY DEF TypeInv, TypeOK, Control
<1>2. \E answer \in {"ok", "error"} :
        /\ Reply(c, answer)
        /\ \/ UNCHANGED running
           \/ /\ answer = "ok" /\ c.op = "start"
              /\ running' = [running EXCEPT ![s][c.rule] = c.version]
  BY <1>0, <1>1 DEF Answered, Withdrawn, RecordInv, HeldInv
<1>3. Known(c, s) /\ running[s][c.rule] = 0
  BY <1>0, <1>1 DEF RecordInv, HeldInv
<1>4. ASSUME NEW z \in Sessions, NEW other \in Control, Known(other, z),
             z # s \/ other.from # c.from
      PROVE  Known(other, z)'
  BY <1>1, <1>2, <1>3, <1>4, KnownAfter
<1>5. /\ \A z \in Sessions \ {s} : loop'[z] = loop[z] /\ running'[z] = running[z]
      /\ loop'[s].at = "select"
      /\ \A r \in Rules : r # c.rule => running'[s][r] = running[s][r]
      /\ running'[s][c.rule] = 0 \/ c.op = "start"
  BY <1>1, <1>2, <1>3, <1>t
<1>6. \A q \in Requests :
        /\ request'[q].phase = request[q].phase
        /\ request'[q].session = request[q].session /\ request'[q].rule = request[q].rule
        /\ \/ request'[q].reply = request[q].reply
           \/ /\ q = c.from /\ Waits(q)
              /\ request'[q].reply = "error" => UNCHANGED running
  BY <1>2, ReplyEffect
<1>7. GateInv'
  BY <1>1, <1>6 DEF RecordInv, GateInv
<1>8. QueueInv'
  <2> SUFFICES ASSUME NEW other \in Control, NEW z \in Sessions, NEW i \in 1..Len(controls[z]),
                      controls[z][i] = other
               PROVE  Known(other, z)'
    BY <1>1 DEF QueueInv
  <2>1. Known(other, z)
    BY DEF RecordInv, QueueInv
  <2>2. z = s => other.from # c.from
    BY <1>0, <1>1 DEF RecordInv, DistinctInv
  <2>3. QED BY <2>1, <2>2, <1>4
<1>9. HeldInv'
  BY <1>4, <1>5 DEF RecordInv, HeldInv, Holding
<1>10. DistinctInv'
  BY <1>1, <1>5 DEF RecordInv, DistinctInv, Holding
<1>11. OverInv'
  BY <1>1, <1>5 DEF RecordInv, OverInv
<1>12. ASSUME NEW q \in Requests, Waits(q), c.op = "start", <<s, c.rule>> \notin abandoned
       PROVE  q = c.from /\ request[q].reply = "none"
  <2>1. Waits(c.from) /\ request[c.from].reply = "none"
    BY <1>3, <1>12, <1>t DEF Known
  <2>2. QED BY <2>1, <1>12, <1>t DEF RecordInv, GateInv
<1>13. AnswerInv'
  <2> SUFFICES ASSUME NEW q \in Requests, Waits(q)', request'[q].reply # "none",
                      request'[q].phase = "stopping" \/ request'[q].reply = "error"
               PROVE  Quiet(request[q].session, request[q].rule)'
    BY DEF AnswerInv
  <2>0. PICK z \in Sessions, x \in Rules : z = request[q].session /\ x = request[q].rule
    BY <1>6 DEF TypeInv, RequestShape
  <2>1. CASE request'[q].reply = request[q].reply
    <3>1. running[z][x] = 0 \/ <<z, x>> \in abandoned
      BY <2>0, <2>1, <1>6 DEF RecordInv, AnswerInv, Quiet
    <3>2. CASE running[z][x] = 0 /\ <<z, x>> \notin abandoned
      <4>1. ~(z = s /\ x = c.rule /\ c.op = "start")
        BY <3>2, <2>1, <1>6, <1>12
      <4>2. running'[z][x] = 0
        BY <4>1, <3>2, <1>5
      <4>3. QED BY <4>2, <2>0, <1>6 DEF Quiet
    <3>3. CASE <<z, x>> \in abandoned
      BY <3>3, <2>0, <1>1, <1>6 DEF Quiet
    <3>4. QED BY <3>1, <3>2, <3>3
  <2>2. CASE request'[q].reply # request[q].reply
    <3>1. q = c.from /\ Waits(q) /\ (request'[q].reply = "error" => UNCHANGED running)
      BY <2>2, <1>6
    <3>2. z = s /\ x = c.rule /\ request[q].phase = IF c.op = "start" THEN "starting" ELSE "stopping"
      BY <3>1, <2>0, <1>3 DEF Known
    <3>3. c.op = "start" => request'[q].reply = "error"
      BY <3>2, <1>6
    <3>4. running'[s][c.rule] = 0
      BY <3>1, <3>3, <1>3, <1>5
    <3>5. QED BY <3>2, <3>4, <2>0, <1>6 DEF Quiet
  <2>3. QED BY <2>1, <2>2
<1>14. RunningIsRecorded'
  <2> SUFFICES ASSUME NEW z \in Sessions, NEW x \in Rules,
                      session'[z] = "connected", running'[z][x] # 0, z \in owned',
                      <<z, x>> \notin abandoned',
                      \A p \in Requests : ~(Waits(p) /\ request[p].session = z
                                            /\ request[p].rule = x)'
               PROVE  x \in recorded'[z]
    BY DEF RunningIsRecorded
  <2>1. CASE running[z][x] # 0
    BY <2>1, <1>1, <1>6 DEF RecordInv, RunningIsRecorded
  <2>2. CASE running[z][x] = 0
    <3>1. z = s /\ x = c.rule /\ c.op = "start"
      BY <2>2, <1>5
    <3>2. Waits(c.from) /\ request[c.from].session = s /\ request[c.from].rule = x
      BY <3>1, <1>1, <1>3 DEF Known
    <3>3. QED BY <3>1, <3>2, <1>6, <1>t
  <2>3. QED BY <2>1, <2>2, <1>t
<1>15. QED BY <1>7, <1>8, <1>9, <1>10, <1>11, <1>13, <1>14 DEF RecordInv

\* The rules that ran stop with the session, which is not connected any more.
LEMMA RecordOver ==
  ASSUME TypeInv, RecordInv, NEW s \in Sessions, Drain(s) \/ End(s) PROVE RecordInv'
<1>t. /\ running \in [Sessions -> [Rules -> Versions]] /\ loop \in [Sessions -> Loop]
      /\ controls \in [Sessions -> Seq(Control)]
      /\ session \in [Sessions -> {"connected", "closing", "failed", "closed"}]
      /\ recorded \in [Sessions -> SUBSET Rules]
  BY DEF TypeInv, TypeOK
<1>1. /\ UNCHANGED <<gate, request, abandoned, owned>>
      /\ \A z \in Sessions \ {s} :
           /\ loop'[z] = loop[z] /\ running'[z] = running[z] /\ session'[z] = session[z]
           /\ controls'[z] = controls[z] /\ recorded'[z] = recorded[z]
      /\ loop'[s].at \in {"draining", "ended"} /\ session'[s] # "connected"
      /\ loop'[s].at = "ended" => controls'[s] = <<>>
      /\ controls'[s] \in {controls[s], <<>>}
      /\ \A r \in Rules : running'[s][r] \in {0, running[s][r]}
  <2>1. CASE Drain(s)
    BY <2>1, <1>t DEF Drain
  <2>2. CASE End(s)
    BY <2>2, <1>t DEF End, RecordInv, OverInv
  <2>3. QED BY <2>1, <2>2
<1>2. ASSUME NEW z \in Sessions, NEW i \in 1..Len(controls'[z])
      PROVE  i \in 1..Len(controls[z]) /\ controls'[z] = controls[z]
  <2>1. CASE controls'[z] = <<>>
    BY <1>2, <2>1
  <2>2. CASE controls'[z] # <<>>
    BY <1>1, <1>2, <2>2
  <2>3. QED BY <2>1, <2>2
<1>3. GateInv'
  BY <1>1 DEF RecordInv, GateInv
<1>4. QueueInv'
  BY <1>1, <1>2 DEF RecordInv, QueueInv, Known
<1>5. HeldInv'
  BY <1>1 DEF RecordInv, HeldInv, Known, Holding
<1>6. DistinctInv'
  BY <1>1, <1>2 DEF RecordInv, DistinctInv, Holding
<1>7. AnswerInv'
  <2> SUFFICES ASSUME NEW q \in Requests, Waits(q), request[q].reply # "none",
                      request[q].phase = "stopping" \/ request[q].reply = "error"
               PROVE  Quiet(request[q].session, request[q].rule)'
    BY <1>1 DEF AnswerInv
  <2>1. PICK z \in Sessions, x \in Rules : z = request[q].session /\ x = request[q].rule
    BY DEF TypeInv, RequestShape
  <2>2. running[z][x] = 0 \/ <<z, x>> \in abandoned
    BY <2>1 DEF RecordInv, AnswerInv, Quiet
  <2>3. QED BY <1>1, <2>1, <2>2 DEF Quiet
<1>8. OverInv'
  BY <1>1 DEF RecordInv, OverInv
<1>9. RunningIsRecorded'
  BY <1>1 DEF RecordInv, RunningIsRecorded
<1>10. QED BY <1>3, <1>4, <1>5, <1>6, <1>7, <1>8, <1>9 DEF RecordInv

LEMMA RecordNext == TypeInv /\ RecordInv /\ [Next]_vars => RecordInv'
<1> SUFFICES ASSUME TypeInv, RecordInv, [Next]_vars PROVE RecordInv'
    OBVIOUS
<1>t. /\ session \in [Sessions -> {"connected", "closing", "failed", "closed"}]
      /\ loop \in [Sessions -> Loop] /\ recorded \in [Sessions -> SUBSET Rules]
  BY DEF TypeInv, TypeOK
<1>1. CASE UNCHANGED vars
  BY <1>1, RecordKept DEF vars
<1>2. CASE \E r \in Rules, version \in Versions : Edit(r, version)
  BY <1>2, RecordKept DEF Edit
<1>3. CASE DeleteProfile
  BY <1>3, RecordKept DEF DeleteProfile
<1>4. ASSUME NEW s \in Sessions, Destroy(s) PROVE RecordInv'
  BY <1>4, <1>t, RecordKept DEF Destroy
<1>5. ASSUME NEW s \in Sessions, Lose(s) PROVE RecordInv'
  BY <1>5, <1>t, RecordKept DEF Lose
<1>6. ASSUME NEW s \in Sessions, (\E c \in Conns : TakeDirect(s, c)) \/ Opened(s) PROVE RecordInv'
  <2>1. /\ UNCHANGED <<request, gate, controls, running, abandoned, session, recorded, owned>>
        /\ \A z \in Sessions : loop'[z] = loop[z] \/ loop'[z].at \in {"select", "opening"}
    BY <1>6, <1>t DEF TakeDirect, Opened
  <2>2. QED BY <2>1, RecordKept DEF Holding
<1>7. ASSUME NEW c \in Conns, Connecting(c) PROVE RecordInv'
  BY <1>7, RecordKept DEF Connecting, Accept, RemoteOpens, Enqueue, Accepted, HangUpConn
<1>8. QED
  BY <1>1, <1>2, <1>3, <1>4, <1>5, <1>6, <1>7, RecordAsking, RecordControl, RecordAnswered,
     RecordOver DEF Next, Looping

\* A rule that runs in a connected session of the workbench is on record, or a
\* request for it is under way, or the page of one hung up.
THEOREM RunningRecorded == Spec => []RunningIsRecorded
<1>1. RecordInv => RunningIsRecorded
  BY DEF RecordInv
<1>2. QED BY <1>1, TypeInit, TypeNext, RecordInit, RecordNext, PTL DEF Spec
-----------------------------------------------------------------------------
(* No answer is forgotten.                                                 *)

\* Steps in which no answer is given and no control moves.
LEMMA AnswerStillOwed ==
  ASSUME TypeInv, HolderIsAnswered, UNCHANGED <<request, gate>>,
         \A z \in Sessions : loop'[z].at = "ended" \/
           /\ controls'[z] = controls[z]
           /\ loop[z].at \in Holding \cup {"ended"} => loop'[z] = loop[z]
  PROVE  HolderIsAnswered'
<1> SUFFICES ASSUME gate # None
             PROVE  /\ Waits(gate)
                    /\ \/ request[gate].reply # "none"
                       \/ loop'[request[gate].session].at = "ended"
                       \/ OwesAnswer(request[gate].session, gate)'
  BY DEF HolderIsAnswered
<1>1. Waits(gate) /\ gate \in Requests
  BY DEF HolderIsAnswered, TypeInv, TypeOK
<1>2. request[gate].session \in Sessions
  BY <1>1 DEF TypeInv, RequestShape
<1>3. PICK z \in Sessions : z = request[gate].session
  BY <1>2
<1>4. CASE OwesAnswer(z, gate)
  <2>1. loop'[z].at = "ended" \/ OwesAnswer(z, gate)'
    BY <1>4 DEF OwesAnswer, Holding
  <2> QED BY <1>1, <1>3, <2>1 DEF OwesAnswer
<1>5. CASE loop[z].at = "ended"
  BY <1>1, <1>3, <1>5
<1> QED BY <1>1, <1>3, <1>4, <1>5 DEF HolderIsAnswered

\* A control that is taken or held is answered or held.
LEMMA TakenIsAnswered ==
  ASSUME TypeInv, HolderIsAnswered, NEW s \in Sessions, NEW k \in Control,
         UNCHANGED gate, loop[s].at # "ended",
         \A z \in Sessions \ {s} : loop'[z] = loop[z] /\ controls'[z] = controls[z],
         \A q \in Requests : OwesAnswer(s, q) => q = k.from \/ OwesAnswer(s, q)',
         \/ \E answer \in {"ok", "error"} : Reply(k, answer)
         \/ UNCHANGED request /\ OwesAnswer(s, k.from)'
  PROVE  HolderIsAnswered'
<1> SUFFICES ASSUME gate # None
             PROVE  /\ request'[gate].phase \in {"starting", "stopping"}
                    /\ \/ request'[gate].reply # "none"
                       \/ loop'[request'[gate].session].at = "ended"
                       \/ OwesAnswer(request[gate].session, gate)'
  BY DEF HolderIsAnswered
<1>1. Waits(gate) /\ gate \in Requests
  BY DEF HolderIsAnswered, TypeInv, TypeOK
<1>2. PICK z \in Sessions : z = request[gate].session
  BY <1>1 DEF TypeInv, RequestShape
<1>3. /\ request'[gate].phase = request[gate].phase /\ request'[gate].session = z
      /\ request[gate].reply # "none" => request'[gate].reply # "none"
      /\ gate = k.from /\ ~OwesAnswer(s, k.from)' => request'[gate].reply # "none"
  <2>1. CASE UNCHANGED request /\ OwesAnswer(s, k.from)'
    BY <1>1, <1>2, <2>1
  <2>2. ASSUME NEW answer \in {"ok", "error"}, Reply(k, answer)
        PROVE  /\ request'[gate].phase = request[gate].phase /\ request'[gate].session = z
               /\ request[gate].reply # "none" => request'[gate].reply # "none"
               /\ gate = k.from => request'[gate].reply # "none"
    BY <1>1, <1>2, <2>2, ReplyEffect DEF TypeInv, TypeOK, Request
  <2> QED BY <2>1, <2>2
<1>4. CASE z # s
  <2>1. OwesAnswer(z, gate) => OwesAnswer(z, gate)'
    BY <1>4 DEF OwesAnswer
  <2>2. \/ request[gate].reply # "none"
        \/ loop[z].at = "ended"
        \/ OwesAnswer(z, gate)
    BY <1>2 DEF HolderIsAnswered
  <2>3. loop[z].at = "ended" => loop'[z].at = "ended"
    BY <1>4
  <2>4. OwesAnswer(z, gate)' => OwesAnswer(request[gate].session, gate)'
    BY <1>3 DEF OwesAnswer
  <2> QED BY <1>1, <1>3, <2>1, <2>2, <2>3, <2>4
<1>5. CASE z = s
  <2>1. request[gate].reply # "none" \/ OwesAnswer(s, gate)
    BY <1>2, <1>5 DEF HolderIsAnswered
  <2>2. request'[gate].reply # "none" \/ OwesAnswer(s, gate)'
    BY <1>1, <1>3, <2>1
  <2>3. OwesAnswer(s, gate)' => OwesAnswer(request[gate].session, gate)'
    BY <1>3, <1>5 DEF OwesAnswer
  <2> QED BY <1>1, <1>3, <2>2, <2>3
<1> QED BY <1>4, <1>5

LEMMA AnswersControl ==
  ASSUME TypeInv, HolderIsAnswered, NEW s \in Sessions, LoopStart(s) \/ LoopStop(s)
  PROVE  HolderIsAnswered'
<1>1. /\ controls[s] # <<>> /\ loop[s].at = "select" /\ Taken(s) /\ UNCHANGED gate
      /\ \/ UNCHANGED loop /\ \E answer \in {"ok", "error"} : Reply(Head(controls[s]), answer)
         \/ /\ \E at \in Holding :
                 loop' = [loop EXCEPT ![s] = [LoopAt(at) EXCEPT !.control = Head(controls[s])]]
            /\ UNCHANGED request
  BY DEF LoopStart, LoopStop, Holding
<1>2. PICK k \in Control : k = Head(controls[s])
  BY <1>1, HeadTyped DEF TypeInv
<1>3. loop \in [Sessions -> Loop] /\ k.from \in Requests
  BY DEF TypeInv, TypeOK, Control
<1>4. /\ \A z \in Sessions \ {s} : controls'[z] = controls[z] /\ loop'[z] = loop[z]
      /\ k = controls[s][1]
  BY <1>1, <1>2, <1>3, TakenKeeps
<1>5. \A i \in 1..Len(controls[s]) : i # 1 =>
        i - 1 \in 1..Len(controls'[s]) /\ controls'[s][i - 1] = controls[s][i]
  <2>1. controls[s] \in Seq(Control) /\ controls'[s] = Tail(controls[s])
    BY <1>1 DEF TypeInv, TypeOK
  <2>a. ASSUME NEW c \in Seq(Control), c # <<>>
        PROVE  /\ Len(Tail(c)) = Len(c) - 1 /\ Len(c) \in Nat \ {0}
               /\ \A n \in 1..Len(Tail(c)) : Tail(c)[n] = c[n + 1]
    <3>1. Len(Tail(c)) = Len(c) - 1 /\ Len(c) \in Nat \ {0}
      BY <2>a
    <3>2. \A n \in 1..Len(Tail(c)) : Tail(c)[n] = c[n + 1]
      BY <2>a
    <3> QED BY <3>1, <3>2
  <2>2. Len(controls'[s]) = Len(controls[s]) - 1 /\ Len(controls[s]) \in Nat \ {0}
    BY <1>1, <2>1, <2>a
  <2>3. \A n \in 1..Len(controls'[s]) : controls'[s][n] = controls[s][n + 1]
    BY <1>1, <2>1, <2>a
  <2>4. \A i \in 1..Len(controls[s]) : i # 1 => i - 1 \in 1..Len(controls'[s]) /\ (i - 1) + 1 = i
    BY <2>2
  <2> QED BY <2>3, <2>4
<1>6. ASSUME NEW q \in Requests, OwesAnswer(s, q) PROVE q = k.from \/ OwesAnswer(s, q)'
  <2>1. PICK i \in 1..Len(controls[s]) : controls[s][i].from = q
    BY <1>1, <1>6 DEF OwesAnswer
  <2>2. CASE i = 1
    BY <1>4, <2>1, <2>2
  <2>3. CASE i # 1
    BY <1>5, <2>1, <2>3 DEF OwesAnswer
  <2> QED BY <2>2, <2>3
<1>7. \/ \E answer \in {"ok", "error"} : Reply(k, answer)
      \/ UNCHANGED request /\ OwesAnswer(s, k.from)'
  BY <1>1, <1>2, <1>3 DEF OwesAnswer, Holding
<1> QED BY <1>1, <1>4, <1>6, <1>7, TakenIsAnswered

LEMMA AnswersHeld ==
  ASSUME TypeInv, HolderIsAnswered, NEW s \in Sessions, Answered(s) \/ Withdrawn(s)
  PROVE  HolderIsAnswered'
<1>1. /\ loop[s].at \in Holding /\ loop' = [loop EXCEPT ![s] = LoopAt("select")]
      /\ UNCHANGED <<gate, controls>>
      /\ \E answer \in {"ok", "error"} : Reply(loop[s].control, answer)
  BY DEF Answered, Withdrawn, Holding
<1>2. PICK k \in Control : k = loop[s].control
  BY <1>1 DEF TypeInv, LoopShape
<1>3. \A z \in Sessions \ {s} : loop'[z] = loop[z] /\ controls'[z] = controls[z]
  BY <1>1 DEF TypeInv, TypeOK
<1>4. \A q \in Requests : OwesAnswer(s, q) => q = k.from \/ OwesAnswer(s, q)'
  BY <1>1, <1>2 DEF OwesAnswer
<1> QED BY <1>1, <1>2, <1>3, <1>4, TakenIsAnswered DEF Holding

LEMMA AnswersAsked ==
  ASSUME TypeInv, HolderIsAnswered, NEW q \in Requests, Asking(q)
  PROVE  HolderIsAnswered'
<1>1. ASSUME NEW s \in Sessions, NEW r \in Rules, Start(q, s, r) \/ Stop(q, s, r)
      PROVE  HolderIsAnswered'
  <2>1. PICK op \in {"start", "stop"} :
          Send(s, op, r, q) /\ Asks(q, s, r, IF op = "start" THEN "starting" ELSE "stopping")
    BY <1>1 DEF Start, Stop
  <2>2. /\ gate' = q /\ request'[q].session = s
        /\ request'[q].phase \in {"starting", "stopping"}
    BY <2>1 DEF TypeInv, TypeOK
  <2>3. PICK k : k = [op |-> op, rule |-> r, version |-> stored[r], from |-> q]
    OBVIOUS
  <2>4. k \in Control /\ k.from = q
    BY <2>3 DEF Control, TypeInv, TypeOK
  <2>5. controls[s] \in Seq(Control) /\ controls'[s] = Append(controls[s], k)
    BY <2>1, <2>3 DEF TypeInv, TypeOK
  <2>6. Len(controls'[s]) \in 1..Len(controls'[s]) /\ controls'[s][Len(controls'[s])].from = q
    BY <2>4, <2>5
  <2>7. OwesAnswer(s, q)'
    BY <2>6 DEF OwesAnswer
  <2> QED BY <2>2, <2>7 DEF HolderIsAnswered, OwesAnswer
<1>2. CASE Finish(q) \/ HangUp(q)
  BY <1>2 DEF Finish, HangUp, HolderIsAnswered
<1> QED BY <1>1, <1>2 DEF Asking

LEMMA AnswersNext == TypeInv /\ HolderIsAnswered /\ [Next]_vars => HolderIsAnswered'
<1> SUFFICES ASSUME TypeInv, HolderIsAnswered, [Next]_vars PROVE HolderIsAnswered'
  OBVIOUS
<1>t. loop \in [Sessions -> Loop] /\ controls \in [Sessions -> Seq(Control)]
  BY DEF TypeInv, TypeOK
<1>1. CASE UNCHANGED vars
  BY <1>1, AnswerStillOwed DEF vars
<1>2. CASE DeleteProfile \/ \E r \in Rules, version \in Versions : Edit(r, version)
  BY <1>2, AnswerStillOwed DEF DeleteProfile, Edit
<1>3. ASSUME NEW s \in Sessions, Destroy(s) \/ Lose(s) PROVE HolderIsAnswered'
  BY <1>3, AnswerStillOwed DEF Destroy, Lose
<1>4. ASSUME NEW s \in Sessions,
             (\E c \in Conns : TakeDirect(s, c)) \/ Opened(s) \/ Drain(s) \/ End(s)
      PROVE  HolderIsAnswered'
  <2>1. /\ UNCHANGED <<request, gate>> /\ loop[s].at \notin Holding \cup {"ended"}
        /\ \A z \in Sessions \ {s} : loop'[z] = loop[z] /\ controls'[z] = controls[z]
        /\ loop'[s].at = "ended" \/ controls'[s] = controls[s]
    BY <1>4, <1>t DEF TakeDirect, Opened, Drain, End, Holding
  <2> QED BY <2>1, AnswerStillOwed
<1>5. ASSUME NEW c \in Conns, Connecting(c) PROVE HolderIsAnswered'
  BY <1>5, AnswerStillOwed DEF Connecting, Accept, RemoteOpens, Enqueue, Accepted, HangUpConn
<1> QED
  BY <1>1, <1>2, <1>3, <1>4, <1>5, AnswersAsked, AnswersControl, AnswersHeld DEF Next, Looping

\* Whoever holds the gate waits for an answer that is there, or that a loop has
\* yet to give, or its session has ended: no control is dropped unanswered.
THEOREM AnswersAreOwed == Spec => []HolderIsAnswered
<1>1. Init => HolderIsAnswered
  BY DEF Init, HolderIsAnswered
<1>2. QED BY <1>1, TypeInit, TypeNext, AnswersNext, PTL DEF Spec
=============================================================================
