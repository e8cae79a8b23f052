------------------------ MODULE RecoverableScreens ------------------------
(***************************************************************************)
(* What the headless screens of the server promise the sessions that use   *)
(* them (docs/server-runtime.md: a failed screen process is rebuilt from   *)
(* memory, nothing is replayed into a terminal, no query is answered       *)
(* twice, an incomplete screen is never passed off as a recovered one).    *)
(*                                                                         *)
(* A screen is the sequence of operations it has accepted.  There is no    *)
(* process here and nothing fails: a call may be unavailable, and then its *)
(* output is still accepted and the replies to its queries are owed; or a  *)
(* screen is lost, for good and without touching any other.                *)
(***************************************************************************)
EXTENDS Naturals, Sequences

CONSTANT Ids  \* screen identities

VARIABLES
  screen,    \* the screens
  answer,    \* what the last call returned
  answered   \* replies handed back so far, per screen

vars == <<screen, answer, answered>>

Writes == {"text", "query"}   \* output with and without a terminal query
Ops == Writes \cup {"resize"}
Results == {"none", "ok", "unavailable", "lost", "refused"}

Screen == [state : {"absent", "live", "lost"}, content : Seq(Ops), owed : Nat]
Answer == [result : Results, data : Seq(Ops), replies : Nat]

NoScreen == [state |-> "absent", content |-> << >>, owed |-> 0]
NewScreen == [NoScreen EXCEPT !.state = "live"]
LostScreen == [NoScreen EXCEPT !.state = "lost"]

Own(op) == IF op = "query" THEN 1 ELSE 0
Only(result) == [result |-> result, data |-> << >>, replies |-> 0]

Init ==
  /\ screen = [s \in Ids |-> NoScreen]
  /\ answer = Only("none")
  /\ answered = [s \in Ids |-> 0]

Return(result) == answer' = Only(result)
Deliver(s, data, n) ==
  /\ answer' = [result |-> "ok", data |-> data, replies |-> n]
  /\ answered' = [answered EXCEPT ![s] = @ + n]
Live(s) == screen[s].state = "live"

Create(s) ==
  /\ screen[s].state = "absent"
  /\ screen' = [screen EXCEPT ![s] = NewScreen]
  /\ answered' = [answered EXCEPT ![s] = 0]
  /\ Return("ok")

\* The replies owed come before the write's own.
Write(s, op) ==
  /\ Live(s)
  /\ screen' = [screen EXCEPT ![s].content = Append(@, op), ![s].owed = 0]
  /\ Deliver(s, << >>, screen[s].owed + Own(op))

Defer(s, op) ==
  /\ Live(s)
  /\ screen' = [screen EXCEPT ![s].content = Append(@, op), ![s].owed = @ + Own(op)]
  /\ Return("unavailable")
  /\ UNCHANGED answered

Resize(s) ==
  /\ Live(s)
  /\ screen' = [screen EXCEPT ![s].content = Append(@, "resize")]
  /\ Return("ok")
  /\ UNCHANGED answered

Snapshot(s) ==
  /\ Live(s)
  /\ screen' = [screen EXCEPT ![s].owed = 0]
  /\ Deliver(s, screen[s].content, screen[s].owed)

\* A screen is lost by itself, whichever call is under way ...
Lose(s) ==
  /\ Live(s)
  /\ screen' = [screen EXCEPT ![s] = LostScreen]
  /\ UNCHANGED <<answer, answered>>

\* ... or as an operation, performed or not, overflows what can be kept.
Overflow(s, op) ==
  /\ Live(s)
  /\ screen' = [screen EXCEPT ![s] = LostScreen]
  /\ \/ Return("unavailable") /\ UNCHANGED answered
     \/ Deliver(s, << >>, Own(op))

Refuse(result) ==
  /\ Return(result)
  /\ UNCHANGED <<screen, answered>>

Destroy(s) ==
  /\ screen' = [screen EXCEPT ![s] = NoScreen]
  /\ Return("ok")
  /\ UNCHANGED answered

Next ==
  \/ \E s \in Ids :
       \/ Create(s) \/ Resize(s) \/ Snapshot(s) \/ Lose(s) \/ Destroy(s)
       \/ \E op \in Writes : Write(s, op) \/ Defer(s, op)
       \/ \E op \in Ops : Overflow(s, op)
  \/ Refuse("unavailable") \/ Refuse("refused")
  \/ (\E s \in Ids : screen[s].state = "lost") /\ Refuse("lost")

Spec == Init /\ [][Next]_vars
=============================================================================
