--------------------------- MODULE RetainedProofs ---------------------------
(***************************************************************************)
(* Proofs about RetainedSession, for any pages, capacities and amounts of  *)
(* output: no reply to a terminal query is lost on its way from the screen *)
(* to the program, and what a page shows, with the messages it has yet to  *)
(* receive, is all the output, in order and once.                          *)
(***************************************************************************)
EXTENDS RetainedSession, SequenceTheorems, WellFoundedInduction, NaturalsInduction, TLAPS

\* The screen, and what is counted: the replies it has handed out, and those
\* that were written, dropped, kept for later or are about to be written.
ScreenTyped == screen \in [{Id} -> Screens!Screen] /\ output \in Seq(Writes)
Counted ==
  /\ kind \in {"local", "terminal"}
  /\ answered \in [{Id} -> Nat]
  /\ inner \in Inner /\ replies \in Nat /\ written \in Nat /\ dropped \in Nat

\* Who unlocks the session has no reply left to write.
FreeOwesNothing == Free => inner.replies = 0

RepliesInv == ScreenTyped /\ Counted /\ FreeOwesNothing /\ RepliesConserved

-----------------------------------------------------------------------------
(* Calls to the screen. *)

\* A call hands out replies exactly as it answers with them.
Answers ==
  /\ screen' \in [{Id} -> Screens!Screen]
  /\ answered' \in [{Id} -> Nat] /\ answer'.replies \in Nat
  /\ answered'[Id] = answered[Id] + answer'.replies

LEMMA FreshScreens ==
  /\ Screens!NoScreen \in Screens!Screen /\ Screens!NewScreen \in Screens!Screen
  /\ Screens!LostScreen \in Screens!Screen
<1>1. /\ Screens!NoScreen = [state |-> "absent", content |-> << >>, owed |-> 0]
      /\ Screens!NewScreen = [state |-> "live", content |-> << >>, owed |-> 0]
      /\ Screens!LostScreen = [state |-> "lost", content |-> << >>, owed |-> 0]
  BY DEF Screens!NoScreen, Screens!NewScreen, Screens!LostScreen
<1>2. << >> \in Seq(Screens!Ops)
  OBVIOUS
<1> QED BY <1>1, <1>2 DEF Screens!Screen

LEMMA ScreenRecords ==
  ASSUME ScreenTyped
  PROVE  /\ screen[Id].owed \in Nat
         /\ \A op \in Screens!Ops, owed \in Nat :
              [screen EXCEPT ![Id].content = Append(screen[Id].content, op), ![Id].owed = owed]
                \in [{Id} -> Screens!Screen]
         /\ \A op \in Screens!Ops :
              [screen EXCEPT ![Id].content = Append(screen[Id].content, op)] \in [{Id} -> Screens!Screen]
         /\ [screen EXCEPT ![Id].owed = 0] \in [{Id} -> Screens!Screen]
         /\ [screen EXCEPT ![Id] = Screens!LostScreen] \in [{Id} -> Screens!Screen]
         /\ [screen EXCEPT ![Id] = Screens!NoScreen] \in [{Id} -> Screens!Screen]
<1>1. /\ screen[Id] \in Screens!Screen
      /\ screen[Id].content \in Seq(Screens!Ops) /\ screen[Id].owed \in Nat
  BY DEF ScreenTyped, Screens!Screen
<1>2. \A op \in Screens!Ops : Append(screen[Id].content, op) \in Seq(Screens!Ops)
  BY <1>1
<1>3. Screens!LostScreen \in Screens!Screen /\ Screens!NoScreen \in Screens!Screen
  BY FreshScreens
<1> QED BY <1>1, <1>2, <1>3 DEF ScreenTyped, Screens!Screen

LEMMA Hands ==
  ASSUME Counted, NEW n \in Nat, NEW data, Screens!Deliver(Id, data, n)
  PROVE  /\ answered' \in [{Id} -> Nat] /\ answer'.replies \in Nat
         /\ answered'[Id] = answered[Id] + answer'.replies
<1>1. answer'.replies = n
  BY DEF Screens!Deliver
<1> QED BY <1>1 DEF Screens!Deliver, Counted

LEMMA Refuses ==
  ASSUME Counted, NEW result, Screens!Return(result), answered' = answered
  PROVE  /\ answered' \in [{Id} -> Nat] /\ answer'.replies \in Nat
         /\ answered'[Id] = answered[Id] + answer'.replies
<1>1. answer'.replies = 0
  BY DEF Screens!Return, Screens!Only
<1> QED BY <1>1 DEF Counted

LEMMA Overflows ==
  ASSUME ScreenTyped, Counted, NEW op, Screens!Overflow(Id, op)
  PROVE  Answers
<1>1. Screens!Own(op) \in Nat
  BY DEF Screens!Own
<1> QED BY <1>1, ScreenRecords, Hands, Refuses DEF Screens!Overflow, Answers

LEMMA WritesAnswer ==
  ASSUME ScreenTyped, Counted, NEW op \in Writes, WriteScreen(op)
  PROVE  Answers
<1>0. op \in Screens!Ops /\ Screens!Own(op) \in Nat
  BY DEF Writes, Screens!Ops, Screens!Own
<1>1. screen[Id].owed \in Nat
  BY ScreenRecords
<1>2. CASE Screens!Write(Id, op)
  <2>1. screen' \in [{Id} -> Screens!Screen]
    BY <1>0, <1>2, ScreenRecords DEF Screens!Write
  <2>2. screen[Id].owed + Screens!Own(op) \in Nat
    BY <1>0, <1>1
  <2> QED BY <1>2, <2>1, <2>2, Hands DEF Screens!Write, Answers
<1>3. CASE Screens!Defer(Id, op)
  <2>1. screen[Id].owed + Screens!Own(op) \in Nat
    BY <1>0, <1>1
  <2>2. screen' = [screen EXCEPT ![Id].content = Append(screen[Id].content, op),
                                 ![Id].owed = screen[Id].owed + Screens!Own(op)]
    BY <1>3 DEF Screens!Defer
  <2>3. screen' \in [{Id} -> Screens!Screen]
    BY <1>0, <2>1, <2>2, ScreenRecords
  <2> QED BY <1>3, <2>3, Refuses DEF Screens!Defer, Answers
<1>4. CASE Screens!Overflow(Id, op)
  BY <1>4, Overflows
<1>5. CASE Screens!Refuse("lost")
  BY <1>5, Refuses DEF Screens!Refuse, Answers, ScreenTyped
<1> QED BY <1>2, <1>3, <1>4, <1>5 DEF WriteScreen

LEMMA SnapshotAnswers ==
  ASSUME ScreenTyped, Counted, SnapshotScreen
  PROVE  Answers
<1>1. CASE Screens!Snapshot(Id)
  BY <1>1, ScreenRecords, Hands DEF Screens!Snapshot, Answers
<1>2. ASSUME NEW result, Screens!Refuse(result)
      PROVE  Answers
  BY <1>2, Refuses DEF Screens!Refuse, Answers, ScreenTyped
<1> QED BY <1>1, <1>2 DEF SnapshotScreen

\* A resize answers no query.
LEMMA ResizeAnswers ==
  ASSUME ScreenTyped, Counted, ResizeScreen
  PROVE  Answers /\ answer'.replies = 0
<1>1. CASE Screens!Resize(Id)
  <2>1. "resize" \in Screens!Ops
    BY DEF Screens!Ops
  <2> QED BY <1>1, <2>1, ScreenRecords, Refuses
          DEF Screens!Resize, Answers, Screens!Return, Screens!Only
<1>2. CASE Screens!Overflow(Id, "resize")
  <2>1. answer'.replies = 0
    BY <1>2 DEF Screens!Overflow, Screens!Deliver, Screens!Return, Screens!Only, Screens!Own
  <2> QED BY <1>2, <2>1, Overflows
<1>3. ASSUME NEW result, Screens!Refuse(result)
      PROVE  Answers /\ answer'.replies = 0
  BY <1>3, Refuses DEF Screens!Refuse, Answers, ScreenTyped, Screens!Return, Screens!Only
<1> QED BY <1>1, <1>2, <1>3 DEF ResizeScreen

-----------------------------------------------------------------------------
(* The steps. *)

\* Steps that neither ask the screen nor move a reply; the program may die.
Elsewhere ==
  \/ Program \/ LateWrite \/ Registry \/ Closed \/ Publish \/ Register \/ Flushed
  \/ \E v \in Viewers : \/ Upgrade(v) \/ Ack(v) \/ Disconnect(v) \/ Type(v) \/ Close(v)
                        \/ Attached(v) \/ Loop(v) \/ Detach(v)

LEMMA KindsOfSteps ==
  ASSUME Next
  PROVE  \/ Elsewhere \/ Process \/ Reply \/ LoseScreen \/ Ready \/ Drop
         \/ \E v \in Viewers : Resize(v) \/ Attach(v)
BY DEF Next, Elsewhere, Reader, Opening, Page, Server

\* The program is not revived.
LEMMA DeadStays ==
  ASSUME Next, program = "dead"
  PROVE  program' = "dead"
<1>1. CASE Program \/ Reader
  BY <1>1 DEF Program, Emit, Unblock, ReadInput, Exit, Reader, Process, Reply, Publish, Closed,
              LoseScreen, external
<1>2. CASE Opening \/ LateWrite \/ Registry \/ Drop
  BY <1>2 DEF Opening, Ready, Flushed, Register, LateWrite, Registry, List, Listed, Destroy,
              Destroyed, Drop, external
<1>3. ASSUME NEW v \in Viewers, Page(v) \/ Server(v)
      PROVE  program' = "dead"
  BY <1>3 DEF Page, Upgrade, Ack, Disconnect, Type, Resize, Close, Server, Attach, Attached, Loop,
              Turn, Heartbeat, Restore, Receive, Detach, external, allButViewer
<1> QED BY <1>1, <1>2, <1>3 DEF Next

LEMMA ElsewhereKeeps ==
  ASSUME RepliesInv, Elsewhere
  PROVE  /\ UNCHANGED <<kind, screen, answered, replies, written, dropped>>
         /\ inner' = inner \/ (inner' = Unlocked /\ inner.replies = 0)
         /\ output' \in Seq(Writes)
<1>1. CASE Program
  <2>1. \A op \in Writes : Append(output, op) \in Seq(Writes)
    BY DEF RepliesInv, ScreenTyped
  <2> QED BY <1>1, <2>1 DEF Program, Emit, Unblock, ReadInput, Exit, log, screenVars,
                            RepliesInv, ScreenTyped
<1>2. CASE LateWrite \/ Registry \/ Closed \/ Publish \/ Register \/ Flushed
  BY <1>2 DEF LateWrite, Registry, List, Listed, Destroy, Destroyed, Closed, Publish, Register,
              Flushed, external, log, screenVars, RepliesInv, ScreenTyped
<1>3. ASSUME NEW v \in Viewers, \/ Upgrade(v) \/ Ack(v) \/ Disconnect(v) \/ Type(v) \/ Close(v)
                                \/ Attached(v) \/ Loop(v) \/ Detach(v)
      PROVE  /\ UNCHANGED <<kind, screen, answered, replies, written, dropped>>
             /\ inner' = inner \/ (inner' = Unlocked /\ inner.replies = 0)
             /\ output' \in Seq(Writes)
  BY <1>3 DEF Upgrade, Ack, Disconnect, Type, Close, Attached, Loop, Turn, Heartbeat, Restore,
              Receive, Detach, external, allButViewer, log, screenVars, RepliesInv, ScreenTyped
<1> QED BY <1>1, <1>2, <1>3 DEF Elsewhere

THEOREM InitReplies == Init => RepliesInv
<1> SUFFICES ASSUME Init PROVE RepliesInv
  OBVIOUS
<1>1. Screens!NewScreen \in Screens!Screen
  BY FreshScreens
<1>2. ScreenTyped
  BY <1>1 DEF Init, ScreenTyped
<1>3. Counted
  BY KindAssumption DEF Init, Counted, Unlocked, Inner, Holders
<1> QED BY <1>2, <1>3 DEF Init, RepliesInv, FreeOwesNothing, RepliesConserved, Unlocked

THEOREM NextReplies == RepliesInv /\ [Next]_vars => RepliesInv'
<1> SUFFICES ASSUME RepliesInv, [Next]_vars PROVE RepliesInv'
  OBVIOUS
<1> USE DEF RepliesInv
<1>0. /\ inner.replies \in Nat
      /\ Unlocked \in Inner /\ Unlocked.replies = 0
      /\ \A holder \in Holders, n \in Nat, op \in Writes \cup {"none"} :
           /\ [holder |-> holder, replies |-> n, op |-> op] \in Inner
           /\ [holder |-> holder, replies |-> n, op |-> op].replies = n
           /\ [holder |-> holder, replies |-> n, op |-> op].holder = holder
  BY DEF Counted, Inner, Unlocked, Holders
<1>1. CASE Elsewhere /\ Next
  <2>1. /\ UNCHANGED <<kind, screen, answered, replies, written, dropped>>
        /\ inner' = inner \/ (inner' = Unlocked /\ inner.replies = 0)
        /\ output' \in Seq(Writes)
    BY <1>1, ElsewhereKeeps
  <2>2. ScreenTyped' /\ Counted' /\ FreeOwesNothing'
    BY <1>0, <2>1 DEF ScreenTyped, Counted, FreeOwesNothing, Free
  <2>3. RepliesConserved'
    BY <1>0, <1>1, <2>1, DeadStays DEF RepliesConserved
  <2> QED BY <2>2, <2>3
<1>2. CASE Process /\ Next
  <2>1. Head(output) \in Writes /\ Tail(output) \in Seq(Writes)
    BY <1>2 DEF Process, ScreenTyped
  <2>2. Answers
    BY <1>2, <2>1, WritesAnswer DEF Process
  <2>3. /\ inner' \in Inner /\ inner'.replies = answer'.replies /\ inner'.holder = "reader"
        /\ UNCHANGED <<kind, replies, written, dropped, program>>
        /\ output' = Tail(output)
    BY <1>0, <1>2, <2>1, <2>2 DEF Process, Answers, Holders
  <2>4. inner.replies = 0
    BY <1>2 DEF Process, FreeOwesNothing
  <2>5. ScreenTyped' /\ Counted' /\ FreeOwesNothing'
    BY <2>1, <2>2, <2>3 DEF Answers, ScreenTyped, Counted, FreeOwesNothing, Free
  <2>6. RepliesConserved'
    BY <2>2, <2>3, <2>4 DEF Answers, RepliesConserved, Counted
  <2> QED BY <2>5, <2>6
<1>3. CASE Reply /\ Next
  <2>1. /\ inner' \in Inner /\ inner'.replies = inner.replies - 1 /\ inner'.holder = inner.holder
        /\ inner.replies > 0
    BY <1>0, <1>3 DEF Reply, Counted, Inner
  <2>2. UNCHANGED <<kind, output, screen, answered, program>>
    BY <1>3 DEF Reply, screenVars
  <2>3. \/ replies' = replies + 1 /\ UNCHANGED <<written, dropped>>
        \/ replies' = replies /\ written' = written + 1 /\ dropped' = dropped
        \/ /\ replies' = replies /\ written' = written /\ dropped' = dropped + 1
           /\ program = "dead" \/ kind = "terminal"
    BY <1>3 DEF Reply, WriteNow
  <2>4. ScreenTyped' /\ Counted' /\ FreeOwesNothing'
    BY <2>1, <2>2, <2>3 DEF ScreenTyped, Counted, FreeOwesNothing, Free
  <2>5. RepliesConserved'
    BY <1>0, <2>1, <2>2, <2>3 DEF RepliesConserved, Counted
  <2> QED BY <2>4, <2>5
<1>4. CASE LoseScreen /\ Next
  BY <1>4, ScreenRecords
     DEF LoseScreen, Screens!Lose, external, log, ScreenTyped, Counted, FreeOwesNothing, Free,
         RepliesConserved
<1>5. CASE Ready /\ Next
  <2>1. /\ inner' \in Inner /\ inner'.replies = replies /\ inner'.holder = "ready"
        /\ replies' = 0 /\ inner.replies = 0
        /\ UNCHANGED <<kind, output, screen, answered, program, written, dropped>>
    BY <1>0, <1>5 DEF Ready, external, log, screenVars, Counted, Holders, FreeOwesNothing
  <2> QED BY <2>1 DEF ScreenTyped, Counted, FreeOwesNothing, Free, RepliesConserved
<1>6. CASE Drop /\ Next
  BY <1>6, ScreenRecords
     DEF Drop, Screens!Destroy, external, log, ScreenTyped, Counted, FreeOwesNothing, Free,
         RepliesConserved
<1>7. ASSUME NEW v \in Viewers, Resize(v)
      PROVE  RepliesInv'
  <2>1. Answers /\ answer'.replies = 0
    BY <1>7, ResizeAnswers DEF Resize
  <2>2. UNCHANGED <<kind, inner, output, program, replies, written, dropped>>
    BY <1>7 DEF Resize, external, log
  <2> QED BY <2>1, <2>2 DEF Answers, ScreenTyped, Counted, FreeOwesNothing, Free, RepliesConserved
<1>8. ASSUME NEW v \in Viewers, Attach(v)
      PROVE  RepliesInv'
  <2>1. Answers
    BY <1>8, SnapshotAnswers DEF Attach
  <2>2. UNCHANGED <<kind, output, program, replies, written, dropped>> /\ inner.replies = 0
    BY <1>8 DEF Attach, external, log, FreeOwesNothing
  <2>3. CASE answer'.result = "ok"
    <3>1. inner' \in Inner /\ inner'.replies = answer'.replies /\ inner'.holder = v
      BY <1>0, <1>8, <2>1, <2>3 DEF Attach, Answers, Holders
    <3>2. ~Free'
      BY <3>1, ViewerAssumption DEF Free
    <3> QED BY <2>1, <2>2, <3>1, <3>2
            DEF Answers, ScreenTyped, Counted, FreeOwesNothing, RepliesConserved
  <2>4. CASE answer'.result # "ok"
    <3>1. inner' = inner /\ answer'.replies = 0
      BY <1>8, <2>4 DEF Attach, SnapshotScreen, Screens!Snapshot, Screens!Deliver, Screens!Refuse,
                        Screens!Return, Screens!Only
    <3> QED BY <2>1, <2>2, <3>1
            DEF Answers, ScreenTyped, Counted, FreeOwesNothing, Free, RepliesConserved
  <2> QED BY <2>3, <2>4
<1>9. CASE UNCHANGED vars
  BY <1>9 DEF vars, external, log, screenVars, ScreenTyped, Counted, FreeOwesNothing, Free,
              RepliesConserved
<1> QED BY <1>1, <1>2, <1>3, <1>4, <1>5, <1>6, <1>7, <1>8, <1>9, KindsOfSteps

\* Every reply the screen has handed out was written to the program, or is
\* kept or about to be, or was given up: over a closed session or, over SSH, a
\* full queue, and never while a local program runs.
THEOREM RepliesReachProgram == Spec => []RepliesConserved
<1>1. RepliesInv => RepliesConserved
  BY DEF RepliesInv
<1> QED BY <1>1, InitReplies, NextReplies, PTL DEF Spec

-----------------------------------------------------------------------------
(* Induction over the naturals, for a set: the induction theorems of the   *)
(* library take an operator, its least element principle does not.         *)

LEMMA LeastNatural ==
  ASSUME NEW T \in SUBSET Nat, T # {}
  PROVE  \E x \in T : \A y \in T : x <= y
<1> DEFINE R == OpToRel(<, Nat)
<1>1. IsWellFoundedOn(R, Nat)
  BY NatLessThanWellFounded
<1>2. \A x, y \in Nat : <<y, x>> \in R <=> y < x
  BY DEF OpToRel
<1> HIDE DEF R
<1>3. PICK x \in T : \A y \in T : ~ (<<y, x>> \in R)
  BY <1>1, WFMin
<1>4. ASSUME NEW y \in T
      PROVE  x <= y
  <2>1. x \in Nat /\ y \in Nat /\ ~ (<<y, x>> \in R)
    BY <1>3
  <2>2. ~ (y < x)
    BY <1>2, <2>1
  <2> QED BY <2>1, <2>2
<1> QED BY <1>4

\* A set that has 0, and with a number the next, has them all.
LEMMA ByInduction ==
  ASSUME NEW S, 0 \in S, \A n \in Nat : n \in S => n + 1 \in S
  PROVE  Nat \subseteq S
<1> DEFINE T == Nat \ S
<1>1. SUFFICES ASSUME T # {} PROVE FALSE
  OBVIOUS
<1>2. PICK x \in T : \A y \in T : x <= y
  BY <1>1, LeastNatural
<1>3. x # 0 /\ x - 1 \in Nat /\ x - 1 \notin T
  BY <1>2
<1> QED BY <1>2, <1>3

-----------------------------------------------------------------------------
(* The output among the messages: OnlyWrites, whose recursive function is  *)
(* a walk along the sequence.                                              *)

Step(f, s, i) ==
  IF i = 0 THEN << >>
  ELSE IF IsWrite(s[i]) THEN Append(f[i - 1], s[i]) ELSE f[i - 1]
Walks(f, s) == f = [i \in 0..Len(s) |-> Step(f, s, i)]

\* What a walk is, entry by entry.
LEMMA WalkSteps ==
  ASSUME NEW s, Len(s) \in Nat, NEW f, Walks(f, s)
  PROVE  /\ f[0] = << >>
         /\ \A i \in Nat : i < Len(s) =>
              f[i + 1] = IF IsWrite(s[i + 1]) THEN Append(f[i], s[i + 1]) ELSE f[i]
<1>1. \A i \in 0..Len(s) : f[i] = Step(f, s, i)
  BY Zenon DEF Walks
<1>2. f[0] = << >>
  <2>1. Step(f, s, 0) = << >>
    BY DEF Step
  <2>2. 0 \in 0..Len(s)
    OBVIOUS
  <2> QED BY <1>1, <2>1, <2>2
<1>3. ASSUME NEW i \in Nat, i < Len(s)
      PROVE  f[i + 1] = IF IsWrite(s[i + 1]) THEN Append(f[i], s[i + 1]) ELSE f[i]
  <2>1. i + 1 \in 0..Len(s) /\ i + 1 # 0 /\ (i + 1) - 1 = i
    BY <1>3
  <2>2. Step(f, s, i + 1) = IF IsWrite(s[i + 1]) THEN Append(f[(i + 1) - 1], s[i + 1]) ELSE f[(i + 1) - 1]
    BY <2>1, Zenon DEF Step
  <2>3. f[i + 1] = Step(f, s, i + 1)
    BY <1>1, <2>1
  <2> QED BY <2>1, <2>2, <2>3
<1> QED BY <1>2, <1>3

\* Appending to a concatenation, and before it.
LEMMA Lengthens ==
  \A a, b \in Seq(Writes), x \in Writes :
    /\ Append(a \o b, x) = a \o Append(b, x)
    /\ a \o (<<x>> \o b) = Append(a, x) \o b
    /\ a \o << >> = a /\ << >> \o a = a
<1> SUFFICES ASSUME NEW a \in Seq(Writes), NEW b \in Seq(Writes), NEW x \in Writes
             PROVE  /\ Append(a \o b, x) = a \o Append(b, x)
                    /\ a \o (<<x>> \o b) = Append(a, x) \o b
                    /\ a \o << >> = a /\ << >> \o a = a
  OBVIOUS
<1>1. <<x>> \in Seq(Writes)
  OBVIOUS
<1>2. Append(a, x) = a \o <<x>> /\ Append(b, x) = b \o <<x>> /\ Append(a \o b, x) = (a \o b) \o <<x>>
  OBVIOUS
<1>3. (a \o b) \o <<x>> = a \o (b \o <<x>>) /\ a \o (<<x>> \o b) = (a \o <<x>>) \o b
  BY <1>1, ConcatAssociative
<1> QED BY <1>2, <1>3, ConcatEmptySeq

\* The walk along a sequence exists ...
LEMMA WalkExists ==
  ASSUME NEW T, NEW s \in Seq(T)
  PROVE  \E f : Walks(f, s)
<1> DEFINE S == {n \in Nat : \A t \in Seq(T) : Len(t) = n => \E f : Walks(f, t)}
<1>1. 0 \in S
  <2> SUFFICES ASSUME NEW t \in Seq(T), Len(t) = 0 PROVE \E f : Walks(f, t)
    OBVIOUS
  <2> DEFINE g == [i \in 0..Len(t) |-> << >>]
  <2>1. Walks(g, t)
    <3>1. \A i \in 0..Len(t) : Step(g, t, i) = << >>
      BY DEF Step
    <3> QED BY <3>1 DEF Walks
  <2> QED BY <2>1
<1>2. ASSUME NEW n \in Nat, n \in S
      PROVE  n + 1 \in S
  <2> SUFFICES ASSUME NEW t \in Seq(T), Len(t) = n + 1 PROVE \E f : Walks(f, t)
    OBVIOUS
  <2> DEFINE p == SubSeq(t, 1, n)
  <2>1. p \in Seq(T) /\ Len(p) = n /\ \A i \in 1..n : p[i] = t[i]
    OBVIOUS
  <2>2. PICK f : Walks(f, p)
    BY <1>2, <2>1
  <2> DEFINE g == [i \in 0..n + 1 |-> IF i = n + 1 THEN Step(f, t, n + 1) ELSE f[i]]
  <2>3. /\ \A i \in 0..n : g[i] = f[i]
        /\ g[n + 1] = Step(f, t, n + 1)
        /\ g = [i \in 0..n + 1 |-> g[i]]
    OBVIOUS
  <2>4. \A i \in 0..n : f[i] = Step(f, p, i)
    BY <2>1, <2>2 DEF Walks
  <2> HIDE DEF g, p
  <2>5. ASSUME NEW i \in 0..n + 1
        PROVE  g[i] = Step(g, t, i)
    <3>1. CASE i = 0
      <4>1. Step(g, t, 0) = << >> /\ Step(f, p, 0) = << >> /\ 0 \in 0..n
        BY DEF Step
      <4> QED BY <2>3, <2>4, <3>1, <4>1
    <3>2. CASE i \in 1..n
      <4>1. i - 1 \in 0..n /\ i \in 0..n
        BY <3>2
      <4> QED BY <2>1, <2>3, <2>4, <3>2, <4>1 DEF Step
    <3>3. CASE i = n + 1
      <4>1. i - 1 = n /\ n \in 0..n
        BY <3>3
      <4> QED BY <2>3, <3>3, <4>1 DEF Step
    <3> QED BY <3>1, <3>2, <3>3
  <2>6. Walks(g, t)
    BY <2>3, <2>5 DEF Walks
  <2> QED BY <2>6
<1> HIDE DEF S
<1>3. Nat \subseteq S
  BY <1>1, <1>2, ByInduction
<1> USE DEF S
<1> QED BY <1>3

\* ... and two walks agree as long as the sequences do.
LEMMA WalksAgree ==
  ASSUME NEW s, NEW t, NEW m \in Nat, Len(s) \in Nat, Len(t) \in Nat, m <= Len(s), m <= Len(t),
         \A i \in 1..m : s[i] = t[i],
         NEW f, NEW g, Walks(f, s), Walks(g, t)
  PROVE  \A i \in 0..m : f[i] = g[i]
<1> DEFINE S == {n \in Nat : n <= m => f[n] = g[n]}
<1>1. 0 \in S
  BY WalkSteps
<1>2. ASSUME NEW n \in Nat, n \in S
      PROVE  n + 1 \in S
  <2>1. SUFFICES ASSUME n + 1 <= m PROVE f[n + 1] = g[n + 1]
    OBVIOUS
  <2>2. f[n] = g[n] /\ s[n + 1] = t[n + 1] /\ n < Len(s) /\ n < Len(t)
    BY <1>2, <2>1
  <2> QED BY <2>2, WalkSteps
<1> HIDE DEF S
<1>3. Nat \subseteq S
  BY <1>1, <1>2, ByInduction
<1> USE DEF S
<1> QED BY <1>3

\* OnlyWrites is the end of such a walk.
LEMMA WalkOf ==
  ASSUME NEW T, NEW s \in Seq(T)
  PROVE  \E f : Walks(f, s) /\ OnlyWrites(s) = f[Len(s)]
<1> DEFINE k == CHOOSE f : Walks(f, s)
<1>1. Walks(k, s)
  BY WalkExists
<1>2. OnlyWrites(s) = k[Len(s)]
  BY DEF OnlyWrites, Walks, Step
<1> QED BY <1>1, <1>2

\* Nothing is kept of nothing, a last write comes last ...
LEMMA KeepsNothing == OnlyWrites(<< >>) = << >>
<1>1. << >> \in Seq({})
  OBVIOUS
<1>2. PICK f : Walks(f, << >>) /\ OnlyWrites(<< >>) = f[Len(<< >>)]
  BY <1>1, WalkOf
<1>3. Len(<< >>) = 0
  OBVIOUS
<1> QED BY <1>2, <1>3, WalkSteps

LEMMA KeepsLast ==
  ASSUME NEW T, NEW s \in Seq(T), NEW x \in T
  PROVE  OnlyWrites(Append(s, x)) = IF IsWrite(x) THEN Append(OnlyWrites(s), x) ELSE OnlyWrites(s)
<1> DEFINE t == Append(s, x)
<1>1. t \in Seq(T) /\ Len(t) = Len(s) + 1 /\ t[Len(s) + 1] = x /\ \A i \in 1..Len(s) : t[i] = s[i]
  OBVIOUS
<1> HIDE DEF t
<1>2. PICK f : Walks(f, s) /\ OnlyWrites(s) = f[Len(s)]
  BY WalkOf
<1>3. PICK g : Walks(g, t) /\ OnlyWrites(t) = g[Len(s) + 1]
  BY <1>1, WalkOf
<1>4. f[Len(s)] = g[Len(s)]
  <2>1. Len(s) \in Nat /\ Len(t) \in Nat /\ Len(s) <= Len(t) /\ Len(s) \in 0..Len(s)
    BY <1>1
  <2>2. \A i \in 0..Len(s) : f[i] = g[i]
    BY <1>1, <1>2, <1>3, <2>1, WalksAgree
  <2> QED BY <2>1, <2>2
<1>5. /\ Len(s) \in Nat
      /\ g[Len(s) + 1] = IF IsWrite(t[Len(s) + 1]) THEN Append(g[Len(s)], t[Len(s) + 1]) ELSE g[Len(s)]
  <2>1. Len(s) \in Nat /\ Len(t) \in Nat /\ Len(s) < Len(t)
    BY <1>1
  <2> QED BY <1>3, <2>1, WalkSteps
<1>6. OnlyWrites(t) = IF IsWrite(x) THEN Append(OnlyWrites(s), x) ELSE OnlyWrites(s)
  BY <1>1, <1>2, <1>3, <1>4, <1>5
<1> QED BY <1>6 DEF t

\* ... and only output is kept.
LEMMA KeepsWrites ==
  ASSUME NEW T, NEW s \in Seq(T)
  PROVE  OnlyWrites(s) \in Seq(Writes)
<1>1. PICK f : Walks(f, s) /\ OnlyWrites(s) = f[Len(s)]
  BY WalkOf
<1> DEFINE S == {n \in Nat : n <= Len(s) => f[n] \in Seq(Writes)}
<1>2. /\ Len(s) \in Nat /\ f[0] = << >>
      /\ \A i \in Nat : i < Len(s) =>
           f[i + 1] = IF IsWrite(s[i + 1]) THEN Append(f[i], s[i + 1]) ELSE f[i]
  BY <1>1, WalkSteps
<1>3. 0 \in S
  <2>1. << >> \in Seq(Writes)
    OBVIOUS
  <2> QED BY <1>2, <2>1
<1>4. ASSUME NEW n \in Nat, n \in S
      PROVE  n + 1 \in S
  <2>1. SUFFICES ASSUME n + 1 <= Len(s) PROVE f[n + 1] \in Seq(Writes)
    OBVIOUS
  <2>2. f[n] \in Seq(Writes) /\ n < Len(s)
    BY <1>2, <1>4, <2>1
  <2>3. f[n + 1] = IF IsWrite(s[n + 1]) THEN Append(f[n], s[n + 1]) ELSE f[n]
    BY <1>2, <2>2
  <2>4. IsWrite(s[n + 1]) => Append(f[n], s[n + 1]) \in Seq(Writes)
    BY <2>2 DEF IsWrite
  <2> QED BY <2>2, <2>3, <2>4
<1> HIDE DEF S
<1>5. Nat \subseteq S
  BY <1>3, <1>4, ByInduction
<1>6. Len(s) \in S
  BY <1>2, <1>5
<1> QED BY <1>1, <1>6 DEF S

FirstWrite(s) == IF IsWrite(Head(s)) THEN <<Head(s)>> ELSE << >>

\* A first write comes first in what is kept.
LEMMA KeepsFirst ==
  ASSUME NEW T, NEW s \in Seq(T), s # << >>
  PROVE  OnlyWrites(s) = FirstWrite(s) \o OnlyWrites(Tail(s))
<1> DEFINE S == {n \in Nat : \A r \in Seq(T) :
                   Len(r) = n + 1 => OnlyWrites(r) = FirstWrite(r) \o OnlyWrites(Tail(r))}
<1>0. ASSUME NEW r
      PROVE  FirstWrite(r) \in Seq(Writes)
  <2>1. << >> \in Seq(Writes) /\ (Head(r) \in Writes => <<Head(r)>> \in Seq(Writes))
    OBVIOUS
  <2> QED BY <2>1 DEF FirstWrite, IsWrite
<1>1. 0 \in S
  <2> SUFFICES ASSUME NEW r \in Seq(T), Len(r) = 1
               PROVE  OnlyWrites(r) = FirstWrite(r) \o OnlyWrites(Tail(r))
    OBVIOUS
  <2>1. << >> \in Seq(T)
    OBVIOUS
  <2>0. r # << >>
    <3>1. Len(<< >>) = 0 /\ 0 # 1
      OBVIOUS
    <3> QED BY <3>1
  <2>2. PICK p \in Seq(T), x \in T : r = Append(p, x)
    BY <2>0, SequenceEmptyOrAppend
  <2>3. p = << >>
    BY <2>2
  <2>4. Head(r) = x /\ Tail(r) = << >>
    BY <2>0, <2>2, <2>3, HeadTailAppend
  <2>5. OnlyWrites(r) = IF IsWrite(x) THEN Append(<< >>, x) ELSE << >>
    BY <2>1, <2>2, <2>3, KeepsLast, KeepsNothing
  <2>6. OnlyWrites(r) = FirstWrite(r)
    <3>1. Append(<< >>, x) = <<x>>
      OBVIOUS
    <3> QED BY <2>4, <2>5, <3>1 DEF FirstWrite
  <2>7. FirstWrite(r) \o << >> = FirstWrite(r)
    BY <1>0, ConcatEmptySeq
  <2> QED BY <2>4, <2>6, <2>7, KeepsNothing
<1>2. ASSUME NEW n \in Nat, n \in S
      PROVE  n + 1 \in S
  <2> SUFFICES ASSUME NEW r \in Seq(T), Len(r) = n + 2
               PROVE  OnlyWrites(r) = FirstWrite(r) \o OnlyWrites(Tail(r))
    OBVIOUS
  <2>1. r # << >>
    OBVIOUS
  <2>2. PICK p \in Seq(T), x \in T : r = Append(p, x)
    BY <2>1, SequenceEmptyOrAppend
  <2>3. Len(p) = n + 1 /\ p # << >>
    BY <2>2
  <2>4. Head(r) = Head(p) /\ Tail(r) = Append(Tail(p), x) /\ Tail(p) \in Seq(T)
    BY <2>2, <2>3, HeadTailAppend
  <2>5. OnlyWrites(p) = FirstWrite(r) \o OnlyWrites(Tail(p))
    BY <1>2, <2>3, <2>4 DEF FirstWrite
  <2>6. /\ OnlyWrites(r) = IF IsWrite(x) THEN Append(OnlyWrites(p), x) ELSE OnlyWrites(p)
        /\ OnlyWrites(Tail(r)) =
             IF IsWrite(x) THEN Append(OnlyWrites(Tail(p)), x) ELSE OnlyWrites(Tail(p))
    BY <2>2, <2>4, KeepsLast, ZenonT(60)
  <2>7. OnlyWrites(Tail(p)) \in Seq(Writes) /\ FirstWrite(r) \in Seq(Writes)
    BY <1>0, <2>4, KeepsWrites
  <2>8. IsWrite(x) => Append(FirstWrite(r) \o OnlyWrites(Tail(p)), x) =
                      FirstWrite(r) \o Append(OnlyWrites(Tail(p)), x)
    <3> SUFFICES ASSUME x \in Writes
                 PROVE  Append(FirstWrite(r) \o OnlyWrites(Tail(p)), x) =
                        FirstWrite(r) \o Append(OnlyWrites(Tail(p)), x)
      BY DEF IsWrite
    <3>1. \A a, b \in Seq(Writes) : Append(a \o b, x) = a \o Append(b, x)
      BY Lengthens
    <3> QED BY <2>7, <3>1
  <2> QED BY <2>5, <2>6, <2>8
<1> HIDE DEF S
<1>3. Nat \subseteq S
  BY <1>1, <1>2, ByInduction
<1>4. Len(s) - 1 \in S /\ Len(s) = (Len(s) - 1) + 1
  BY <1>3
<1> QED BY <1>4 DEF S

\* The output among the messages after the first n.
Rest(s, n) == OnlyWrites(SubSeq(s, n + 1, Len(s)))

\* No output comes after the last message ...
LEMMA NothingRests ==
  ASSUME NEW s \in Seq(Messages)
  PROVE  Rest(s, Len(s)) = << >>
<1>1. SubSeq(s, Len(s) + 1, Len(s)) = << >>
  BY SubSeqEmpty
<1> QED BY <1>1, KeepsNothing DEF Rest

\* ... until one more is sent, which then comes last ...
LEMMA RestGrows ==
  ASSUME NEW s \in Seq(Messages), NEW n \in 0..Len(s), NEW x \in Messages
  PROVE  /\ Append(s, x) \in Seq(Messages)
         /\ Len(Append(s, x)) = Len(s) + 1
         /\ Rest(s, n) \in Seq(Writes)
         /\ Rest(Append(s, x), n) = IF IsWrite(x) THEN Append(Rest(s, n), x) ELSE Rest(s, n)
<1> DEFINE r == SubSeq(s, n + 1, Len(s))
           t == SubSeq(Append(s, x), n + 1, Len(s) + 1)
<1>1. Append(s, x) \in Seq(Messages) /\ Len(Append(s, x)) = Len(s) + 1
  OBVIOUS
<1>2. r \in Seq(Messages) /\ Len(r) = Len(s) - n /\ \A i \in 1..Len(s) - n : r[i] = s[n + i]
  OBVIOUS
<1>3. /\ t \in Seq(Messages) /\ Len(t) = Len(s) + 1 - n
      /\ \A i \in 1..Len(s) + 1 - n : t[i] = IF i = Len(s) + 1 - n THEN x ELSE s[n + i]
  OBVIOUS
<1> HIDE DEF r, t
<1>4. /\ Append(r, x) \in Seq(Messages) /\ Len(Append(r, x)) = Len(s) + 1 - n
      /\ \A i \in 1..Len(s) + 1 - n :
           Append(r, x)[i] = IF i = Len(s) + 1 - n THEN x ELSE s[n + i]
  <2>1. /\ Append(r, x) \in Seq(Messages) /\ Len(Append(r, x)) = Len(r) + 1
        /\ \A i \in 1..Len(r) : Append(r, x)[i] = r[i]
        /\ Append(r, x)[Len(r) + 1] = x
    BY <1>2, AppendProperties
  <2> QED BY <1>2, <2>1
<1>5. t = Append(r, x)
  BY <1>3, <1>4, SeqEqual
<1>6. OnlyWrites(t) = IF IsWrite(x) THEN Append(OnlyWrites(r), x) ELSE OnlyWrites(r)
  BY <1>2, <1>5, KeepsLast
<1>7. OnlyWrites(r) \in Seq(Writes)
  BY <1>2, KeepsWrites
<1> QED BY <1>1, <1>6, <1>7 DEF Rest, r, t

\* ... and the next message comes first.
LEMMA RestFirst ==
  ASSUME NEW s \in Seq(Messages), NEW n \in Nat, n < Len(s)
  PROVE  /\ Rest(s, n + 1) \in Seq(Writes) /\ s[n + 1] \in Messages
         /\ Rest(s, n) = (IF IsWrite(s[n + 1]) THEN <<s[n + 1]>> ELSE << >>) \o Rest(s, n + 1)
<1> DEFINE r == SubSeq(s, n + 1, Len(s))
           t == SubSeq(s, n + 2, Len(s))
<1>0. /\ r \in Seq(Messages) /\ Len(r) = Len(s) - n
      /\ \A i \in 1..Len(s) - n : r[i] = s[n + i]
  OBVIOUS
<1>2. /\ t \in Seq(Messages) /\ Len(t) = Len(s) - n - 1
      /\ \A i \in 1..Len(s) - n - 1 : t[i] = s[n + 1 + i]
  OBVIOUS
<1> HIDE DEF r, t
<1>1. r # << >> /\ Head(r) = s[n + 1]
  <2>1. Len(<< >>) = 0 /\ Len(r) # 0 /\ 1 \in 1..Len(s) - n
    BY <1>0
  <2> QED BY <1>0, <2>1
<1>3. /\ Tail(r) \in Seq(Messages) /\ Len(Tail(r)) = Len(s) - n - 1
      /\ \A i \in 1..Len(s) - n - 1 : Tail(r)[i] = s[n + 1 + i]
  BY <1>0, <1>1
<1>4. Tail(r) = t
  BY <1>2, <1>3, SeqEqual
<1>5. OnlyWrites(r) = FirstWrite(r) \o OnlyWrites(t)
  BY <1>0, <1>1, <1>4, KeepsFirst
<1>6. OnlyWrites(t) \in Seq(Writes)
  BY <1>2, KeepsWrites
<1>7. Rest(s, n) = OnlyWrites(r) /\ Rest(s, n + 1) = OnlyWrites(t)
  BY DEF Rest, r, t
<1>8. s[n + 1] \in Messages
  OBVIOUS
<1> QED BY <1>1, <1>5, <1>6, <1>7, <1>8 DEF FirstWrite

\* A page that has its view and has yet to receive the messages from next on
\* follows the output.
Follows(me, s) ==
  /\ me.next \in 0..Len(s) /\ me.view \in Seq(Writes)
  /\ me.view \o Rest(s, me.next) = OnlyWrites(s)

\* A message more is sent.
LEMMA FollowsOn ==
  ASSUME NEW s \in Seq(Messages), NEW x \in Messages, NEW me, Follows(me, s)
  PROVE  Follows(me, Append(s, x))
<1>1. me.next \in 0..Len(s) /\ me.view \in Seq(Writes)
  BY DEF Follows
<1>2. /\ Len(Append(s, x)) = Len(s) + 1 /\ Rest(s, me.next) \in Seq(Writes)
      /\ Rest(Append(s, x), me.next) =
           IF IsWrite(x) THEN Append(Rest(s, me.next), x) ELSE Rest(s, me.next)
  BY <1>1, RestGrows
<1>3. OnlyWrites(Append(s, x)) = IF IsWrite(x) THEN Append(OnlyWrites(s), x) ELSE OnlyWrites(s)
  BY KeepsLast
<1>4. IsWrite(x) => Append(me.view \o Rest(s, me.next), x) = me.view \o Append(Rest(s, me.next), x)
  <2> SUFFICES ASSUME x \in Writes
               PROVE  Append(me.view \o Rest(s, me.next), x) = me.view \o Append(Rest(s, me.next), x)
    BY DEF IsWrite
  <2> QED BY <1>1, <1>2, Lengthens, ZenonT(60)
<1>5. me.next \in 0..Len(Append(s, x))
  BY <1>1, <1>2
<1>6. me.view \o Rest(s, me.next) = OnlyWrites(s)
  BY DEF Follows
<1> QED BY <1>1, <1>2, <1>3, <1>4, <1>5, <1>6 DEF Follows

\* The next message is received.
LEMMA FollowsNext ==
  ASSUME NEW s \in Seq(Messages), NEW me \in Viewer, Follows(me, s), me.next < Len(s)
  PROVE  /\ Sees([me EXCEPT !.next = @ + 1], s[me.next + 1]) \in Viewer
         /\ Follows(Sees([me EXCEPT !.next = @ + 1], s[me.next + 1]), s)
<1> DEFINE n == me.next
           x == s[n + 1]
           you == Sees([me EXCEPT !.next = @ + 1], x)
<1>1. n \in Nat /\ n < Len(s) /\ me.view \in Seq(Writes) /\ me.outstanding \in Nat
  BY DEF Viewer
<1>2. /\ Rest(s, n + 1) \in Seq(Writes)
      /\ Rest(s, n) = (IF IsWrite(x) THEN <<x>> ELSE << >>) \o Rest(s, n + 1)
  BY <1>1, RestFirst
<1>3. me.view \o Rest(s, n) = OnlyWrites(s)
  BY DEF Follows
<1>4. n + 1 \in 0..Len(s)
  BY <1>1
<1>5. CASE IsWrite(x)
  <2>1. x \in Writes
    BY <1>5 DEF IsWrite
  <2>2. Append(me.view, x) \o Rest(s, n + 1) = OnlyWrites(s)
    <3>1. \A b \in Seq(Writes) : me.view \o (<<x>> \o b) = Append(me.view, x) \o b
      BY <1>1, <2>1, Lengthens, ZenonT(60)
    <3> QED BY <1>2, <1>3, <1>5, <3>1
  <2>3. you = [me EXCEPT !.next = n + 1, !.view = Append(me.view, x), !.outstanding = me.outstanding + 1]
    BY <1>5 DEF Sees, Viewer
  <2>4. Append(me.view, x) \in Seq(Writes) /\ n + 1 \in Nat /\ me.outstanding + 1 \in Nat
    BY <1>1, <2>1
  <2> HIDE DEF x, n, you
  <2>5. you \in Viewer /\ you.next = n + 1 /\ you.view = Append(me.view, x)
    BY <2>3, <2>4 DEF Viewer
  <2>6. Follows(you, s)
    BY <1>4, <2>2, <2>4, <2>5 DEF Follows
  <2> QED BY <2>5, <2>6 DEF you, x, n
<1>6. CASE ~IsWrite(x)
  <2>1. << >> \o Rest(s, n + 1) = Rest(s, n + 1)
    BY <1>2, ConcatEmptySeq
  <2>2. you = [me EXCEPT !.next = n + 1]
    BY <1>6 DEF Sees
  <2>3. you \in Viewer /\ you.next = n + 1 /\ you.view = me.view
    BY <1>1, <2>2 DEF Viewer
  <2> QED BY <1>1, <1>2, <1>3, <1>4, <1>6, <2>1, <2>3 DEF Follows
<1> QED BY <1>5, <1>6

-----------------------------------------------------------------------------
(* What the pages show. *)

Heard == sent \in Seq(Messages) /\ history \in Seq(Writes) /\ viewer \in [Viewers -> Viewer]

\* The reader broadcasts what it took before it unlocks the session.
AllBroadcast ==
  IF inner.holder = "reader"
  THEN inner.op \in Writes /\ history = Append(OnlyWrites(sent), inner.op)
  ELSE history = OnlyWrites(sent)

ScreenShowsHistory ==
  screen[Id].state = "live" => OnlyWrites(screen[Id].content) = history

\* A page has its view from the snapshot on.
Viewing(v) == Served(v) \/ inner.holder = v
HolderAttaches == \A v \in Viewers : inner.holder = v => viewer[v].phase = "attaching"
PagesFollow == \A v \in Viewers : Viewing(v) => Follows(viewer[v], sent)

ViewsInv ==
  RepliesInv /\ Heard /\ AllBroadcast /\ ScreenShowsHistory /\ HolderAttaches /\ PagesFollow

PagesKeep ==
  \A v \in Viewers : Viewing(v)' =>
    Viewing(v) /\ viewer'[v].view = viewer[v].view /\ viewer'[v].next = viewer[v].next

\* Whatever is sent, a page that keeps its view and its place follows.
LEMMA PagesGoOn ==
  ASSUME ViewsInv, PagesKeep,
         sent' = sent \/ \E x \in Messages : sent' = Append(sent, x)
  PROVE  PagesFollow' /\ sent' \in Seq(Messages)
<1>1. sent \in Seq(Messages)
  BY DEF ViewsInv, Heard
<1>2. sent' \in Seq(Messages)
  <2>1. \A x \in Messages : Append(sent, x) \in Seq(Messages)
    BY <1>1
  <2> QED BY <1>1, <2>1
<1>3. ASSUME NEW v \in Viewers, Viewing(v)'
      PROVE  Follows(viewer[v], sent)' 
  <2>1. /\ Follows(viewer[v], sent)
        /\ viewer'[v].view = viewer[v].view /\ viewer'[v].next = viewer[v].next
    BY <1>3 DEF ViewsInv, PagesFollow, PagesKeep
  <2>2. Follows(viewer[v], sent')
    BY <1>1, <2>1, FollowsOn
  <2> QED BY <2>1, <2>2 DEF Follows
<1> QED BY <1>2, <1>3 DEF PagesFollow

\* One page moves on: it keeps its view, or is not sent anything any more.
LEMMA OnePageMoves ==
  ASSUME ViewsInv, NEW v \in Viewers, NEW me \in Viewer,
         viewer' = [viewer EXCEPT ![v] = me],
         (inner' = inner /\ inner.holder # v) \/ inner' = Unlocked,
         \/ me.phase \notin {"restoring", "live"}
         \/ Viewing(v) /\ me.view = viewer[v].view /\ me.next = viewer[v].next
  PROVE  viewer' \in [Viewers -> Viewer] /\ PagesKeep /\ HolderAttaches'
<1>1. viewer \in [Viewers -> Viewer]
  BY DEF ViewsInv, Heard
<1>2. /\ viewer' \in [Viewers -> Viewer] /\ viewer'[v] = me
      /\ \A u \in Viewers \ {v} : viewer'[u] = viewer[u]
  BY <1>1
<1>3. Unlocked.holder \notin Viewers
  BY ViewerAssumption DEF Unlocked
<1>4. HolderAttaches'
  BY <1>2, <1>3 DEF ViewsInv, HolderAttaches
<1>5. ASSUME NEW u \in Viewers, Viewing(u)'
      PROVE  Viewing(u) /\ viewer'[u].view = viewer[u].view /\ viewer'[u].next = viewer[u].next
  <2>1. CASE u # v
    BY <1>2, <1>3, <1>5, <2>1 DEF Viewing, Served
  <2>2. CASE u = v
    BY <1>2, <1>3, <1>5, <2>2 DEF Viewing, Served
  <2> QED BY <2>1, <2>2
<1> QED BY <1>2, <1>4, <1>5 DEF PagesKeep

\* A step that leaves the screen, the output taken and the broadcast alone.
Settled ==
  /\ UNCHANGED <<screen, history, sent>>
  /\ viewer' \in [Viewers -> Viewer] /\ PagesKeep /\ HolderAttaches'
  /\ IF inner.holder = "reader"
     THEN inner'.holder = "reader" /\ inner'.op = inner.op
     ELSE inner'.holder # "reader"

\* Such a step keeps the invariant.
LEMMA SettledSteps ==
  ASSUME ViewsInv, RepliesInv', Settled
  PROVE  ViewsInv'
<1>1. PagesFollow' /\ sent' \in Seq(Messages)
  BY PagesGoOn DEF Settled
<1>2. Heard' /\ ScreenShowsHistory' /\ HolderAttaches'
  BY <1>1 DEF Settled, ViewsInv, Heard, ScreenShowsHistory
<1>3. AllBroadcast'
  BY DEF Settled, ViewsInv, AllBroadcast
<1> QED BY <1>1, <1>2, <1>3 DEF ViewsInv

\* The steps of a page that is sent nothing.
PageMoves(v) ==
  \/ Upgrade(v) \/ Ack(v) \/ Disconnect(v) \/ Type(v) \/ Close(v) \/ Attached(v)
  \/ Turn(v) \/ Heartbeat(v) \/ Restore(v) \/ Detach(v)

\* They leave the output alone.
LEMMA MovesSettle ==
  ASSUME ViewsInv, NEW v \in Viewers, PageMoves(v)
  PROVE  Settled
<1>1. viewer \in [Viewers -> Viewer] /\ viewer[v] \in Viewer
  BY DEF ViewsInv, Heard
<1>2. Viewing(v) <=> Served(v) \/ inner.holder = v
  BY DEF Viewing
<1>3. inner.holder = v => viewer[v].phase = "attaching"
  BY DEF ViewsInv, HolderAttaches
<1>4. /\ v # "reader" /\ Unlocked.holder # "reader"
  BY ViewerAssumption DEF Unlocked
<1>5. UNCHANGED <<screen, history, sent>>
  BY DEF PageMoves, Upgrade, Ack, Disconnect, Type, Close, Attached, Turn, Heartbeat, Restore,
         Detach, log, screenVars, allButViewer
<1>6. \/ inner' = inner /\ inner.holder # v
      \/ inner' = Unlocked /\ inner.holder = v
  BY <1>3 DEF PageMoves, Upgrade, Ack, Disconnect, Type, Close, Attached, Turn, Heartbeat, Restore,
         Detach, allButViewer, MayAct, Served
<1>7. \E me \in Viewer :
        /\ viewer' = [viewer EXCEPT ![v] = me]
        /\ \/ me.phase \notin {"restoring", "live"}
           \/ Viewing(v) /\ me.view = viewer[v].view /\ me.next = viewer[v].next
  <2> DEFINE Put(phase, turn, n) == [viewer[v] EXCEPT !.phase = phase, !.turn = turn, !.outstanding = n]
             Goal == \E me \in Viewer :
                       /\ viewer' = [viewer EXCEPT ![v] = me]
                       /\ \/ me.phase \notin {"restoring", "live"}
                          \/ Viewing(v) /\ me.view = viewer[v].view /\ me.next = viewer[v].next
             phases == {"off", "attaching", "restoring", "live", "leaving"}
  <2>1. \A phase \in phases, turn \in BOOLEAN, n \in Nat :
          /\ Put(phase, turn, n) \in Viewer /\ Put(phase, turn, n).phase = phase
          /\ Put(phase, turn, n).view = viewer[v].view /\ Put(phase, turn, n).next = viewer[v].next
    BY <1>1 DEF Viewer
  <2>2. /\ viewer[v].phase \in phases
        /\ viewer[v].turn \in BOOLEAN /\ viewer[v].outstanding \in Nat
    BY <1>1 DEF Viewer
  <2>3. NotAttached \in Viewer /\ NotAttached.phase = "off"
    BY DEF NotAttached, Viewer
  <2>4. ASSUME Leave(v)
        PROVE  Goal
    <3>1. viewer' = [viewer EXCEPT ![v] = Put("leaving", FALSE, viewer[v].outstanding)]
      BY <1>1, <2>4 DEF Leave, Viewer
    <3> HIDE DEF Put
    <3> DEFINE me == Put("leaving", FALSE, viewer[v].outstanding)
    <3>2. me \in Viewer /\ me.phase = "leaving"
      BY <2>1, <2>2
    <3>3. viewer' = [viewer EXCEPT ![v] = me]
      BY <3>1
    <3> HIDE DEF me
    <3> QED BY <3>2, <3>3
  <2>5. ASSUME Viewing(v), NEW phase \in phases, NEW turn \in BOOLEAN, NEW n \in Nat,
               viewer' = [viewer EXCEPT ![v] = Put(phase, turn, n)]
        PROVE  Goal
    <3> HIDE DEF Put
    <3> DEFINE me == Put(phase, turn, n)
    <3>1. me \in Viewer /\ me.view = viewer[v].view /\ me.next = viewer[v].next
      BY <2>1
    <3>2. viewer' = [viewer EXCEPT ![v] = me]
      BY <2>5
    <3> HIDE DEF me
    <3> QED BY <2>5, <3>1, <3>2
  <2>6. CASE Upgrade(v)
    <3>1. viewer' = [viewer EXCEPT ![v] = Put("attaching", viewer[v].turn, viewer[v].outstanding)]
      BY <1>1, <2>6 DEF Upgrade, Viewer
    <3> HIDE DEF Put
    <3> DEFINE me == Put("attaching", viewer[v].turn, viewer[v].outstanding)
    <3>2. me \in Viewer /\ me.phase = "attaching"
      BY <2>1, <2>2
    <3>3. viewer' = [viewer EXCEPT ![v] = me]
      BY <3>1
    <3> HIDE DEF me
    <3> QED BY <3>2, <3>3
  <2>7. CASE Ack(v)
    <3>1. viewer[v].outstanding - 1 \in Nat /\ Viewing(v)
      BY <1>2, <2>2, <2>7 DEF Ack, MayAct
    <3>2. viewer' = [viewer EXCEPT ![v] = Put(viewer[v].phase, FALSE, viewer[v].outstanding - 1)]
      BY <1>1, <2>7 DEF Ack, Act, Viewer
    <3> HIDE DEF Put
    <3> QED BY <2>2, <2>5, <3>1, <3>2
  <2>8. ASSUME Act(v, viewer[v]), Viewing(v)
        PROVE  Goal
    <3>1. viewer' = [viewer EXCEPT ![v] = Put(viewer[v].phase, FALSE, viewer[v].outstanding)]
      BY <1>1, <2>8 DEF Act, Viewer
    <3> HIDE DEF Put
    <3> QED BY <2>2, <2>5, <2>8, <3>1
  <2>9. CASE Type(v) \/ Heartbeat(v) \/ Disconnect(v) \/ Close(v)
    BY <1>2, <2>4, <2>8, <2>9 DEF Type, Heartbeat, Disconnect, Close, MayAct
  <2>10. CASE Attached(v)
    <3>1. viewer' = [viewer EXCEPT ![v] = Put("restoring", viewer[v].turn, viewer[v].outstanding)]
      BY <1>1, <2>10 DEF Attached, Viewer
    <3>2. Viewing(v) /\ "restoring" \in phases
      BY <1>2, <2>10 DEF Attached
    <3> HIDE DEF Put
    <3> QED BY <2>2, <2>5, <3>1, <3>2
  <2>11. CASE Turn(v)
    <3>1. viewer' = [viewer EXCEPT ![v] = Put(viewer[v].phase, TRUE, viewer[v].outstanding)] \/ Leave(v)
      BY <1>1, <2>11 DEF Turn, Viewer
    <3>2. Viewing(v)
      BY <1>2, <2>11 DEF Turn
    <3> HIDE DEF Put
    <3> QED BY <2>2, <2>4, <2>5, <3>1, <3>2
  <2>12. CASE Restore(v)
    <3>1. viewer' = [viewer EXCEPT ![v] = Put("live", FALSE, viewer[v].outstanding + 1)]
      BY <1>1, <2>12 DEF Restore, Act, Viewer
    <3>2. Viewing(v) /\ "live" \in phases /\ viewer[v].outstanding + 1 \in Nat
      BY <1>2, <2>2, <2>12 DEF Restore, MayAct
    <3> HIDE DEF Put
    <3> QED BY <2>5, <3>1, <3>2
  <2>13. CASE Detach(v)
    BY <2>3, <2>13 DEF Detach
  <2> QED BY <2>6, <2>7, <2>9, <2>10, <2>11, <2>12, <2>13 DEF PageMoves
<1>8. viewer' \in [Viewers -> Viewer] /\ PagesKeep /\ HolderAttaches'
  BY <1>6, <1>7, OnePageMoves
<1> QED BY <1>4, <1>5, <1>6, <1>8 DEF Settled

\* The steps of the program, of requests and of the opening, and a reply.
LEMMA OthersSettle ==
  ASSUME ViewsInv, Program \/ LateWrite \/ Registry \/ Opening \/ Reply
  PROVE  Settled
<1>1. UNCHANGED <<screen, history, sent, viewer>>
  BY DEF Program, Emit, Unblock, ReadInput, Exit, LateWrite, Registry, List, Listed, Destroy,
         Destroyed, Opening, Ready, Flushed, Register, Reply, pages, log, screenVars
<1>2. \/ inner'.holder = inner.holder /\ inner'.op = inner.op
      \/ inner'.holder \in {"free", "ready"} /\ inner.holder # "reader"
  <2>1. inner \in Inner
    BY DEF ViewsInv, RepliesInv, Counted
  <2>2. CASE Reply
    BY <2>1, <2>2 DEF Reply, Inner
  <2>3. CASE ~Reply
    BY <2>3 DEF Program, Emit, Unblock, ReadInput, Exit, LateWrite, Registry, List, Listed, Destroy,
                Destroyed, Opening, Ready, Flushed, Register, Unlocked, Free
  <2> QED BY <2>2, <2>3
<1>3. PagesKeep /\ HolderAttaches' /\ viewer' \in [Viewers -> Viewer]
  BY <1>1, <1>2, ViewerAssumption
     DEF PagesKeep, Viewing, Served, HolderAttaches, ViewsInv, Heard
<1> QED BY <1>1, <1>2, <1>3 DEF Settled

\* A step that leaves the pages alone and unlocks or locks the session for
\* nobody but the reader.
LEMMA PagesStay ==
  ASSUME ViewsInv, viewer' = viewer, inner' = inner \/ inner'.holder \notin Viewers
  PROVE  viewer' \in [Viewers -> Viewer] /\ PagesKeep /\ HolderAttaches'
BY DEF PagesKeep, Viewing, Served, HolderAttaches, ViewsInv, Heard

\* A call to the screen appends what it was given, or nothing is kept.
LEMMA ScreenTakes ==
  ASSUME ViewsInv, NEW op, WriteScreen(op)
  PROVE  screen'[Id].state = "live" =>
           screen[Id].state = "live" /\ screen'[Id].content = Append(screen[Id].content, op)
<1>1. screen \in [{Id} -> Screens!Screen] /\ screen[Id] \in Screens!Screen
  BY DEF ViewsInv, RepliesInv, ScreenTyped
<1>2. CASE Screens!Write(Id, op) \/ Screens!Defer(Id, op)
  BY <1>1, <1>2 DEF Screens!Write, Screens!Defer, Screens!Live, Screens!Screen
<1>3. CASE Screens!Overflow(Id, op)
  BY <1>1, <1>3 DEF Screens!Overflow, Screens!LostScreen, Screens!NoScreen
<1>4. CASE screen[Id].state = "lost" /\ Screens!Refuse("lost")
  BY <1>4 DEF Screens!Refuse
<1> QED BY <1>2, <1>3, <1>4 DEF WriteScreen

\* Output is taken: the screen and the history have it, the pages not yet.
LEMMA ProcessShown ==
  ASSUME ViewsInv, RepliesInv', Process
  PROVE  ViewsInv'
<1> DEFINE op == Head(output)
<1>1. op \in Writes /\ history \in Seq(Writes)
  BY DEF Process, ViewsInv, RepliesInv, ScreenTyped, Heard
<1>2. /\ UNCHANGED <<sent, viewer>> /\ history' = Append(history, op)
      /\ inner'.holder = "reader" /\ inner'.op = op /\ inner.holder = "free"
      /\ WriteScreen(op)
  BY DEF Process, pages, Free
<1> HIDE DEF op
<1>3. history' \in Seq(Writes)
  BY <1>1, <1>2
<1>4. viewer' \in [Viewers -> Viewer] /\ PagesKeep /\ HolderAttaches'
  BY <1>2, PagesStay, ViewerAssumption
<1>5. PagesFollow' /\ sent' \in Seq(Messages)
  BY <1>2, <1>4, PagesGoOn
<1>6. AllBroadcast'
  BY <1>1, <1>2 DEF ViewsInv, AllBroadcast
<1>7. ScreenShowsHistory'
  <2> SUFFICES ASSUME screen'[Id].state = "live"
               PROVE  OnlyWrites(screen'[Id].content) = history'
    BY DEF ScreenShowsHistory
  <2>1. screen[Id].state = "live" /\ screen'[Id].content = Append(screen[Id].content, op)
    BY <1>2, ScreenTakes
  <2>2. screen[Id].content \in Seq(Screens!Ops) /\ op \in Screens!Ops
    BY <1>1 DEF ViewsInv, RepliesInv, ScreenTyped, Screens!Screen, Writes, Screens!Ops
  <2>3. OnlyWrites(screen'[Id].content) = Append(OnlyWrites(screen[Id].content), op)
    BY <1>1, <2>1, <2>2, KeepsLast DEF IsWrite
  <2> QED BY <1>2, <2>1, <2>3 DEF ViewsInv, ScreenShowsHistory
<1> QED BY <1>3, <1>4, <1>5, <1>6, <1>7 DEF ViewsInv, Heard

\* It is broadcast, and is what the pages are to receive last.
LEMMA PublishShown ==
  ASSUME ViewsInv, RepliesInv', Publish
  PROVE  ViewsInv'
<1>1. inner.op \in Writes /\ inner.op \in Messages /\ sent \in Seq(Messages)
  BY DEF Publish, ViewsInv, AllBroadcast, Messages, Heard
<1>2. /\ UNCHANGED <<screen, history, viewer>> /\ sent' = Append(sent, inner.op)
      /\ inner.holder = "reader" /\ inner'.holder = "free"
  BY DEF Publish, log, screenVars, Unlocked
<1>3. viewer' \in [Viewers -> Viewer] /\ PagesKeep /\ HolderAttaches'
  BY <1>2, PagesStay, ViewerAssumption
<1>4. PagesFollow' /\ sent' \in Seq(Messages)
  BY <1>1, <1>2, <1>3, PagesGoOn
<1>5. OnlyWrites(sent') = Append(OnlyWrites(sent), inner.op)
  BY <1>1, <1>2, KeepsLast DEF IsWrite
<1>6. AllBroadcast'
  BY <1>2, <1>5 DEF ViewsInv, AllBroadcast
<1> QED BY <1>2, <1>3, <1>4, <1>6 DEF ViewsInv, Heard, ScreenShowsHistory

\* A message that is no output.
LEMMA NoticeSent ==
  ASSUME ViewsInv, RepliesInv', NEW x \in Messages, ~IsWrite(x), Free,
         sent' = sent \/ sent' = Append(sent, x),
         history' = history, inner' = inner, PagesKeep, HolderAttaches',
         viewer' \in [Viewers -> Viewer], ScreenShowsHistory'
  PROVE  ViewsInv'
<1>1. PagesFollow' /\ sent' \in Seq(Messages)
  BY PagesGoOn
<1>2. OnlyWrites(sent') = OnlyWrites(sent)
  BY KeepsLast DEF ViewsInv, Heard
<1>3. AllBroadcast'
  BY <1>2 DEF ViewsInv, AllBroadcast
<1> QED BY <1>1, <1>3 DEF ViewsInv, Heard

\* The end of the program is announced.
LEMMA ClosedShown ==
  ASSUME ViewsInv, RepliesInv', Closed
  PROVE  ViewsInv'
<1>1. "event" \in Messages /\ ~IsWrite("event")
  BY DEF Messages, IsWrite, Writes, Screens!Writes
<1>2. /\ UNCHANGED <<screen, history, viewer, inner>> /\ sent' = Append(sent, "event") /\ Free
  BY DEF Closed, log, screenVars
<1>3. viewer' \in [Viewers -> Viewer] /\ PagesKeep /\ HolderAttaches'
  BY <1>2, PagesStay
<1>4. ScreenShowsHistory'
  BY <1>2 DEF ViewsInv, ScreenShowsHistory
<1> QED BY <1>1, <1>2, <1>3, <1>4, NoticeSent

\* A screen that is lost or given back shows nothing.
LEMMA ScreenGone ==
  ASSUME ViewsInv, RepliesInv', LoseScreen \/ Drop
  PROVE  ViewsInv'
<1>1. UNCHANGED <<history, sent, viewer, inner>>
  BY DEF LoseScreen, Drop, pages, log
<1>2. screen'[Id].state # "live"
  BY DEF LoseScreen, Drop, Screens!Lose, Screens!Destroy, Screens!LostScreen, Screens!NoScreen,
         ViewsInv, RepliesInv, ScreenTyped
<1>3. viewer' \in [Viewers -> Viewer] /\ PagesKeep /\ HolderAttaches'
  BY <1>1, PagesStay
<1>4. PagesFollow' /\ sent' \in Seq(Messages)
  BY <1>1, <1>3, PagesGoOn
<1> QED BY <1>1, <1>2, <1>3, <1>4 DEF ViewsInv, Heard, AllBroadcast, ScreenShowsHistory

\* A resize is no output either.
LEMMA ResizeShown ==
  ASSUME ViewsInv, RepliesInv', NEW v \in Viewers, Resize(v)
  PROVE  ViewsInv'
<1>1. "geometry" \in Messages /\ ~IsWrite("geometry") /\ "resize" \in Screens!Ops /\ ~IsWrite("resize")
  BY DEF Messages, IsWrite, Writes, Screens!Writes, Screens!Ops
<1>2. /\ UNCHANGED <<history, inner>> /\ Free /\ ResizeScreen
      /\ sent' = Append(sent, "geometry") \/ sent' = sent
  BY DEF Resize, log
<1>3. screen \in [{Id} -> Screens!Screen] /\ screen[Id] \in Screens!Screen
  BY DEF ViewsInv, RepliesInv, ScreenTyped
<1>4. ScreenShowsHistory'
  <2> SUFFICES ASSUME screen'[Id].state = "live"
               PROVE  OnlyWrites(screen'[Id].content) = history
    BY <1>2 DEF ScreenShowsHistory
  <2>1. /\ screen[Id].state = "live"
        /\ \/ screen'[Id].content = Append(screen[Id].content, "resize")
           \/ screen'[Id].content = screen[Id].content
    <3>1. CASE Screens!Resize(Id)
      BY <1>3, <3>1 DEF Screens!Resize, Screens!Live, Screens!Screen
    <3>2. CASE Screens!Overflow(Id, "resize")
      BY <1>3, <3>2 DEF Screens!Overflow, Screens!LostScreen, Screens!NoScreen
    <3>3. CASE screen' = screen
      BY <3>3
    <3> QED BY <1>2, <3>1, <3>2, <3>3 DEF ResizeScreen, Screens!Refuse
  <2>2. screen[Id].content \in Seq(Screens!Ops)
    BY <1>3 DEF Screens!Screen
  <2>3. OnlyWrites(screen'[Id].content) = OnlyWrites(screen[Id].content)
    BY <1>1, <2>1, <2>2, KeepsLast, ZenonT(60)
  <2> QED BY <2>1, <2>3 DEF ViewsInv, ScreenShowsHistory
<1>5. viewer[v] \in Viewer /\ Served(v) /\ inner.holder # v
  BY DEF Resize, MayAct, ViewsInv, Heard, HolderAttaches, Served
<1>6. \E me \in Viewer :
        /\ viewer' = [viewer EXCEPT ![v] = me]
        /\ \/ me.phase \notin {"restoring", "live"}
           \/ Viewing(v) /\ me.view = viewer[v].view /\ me.next = viewer[v].next
  <2>1. CASE Act(v, viewer[v])
    <3> DEFINE me == [viewer[v] EXCEPT !.turn = FALSE]
    <3>1. me \in Viewer /\ me.view = viewer[v].view /\ me.next = viewer[v].next
      BY <1>5 DEF Viewer
    <3>2. viewer' = [viewer EXCEPT ![v] = me]
      BY <2>1 DEF Act
    <3> HIDE DEF me
    <3> QED BY <1>5, <3>1, <3>2 DEF Viewing
  <2>2. CASE Leave(v)
    <3> DEFINE me == [viewer[v] EXCEPT !.phase = "leaving", !.turn = FALSE]
    <3>1. me \in Viewer /\ me.phase = "leaving"
      BY <1>5 DEF Viewer
    <3>2. viewer' = [viewer EXCEPT ![v] = me]
      BY <1>5, <2>2 DEF Leave, Viewer
    <3> HIDE DEF me
    <3> QED BY <3>1, <3>2
  <2> QED BY <2>1, <2>2 DEF Resize
<1>7. viewer' \in [Viewers -> Viewer] /\ PagesKeep /\ HolderAttaches'
  BY <1>2, <1>5, <1>6, OnePageMoves
<1> QED BY <1>1, <1>2, <1>4, <1>7, NoticeSent

\* The snapshot is all the output, and the subscription begins where it ends.
LEMMA AttachShown ==
  ASSUME ViewsInv, RepliesInv', NEW v \in Viewers, Attach(v)
  PROVE  ViewsInv'
<1>1. /\ UNCHANGED <<history, sent>> /\ inner.holder = "free" /\ SnapshotScreen
      /\ viewer[v].phase = "attaching"
  BY DEF Attach, log, Free
<1>2. /\ screen \in [{Id} -> Screens!Screen] /\ screen[Id].content \in Seq(Screens!Ops)
      /\ viewer \in [Viewers -> Viewer] /\ sent \in Seq(Messages) /\ history = OnlyWrites(sent)
  BY <1>1 DEF ViewsInv, RepliesInv, ScreenTyped, Screens!Screen, Heard, AllBroadcast
<1>3. /\ screen'[Id].state = screen[Id].state /\ screen'[Id].content = screen[Id].content
      /\ answer'.result = "ok" => screen[Id].state = "live" /\ answer'.data = screen[Id].content
  BY <1>1, <1>2 DEF SnapshotScreen, Screens!Snapshot, Screens!Deliver, Screens!Live, Screens!Refuse,
                    Screens!Return, Screens!Only, Screens!Screen
<1>4. ScreenShowsHistory'
  BY <1>1, <1>3 DEF ViewsInv, ScreenShowsHistory
<1>5. v # "reader" /\ "free" \notin Viewers
  BY ViewerAssumption
<1>6. CASE answer'.result = "ok"
  <2> DEFINE view == OnlyWrites(answer'.data)
             me == [viewer[v] EXCEPT !.next = Len(sent), !.view = view]
  <2>1. view = history /\ view \in Seq(Writes)
    BY <1>2, <1>3, <1>6, KeepsWrites DEF ViewsInv, ScreenShowsHistory
  <2>2. Len(sent) \in Nat /\ Len(sent) \in 0..Len(sent)
    BY <1>2
  <2>3. viewer' = [viewer EXCEPT ![v] = me]
    BY <1>2, <1>6 DEF Attach, Viewer
  <2> HIDE DEF view
  <2>4. /\ me \in Viewer /\ me.phase = "attaching" /\ me.next = Len(sent) /\ me.view = view
    BY <1>1, <1>2, <2>1, <2>2 DEF Viewer
  <2>5. Follows(me, sent)
    BY <1>2, <2>1, <2>2, <2>4, NothingRests, ConcatEmptySeq DEF Follows
  <2> HIDE DEF me
  <2>6. /\ viewer' \in [Viewers -> Viewer] /\ viewer'[v] = me
        /\ \A u \in Viewers \ {v} : viewer'[u] = viewer[u]
    BY <1>2, <2>3, <2>4
  <2>7. inner'.holder = v
    BY <1>6 DEF Attach
  <2>8. HolderAttaches'
    BY <2>4, <2>6, <2>7 DEF HolderAttaches
  <2>9. ASSUME NEW u \in Viewers, Viewing(u)'
        PROVE  Follows(viewer[u], sent)'
    <3>1. CASE u = v
      BY <1>1, <2>5, <2>6, <3>1 DEF Follows
    <3>2. CASE u # v
      <4>1. viewer'[u] = viewer[u] /\ Viewing(u)
        BY <2>6, <2>7, <2>9, <3>2 DEF Viewing, Served
      <4> QED BY <1>1, <4>1 DEF ViewsInv, PagesFollow, Follows
    <3> QED BY <3>1, <3>2
  <2>10. AllBroadcast'
    BY <1>1, <1>2, <1>5, <2>7 DEF AllBroadcast
  <2> QED BY <1>1, <1>2, <1>4, <2>6, <2>8, <2>9, <2>10 DEF ViewsInv, Heard, PagesFollow
<1>7. CASE answer'.result # "ok"
  <2>1. viewer' = [viewer EXCEPT ![v] = NotAttached] /\ inner' = inner
    BY <1>7 DEF Attach
  <2>2. NotAttached \in Viewer /\ NotAttached.phase = "off" /\ inner.holder # v
    BY <1>1, <1>5 DEF NotAttached, Viewer
  <2>3. viewer' \in [Viewers -> Viewer] /\ PagesKeep /\ HolderAttaches'
    BY <2>1, <2>2, OnePageMoves
  <2>4. PagesFollow' /\ sent' \in Seq(Messages)
    BY <1>1, <2>3, PagesGoOn
  <2>5. AllBroadcast'
    BY <1>1, <2>1 DEF ViewsInv, AllBroadcast
  <2> QED BY <1>1, <1>4, <2>3, <2>4, <2>5 DEF ViewsInv, Heard
<1> QED BY <1>6, <1>7

\* A page receives its next message, or leaves as it lagged.
LEMMA ReceiveShown ==
  ASSUME ViewsInv, RepliesInv', NEW v \in Viewers, Receive(v)
  PROVE  ViewsInv'
<1>1. UNCHANGED <<history, sent, inner, screen>>
  BY DEF Receive, allButViewer, log, screenVars
<1>2. /\ viewer \in [Viewers -> Viewer] /\ viewer[v] \in Viewer /\ sent \in Seq(Messages)
      /\ Served(v) /\ Viewing(v) /\ inner.holder # v
  BY DEF ViewsInv, Heard, Receive, MayAct, Viewing, HolderAttaches, Served
<1>3. CASE Leave(v)
  <2> DEFINE me == [viewer[v] EXCEPT !.phase = "leaving", !.turn = FALSE]
  <2>1. me \in Viewer /\ me.phase = "leaving"
    BY <1>2 DEF Viewer
  <2>2. viewer' = [viewer EXCEPT ![v] = me]
    BY <1>2, <1>3 DEF Leave, Viewer
  <2> HIDE DEF me
  <2>3. viewer' \in [Viewers -> Viewer] /\ PagesKeep /\ HolderAttaches'
    BY <1>1, <1>2, <2>1, <2>2, OnePageMoves
  <2> QED BY <1>1, <2>3, SettledSteps DEF Settled
<1>4. CASE ~Leave(v)
  <2> DEFINE you == Sees([viewer[v] EXCEPT !.next = @ + 1], sent[viewer[v].next + 1])
             me == [you EXCEPT !.turn = FALSE]
  <2>1. viewer[v].next < Len(sent) /\ viewer' = [viewer EXCEPT ![v] = me]
    BY <1>4 DEF Receive, Act
  <2>2. Follows(viewer[v], sent)
    BY <1>2 DEF ViewsInv, PagesFollow
  <2>3. you \in Viewer /\ Follows(you, sent) /\ you.phase = viewer[v].phase
    <3>1. you.phase = viewer[v].phase
      BY <1>2 DEF Sees, Viewer
    <3> QED BY <1>2, <2>1, <2>2, <3>1, FollowsNext
  <2> HIDE DEF you
  <2>4. /\ me \in Viewer /\ me.next = you.next /\ me.view = you.view /\ me.phase = viewer[v].phase
    BY <2>3 DEF Viewer
  <2>5. Follows(me, sent)
    BY <2>3, <2>4 DEF Follows
  <2> HIDE DEF me
  <2>6. /\ viewer' \in [Viewers -> Viewer] /\ viewer'[v] = me
        /\ \A u \in Viewers \ {v} : viewer'[u] = viewer[u]
    BY <1>2, <2>1, <2>4
  <2>7. HolderAttaches'
    BY <1>1, <1>2, <2>6 DEF ViewsInv, HolderAttaches
  <2>8. ASSUME NEW u \in Viewers, Viewing(u)'
        PROVE  Follows(viewer[u], sent)'
    <3>1. CASE u = v
      BY <1>1, <2>5, <2>6, <3>1 DEF Follows
    <3>2. CASE u # v
      <4>1. viewer'[u] = viewer[u] /\ Viewing(u)
        BY <1>1, <2>6, <2>8, <3>2 DEF Viewing, Served
      <4> QED BY <1>1, <4>1 DEF ViewsInv, PagesFollow, Follows
    <3> QED BY <3>1, <3>2
  <2> QED BY <1>1, <1>2, <2>6, <2>7, <2>8
          DEF ViewsInv, Heard, PagesFollow, AllBroadcast, ScreenShowsHistory
<1> QED BY <1>3, <1>4

\* At first there is no output, and no page.
THEOREM InitViews == Init => ViewsInv
<1> SUFFICES ASSUME Init PROVE ViewsInv
  OBVIOUS
<1>1. RepliesInv
  BY InitReplies
<1>2. NotAttached \in Viewer
  BY DEF NotAttached, Viewer
<1>3. Heard
  BY <1>2 DEF Init, Heard
<1>4. AllBroadcast /\ ScreenShowsHistory
  BY KeepsNothing DEF Init, AllBroadcast, ScreenShowsHistory, Unlocked, Screens!NewScreen, Screens!NoScreen
<1>5. HolderAttaches /\ PagesFollow
  BY ViewerAssumption DEF Init, HolderAttaches, PagesFollow, Viewing, Served, Unlocked, NotAttached
<1> QED BY <1>1, <1>3, <1>4, <1>5 DEF ViewsInv

\* Every step keeps what the screen, the pages and the broadcast have of it.
THEOREM NextViews == ViewsInv /\ [Next]_vars => ViewsInv'
<1> SUFFICES ASSUME ViewsInv, [Next]_vars PROVE ViewsInv'
  OBVIOUS
<1>0. RepliesInv'
  BY NextReplies DEF ViewsInv
<1>1. CASE Program \/ LateWrite \/ Registry \/ Opening \/ Reply
  BY <1>0, <1>1, OthersSettle, SettledSteps
<1>2. CASE Process \/ Publish \/ Closed \/ LoseScreen \/ Drop
  BY <1>0, <1>2, ProcessShown, PublishShown, ClosedShown, ScreenGone
<1>3. ASSUME NEW v \in Viewers, PageMoves(v)
      PROVE  ViewsInv'
  BY <1>0, <1>3, MovesSettle, SettledSteps
<1>4. ASSUME NEW v \in Viewers, Attach(v) \/ Receive(v) \/ Resize(v)
      PROVE  ViewsInv'
  BY <1>0, <1>4, AttachShown, ReceiveShown, ResizeShown
<1>5. CASE UNCHANGED vars
  BY <1>0, <1>5 DEF vars, pages, log, screenVars, ViewsInv, Heard, AllBroadcast, ScreenShowsHistory,
                    HolderAttaches, PagesFollow, Viewing, Served, Follows
<1>6. ASSUME NEW v \in Viewers, Page(v) \/ Server(v)
      PROVE  ViewsInv'
  BY <1>3, <1>4, <1>6 DEF Page, Server, Loop, PageMoves
<1> QED BY <1>1, <1>2, <1>5, <1>6 DEF Next, Reader

\* What a page shows and what it has yet to receive is the output of the
\* program, in order, each message once: however many pages attach, whenever
\* they do, and whatever the capacities and the amount of output.
THEOREM PagesShowHistory == Spec => []ViewIsHistory
<1>1. ViewsInv => ViewIsHistory
  <2> SUFFICES ASSUME ViewsInv, Free, NEW v \in Viewers, Served(v)
               PROVE  viewer[v].view \o Behind(viewer[v]) = history
    BY DEF ViewIsHistory
  <2>1. history = OnlyWrites(sent)
    BY DEF ViewsInv, AllBroadcast, Free
  <2>2. Follows(viewer[v], sent)
    BY DEF ViewsInv, PagesFollow, Viewing
  <2> QED BY <2>1, <2>2 DEF Follows, Rest, Behind
<1> QED BY <1>1, InitViews, NextViews, PTL DEF Spec
=============================================================================
