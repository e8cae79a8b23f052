----------------------------- MODULE ServerProofs -----------------------------
(***************************************************************************)
(* Theorems about three parts of the server that do not meet: the unlocked *)
(* session of the vault (VaultLifecycle), the screens of the terminals     *)
(* (ScreenWorker, and that it implements RecoverableScreens) and the feed  *)
(* of a repository (GitFeed).  Each has its own invariant.                 *)
(*                                                                         *)
(* The vault, for every MaxGeneration and every interleaving of handlers,  *)
(* abandoned derivations and deadlines: what makes its three invariants    *)
(* inductive is what holds while a change is under way: a session that has *)
(* just been opened holds a key, one that is about to be closed has none,  *)
(* a locking that has not yet dropped the key found key and session in     *)
(* step, the handler that has yet to set the deadline remembers the        *)
(* generation it must set it for, and nobody else derives or locks in its  *)
(* name.                                                                   *)
(*                                                                         *)
(* The screens, for any set of terminals and any limits: a screen that is  *)
(* not live keeps nothing, and then what a caller sees of a screen - its   *)
(* content, the answers it owes, whether it can be recovered - changes     *)
(* with every step of the worker the way RecoverableScreens says, or not   *)
(* at all.                                                                 *)
(*                                                                         *)
(* The feed, for any sockets, operations and owners: while a sample is     *)
(* being taken the feed's revision does not go back, and as long as it     *)
(* stands still, everything the feed has shown was read before the sample. *)
(***************************************************************************)
EXTENDS VaultLifecycle, ScreenWorker, GitFeed, FiniteSetTheorems, SequenceTheorems, TLAPS

-----------------------------------------------------------------------------
(* The session of the vault.                                               *)

PublishedInv == change.op \in {"none", "locking"} => published.status = vault

SessionInv ==
  /\ change.op \in {"none", "locking"} => (session.open <=> vault = "unlocked")
  /\ change.op = "opened" => vault = "unlocked"
  /\ change.op = "closed" => vault # "unlocked"

\* The gate holder's own derivation and locking belong to its phase.
HandlerInv ==
  /\ "handler" \in derivations => handler = "deriving"
  /\ change.op = "opened" /\ change.by = "handler"
       => handler = "deriving" /\ "handler" \notin derivations
  /\ change.op \in {"locking", "closed"} /\ change.by = "handler"
       => handler = "locking"

Armed ==
  \/ session.generation \in timers
  \/ unattended
  \/ handler = "verified" /\ schedule = session.generation /\ schedule # 0
  \/ handler = "locking"
DeadlineInv == session.open /\ autoLock /\ change.op = "none" => Armed

VaultInv == VaultTypeOK /\ PublishedInv /\ SessionInv /\ HandlerInv /\ DeadlineInv

\* Every variable keeps its type.
LEMMA VaultTypeInit == VaultInit => VaultTypeOK
<1> SUFFICES ASSUME VaultInit PROVE VaultTypeOK
  OBVIOUS
<1>1. session \in [open : BOOLEAN, generation : Nat]
  BY DEF VaultInit
<1>2. published \in [status : Statuses, revision : Nat]
  BY DEF VaultInit, Statuses
<1>3. change \in [op : {"none", "opened", "locking", "closed"}, by : Actors,
                  generation : Nat]
  BY DEF VaultInit, NoChange, Actors
<1>4. vault \in Statuses /\ autoLock \in BOOLEAN /\ unattended \in BOOLEAN
  BY DEF VaultInit, Statuses
<1>5. schedule \in Nat /\ timers \in SUBSET Nat
  BY DEF VaultInit
<1>6. /\ handler \in {"idle", "deriving", "verified", "locking"}
      /\ derivations \in SUBSET {"handler", "orphan"}
  BY DEF VaultInit
<1> QED
  BY <1>1, <1>2, <1>3, <1>4, <1>5, <1>6 DEF VaultTypeOK

\* What opening or closing a session, and publishing, keep.
LEMMA SessionTypes ==
  ASSUME VaultTypeOK, NEW open \in BOOLEAN, Session(open)
  PROVE  session' \in [open : BOOLEAN, generation : Nat]
<1>1. session.generation + 1 \in Nat
  BY DEF VaultTypeOK
<1> QED
  BY <1>1 DEF Session

LEMMA PublishTypes ==
  ASSUME VaultTypeOK, vault' \in Statuses, Publish
  PROVE  published' \in [status : Statuses, revision : Nat]
<1>1. published.revision + 1 \in Nat
  BY DEF VaultTypeOK
<1> QED
  BY <1>1 DEF Publish, VaultTypeOK

LEMMA VaultTypeNext == VaultTypeOK /\ [VaultNext]_vaultVars => VaultTypeOK'
<1> SUFFICES ASSUME VaultTypeOK, [VaultNext]_vaultVars PROVE VaultTypeOK'
  OBVIOUS
<1> USE DEF VaultTypeOK, Statuses, Actors
<1>1. CASE Request
  BY <1>1 DEF Request, Start
<1>2. ASSUME NEW actor \in {"handler", "orphan"}, Derive(actor) PROVE VaultTypeOK'
  BY <1>2 DEF Derive
<1>3. CASE BeginSession
  <2>1. /\ session' \in [open : BOOLEAN, generation : Nat]
        /\ published' \in [status : Statuses, revision : Nat]
    BY <1>3, SessionTypes, PublishTypes DEF BeginSession
  <2>2. change' \in [op : {"none", "opened", "locking", "closed"}, by : Actors,
                     generation : Nat]
    BY <1>3 DEF BeginSession, NoChange
  <2>3. /\ handler' \in {"idle", "deriving", "verified", "locking"}
        /\ schedule' \in Nat
    BY <1>3, <2>1 DEF BeginSession
  <2>4. unattended' \in BOOLEAN
    BY <1>3 DEF BeginSession
  <2>5. UNCHANGED <<vault, autoLock, derivations, timers>>
    BY <1>3 DEF BeginSession
  <2> QED
    BY <2>1, <2>2, <2>3, <2>4, <2>5
<1>4. CASE Schedule
  <2>1. /\ handler' \in {"idle", "deriving", "verified", "locking"}
        /\ schedule' \in Nat
        /\ UNCHANGED <<vault, session, autoLock, published, derivations, change, unattended>>
    BY <1>4 DEF Schedule
  <2>2. timers' \in SUBSET Nat
    <3>1. timers' \subseteq timers \cup {schedule}
      BY <1>4 DEF Schedule
    <3>2. QED BY <3>1
  <2>3. QED BY <2>1, <2>2
<1>5. CASE Hangup
  BY <1>5 DEF Hangup
<1>6. CASE Lock
  BY <1>6 DEF Lock, Start
<1>7. CASE Clear
  BY <1>7 DEF Clear, Session, Publish, gated
<1>8. ASSUME NEW configured \in BOOLEAN, Security(configured) PROVE VaultTypeOK'
  <2>1. session.generation + 1 \in Nat
    OBVIOUS
  <2>2. session' \in [open : BOOLEAN, generation : Nat]
    BY <1>8, <2>1 DEF Security
  <2>3. /\ handler' \in {"idle", "deriving", "verified", "locking"}
        /\ timers' \in SUBSET Nat
    BY <1>8, <2>2 DEF Security
  <2>4. unattended' \in BOOLEAN /\ autoLock' \in BOOLEAN
    BY <1>8 DEF Security
  <2>5. UNCHANGED <<vault, published, derivations, change, schedule>>
    BY <1>8 DEF Security
  <2> QED
    BY <2>2, <2>3, <2>4, <2>5
<1>9. CASE LockVault
  BY <1>9 DEF LockVault, gated
<1>10. ASSUME NEW g \in timers, LockIfGeneration(g) PROVE VaultTypeOK'
  BY <1>10 DEF LockIfGeneration, gated
<1>11. CASE DropKey
  BY <1>11 DEF DropKey, gated
<1>12. CASE CloseSession
  <2>1. /\ session' \in [open : BOOLEAN, generation : Nat]
        /\ published' \in [status : Statuses, revision : Nat]
    BY <1>12, SessionTypes, PublishTypes DEF CloseSession
  <2>2. change' \in [op : {"none", "opened", "locking", "closed"}, by : Actors,
                     generation : Nat]
    BY <1>12 DEF CloseSession, NoChange
  <2>3. handler' \in {"idle", "deriving", "verified", "locking"}
    BY <1>12 DEF CloseSession
  <2>4. unattended' \in BOOLEAN
    BY <1>12 DEF CloseSession
  <2>5. UNCHANGED <<vault, autoLock, derivations, schedule, timers>>
    BY <1>12 DEF CloseSession
  <2> QED
    BY <2>1, <2>2, <2>3, <2>4, <2>5
<1>13. CASE UNCHANGED vaultVars
  BY <1>13 DEF vaultVars
<1> QED
  BY <1>1, <1>2, <1>3, <1>4, <1>5, <1>6, <1>7, <1>8, <1>9, <1>10, <1>11, <1>12,
     <1>13 DEF VaultNext

\* Whatever changes the vault publishes before it lets the mutex go.
LEMMA PublishedNext ==
  ASSUME VaultTypeOK, PublishedInv, [VaultNext]_vaultVars PROVE PublishedInv'
<1> USE DEF VaultTypeOK, PublishedInv
<1>1. CASE Request
  BY <1>1 DEF Request
<1>2. ASSUME NEW actor \in {"handler", "orphan"}, Derive(actor) PROVE PublishedInv'
  BY <1>2 DEF Derive, Unchanging
<1>3. CASE BeginSession
  BY <1>3 DEF BeginSession, Publish
<1>4. CASE Schedule
  BY <1>4 DEF Schedule
<1>5. CASE Hangup
  BY <1>5 DEF Hangup
<1>6. CASE Lock
  BY <1>6 DEF Lock
<1>7. CASE Clear
  BY <1>7 DEF Clear, Publish
<1>8. ASSUME NEW configured \in BOOLEAN, Security(configured) PROVE PublishedInv'
  BY <1>8 DEF Security
<1>9. CASE LockVault
  BY <1>9 DEF LockVault, Unchanging
<1>10. ASSUME NEW g \in timers, LockIfGeneration(g) PROVE PublishedInv'
  BY <1>10 DEF LockIfGeneration, Unchanging
<1>11. CASE DropKey
  BY <1>11 DEF DropKey
<1>12. CASE CloseSession
  BY <1>12 DEF CloseSession, Publish
<1>13. CASE UNCHANGED vaultVars
  BY <1>13 DEF vaultVars
<1> QED
  BY <1>1, <1>2, <1>3, <1>4, <1>5, <1>6, <1>7, <1>8, <1>9, <1>10, <1>11, <1>12,
     <1>13 DEF VaultNext

\* The session is opened after the key is there and closed after it is gone.
LEMMA SessionNext ==
  ASSUME VaultTypeOK, SessionInv, [VaultNext]_vaultVars PROVE SessionInv'
<1> USE DEF VaultTypeOK, SessionInv
<1>1. CASE Request
  BY <1>1 DEF Request
<1>2. ASSUME NEW actor \in {"handler", "orphan"}, Derive(actor) PROVE SessionInv'
  BY <1>2 DEF Derive, Unchanging
<1>3. CASE BeginSession
  BY <1>3 DEF BeginSession, Session, NoChange
<1>4. CASE Schedule
  BY <1>4 DEF Schedule
<1>5. CASE Hangup
  BY <1>5 DEF Hangup
<1>6. CASE Lock
  BY <1>6 DEF Lock
<1>7. CASE Clear
  BY <1>7 DEF Clear, Session, Unchanging
<1>8. ASSUME NEW configured \in BOOLEAN, Security(configured) PROVE SessionInv'
  BY <1>8 DEF Security
<1>9. CASE LockVault
  BY <1>9 DEF LockVault, Unchanging
<1>10. ASSUME NEW g \in timers, LockIfGeneration(g) PROVE SessionInv'
  BY <1>10 DEF LockIfGeneration, Unchanging
<1>11. CASE DropKey
  BY <1>11 DEF DropKey
<1>12. CASE CloseSession
  BY <1>12 DEF CloseSession, Session, NoChange
<1>13. CASE UNCHANGED vaultVars
  BY <1>13 DEF vaultVars
<1> QED
  BY <1>1, <1>2, <1>3, <1>4, <1>5, <1>6, <1>7, <1>8, <1>9, <1>10, <1>11, <1>12,
     <1>13 DEF VaultNext

\* A handler derives, opens or locks only in the phase that says so.
LEMMA HandlerNext ==
  ASSUME VaultTypeOK, HandlerInv, [VaultNext]_vaultVars PROVE HandlerInv'
<1> USE DEF VaultTypeOK, HandlerInv
<1>1. CASE Request
  BY <1>1 DEF Request, Start, Unchanging
<1>2. ASSUME NEW actor \in {"handler", "orphan"}, Derive(actor) PROVE HandlerInv'
  BY <1>2 DEF Derive, Unchanging
<1>3. CASE BeginSession
  BY <1>3 DEF BeginSession, NoChange
<1>4. CASE Schedule
  BY <1>4 DEF Schedule
<1>5. CASE Hangup
  BY <1>5 DEF Hangup
<1>6. CASE Lock
  BY <1>6 DEF Lock, Start
<1>7. CASE Clear
  BY <1>7 DEF Clear, Unchanging, gated
<1>8. ASSUME NEW configured \in BOOLEAN, Security(configured) PROVE HandlerInv'
  BY <1>8 DEF Security, Start
<1>9. CASE LockVault
  BY <1>9 DEF LockVault, gated
<1>10. ASSUME NEW g \in timers, LockIfGeneration(g) PROVE HandlerInv'
  BY <1>10 DEF LockIfGeneration, gated
<1>11. CASE DropKey
  BY <1>11 DEF DropKey, gated
<1>12. CASE CloseSession
  BY <1>12 DEF CloseSession, NoChange
<1>13. CASE UNCHANGED vaultVars
  BY <1>13 DEF vaultVars
<1> QED
  BY <1>1, <1>2, <1>3, <1>4, <1>5, <1>6, <1>7, <1>8, <1>9, <1>10, <1>11, <1>12,
     <1>13 DEF VaultNext

\* The deadline of the current generation is pending, about to be set, or not
\* needed any more.
LEMMA DeadlineNext ==
  ASSUME VaultTypeOK, HandlerInv, DeadlineInv, [VaultNext]_vaultVars PROVE DeadlineInv'
<1> USE DEF VaultTypeOK, DeadlineInv, Armed
<1>1. CASE Request
  BY <1>1 DEF Request, Start
<1>2. ASSUME NEW actor \in {"handler", "orphan"}, Derive(actor) PROVE DeadlineInv'
  BY <1>2 DEF Derive, HandlerInv, Unchanging
<1>3. CASE BeginSession
  BY <1>3 DEF BeginSession, Session, NoChange
<1>4. CASE Schedule
  BY <1>4 DEF Schedule
<1>5. CASE Hangup
  BY <1>5 DEF Hangup
<1>6. CASE Lock
  BY <1>6 DEF Lock, Start
<1>7. CASE Clear
  BY <1>7 DEF Clear, Session
<1>8. ASSUME NEW configured \in BOOLEAN, Security(configured) PROVE DeadlineInv'
  BY <1>8 DEF Security, Start
<1>9. CASE LockVault
  BY <1>9 DEF LockVault
<1>10. ASSUME NEW g \in timers, LockIfGeneration(g) PROVE DeadlineInv'
  BY <1>10 DEF LockIfGeneration, Unchanging, gated
<1>11. CASE DropKey
  BY <1>11 DEF DropKey
<1>12. CASE CloseSession
  BY <1>12 DEF CloseSession, Session
<1>13. CASE UNCHANGED vaultVars
  BY <1>13 DEF vaultVars
<1> QED
  BY <1>1, <1>2, <1>3, <1>4, <1>5, <1>6, <1>7, <1>8, <1>9, <1>10, <1>11, <1>12,
     <1>13 DEF VaultNext

\* The inductive invariant holds in every reachable state.
THEOREM VaultInvariant == VaultSpec => []VaultInv
<1>1. VaultInit => VaultInv
  <2>1. VaultInit => PublishedInv /\ SessionInv /\ HandlerInv /\ DeadlineInv
    BY DEF VaultInit, PublishedInv, SessionInv, HandlerInv, DeadlineInv, NoChange
  <2> QED BY <2>1, VaultTypeInit DEF VaultInv
<1>2. VaultInv /\ [VaultNext]_vaultVars => VaultInv'
  BY VaultTypeNext, PublishedNext, SessionNext, HandlerNext, DeadlineNext DEF VaultInv
<1> QED
  BY <1>1, <1>2, PTL DEF VaultSpec

\* The types of the vault module hold for every bound.
THEOREM VaultTypeCorrect == VaultSpec => []VaultTypeOK
<1>1. VaultInv => VaultTypeOK
  BY DEF VaultInv
<1> QED
  BY <1>1, VaultInvariant, PTL

\* Between changes the watch holds the status of the vault (ObservedVault):
\* no unlock, lock or clear goes unannounced.
THEOREM PublicationSound == VaultSpec => []PublishedCatchesUp
<1>1. VaultInv => PublishedCatchesUp
  BY DEF VaultInv, PublishedInv, PublishedCatchesUp, Unchanging
<1> QED
  BY <1>1, VaultInvariant, PTL

\* Between changes the session is open exactly while the key is held
\* (CredentialLifecycle): a crash-free sequence of calls cannot separate them.
THEOREM SessionSound == VaultSpec => []SessionFollowsKey
<1>1. VaultInv => SessionFollowsKey
  BY DEF VaultInv, SessionInv, SessionFollowsKey, Unchanging
<1> QED
  BY <1>1, VaultInvariant, PTL

\* An unlocked vault with auto-lock configured has the deadline of its own
\* generation pending (vault.rs, settings.rs), unless its handler was dropped.
THEOREM DeadlineSound == VaultSpec => []DeadlineArmed
<1>1. VaultInv => DeadlineArmed
  BY DEF VaultInv, DeadlineInv, Armed, DeadlineArmed, Unchanging
<1> QED
  BY <1>1, VaultInvariant, PTL

-----------------------------------------------------------------------------
(* The screens of the terminals.                                           *)

(* One screen. *)

\* What is not live keeps nothing.
Well(scr) ==
  /\ scr \in Screen
  /\ scr.state # "live" => scr.saved = << >> /\ scr.tail = << >>

\* What the abstract specification sees of a screen.
View(scr) == [state |-> scr.state, content |-> Content(scr), owed |-> PendingQueries(scr)]

PendingIn(tail) == {i \in DOMAIN tail : tail[i].pending /\ tail[i].op = "query"}

LEMMA TailTypes ==
  ASSUME NEW scr \in Screen
  PROVE  /\ TailOps(scr) \in Seq(Ops) /\ Content(scr) \in Seq(Ops)
         /\ Len(TailOps(scr)) = Len(scr.tail)
         /\ \A i \in 1..Len(scr.tail) : TailOps(scr)[i] = scr.tail[i].op
         /\ IsFiniteSet(PendingIn(scr.tail)) /\ PendingQueries(scr) \in Nat
<1>1. scr.tail \in Seq(Replay) /\ scr.saved \in Seq(Ops)
  BY DEF Screen
<1>2. Len(scr.tail) \in Nat /\ DOMAIN scr.tail = 1..Len(scr.tail)
      /\ scr.tail \in [1..Len(scr.tail) -> Replay]
  BY <1>1, LenProperties
<1>3. TailOps(scr) \in [1..Len(scr.tail) -> Ops]
  BY <1>2 DEF TailOps, Replay
<1>4. TailOps(scr) \in Seq(Ops) /\ Len(TailOps(scr)) = Len(scr.tail)
  BY <1>2, <1>3, SeqDef, LenProperties
<1>5. Content(scr) \in Seq(Ops)
  BY <1>1, <1>4, ConcatProperties DEF Content
<1>6. IsFiniteSet(1..Len(scr.tail))
  BY <1>2, FS_Interval
<1>7. PendingIn(scr.tail) \in SUBSET (1..Len(scr.tail))
  BY <1>2 DEF PendingIn
<1>8. IsFiniteSet(PendingIn(scr.tail))
  BY <1>6, <1>7, FS_Subset
<1>9. PendingQueries(scr) = Cardinality(PendingIn(scr.tail))
  BY DEF PendingQueries, PendingIn
<1>10. PendingQueries(scr) \in Nat
  BY <1>8, <1>9, FS_CardinalityType
<1>11. \A i \in 1..Len(scr.tail) : TailOps(scr)[i] = scr.tail[i].op
  BY <1>2 DEF TailOps
<1> QED
  BY <1>4, <1>5, <1>8, <1>10, <1>11

\* An operation that joins the tail.
LEMMA Joined ==
  ASSUME NEW scr \in Screen, NEW new \in Screen, NEW op \in Ops, NEW late \in BOOLEAN,
         new.saved = scr.saved, new.tail = Append(scr.tail, [op |-> op, pending |-> late])
  PROVE  /\ Content(new) = Append(Content(scr), op)
         /\ PendingQueries(new) = PendingQueries(scr) + IF late THEN Own(op) ELSE 0
<1> DEFINE e == [op |-> op, pending |-> late]
           n == Len(scr.tail) + 1
<1>1. scr.tail \in Seq(Replay) /\ scr.saved \in Seq(Ops) /\ e \in Replay
  BY DEF Screen, Replay
<1>2. /\ Len(scr.tail) \in Nat /\ Len(new.tail) = n
      /\ DOMAIN scr.tail = 1..Len(scr.tail) /\ DOMAIN new.tail = 1..n
      /\ \A i \in 1..Len(scr.tail) : new.tail[i] = scr.tail[i]
      /\ new.tail[n] = e
  BY <1>1, AppendProperties, LenProperties
<1>3. TailOps(new) = Append(TailOps(scr), op)
  <2>0. \A i \in 1..n : i \in 1..Len(scr.tail) \/ i = n
    BY <1>2
  <2>1. /\ TailOps(new) \in Seq(Ops) /\ Len(TailOps(new)) = n
        /\ \A i \in 1..n : TailOps(new)[i] = new.tail[i].op
        /\ TailOps(scr) \in Seq(Ops) /\ Len(TailOps(scr)) = Len(scr.tail)
        /\ \A i \in 1..Len(scr.tail) : TailOps(scr)[i] = scr.tail[i].op
    BY <1>2, TailTypes
  <2>2. /\ Append(TailOps(scr), op) \in Seq(Ops) /\ Len(Append(TailOps(scr), op)) = n
        /\ \A i \in 1..Len(scr.tail) : Append(TailOps(scr), op)[i] = TailOps(scr)[i]
        /\ Append(TailOps(scr), op)[n] = op
    BY <2>1, AppendProperties
  <2>3. \A i \in 1..n : TailOps(new)[i] = Append(TailOps(scr), op)[i]
    <3> TAKE i \in 1..n
    <3>1. CASE i = n
      BY <1>2, <2>1, <2>2, <3>1
    <3>2. CASE i \in 1..Len(scr.tail)
      BY <1>2, <2>1, <2>2, <3>2
    <3> QED
      BY <2>0, <3>1, <3>2
  <2> HIDE DEF n, e
  <2> QED
    BY <2>1, <2>2, <2>3, SeqEqual
<1>4. Content(new) = Append(Content(scr), op)
  <2>1. TailOps(scr) \in Seq(Ops) /\ Content(scr) \in Seq(Ops)
    BY TailTypes
  <2>2. Append(TailOps(scr), op) = TailOps(scr) \o <<op>> /\ <<op>> \in Seq(Ops)
    BY <2>1, AppendIsConcat
  <2>3. Append(Content(scr), op) = Content(scr) \o <<op>>
    BY <2>1, AppendIsConcat
  <2>4. (scr.saved \o TailOps(scr)) \o <<op>> = scr.saved \o (TailOps(scr) \o <<op>>)
    <3>1. \A a, b, c \in Seq(Ops) : (a \o b) \o c = a \o (b \o c)
      BY ConcatAssociative
    <3> QED
      BY <1>1, <2>1, <2>2, <3>1
  <2> QED
    BY <1>3, <2>2, <2>3, <2>4 DEF Content
<1>5. PendingIn(new.tail) = IF late /\ op = "query" THEN PendingIn(scr.tail) \cup {n} ELSE PendingIn(scr.tail)
  <2>1. \A i \in 1..n : i \in 1..Len(scr.tail) \/ i = n
    BY <1>2
  <2>2. Len(scr.tail) \in Nat /\ 1..Len(scr.tail) \subseteq 1..n /\ n \in 1..n /\ n \notin 1..Len(scr.tail)
    BY <1>2
  <2>3. e.op = op /\ e.pending = late
    OBVIOUS
  <2> HIDE DEF n, e
  <2> QED
    BY <1>2, <2>1, <2>2, <2>3 DEF PendingIn
<1>6. IsFiniteSet(PendingIn(scr.tail)) /\ PendingQueries(scr) \in Nat
  BY TailTypes
<1>7. n \notin PendingIn(scr.tail)
  BY <1>2 DEF PendingIn
<1>8. Cardinality(PendingIn(scr.tail) \cup {n}) = Cardinality(PendingIn(scr.tail)) + 1
  BY <1>6, <1>7, FS_AddElement
<1>9. PendingQueries(new) = Cardinality(PendingIn(new.tail)) /\ PendingQueries(scr) = Cardinality(PendingIn(scr.tail))
  BY DEF PendingQueries, PendingIn
<1>10. PendingQueries(new) = PendingQueries(scr) + IF late THEN Own(op) ELSE 0
  <2> HIDE DEF n, e
  <2>1. CASE late /\ op = "query"
    BY <1>5, <1>6, <1>8, <1>9, <2>1 DEF Own
  <2>2. CASE ~(late /\ op = "query")
    BY <1>5, <1>6, <1>9, <2>2 DEF Own
  <2> QED
    BY <2>1, <2>2
<1> QED
  BY <1>4, <1>10

\* A screen with nothing kept.
LEMMA Bare ==
  ASSUME NEW scr \in Screen, scr.saved = << >>, scr.tail = << >>
  PROVE  Content(scr) = << >> /\ PendingQueries(scr) = 0
<1>1. TailOps(scr) \in Seq(Ops) /\ Len(TailOps(scr)) = 0
  BY TailTypes, EmptySeq
<1>2. TailOps(scr) = << >>
  BY <1>1, EmptySeq
<1>3. Content(scr) = << >>
  BY <1>2, ConcatEmptySeq, EmptySeq DEF Content
<1>4. {i \in DOMAIN scr.tail : scr.tail[i].pending /\ scr.tail[i].op = "query"} = {}
  OBVIOUS
<1> QED
  BY <1>3, <1>4, FS_EmptySet DEF PendingQueries

LEMMA Fresh ==
  /\ Well(NoScreen) /\ Well(NewScreen)
  /\ Content(NewScreen) = << >> /\ PendingQueries(NewScreen) = 0
  /\ \A scr : Well(Invalidate(scr)) /\ Invalidate(scr).state = "lost" /\ Invalidate(scr).replies = 0
<1>1. << >> \in Seq(Ops) /\ << >> \in Seq(Replay)
  BY EmptySeq
<1> QED
  BY <1>1, Bare DEF Well, Screen, NoScreen, NewScreen, Invalidate

\* Recording an operation: it is left, it is one too many, or it joins the tail.
Leaves(scr, op, done) == scr.state # "live" \/ op \notin Ops \/ (op = "resize" /\ ~done)
Overflows(scr, op, done, new) == ~Leaves(scr, op, done) /\ new = Invalidate(scr)
Joins(scr, op, done, new) ==
  /\ ~Leaves(scr, op, done)
  /\ new.state = "live" /\ new.replies = scr.replies
  /\ Content(new) = Append(Content(scr), op)
  /\ PendingQueries(new) = PendingQueries(scr) + IF done THEN 0 ELSE Own(op)

LEMMA Recorded ==
  ASSUME NEW scr, Well(scr), NEW op \in Requests, NEW done \in BOOLEAN
  PROVE  LET new == Record(scr, op, done)
         IN  /\ Well(new)
             /\ \/ Leaves(scr, op, done) /\ new = scr
                \/ Overflows(scr, op, done, new)
                \/ Joins(scr, op, done, new)
<1> DEFINE new == Record(scr, op, done)
<1>1. CASE Leaves(scr, op, done)
  BY <1>1 DEF Record, Leaves
<1>2. CASE /\ ~Leaves(scr, op, done)
           /\ Len(scr.tail) >= MaxTail
  BY <1>2, Fresh DEF Record, Leaves, Overflows
<1>3. CASE /\ ~Leaves(scr, op, done)
           /\ ~(Len(scr.tail) >= MaxTail)
  <2> DEFINE e == [op |-> op, pending |-> ~done]
  <2>1. scr \in Screen /\ scr.tail \in Seq(Replay) /\ e \in Replay
    BY <1>3 DEF Well, Screen, Replay, Leaves
  <2>2. Append(scr.tail, e) \in Seq(Replay)
    BY <2>1, AppendProperties
  <2>3. new = [scr EXCEPT !.tail = Append(@, e)]
    BY <1>3 DEF Record, Leaves
  <2> HIDE DEF e
  <2>4. new \in Screen /\ new.saved = scr.saved /\ new.tail = Append(scr.tail, e) /\ new.state = "live" /\ new.replies = scr.replies
    BY <1>3, <2>1, <2>2, <2>3 DEF Screen, Leaves
  <2> HIDE DEF new
  <2>5. /\ Content(new) = Append(Content(scr), op)
        /\ PendingQueries(new) = PendingQueries(scr) + IF ~done THEN Own(op) ELSE 0
    BY <1>3, <2>1, <2>4, Joined DEF e, Leaves
  <2> QED
    BY <1>3, <2>4, <2>5 DEF Well, Joins, new
<1> HIDE DEF new
<1>4. /\ Well(new)
      /\ \/ Leaves(scr, op, done) /\ new = scr
         \/ Overflows(scr, op, done, new)
         \/ Joins(scr, op, done, new)
  BY <1>1, <1>2, <1>3 DEF new
<1> QED
  BY <1>4 DEF new

\* Handing back the replies changes neither the state nor the content.
LEMMA Completed ==
  ASSUME NEW scr, Well(scr), NEW new, new = Complete(scr)
  PROVE  /\ Well(new) /\ new.state = scr.state /\ new.replies = 0
         /\ Content(new) = Content(scr) /\ PendingQueries(new) = 0
         /\ Len(new.tail) = Len(scr.tail)
<1>1. scr \in Screen /\ scr.tail \in Seq(Replay)
  BY DEF Well, Screen
<1>2. Len(scr.tail) \in Nat /\ DOMAIN scr.tail = 1..Len(scr.tail) /\ scr.tail \in [1..Len(scr.tail) -> Replay]
  BY <1>1, LenProperties
<1> DEFINE t == [i \in DOMAIN scr.tail |-> [scr.tail[i] EXCEPT !.pending = FALSE]]
<1>3. /\ t \in [1..Len(scr.tail) -> Replay]
      /\ \A i \in 1..Len(scr.tail) : t[i].pending = FALSE /\ t[i].op = scr.tail[i].op
  BY <1>2 DEF Replay
<1>4. DOMAIN t = 1..Len(scr.tail)
  BY <1>2
<1>5. new = [scr EXCEPT !.replies = 0, !.tail = t]
  BY DEF Complete
<1> HIDE DEF t
<1>6. t \in Seq(Replay) /\ Len(t) = Len(scr.tail)
  BY <1>2, <1>3, <1>4, SeqDef, LenProperties
<1>7. /\ new \in Screen /\ new.tail = t /\ new.saved = scr.saved /\ new.state = scr.state
      /\ new.replies = 0
  <2> DEFINE T == Seq(Replay)
             O == Seq(Ops)
  <2>1. scr \in [state : {"absent", "live", "lost"}, saved : O, tail : T, replies : Nat] /\ t \in T
    BY <1>1, <1>6 DEF Screen
  <2> HIDE DEF T, O
  <2>2. new = [state |-> scr.state, saved |-> scr.saved, tail |-> t, replies |-> 0]
    BY <1>5, <2>1
  <2>3. /\ new \in [state : {"absent", "live", "lost"}, saved : O, tail : T, replies : Nat]
        /\ new.tail = t /\ new.saved = scr.saved /\ new.state = scr.state /\ new.replies = 0
    BY <2>1, <2>2
  <2> QED
    BY <2>3 DEF T, O, Screen
<1>8. TailOps(new) = TailOps(scr)
  BY <1>2, <1>3, <1>4, <1>7 DEF TailOps
<1>9. Content(new) = Content(scr)
  BY <1>7, <1>8 DEF Content
<1>10. {i \in DOMAIN new.tail : new.tail[i].pending /\ new.tail[i].op = "query"} = {}
  BY <1>3, <1>4, <1>7
<1>11. PendingQueries(new) = 0
  BY <1>10, FS_EmptySet DEF PendingQueries
<1>12. scr.state # "live" => new.tail = << >>
  <2> HAVE scr.state # "live"
  <2>1. Len(t) = 0
    BY <1>6, EmptySeq DEF Well
  <2> QED
    BY <1>6, <1>7, <2>1, EmptySeq
<1> QED
  BY <1>6, <1>7, <1>9, <1>11, <1>12 DEF Well

\* Only the replies change.
LEMMA Replayed ==
  ASSUME NEW scr, Well(scr), NEW new, NEW n \in Nat, new = [scr EXCEPT !.replies = n]
  PROVE  Well(new) /\ new.replies = n /\ new.state = scr.state
         /\ Content(new) = Content(scr) /\ PendingQueries(new) = PendingQueries(scr)
<1> DEFINE T == Seq(Replay)
           O == Seq(Ops)
<1>1. scr \in [state : {"absent", "live", "lost"}, saved : O, tail : T, replies : Nat]
  BY DEF Well, Screen
<1> HIDE DEF T, O
<1>2. /\ new \in [state : {"absent", "live", "lost"}, saved : O, tail : T, replies : Nat]
      /\ new.tail = scr.tail /\ new.saved = scr.saved /\ new.state = scr.state /\ new.replies = n
  BY <1>1
<1> QED
  BY <1>2 DEF T, O, Screen, Well, Content, TailOps, PendingQueries

\* The tail gives way to the content it stood for.
LEMMA Checkpointed ==
  ASSUME NEW scr, Well(scr), scr.state = "live", NEW new, new = Checkpoint(scr, Content(scr))
  PROVE  Well(new) /\ new.state = "live" /\ new.replies = scr.replies
         /\ Content(new) = Content(scr) /\ PendingQueries(new) = 0
<1> DEFINE T == Seq(Replay)
           O == Seq(Ops)
<1>1. Content(scr) \in O /\ << >> \in T
  BY TailTypes, EmptySeq DEF Well
<1>2. scr \in [state : {"absent", "live", "lost"}, saved : O, tail : T, replies : Nat]
  BY DEF Well, Screen
<1>3. new = [scr EXCEPT !.saved = Content(scr), !.tail = << >>]
  BY DEF Checkpoint
<1> HIDE DEF T, O
<1>4. new = [state |-> scr.state, saved |-> Content(scr), tail |-> << >>, replies |-> scr.replies]
  BY <1>2, <1>3
<1>5. /\ new \in [state : {"absent", "live", "lost"}, saved : O, tail : T, replies : Nat]
      /\ new.tail = << >> /\ new.saved = Content(scr) /\ new.state = "live" /\ new.replies = scr.replies
  BY <1>1, <1>2, <1>4
<1>6. new \in Screen
  BY <1>5 DEF T, O, Screen
<1>7. TailOps(new) = << >>
  <2>1. TailOps(new) \in Seq(Ops) /\ Len(TailOps(new)) = 0
    BY <1>5, <1>6, TailTypes, EmptySeq
  <2> QED
    BY <2>1, EmptySeq
<1>8. Content(new) = Content(scr)
  BY <1>1, <1>5, <1>7, ConcatEmptySeq DEF Content, O
<1>9. {i \in DOMAIN new.tail : new.tail[i].pending /\ new.tail[i].op = "query"} = {}
  BY <1>5
<1> QED
  BY <1>5, <1>6, <1>8, <1>9, FS_EmptySet DEF Well, PendingQueries

\* Two views of a screen that stays in its state.
LEMMA Seen ==
  ASSUME NEW scr, NEW new, Well(scr), Well(new), new.state = scr.state
  PROVE  /\ \A op \in Ops : Content(new) = Append(Content(scr), op) =>
              View(new) = [View(scr) EXCEPT !.content = Append(@, op), !.owed = PendingQueries(new)]
         /\ Content(new) = Content(scr) => View(new) = [View(scr) EXCEPT !.owed = PendingQueries(new)]
         /\ PendingQueries(new) = PendingQueries(scr) => View(new) = [View(scr) EXCEPT !.content = Content(new)]
<1> DEFINE S == {"absent", "live", "lost"}
           C == Seq(Ops)
           old == View(scr)
           now == View(new)
<1>1. scr \in Screen /\ new \in Screen /\ scr.state \in S
  BY DEF Well, Screen
<1>2. Content(scr) \in C /\ Content(new) \in C /\ PendingQueries(scr) \in Nat /\ PendingQueries(new) \in Nat
  BY <1>1, TailTypes
<1>3. /\ old.state = scr.state /\ old.content = Content(scr) /\ old.owed = PendingQueries(scr)
      /\ now.state = scr.state /\ now.content = Content(new) /\ now.owed = PendingQueries(new)
  BY DEF View
<1>4. old \in [state : S, content : C, owed : Nat] /\ now \in [state : S, content : C, owed : Nat]
  <2> HIDE DEF S, C
  <2> QED
    BY <1>1, <1>2 DEF View
<1> HIDE DEF S, C, old, now
<1>5. /\ now = [old EXCEPT !.content = now.content, !.owed = now.owed]
      /\ now.content = old.content => now = [old EXCEPT !.owed = now.owed]
      /\ now.owed = old.owed => now = [old EXCEPT !.content = now.content]
  BY <1>3, <1>4
<1>6. /\ \A op \in Ops : Content(new) = Append(Content(scr), op) =>
            now = [old EXCEPT !.content = Append(@, op), !.owed = PendingQueries(new)]
      /\ Content(new) = Content(scr) => now = [old EXCEPT !.owed = PendingQueries(new)]
      /\ PendingQueries(new) = PendingQueries(scr) => now = [old EXCEPT !.content = Content(new)]
  BY <1>3, <1>5
<1> QED
  BY <1>6 DEF old, now

LEMMA SeenLonger ==
  ASSUME NEW scr, NEW new, Well(scr), Well(new), new.state = scr.state,
         PendingQueries(new) = PendingQueries(scr)
  PROVE  \A op \in Ops : Content(new) = Append(Content(scr), op) =>
           View(new) = [View(scr) EXCEPT !.content = Append(@, op)]
<1>1. View(new) = [View(scr) EXCEPT !.content = Content(new)]
  <2> HIDE DEF Well
  <2> QED
    BY Seen, Zenon
<1>2. View(scr).content = Content(scr)
  BY DEF View
<1> QED
  BY <1>1, <1>2

LEMMA NothingPending ==
  ASSUME NEW scr, NeedsCheckpoint(scr)
  PROVE  scr.state = "live" /\ PendingQueries(scr) = 0
<1>1. {i \in DOMAIN scr.tail : scr.tail[i].pending /\ scr.tail[i].op = "query"} = {}
  BY DEF NeedsCheckpoint
<1> QED
  BY <1>1, FS_EmptySet DEF PendingQueries, NeedsCheckpoint

-----------------------------------------------------------------------------
(* The invariant. *)

AllWell == \A s \in Ids : Well(screens[s])

\* A process that may be tried later is not there; only live screens wait for
\* their recovery, and only while there is a process.
ProcessFits ==
  /\ retry => ~process
  /\ ~process => todo = {}
  /\ todo \subseteq LiveScreens

\* What a call knows of its screen.
CallFits ==
  /\ call.phase = "idle" => todo = {}
  /\ call.phase # "idle" => call.id \in Ids /\ call.op \in Requests /\ ~retry
  /\ call.phase = "trying" =>
       IF call.op = "create" THEN screens[call.id].state = "absent"
       ELSE screens[call.id].state \in {"live", "lost"}
  /\ call.phase = "checkpoint" =>
       /\ process /\ todo = {}
       /\ screens[call.id].state = "live" /\ PendingQueries(screens[call.id]) = 0

\* The replies kept for a restored screen are those never handed back.
RepliesKept ==
  process => \A s \in LiveScreens \ todo : screens[s].replies = PendingQueries(screens[s])

ScreenInv == TypeOK /\ AllWell /\ ProcessFits /\ CallFits /\ TerminalIsContent /\ RepliesKept

LEMMA InitScreen == Init => ScreenInv
<1> SUFFICES ASSUME Init PROVE ScreenInv
  OBVIOUS
<1>1. << >> \in Seq(Ops) /\ << >> \in Seq(Replay) /\ Well(NoScreen)
  BY EmptySeq, Fresh
<1>2. TypeOK
  BY <1>1 DEF Init, TypeOK, Well, NoTerminals, NoTerminal, Terminal, Call, Idle, Answer
<1>3. AllWell
  BY <1>1 DEF Init, AllWell
<1> QED
  BY <1>2, <1>3 DEF Init, ScreenInv, ProcessFits, CallFits, TerminalIsContent, RepliesKept,
     LiveScreens, NoScreen, Idle

-----------------------------------------------------------------------------
(* Steps of the abstract specification. *)

\* The screens as the abstract specification sees them.
Views == [s \in Ids |-> [state |-> screens[s].state,
                         content |-> Content(screens[s]),
                         owed |-> PendingQueries(screens[s])]]

AbstractStep == [Promise!Next]_(Promise!vars)

LEMMA Viewed ==
  ASSUME NEW s \in Ids, NEW new, TypeOK, screens' = [screens EXCEPT ![s] = new]
  PROVE  /\ Views[s] = View(screens[s])
         /\ Views' = [Views EXCEPT ![s] = View(new)]
         /\ screens'[s] = new /\ \A t \in Ids \ {s} : screens'[t] = screens[t]
<1>1. \A t \in Ids : screens'[t] = IF t = s THEN new ELSE screens[t]
  BY DEF TypeOK
<1>2. Views' = [t \in Ids |-> View(screens'[t])]
  BY DEF Views, View
<1>3. Views = [t \in Ids |-> View(screens[t])]
  BY DEF Views, View
<1>4. Views' = [Views EXCEPT ![s] = View(new)]
  BY <1>1, <1>2, <1>3
<1> QED
  BY <1>1, <1>3, <1>4

\* Nothing changes for the abstract specification.
LEMMA Silent == UNCHANGED <<Views, answer, answered>> => AbstractStep
  BY DEF AbstractStep, Views, Promise!vars

LEMMA Refused ==
  ASSUME UNCHANGED <<Views, answered>>, NEW result \in {"unavailable", "refused"}, Return(result)
  PROVE  AbstractStep
  BY DEF AbstractStep, Views, Promise!Next, Promise!Refuse, Promise!Return, Promise!Only, Return

LEMMA FoundLost ==
  ASSUME UNCHANGED <<Views, answered>>, NEW s \in Ids, screens[s].state = "lost", Return("lost")
  PROVE  AbstractStep
  BY DEF AbstractStep, Views, Promise!Next, Promise!Refuse, Promise!Return, Promise!Only, Return

LEMMA ScreenSteps ==
  ASSUME NEW s \in Ids, NEW v, Views' = [Views EXCEPT ![s] = v]
  PROVE  /\ Views[s].state = "absent" /\ v = Promise!NewScreen /\ Return("ok")
              /\ answered' = [answered EXCEPT ![s] = 0] => AbstractStep
         /\ v = Promise!NoScreen /\ Return("ok") /\ UNCHANGED answered => AbstractStep
         /\ Views[s].state = "live" /\ v = Promise!LostScreen /\ UNCHANGED <<answer, answered>>
              => AbstractStep
         /\ Views[s].state = "live" /\ v = [Views[s] EXCEPT !.content = Append(@, "resize")]
              /\ Return("ok") /\ UNCHANGED answered => AbstractStep
<1>1. Views[s].state = "absent" /\ v = Promise!NewScreen /\ Return("ok")
        /\ answered' = [answered EXCEPT ![s] = 0] => AbstractStep
  BY DEF AbstractStep, Views, Promise!Next, Promise!Create, Promise!Return, Promise!Only, Return
<1>2. v = Promise!NoScreen /\ Return("ok") /\ UNCHANGED answered => AbstractStep
  BY DEF AbstractStep, Views, Promise!Next, Promise!Destroy, Promise!Return, Promise!Only, Return
<1>3. Views[s].state = "live" /\ v = Promise!LostScreen /\ UNCHANGED <<answer, answered>> => AbstractStep
  BY DEF AbstractStep, Views, Promise!Next, Promise!Lose, Promise!Live
<1>4. Views[s].state = "live" /\ v = [Views[s] EXCEPT !.content = Append(@, "resize")]
        /\ Return("ok") /\ UNCHANGED answered => AbstractStep
  BY DEF AbstractStep, Views, Promise!Next, Promise!Resize, Promise!Live, Promise!Return, Promise!Only, Return
<1> QED
  BY <1>1, <1>2, <1>3, <1>4

LEMMA BothFields ==
  ASSUME NEW S, NEW f, DOMAIN f = S, NEW s \in S, NEW op, NEW n
  PROVE  /\ [f EXCEPT ![s] = [f[s] EXCEPT !.content = Append(@, op), !.owed = 0]]
              = [f EXCEPT ![s].content = Append(@, op), ![s].owed = 0]
         /\ [f EXCEPT ![s] = [f[s] EXCEPT !.content = Append(@, op), !.owed = @ + n]]
              = [f EXCEPT ![s].content = Append(@, op), ![s].owed = @ + n]
  OBVIOUS

LEMMA OutputSteps ==
  ASSUME NEW s \in Ids, NEW v, Views' = [Views EXCEPT ![s] = v], Views[s].state = "live",
         NEW op \in Promise!Ops
  PROVE  /\ op \in Promise!Writes /\ Return("unavailable") /\ UNCHANGED answered
              /\ v = [Views[s] EXCEPT !.content = Append(@, op), !.owed = @ + Own(op)] => AbstractStep
         /\ Return("unavailable") /\ UNCHANGED answered /\ v = Promise!LostScreen => AbstractStep
<1>1. op \in Promise!Writes /\ Return("unavailable") /\ UNCHANGED answered
        /\ v = [Views[s] EXCEPT !.content = Append(@, op), !.owed = @ + Own(op)] => AbstractStep
  <2> SUFFICES ASSUME op \in Promise!Writes, Return("unavailable"), UNCHANGED answered,
                      v = [Views[s] EXCEPT !.content = Append(@, op), !.owed = @ + Own(op)]
               PROVE  AbstractStep
    OBVIOUS
  <2>1. DOMAIN Views = Ids
    BY DEF Views
  <2>2. Views' = [Views EXCEPT ![s].content = Append(@, op), ![s].owed = @ + Own(op)]
    BY <2>1, BothFields
  <2> QED
    BY <2>2 DEF AbstractStep, Views, Promise!Next, Promise!Defer, Promise!Live, Promise!Return,
       Promise!Only, Return, Own, Promise!Own
<1>2. Return("unavailable") /\ UNCHANGED answered /\ v = Promise!LostScreen => AbstractStep
  BY DEF AbstractStep, Views, Promise!Next, Promise!Overflow, Promise!Live, Promise!Return, Promise!Only,
         Return
<1> QED
  BY <1>1, <1>2

LEMMA ReplySteps ==
  ASSUME NEW s \in Ids, NEW v, Views' = [Views EXCEPT ![s] = v], Views[s].state = "live",
         NEW op \in Promise!Ops, NEW data, NEW n,
         answer' = [result |-> "ok", data |-> data, replies |-> n],
         answered' = [answered EXCEPT ![s] = @ + n]
  PROVE  /\ op \in Promise!Writes /\ data = << >> /\ n = Views[s].owed + Own(op)
              /\ v = [Views[s] EXCEPT !.content = Append(@, op), !.owed = 0] => AbstractStep
         /\ data = Views[s].content /\ n = Views[s].owed /\ v = [Views[s] EXCEPT !.owed = 0] => AbstractStep
         /\ data = << >> /\ n = Own(op) /\ v = Promise!LostScreen => AbstractStep
<1>1. op \in Promise!Writes /\ data = << >> /\ n = Views[s].owed + Own(op)
        /\ v = [Views[s] EXCEPT !.content = Append(@, op), !.owed = 0] => AbstractStep
  <2> SUFFICES ASSUME op \in Promise!Writes, data = << >>, n = Views[s].owed + Own(op),
                      v = [Views[s] EXCEPT !.content = Append(@, op), !.owed = 0]
               PROVE  AbstractStep
    OBVIOUS
  <2>1. DOMAIN Views = Ids
    BY DEF Views
  <2>2. Views' = [Views EXCEPT ![s].content = Append(@, op), ![s].owed = 0]
    BY <2>1, BothFields
  <2> QED
    BY <2>2 DEF AbstractStep, Views, Promise!Next, Promise!Write, Promise!Live, Promise!Deliver, Own,
       Promise!Own
<1>2. data = Views[s].content /\ n = Views[s].owed /\ v = [Views[s] EXCEPT !.owed = 0] => AbstractStep
  BY DEF AbstractStep, Views, Promise!Next, Promise!Snapshot, Promise!Live, Promise!Deliver
<1>3. data = << >> /\ n = Own(op) /\ v = Promise!LostScreen => AbstractStep
  BY DEF AbstractStep, Views, Promise!Next, Promise!Overflow, Promise!Live, Promise!Deliver, Own, Promise!Own
<1> QED
  BY <1>1, <1>2, <1>3

-----------------------------------------------------------------------------
(* The steps. *)

LEMMA OneScreen ==
  ASSUME TypeOK, AllWell, NEW s \in Ids, NEW new, Well(new), screens' = [screens EXCEPT ![s] = new]
  PROVE  /\ screens' \in [Ids -> Screen] /\ AllWell'
         /\ screens'[s] = new /\ \A t \in Ids \ {s} : screens'[t] = screens[t]
<1>1. \A t \in Ids : screens'[t] = IF t = s THEN new ELSE screens[t]
  BY DEF TypeOK
<1>2. AllWell'
  BY <1>1 DEF AllWell
<1>3. screens' \in [Ids -> Screen]
  <2>1. new \in Screen
    BY DEF Well
  <2> QED
    BY <2>1 DEF TypeOK
<1> QED
  BY <1>1, <1>2, <1>3

LEMMA Ways == Promise!Writes \subseteq Promise!Ops /\ Outputs \subseteq Promise!Writes /\ Ops \subseteq Promise!Ops
              /\ "create" \notin Ops /\ "snapshot" \notin Ops
  BY OutputsAssumption DEF Promise!Writes, Promise!Ops, Ops

LEMMA LostView ==
  /\ \A scr : View(Invalidate(scr)) = Promise!LostScreen
  /\ View(NoScreen) = Promise!NoScreen /\ View(NewScreen) = Promise!NewScreen
<1>1. \A scr : View(Invalidate(scr)) = Promise!LostScreen
  <2> TAKE scr
  <2>1. /\ Invalidate(scr) \in Screen /\ Invalidate(scr).state = "lost"
        /\ Invalidate(scr).saved = << >> /\ Invalidate(scr).tail = << >>
    BY Fresh DEF Well
  <2> QED
    BY <2>1, Bare DEF View, Promise!LostScreen, Promise!NoScreen
<1>2. View(NoScreen) = Promise!NoScreen
  <2>1. /\ NoScreen \in Screen /\ NoScreen.state = "absent"
        /\ NoScreen.saved = << >> /\ NoScreen.tail = << >>
    BY Fresh DEF Well, NoScreen
  <2> QED
    BY <2>1, Bare DEF View, Promise!NoScreen
<1>3. View(NewScreen) = Promise!NewScreen
  <2>1. NewScreen.state = "live"
    BY DEF NewScreen, NoScreen
  <2> QED
    BY <2>1, Fresh DEF View, Promise!NewScreen, Promise!NoScreen
<1> QED
  BY <1>1, <1>2, <1>3

\* An operation that was not delivered.
LEMMA Undelivered ==
  ASSUME TypeOK, AllWell, NEW s \in Ids, NEW op \in Requests,
         screens' = [screens EXCEPT ![s] = Record(@, op, FALSE)],
         Return("unavailable"), UNCHANGED answered
  PROVE  screens' \in [Ids -> Screen] /\ AllWell' /\ AbstractStep
<1> DEFINE scr == screens[s]
           new == Record(scr, op, FALSE)
<1>1. Well(scr) /\ screens' = [screens EXCEPT ![s] = new]
  BY DEF AllWell
<1>2. /\ Well(new)
      /\ \/ new = scr
         \/ scr.state = "live" /\ op \in Ops /\ new = Invalidate(scr)
         \/ /\ scr.state = "live" /\ op \in Outputs /\ new.state = "live"
            /\ Content(new) = Append(Content(scr), op)
            /\ PendingQueries(new) = PendingQueries(scr) + Own(op)
  <2>1. /\ Well(new)
        /\ \/ new = scr
           \/ Overflows(scr, op, FALSE, new)
           \/ Joins(scr, op, FALSE, new)
    <3> HIDE DEF scr
    <3> QED
      BY <1>1, Recorded
  <2> HIDE DEF scr, new
  <2> QED
    BY <2>1 DEF Overflows, Joins, Leaves, Ops
<1> HIDE DEF new
<1>3. screens' \in [Ids -> Screen] /\ AllWell'
  BY <1>1, <1>2, OneScreen
<1>4. Views[s] = View(scr) /\ Views' = [Views EXCEPT ![s] = View(new)]
  BY <1>1, Viewed
<1>5. Views[s].state = scr.state
  BY <1>4 DEF View
<1> HIDE DEF scr
<1>6. CASE new = scr
  <2>1. screens' = screens
    BY <1>1, <1>6 DEF TypeOK, scr
  <2>2. UNCHANGED Views
    BY <2>1 DEF Views, Content, TailOps, PendingQueries
  <2> QED
    BY <1>3, <2>2, Refused
<1>7. CASE scr.state = "live" /\ op \in Ops /\ new = Invalidate(scr)
  <2>1. View(new) = Promise!LostScreen /\ op \in Promise!Ops
    BY <1>7, LostView, Ways
  <2> QED
    BY <1>3, <1>4, <1>5, <1>7, <2>1, OutputSteps
<1>8. CASE /\ scr.state = "live" /\ op \in Outputs /\ new.state = "live"
           /\ Content(new) = Append(Content(scr), op)
           /\ PendingQueries(new) = PendingQueries(scr) + Own(op)
  <2>1. op \in Promise!Writes /\ op \in Promise!Ops
    BY <1>8, Ways
  <2>2. View(new) = [View(scr) EXCEPT !.content = Append(@, op), !.owed = PendingQueries(new)]
    <3>1. op \in Ops /\ new.state = scr.state
      BY <1>8 DEF Ops
    <3>2. Content(new) = Append(Content(scr), op) =>
            View(new) = [View(scr) EXCEPT !.content = Append(@, op), !.owed = PendingQueries(new)]
      <4>1. Well(scr) /\ Well(new)
        BY <1>1, <1>2
      <4> HIDE DEF Well
      <4>2. \A o \in Ops : Content(new) = Append(Content(scr), o) =>
              View(new) = [View(scr) EXCEPT !.content = Append(@, o), !.owed = PendingQueries(new)]
        BY <4>1, <3>1, Seen, Zenon
      <4> QED
        BY <3>1, <4>2
    <3> QED
      BY <1>8, <3>2
  <2>3. View(new) = [Views[s] EXCEPT !.content = Append(@, op), !.owed = @ + Own(op)]
    BY <1>4, <1>8, <2>2 DEF View
  <2> QED
    BY <1>3, <1>4, <1>5, <1>8, <2>1, <2>3, OutputSteps
<1> QED
  BY <1>2, <1>6, <1>7, <1>8

\* Without a process nothing is claimed of it.
LEMMA Gone ==
  ASSUME Discard
  PROVE  /\ process' = FALSE /\ todo' = {} /\ terminal' \in [Ids -> Terminal]
         /\ ProcessFits' /\ TerminalIsContent' /\ RepliesKept'
<1>1. << >> \in Seq(Ops)
  BY EmptySeq
<1> QED
  BY <1>1 DEF Discard, NoTerminals, NoTerminal, Terminal, ProcessFits, TerminalIsContent, RepliesKept

LEMMA FailKeeps ==
  ASSUME ScreenInv, Trying, Fail
  PROVE  ScreenInv' /\ AbstractStep
<1>1. /\ process' = FALSE /\ todo' = {} /\ terminal' \in [Ids -> Terminal]
      /\ ProcessFits' /\ TerminalIsContent' /\ RepliesKept'
  BY Gone DEF Fail
<1>2. TypeOK /\ AllWell /\ CallFits /\ call.id \in Ids /\ call.op \in Requests
  BY DEF ScreenInv, CallFits, Trying
<1>3. CASE call.attempt = 1
  <2>1. /\ call' = [call EXCEPT !.attempt = 2] /\ UNCHANGED <<screens, retry, answer, answered>>
    BY <1>3 DEF Fail
  <2>2. TypeOK'
    BY <1>1, <1>2, <2>1 DEF TypeOK, Call
  <2>3. AllWell' /\ UNCHANGED Views
    BY <1>2, <2>1 DEF AllWell, Views, Well, Content, TailOps, PendingQueries
  <2>4. CallFits'
    <3>1. call'.phase = "trying" /\ call'.id = call.id /\ call'.op = call.op
      BY <1>2, <2>1 DEF TypeOK, Call, Trying
    <3> QED
      BY <1>2, <2>1, <3>1 DEF CallFits, Trying
  <2> QED
    BY <1>1, <2>1, <2>2, <2>3, <2>4, Silent DEF ScreenInv
<1>4. CASE call.attempt # 1
  <2>1. /\ call' = Idle /\ retry' = TRUE
        /\ screens' = [screens EXCEPT ![call.id] = Record(@, call.op, FALSE)]
        /\ Return("unavailable") /\ UNCHANGED answered
    BY <1>4 DEF Fail
  <2>2. screens' \in [Ids -> Screen] /\ AllWell' /\ AbstractStep
    <3>1. PICK s \in Ids, op \in Requests : s = call.id /\ op = call.op
      BY <1>2
    <3> QED
      BY <1>2, <2>1, <3>1, Undelivered
  <2>3. TypeOK'
    <3>1. << >> \in Seq(Ops)
      BY EmptySeq
    <3> QED
      BY <1>1, <1>2, <2>1, <2>2, <3>1 DEF TypeOK, Call, Idle, Return, Answer
  <2>4. CallFits'
    BY <1>1, <2>1 DEF CallFits, Idle
  <2> QED
    BY <1>1, <2>2, <2>3, <2>4 DEF ScreenInv
<1> QED
  BY <1>3, <1>4

LEMMA DestroyKeeps ==
  ASSUME ScreenInv, NEW s \in Ids, Destroy(s)
  PROVE  ScreenInv' /\ AbstractStep
<1>1. /\ call.phase = "idle" /\ todo = {} /\ TypeOK /\ AllWell /\ ProcessFits /\ TerminalIsContent
      /\ RepliesKept /\ screens' = [screens EXCEPT ![s] = NoScreen]
      /\ Return("ok") /\ UNCHANGED <<retry, call, answered>>
  BY DEF Destroy, ScreenInv, CallFits
<1>2. Well(NoScreen) /\ << >> \in Seq(Ops)
  BY Fresh, EmptySeq
<1>3. /\ screens' \in [Ids -> Screen] /\ AllWell'
      /\ screens'[s] = NoScreen /\ \A t \in Ids \ {s} : screens'[t] = screens[t]
  BY <1>1, <1>2, OneScreen
<1>4. AbstractStep
  <2>1. Views' = [Views EXCEPT ![s] = View(NoScreen)]
    BY <1>1, Viewed
  <2> QED
    BY <1>1, <2>1, LostView, ScreenSteps
<1>5. todo' = {} /\ CallFits'
  BY <1>1 DEF Destroy, Discard, CallFits
<1>6. CASE terminal' = [terminal EXCEPT ![s] = NoTerminal] /\ UNCHANGED <<process, todo>>
  <2>1. TypeOK'
    BY <1>1, <1>2, <1>3, <1>6 DEF TypeOK, Return, Answer, NoTerminal, Terminal
  <2>2. ProcessFits'
    BY <1>1, <1>5, <1>6 DEF ProcessFits
  <2>3. \A t \in LiveScreens' : t # s /\ t \in LiveScreens /\ screens'[t] = screens[t] /\ terminal'[t] = terminal[t]
    BY <1>1, <1>3, <1>6 DEF LiveScreens, NoScreen, TypeOK
  <2>4. TerminalIsContent' /\ RepliesKept'
    BY <1>1, <1>5, <1>6, <2>3 DEF TerminalIsContent, RepliesKept
  <2> QED
    BY <1>3, <1>4, <1>5, <2>1, <2>2, <2>4 DEF ScreenInv
<1>7. CASE process /\ Discard
  <2>1. process' = FALSE /\ terminal' \in [Ids -> Terminal] /\ ProcessFits' /\ TerminalIsContent' /\ RepliesKept'
    BY <1>7, Gone
  <2>2. TypeOK'
    BY <1>1, <1>2, <1>3, <1>5, <2>1 DEF TypeOK, Return, Answer
  <2> QED
    BY <1>3, <1>4, <1>5, <2>1, <2>2 DEF ScreenInv
<1> QED
  BY <1>6, <1>7 DEF Destroy

LEMMA RefuseKeeps ==
  ASSUME ScreenInv, NEW s \in Ids, NEW op \in Requests, Refuse(s, op)
  PROVE  ScreenInv' /\ AbstractStep
<1>1. /\ UNCHANGED <<screens, process, terminal, todo, retry, call, answered>>
      /\ \/ Return("lost") /\ screens[s].state = "lost"
         \/ Return("refused")
  BY DEF Refuse
<1>2. << >> \in Seq(Ops)
  BY EmptySeq
<1>3. TypeOK'
  <2>1. CASE Return("lost")
    BY <1>1, <1>2, <2>1 DEF ScreenInv, TypeOK, Return, Answer
  <2>2. CASE Return("refused")
    BY <1>1, <1>2, <2>2 DEF ScreenInv, TypeOK, Return, Answer
  <2> QED
    BY <1>1, <2>1, <2>2
<1>4. AllWell' /\ UNCHANGED Views
  BY <1>1 DEF ScreenInv, AllWell, Views
<1>5. ProcessFits' /\ CallFits' /\ TerminalIsContent' /\ RepliesKept'
  BY <1>1 DEF ScreenInv, ProcessFits, CallFits, TerminalIsContent, RepliesKept, LiveScreens
<1>6. AbstractStep
  BY <1>1, <1>4, Refused, FoundLost
<1> QED
  BY <1>3, <1>4, <1>5, <1>6 DEF ScreenInv

LEMMA TryKeeps ==
  ASSUME ScreenInv, NEW s \in Ids, NEW op \in Requests, Try(s, op)
  PROVE  ScreenInv' /\ AbstractStep
<1>1. /\ call.phase = "idle" /\ screens[s].state = (IF op = "create" THEN "absent" ELSE "live")
      /\ call' = [phase |-> "trying", id |-> s, op |-> op, attempt |-> 1]
      /\ retry' = FALSE
      /\ UNCHANGED <<screens, process, terminal, todo, answer, answered>>
  BY DEF Try, Accepts
<1>2. TypeOK'
  BY <1>1 DEF ScreenInv, TypeOK, Call
<1>3. AllWell' /\ UNCHANGED Views
  BY <1>1 DEF ScreenInv, AllWell, Views
<1>4. ProcessFits' /\ CallFits' /\ TerminalIsContent' /\ RepliesKept'
  BY <1>1 DEF ScreenInv, ProcessFits, CallFits, TerminalIsContent, RepliesKept, LiveScreens
<1> QED
  BY <1>1, <1>2, <1>3, <1>4, Silent DEF ScreenInv

LEMMA PostponeKeeps ==
  ASSUME ScreenInv, NEW s \in Ids, NEW op \in Requests, Postpone(s, op)
  PROVE  ScreenInv' /\ AbstractStep
<1>1. /\ retry /\ call.phase = "idle" /\ screens' = [screens EXCEPT ![s] = Record(@, op, FALSE)]
      /\ Return("unavailable") /\ UNCHANGED <<process, terminal, todo, retry, call, answered>>
  BY DEF Postpone, Accepts
<1>2. TypeOK /\ AllWell /\ process = FALSE /\ todo = {}
  BY <1>1 DEF ScreenInv, ProcessFits, TypeOK
<1>3. screens' \in [Ids -> Screen] /\ AllWell' /\ AbstractStep
  BY <1>1, <1>2, Undelivered
<1>4. << >> \in Seq(Ops)
  BY EmptySeq
<1>5. TypeOK'
  BY <1>1, <1>2, <1>3, <1>4 DEF TypeOK, Return, Answer
<1>6. ProcessFits' /\ CallFits' /\ TerminalIsContent' /\ RepliesKept'
  BY <1>1, <1>2 DEF ProcessFits, CallFits, TerminalIsContent, RepliesKept
<1> QED
  BY <1>3, <1>5, <1>6 DEF ScreenInv

LEMMA LaunchKeeps ==
  ASSUME ScreenInv, Launch
  PROVE  ScreenInv' /\ AbstractStep
<1>1. CASE Fail
  BY <1>1, FailKeeps DEF Launch
<1>2. CASE /\ process' = TRUE /\ todo' = LiveScreens
           /\ UNCHANGED <<screens, terminal, retry, call, answer, answered>>
  <2>1. call.phase = "trying" /\ ~retry
    BY DEF Launch, Trying, ScreenInv, CallFits
  <2>2. AllWell' /\ UNCHANGED Views
    BY <1>2 DEF ScreenInv, AllWell, Views
  <2>3. LiveScreens' = LiveScreens /\ LiveScreens \in SUBSET Ids
    BY <1>2 DEF LiveScreens
  <2>4. TypeOK'
    BY <1>2, <2>3 DEF ScreenInv, TypeOK
  <2>5. ProcessFits' /\ CallFits' /\ TerminalIsContent' /\ RepliesKept'
    BY <1>2, <2>1, <2>3 DEF ScreenInv, ProcessFits, CallFits, TerminalIsContent, RepliesKept
  <2> QED
    BY <1>2, <2>2, <2>4, <2>5, Silent DEF ScreenInv
<1> QED
  BY <1>1, <1>2 DEF Launch

LEMMA GiveUpKeeps ==
  ASSUME ScreenInv, GiveUp
  PROVE  ScreenInv' /\ AbstractStep
<1>1. /\ todo = {} /\ screens[call.id].state = "lost" /\ call.id \in Ids
      /\ call' = Idle /\ Return("lost")
      /\ UNCHANGED <<screens, process, terminal, todo, retry, answered>>
  BY DEF GiveUp, Recovered, Trying, ScreenInv, CallFits
<1>2. << >> \in Seq(Ops)
  BY EmptySeq
<1>3. TypeOK'
  BY <1>1, <1>2 DEF ScreenInv, TypeOK, Return, Answer, Idle, Call
<1>4. AllWell' /\ UNCHANGED Views
  BY <1>1 DEF ScreenInv, AllWell, Views
<1>5. ProcessFits' /\ CallFits' /\ TerminalIsContent' /\ RepliesKept'
  BY <1>1 DEF ScreenInv, ProcessFits, CallFits, TerminalIsContent, RepliesKept, LiveScreens, Idle
<1>6. AbstractStep
  BY <1>1, <1>4, FoundLost
<1> QED
  BY <1>3, <1>4, <1>5, <1>6 DEF ScreenInv

LEMMA RestoreKeeps ==
  ASSUME ScreenInv, NEW s \in Ids, Restore(s)
  PROVE  ScreenInv' /\ AbstractStep
<1>1. CASE Fail
  BY <1>1, FailKeeps DEF Restore
<1> DEFINE scr == screens[s]
<1>2. /\ call.phase = "trying" /\ process /\ s \in todo /\ TypeOK /\ AllWell /\ Well(scr)
      /\ scr.state = "live" /\ ProcessFits /\ CallFits /\ TerminalIsContent /\ RepliesKept
  BY DEF Restore, Trying, ScreenInv, ProcessFits, LiveScreens, AllWell
<1>3. CASE /\ todo' = todo \ {s}
           /\ terminal' = [terminal EXCEPT ![s] = [open |-> TRUE, content |-> Content(scr)]]
           /\ screens' = [screens EXCEPT ![s].replies = PendingQueries(scr)]
           /\ UNCHANGED <<process, retry, call, answer, answered>>
  <2> DEFINE new == [scr EXCEPT !.replies = PendingQueries(scr)]
  <2>1. PendingQueries(scr) \in Nat /\ Content(scr) \in Seq(Ops)
    BY <1>2, TailTypes DEF Well
  <2>2. /\ Well(new) /\ new.replies = PendingQueries(scr) /\ new.state = scr.state
        /\ Content(new) = Content(scr) /\ PendingQueries(new) = PendingQueries(scr)
    BY <1>2, <2>1, Replayed
  <2>3. screens' = [screens EXCEPT ![s] = new]
    BY <1>3
  <2> HIDE DEF new
  <2>4. /\ screens' \in [Ids -> Screen] /\ AllWell'
        /\ screens'[s] = new /\ \A t \in Ids \ {s} : screens'[t] = screens[t]
    BY <1>2, <2>2, <2>3, OneScreen
  <2>5. UNCHANGED Views
    <3>1. Views[s] = View(scr) /\ Views' = [Views EXCEPT ![s] = View(new)]
      BY <1>2, <2>3, Viewed
    <3>2. View(new) = View(scr)
      BY <2>2 DEF View
    <3> QED
      BY <3>1, <3>2 DEF Views
  <2>6. TypeOK'
    BY <1>2, <1>3, <2>1, <2>4 DEF TypeOK, Terminal
  <2>7. LiveScreens' = LiveScreens
    BY <2>2, <2>4 DEF LiveScreens
  <2>8. ProcessFits'
    BY <1>2, <1>3, <2>7 DEF ProcessFits
  <2>9. CallFits'
    BY <1>2, <1>3, <2>2, <2>4 DEF CallFits
  <2>10. /\ terminal'[s] = [open |-> TRUE, content |-> Content(scr)]
         /\ \A t \in Ids \ {s} : terminal'[t] = terminal[t]
    BY <1>2, <1>3 DEF TypeOK
  <2>11. TerminalIsContent' /\ RepliesKept'
    <3> SUFFICES ASSUME NEW t \in LiveScreens' \ todo'
                 PROVE  /\ terminal'[t].open /\ terminal'[t].content = Content(screens'[t])
                        /\ screens'[t].replies = PendingQueries(screens'[t])
      BY DEF TerminalIsContent, RepliesKept
    <3>1. t \in Ids /\ t \in LiveScreens
      BY <2>7 DEF LiveScreens
    <3>2. CASE t = s
      BY <2>2, <2>4, <2>10, <3>2
    <3>3. CASE t # s
      <4>1. t \in LiveScreens \ todo
        BY <1>3, <3>1, <3>3
      <4> QED
        BY <1>2, <2>4, <2>10, <3>1, <3>3, <4>1 DEF TerminalIsContent, RepliesKept
    <3> QED
      BY <3>2, <3>3
  <2> QED
    BY <1>3, <2>4, <2>5, <2>6, <2>8, <2>9, <2>11, Silent DEF ScreenInv
<1>4. CASE /\ todo' = todo \ {s} /\ screens' = [screens EXCEPT ![s] = Invalidate(@)]
           /\ UNCHANGED <<terminal, process, retry, call, answer, answered>>
  <2> DEFINE new == Invalidate(scr)
  <2>1. Well(new) /\ new.state = "lost" /\ View(new) = Promise!LostScreen
    BY Fresh, LostView
  <2>2. screens' = [screens EXCEPT ![s] = new]
    BY <1>4
  <2> HIDE DEF new
  <2>3. /\ screens' \in [Ids -> Screen] /\ AllWell'
        /\ screens'[s] = new /\ \A t \in Ids \ {s} : screens'[t] = screens[t]
    BY <1>2, <2>1, <2>2, OneScreen
  <2>4. AbstractStep
    <3>1. Views[s] = View(scr) /\ Views' = [Views EXCEPT ![s] = View(new)]
      BY <1>2, <2>2, Viewed
    <3>2. Views[s].state = "live"
      BY <1>2, <3>1 DEF View
    <3> QED
      BY <1>4, <2>1, <3>1, <3>2, ScreenSteps
  <2>5. LiveScreens' = LiveScreens \ {s}
    BY <2>1, <2>3 DEF LiveScreens
  <2>6. TypeOK'
    BY <1>2, <1>4, <2>3 DEF TypeOK
  <2>7. ProcessFits'
    BY <1>2, <1>4, <2>5 DEF ProcessFits
  <2>8. CallFits'
    BY <1>2, <1>4, <2>1, <2>3 DEF CallFits
  <2>9. TerminalIsContent' /\ RepliesKept'
    <3> SUFFICES ASSUME NEW t \in LiveScreens' \ todo'
                 PROVE  /\ terminal[t].open /\ terminal[t].content = Content(screens'[t])
                        /\ screens'[t].replies = PendingQueries(screens'[t])
      BY <1>4 DEF TerminalIsContent, RepliesKept
    <3>1. t \in Ids \ {s} /\ t \in LiveScreens \ todo
      BY <1>4, <2>5 DEF LiveScreens
    <3> QED
      BY <1>2, <2>3, <3>1 DEF TerminalIsContent, RepliesKept
  <2> QED
    BY <2>3, <2>4, <2>6, <2>7, <2>8, <2>9 DEF ScreenInv
<1> QED
  BY <1>1, <1>3, <1>4 DEF Restore

\* What a call does to its screen, to the terminal and to what is answered.
Effect(s, op, new) ==
  LET scr == screens[s]
      n == IF op \in {"create", "resize"} THEN 0 ELSE Record(scr, op, TRUE).replies + Own(op)
  IN  /\ new = Acknowledged(scr, op)
      /\ screens' = [screens EXCEPT ![s] = new]
      /\ terminal' = [terminal EXCEPT ![s] = Performed(@, op)]
      /\ answer' = [result |-> "ok", replies |-> n,
                    data |-> IF op = "snapshot" THEN terminal[s].content ELSE << >>]
      /\ answered' = [answered EXCEPT ![s] = IF op = "create" THEN 0 ELSE @ + n]

\* What is claimed of the screen afterwards, and of the answer.
Followed(s, new) ==
  /\ Well(new)
  /\ new.state = "live" => /\ Performed(terminal[s], call.op).open
                           /\ Performed(terminal[s], call.op).content = Content(new)
                           /\ new.replies = PendingQueries(new)
  /\ Performed(terminal[s], call.op) \in Terminal
  /\ answer' \in Answer /\ answered' \in [Ids -> Nat]
  /\ AbstractStep

LEMMA CreateFollows ==
  ASSUME ScreenInv, NEW s \in Ids, call.op = "create", NEW new, screens[s].state = "absent",
         Effect(s, "create", new)
  PROVE  Followed(s, new)
<1>1. /\ new = NewScreen
      /\ screens' = [screens EXCEPT ![s] = new]
      /\ answer' = [result |-> "ok", replies |-> 0, data |-> << >>]
      /\ answered' = [answered EXCEPT ![s] = 0]
  BY DEF Effect, Acknowledged
<1>2. /\ Well(new) /\ Content(new) = << >> /\ PendingQueries(new) = 0 /\ << >> \in Seq(Ops)
      /\ new.replies = 0 /\ View(new) = Promise!NewScreen
  BY <1>1, Fresh, EmptySeq, LostView DEF NewScreen, NoScreen
<1>3. Performed(terminal[s], call.op) = [open |-> TRUE, content |-> << >>]
  BY DEF Performed
<1>4. Views[s] = View(screens[s]) /\ Views' = [Views EXCEPT ![s] = View(new)]
  BY <1>1, Viewed DEF ScreenInv
<1>5. AbstractStep
  <2>1. Views[s].state = "absent" /\ Return("ok")
    BY <1>1, <1>4 DEF View, Return
  <2> QED
    BY <1>1, <1>2, <1>4, <2>1, ScreenSteps
<1>6. answer' \in Answer /\ answered' \in [Ids -> Nat]
  BY <1>1, <1>2 DEF Answer, ScreenInv, TypeOK
<1>7. Performed(terminal[s], call.op) \in Terminal
  <2>1. [open |-> TRUE, content |-> << >>] \in Terminal
    BY <1>2 DEF Terminal
  <2> QED
    BY <1>3, <2>1
<1> QED
  BY <1>2, <1>3, <1>5, <1>6, <1>7 DEF Followed

LEMMA SnapshotFollows ==
  ASSUME ScreenInv, NEW s \in Ids, call.op = "snapshot", NEW new, screens[s].state = "live",
         process, todo = {}, Effect(s, "snapshot", new)
  PROVE  Followed(s, new)
<1> DEFINE scr == screens[s]
<1>1. /\ Well(scr) /\ scr.state = "live" /\ s \in LiveScreens \ todo /\ scr.replies = PendingQueries(scr)
      /\ terminal[s] \in Terminal /\ terminal[s].open /\ terminal[s].content = Content(scr)
      /\ PendingQueries(scr) \in Nat /\ Content(scr) \in Seq(Ops)
  BY TailTypes DEF ScreenInv, AllWell, TypeOK, TerminalIsContent, RepliesKept, LiveScreens, Well
<1>2. Record(scr, "snapshot", TRUE) = scr
  BY Ways DEF Record
<1>3. /\ new = Complete(scr) /\ screens' = [screens EXCEPT ![s] = new]
      /\ answer' = [result |-> "ok", replies |-> scr.replies, data |-> terminal[s].content]
      /\ answered' = [answered EXCEPT ![s] = @ + scr.replies]
  <2>1. Record(scr, "snapshot", TRUE).replies + Own("snapshot") = scr.replies
    <3>1. Own("snapshot") = 0 /\ scr.replies + 0 = scr.replies
      BY <1>1 DEF Own
    <3> QED
      BY <1>2, <3>1
  <2>2. Acknowledged(scr, "snapshot") = Complete(scr)
    BY <1>2 DEF Acknowledged
  <2> QED
    BY <2>1, <2>2 DEF Effect
<1>4. Performed(terminal[s], call.op) = terminal[s]
  BY DEF Performed
<1>5. Views[s] = View(scr) /\ Views' = [Views EXCEPT ![s] = View(new)]
  BY <1>3, Viewed DEF ScreenInv
<1> HIDE DEF scr
<1>6. /\ Well(new) /\ new.state = scr.state /\ new.replies = 0
      /\ Content(new) = Content(scr) /\ PendingQueries(new) = 0
  BY <1>1, <1>3, Completed
<1>7. AbstractStep
  <2>1. View(new) = [View(scr) EXCEPT !.owed = PendingQueries(new)]
    <3> HIDE DEF Well
    <3> QED
      BY <1>1, <1>6, Seen, Zenon
  <2>2. View(new) = [Views[s] EXCEPT !.owed = 0]
    BY <1>5, <1>6, <2>1
  <2>3. Views[s].state = "live" /\ Views[s].content = Content(scr) /\ Views[s].owed = scr.replies
    BY <1>1, <1>5 DEF View
  <2>4. answer' = [result |-> "ok", data |-> Content(scr), replies |-> scr.replies]
    BY <1>1, <1>3
  <2>5. "text" \in Promise!Ops
    BY DEF Promise!Ops, Promise!Writes
  <2> QED
    BY <1>3, <1>5, <2>2, <2>3, <2>4, <2>5, ReplySteps
<1>8. answer' \in Answer /\ answered' \in [Ids -> Nat]
  BY <1>1, <1>3 DEF Answer, ScreenInv, TypeOK
<1> QED
  BY <1>1, <1>4, <1>6, <1>7, <1>8 DEF Followed

LEMMA ResizeFollows ==
  ASSUME ScreenInv, NEW s \in Ids, call.op = "resize", NEW new, screens[s].state = "live",
         process, todo = {}, Effect(s, "resize", new)
  PROVE  Followed(s, new)
<1> DEFINE scr == screens[s]
           t == terminal[s]
<1>1. /\ Well(scr) /\ scr.state = "live" /\ s \in LiveScreens \ todo /\ scr.replies = PendingQueries(scr)
      /\ t \in Terminal /\ t.open /\ t.content = Content(scr)
      /\ PendingQueries(scr) \in Nat /\ Content(scr) \in Seq(Ops)
  BY TailTypes DEF ScreenInv, AllWell, TypeOK, TerminalIsContent, RepliesKept, LiveScreens, Well
<1>2. /\ new = Record(scr, "resize", TRUE) /\ screens' = [screens EXCEPT ![s] = new]
      /\ answer' = [result |-> "ok", replies |-> 0, data |-> << >>]
      /\ answered' = [answered EXCEPT ![s] = @ + 0]
  BY DEF Effect, Acknowledged
<1>3. Performed(t, call.op) = [t EXCEPT !.content = Append(@, "resize")] /\ "resize" \in Ops /\ "resize" \in Requests
  BY DEF Performed, Ops, Requests
<1>4. Views[s] = View(scr) /\ Views' = [Views EXCEPT ![s] = View(new)]
  BY <1>2, Viewed DEF ScreenInv
<1>5. /\ Performed(t, call.op) \in Terminal /\ Performed(t, call.op).open
      /\ Performed(t, call.op).content = Append(Content(scr), "resize")
  <2>1. Append(Content(scr), "resize") \in Seq(Ops)
    BY <1>1, <1>3, AppendProperties
  <2> QED
    BY <1>1, <1>3, <2>1 DEF Terminal
<1>6. answer' \in Answer /\ UNCHANGED answered /\ answered' \in [Ids -> Nat] /\ Return("ok")
  <2>1. << >> \in Seq(Ops)
    BY EmptySeq
  <2> QED
    BY <1>2, <2>1 DEF Answer, ScreenInv, TypeOK, Return
<1> HIDE DEF scr, t
<1>7. /\ Well(new)
      /\ \/ Overflows(scr, "resize", TRUE, new)
         \/ Joins(scr, "resize", TRUE, new)
  <2>1. ~Leaves(scr, "resize", TRUE)
    BY <1>1, <1>3 DEF Leaves
  <2> QED
    BY <1>1, <1>2, <1>3, <2>1, Recorded
<1>8. CASE Overflows(scr, "resize", TRUE, new)
  <2>1. new = Invalidate(scr) /\ new.state = "lost" /\ View(new) = Promise!LostScreen
    BY <1>8, Fresh, LostView DEF Overflows
  <2>2. AbstractStep
    <3>1. Views[s].state = "live" /\ "resize" \in Promise!Ops /\ Own("resize") = 0
      BY <1>1, <1>4 DEF View, Promise!Ops, Own
    <3>2. PICK n \in Nat : n = 0
      OBVIOUS
    <3> QED
      BY <1>2, <1>4, <2>1, <3>1, <3>2, ReplySteps
  <2> QED
    BY <1>5, <1>6, <1>7, <2>1, <2>2 DEF Followed, t
<1>9. CASE Joins(scr, "resize", TRUE, new)
  <2>1. /\ new.state = "live" /\ new.replies = scr.replies
        /\ Content(new) = Append(Content(scr), "resize") /\ PendingQueries(new) = PendingQueries(scr)
    BY <1>1, <1>9 DEF Joins
  <2>2. AbstractStep
    <3>1. View(new) = [View(scr) EXCEPT !.content = Append(@, "resize")]
      <4> HIDE DEF Well
      <4>1. \A o \in Ops : Content(new) = Append(Content(scr), o) /\ PendingQueries(new) = PendingQueries(scr) =>
              View(new) = [View(scr) EXCEPT !.content = Append(@, o)]
        <5>1. new.state = scr.state
          BY <1>1, <2>1
        <5>2. \A o \in Ops : Content(new) = Append(Content(scr), o) =>
                View(new) = [View(scr) EXCEPT !.content = Append(@, o)]
          BY <1>1, <1>7, <2>1, <5>1, SeenLonger, Zenon
        <5> QED
          BY <5>2
      <4> QED
        BY <1>3, <2>1, <4>1
    <3>2. Views[s].state = "live"
      BY <1>1, <1>4 DEF View
    <3> QED
      BY <1>4, <1>6, <3>1, <3>2, ScreenSteps
  <2> QED
    BY <1>1, <1>5, <1>6, <1>7, <2>1, <2>2 DEF Followed, t
<1> QED
  BY <1>7, <1>8, <1>9

LEMMA WriteFollows ==
  ASSUME ScreenInv, NEW s \in Ids, NEW op \in Outputs, call.op = op, NEW new, screens[s].state = "live",
         process, todo = {}, Effect(s, op, new)
  PROVE  Followed(s, new)
<1> DEFINE scr == screens[s]
           t == terminal[s]
           rec == Record(scr, op, TRUE)
           n == rec.replies + Own(op)
<1>1. /\ Well(scr) /\ scr.state = "live" /\ s \in LiveScreens \ todo /\ scr.replies = PendingQueries(scr)
      /\ t \in Terminal /\ t.open /\ t.content = Content(scr)
      /\ PendingQueries(scr) \in Nat /\ Content(scr) \in Seq(Ops)
  BY TailTypes DEF ScreenInv, AllWell, TypeOK, TerminalIsContent, RepliesKept, LiveScreens, Well
<1>2. op \in Ops /\ op \in Requests /\ op \in {"text", "query"} /\ op \in Promise!Writes /\ op \in Promise!Ops
  BY OutputsAssumption, Ways DEF Ops, Requests
<1>3. /\ new = Complete(rec) /\ screens' = [screens EXCEPT ![s] = new]
      /\ answer' = [result |-> "ok", data |-> << >>, replies |-> n]
      /\ answered' = [answered EXCEPT ![s] = @ + n]
  BY <1>2 DEF Effect, Acknowledged
<1>4. Performed(t, call.op) = [t EXCEPT !.content = Append(@, op)]
  BY <1>2 DEF Performed
<1>5. Views[s] = View(scr) /\ Views' = [Views EXCEPT ![s] = View(new)] /\ Views[s].state = "live"
  <2>1. Views[s] = View(scr) /\ Views' = [Views EXCEPT ![s] = View(new)]
    BY <1>3, Viewed DEF ScreenInv
  <2> QED
    BY <1>1, <2>1 DEF View
<1>6. /\ Performed(t, call.op) \in Terminal /\ Performed(t, call.op).open
      /\ Performed(t, call.op).content = Append(Content(scr), op)
  <2>1. Append(Content(scr), op) \in Seq(Ops)
    BY <1>1, <1>2, AppendProperties
  <2> QED
    BY <1>1, <1>4, <2>1 DEF Terminal
<1>7. /\ Well(rec)
      /\ \/ Overflows(scr, op, TRUE, rec)
         \/ Joins(scr, op, TRUE, rec)
  <2>1. ~Leaves(scr, op, TRUE)
    BY <1>1, <1>2 DEF Leaves
  <2> HIDE DEF scr
  <2> QED
    BY <1>1, <1>2, <2>1, Recorded
<1> HIDE DEF scr, t, rec
<1>8. /\ Well(new) /\ new.state = rec.state /\ new.replies = 0
      /\ Content(new) = Content(rec) /\ PendingQueries(new) = 0
  BY <1>3, <1>7, Completed
<1>9. answer' \in Answer /\ answered' \in [Ids -> Nat]
  <2>1. << >> \in Seq(Ops)
    BY EmptySeq
  <2>2. rec.replies \in Nat /\ n \in Nat
    BY <1>7 DEF Well, Screen, Own
  <2> QED
    BY <1>3, <2>1, <2>2 DEF Answer, ScreenInv, TypeOK
<1>10. CASE Overflows(scr, op, TRUE, rec)
  <2>1. rec = Invalidate(scr) /\ rec.state = "lost" /\ rec.replies = 0 /\ n = Own(op)
    BY <1>10, Fresh DEF Overflows, Own
  <2>2. View(new) = Promise!LostScreen
    <3>1. /\ View(new).state = View(rec).state
      BY <1>8 DEF View
    <3>2. Content(rec) = << >> /\ PendingQueries(rec) = 0
      BY <1>7, <2>1, Bare DEF Well
    <3> QED
      BY <1>8, <2>1, <3>2 DEF View, Promise!LostScreen, Promise!NoScreen
  <2>3. AbstractStep
    <3> HIDE DEF n
    <3> QED
      BY <1>2, <1>3, <1>5, <2>1, <2>2, ReplySteps
  <2> QED
    BY <1>6, <1>8, <1>9, <2>1, <2>3 DEF Followed, t
<1>11. CASE Joins(scr, op, TRUE, rec)
  <2>1. /\ rec.state = "live" /\ rec.replies = scr.replies /\ Content(new) = Append(Content(scr), op)
        /\ new.state = "live" /\ n = PendingQueries(scr) + Own(op)
    BY <1>1, <1>8, <1>11 DEF Joins
  <2>2. AbstractStep
    <3>1. View(new) = [View(scr) EXCEPT !.content = Append(@, op), !.owed = PendingQueries(new)]
      <4> HIDE DEF Well
      <4>1. \A o \in Ops : Content(new) = Append(Content(scr), o) =>
              View(new) = [View(scr) EXCEPT !.content = Append(@, o), !.owed = PendingQueries(new)]
        <5>1. new.state = scr.state
          BY <1>1, <2>1
        <5> QED
          BY <1>1, <1>8, <5>1, Seen, Zenon
      <4> QED
        BY <1>2, <2>1, <4>1
    <3>2. View(new) = [Views[s] EXCEPT !.content = Append(@, op), !.owed = 0]
      BY <1>5, <1>8, <3>1
    <3>3. n = Views[s].owed + Own(op)
      BY <1>5, <2>1 DEF View
    <3> HIDE DEF n
    <3> QED
      BY <1>2, <1>3, <1>5, <3>2, <3>3, ReplySteps
  <2> QED
    BY <1>6, <1>8, <1>9, <2>1, <2>2 DEF Followed, t
<1> QED
  BY <1>7, <1>10, <1>11

LEMMA PerformKeeps ==
  ASSUME ScreenInv, Perform
  PROVE  ScreenInv' /\ AbstractStep
<1> DEFINE s == call.id
           op == call.op
           new == Acknowledged(screens[s], op)
<1>1. CASE Fail
  BY <1>1, FailKeeps DEF Perform
<1>2. CASE ~Fail
  <2>1. /\ call.phase = "trying" /\ process /\ todo = {} /\ screens[s].state # "lost"
        /\ screens' = [screens EXCEPT ![s] = new]
        /\ terminal' = [terminal EXCEPT ![s] = Performed(@, op)]
        /\ call' = IF NeedsCheckpoint(screens'[s]) THEN [call EXCEPT !.phase = "checkpoint"] ELSE Idle
        /\ UNCHANGED <<process, todo, retry>>
        /\ Effect(s, op, new)
    BY <1>2 DEF Perform, Recovered, Trying, Effect
  <2>2. /\ s \in Ids /\ op \in Requests /\ TypeOK /\ AllWell /\ ProcessFits /\ ~retry
        /\ TerminalIsContent /\ RepliesKept
        /\ IF op = "create" THEN screens[s].state = "absent" ELSE screens[s].state = "live"
    BY <2>1 DEF ScreenInv, CallFits
  <2> HIDE DEF new
  <2>3. Followed(s, new)
    <3>1. PICK i \in Ids : i = s
      BY <2>2
    <3>2. CASE op = "create"
      BY <2>1, <2>2, <3>1, <3>2, CreateFollows
    <3>3. CASE op = "snapshot"
      BY <2>1, <2>2, <3>1, <3>3, SnapshotFollows
    <3>4. CASE op = "resize"
      BY <2>1, <2>2, <3>1, <3>4, ResizeFollows
    <3>5. CASE op \in Outputs
      <4>1. op # "create"
        BY <3>5, OutputsAssumption
      <4>2. PICK o \in Outputs : o = op
        BY <3>5
      <4> QED
        BY <2>1, <2>2, <3>1, <4>1, <4>2, WriteFollows
    <3> QED
      BY <2>2, <3>2, <3>3, <3>4, <3>5 DEF Requests, Ops
  <2> DEFINE t == Performed(terminal[s], op)
  <2>4. /\ Well(new) /\ t \in Terminal /\ answer' \in Answer /\ answered' \in [Ids -> Nat] /\ AbstractStep
        /\ new.state = "live" => t.open /\ t.content = Content(new) /\ new.replies = PendingQueries(new)
    BY <2>3 DEF Followed
  <2>5. /\ screens' \in [Ids -> Screen] /\ AllWell'
        /\ screens'[s] = new /\ \A i \in Ids \ {s} : screens'[i] = screens[i]
    BY <2>1, <2>2, <2>4, OneScreen
  <2>6. terminal'[s] = t /\ \A i \in Ids \ {s} : terminal'[i] = terminal[i]
    BY <2>1, <2>2 DEF TypeOK
  <2>7. terminal' \in [Ids -> Terminal]
    <3> HIDE DEF t
    <3>1. terminal' = [terminal EXCEPT ![s] = t]
      BY <2>1 DEF t
    <3> QED
      BY <2>2, <2>4, <3>1 DEF TypeOK
  <2> HIDE DEF t
  <2>8. ASSUME NeedsCheckpoint(new) PROVE CallFits' /\ TypeOK'
    <3>1. call' = [call EXCEPT !.phase = "checkpoint"] /\ new.state = "live" /\ PendingQueries(new) = 0
      BY <2>1, <2>5, <2>8, NothingPending
    <3>2. call' \in Call /\ call'.phase = "checkpoint" /\ call'.id = s /\ call'.op = op
      BY <2>2, <3>1 DEF TypeOK, Call
    <3>3. CallFits'
      BY <2>1, <2>2, <2>5, <3>1, <3>2 DEF CallFits
    <3>4. TypeOK'
      BY <2>1, <2>2, <2>4, <2>5, <2>7, <3>2 DEF TypeOK
    <3> QED
      BY <3>3, <3>4
  <2>9. ASSUME ~NeedsCheckpoint(new) PROVE CallFits' /\ TypeOK'
    <3>1. call' = Idle
      BY <2>1, <2>5, <2>9
    <3>2. CallFits' /\ call' \in Call
      BY <2>1, <3>1 DEF CallFits, Idle, Call
    <3>3. TypeOK'
      BY <2>1, <2>2, <2>4, <2>5, <2>7, <3>2 DEF TypeOK
    <3> QED
      BY <3>2, <3>3
  <2>10. CallFits' /\ TypeOK'
    BY <2>8, <2>9
  <2>11. ProcessFits'
    BY <2>1, <2>2 DEF ProcessFits, LiveScreens
  <2>12. TerminalIsContent' /\ RepliesKept'
    <3> SUFFICES ASSUME NEW i \in LiveScreens'
                 PROVE  /\ terminal'[i].open /\ terminal'[i].content = Content(screens'[i])
                        /\ screens'[i].replies = PendingQueries(screens'[i])
      BY DEF TerminalIsContent, RepliesKept
    <3>1. i \in Ids /\ screens'[i].state = "live"
      BY DEF LiveScreens
    <3>2. CASE i = s
      BY <2>4, <2>5, <2>6, <3>1, <3>2
    <3>3. CASE i # s
      <4>1. i \in LiveScreens \ todo
        BY <2>1, <2>5, <3>1, <3>3 DEF LiveScreens
      <4> QED
        BY <2>1, <2>2, <2>5, <2>6, <3>1, <3>3, <4>1 DEF TerminalIsContent, RepliesKept
    <3> QED
      BY <3>2, <3>3
  <2> QED
    BY <2>4, <2>5, <2>10, <2>11, <2>12 DEF ScreenInv
<1> QED
  BY <1>1, <1>2

LEMMA TakeCheckpointKeeps ==
  ASSUME ScreenInv, TakeCheckpoint
  PROVE  ScreenInv' /\ AbstractStep
<1> DEFINE s == call.id
           scr == screens[s]
<1>1. /\ s \in Ids /\ process /\ todo = {} /\ ~retry /\ scr.state = "live" /\ PendingQueries(scr) = 0
      /\ TypeOK /\ AllWell /\ ProcessFits /\ TerminalIsContent /\ RepliesKept /\ Well(scr)
      /\ call' = Idle /\ UNCHANGED <<retry, answer, answered>>
  BY DEF TakeCheckpoint, ScreenInv, CallFits, AllWell
<1>2. call' \in Call
  BY <1>1 DEF Idle, Call
<1>3. CASE /\ screens' = [screens EXCEPT ![s] = Checkpoint(@, terminal[s].content)]
           /\ UNCHANGED <<process, terminal, todo>>
  <2> DEFINE new == Checkpoint(scr, Content(scr))
  <2>1. s \in LiveScreens \ todo
    BY <1>1 DEF LiveScreens
  <2>2. screens' = [screens EXCEPT ![s] = new] /\ terminal[s].open /\ terminal[s].content = Content(scr)
        /\ scr.replies = PendingQueries(scr)
    BY <1>1, <1>3, <2>1 DEF TerminalIsContent, RepliesKept
  <2>3. /\ Well(new) /\ new.state = "live" /\ new.replies = scr.replies
        /\ Content(new) = Content(scr) /\ PendingQueries(new) = 0
    BY <1>1, Checkpointed
  <2> HIDE DEF new
  <2>4. /\ screens' \in [Ids -> Screen] /\ AllWell'
        /\ screens'[s] = new /\ \A i \in Ids \ {s} : screens'[i] = screens[i]
    BY <1>1, <2>2, <2>3, OneScreen
  <2>5. UNCHANGED Views
    <3>1. Views[s] = View(scr) /\ Views' = [Views EXCEPT ![s] = View(new)]
      BY <1>1, <2>2, Viewed
    <3>2. View(new) = View(scr)
      BY <1>1, <2>3 DEF View
    <3> QED
      BY <3>1, <3>2 DEF Views
  <2>6. TypeOK'
    BY <1>1, <1>2, <1>3, <2>4 DEF TypeOK
  <2>7. LiveScreens' = LiveScreens
    BY <1>1, <2>3, <2>4 DEF LiveScreens
  <2>8. ProcessFits' /\ CallFits'
    BY <1>1, <1>3 DEF ProcessFits, CallFits, LiveScreens, Idle
  <2>9. TerminalIsContent' /\ RepliesKept'
    <3> SUFFICES ASSUME NEW i \in LiveScreens
                 PROVE  /\ terminal[i].open /\ terminal[i].content = Content(screens'[i])
                        /\ screens'[i].replies = PendingQueries(screens'[i])
      BY <1>3, <2>7 DEF TerminalIsContent, RepliesKept
    <3>1. i \in Ids /\ i \in LiveScreens \ todo
      BY <1>1 DEF LiveScreens
    <3>2. CASE i = s
      BY <1>1, <2>2, <2>3, <2>4, <3>2
    <3>3. CASE i # s
      BY <1>1, <2>4, <3>1, <3>3 DEF TerminalIsContent, RepliesKept
    <3> QED
      BY <3>2, <3>3
  <2> QED
    BY <1>1, <2>4, <2>5, <2>6, <2>8, <2>9, Silent DEF ScreenInv
<1>4. CASE Discard /\ UNCHANGED screens
  <2>1. /\ process' = FALSE /\ todo' = {} /\ terminal' \in [Ids -> Terminal]
        /\ ProcessFits' /\ TerminalIsContent' /\ RepliesKept'
    BY <1>4, Gone
  <2>2. TypeOK' /\ AllWell' /\ UNCHANGED Views
    BY <1>1, <1>2, <1>4, <2>1 DEF TypeOK, AllWell, Views
  <2>3. CallFits'
    BY <1>1, <2>1 DEF CallFits, Idle
  <2> QED
    BY <1>1, <2>1, <2>2, <2>3, Silent DEF ScreenInv
<1> QED
  BY <1>3, <1>4 DEF TakeCheckpoint

LEMMA StepKeeps == ScreenInv /\ [Next]_vars => ScreenInv' /\ AbstractStep
<1> SUFFICES ASSUME ScreenInv, [Next]_vars
             PROVE  ScreenInv' /\ AbstractStep
  OBVIOUS
<1>1. CASE UNCHANGED vars
  <2>1. TypeOK' /\ AllWell' /\ ProcessFits' /\ CallFits' /\ TerminalIsContent' /\ RepliesKept'
    BY <1>1 DEF vars, ScreenInv, TypeOK, AllWell, ProcessFits, CallFits, TerminalIsContent, RepliesKept,
       LiveScreens
  <2>2. UNCHANGED <<Views, answer, answered>>
    BY <1>1 DEF vars, Views
  <2> QED
    BY <2>1, <2>2, Silent DEF ScreenInv
<1>2. ASSUME NEW s \in Ids, Destroy(s) PROVE ScreenInv' /\ AbstractStep
  BY <1>2, DestroyKeeps
<1>3. ASSUME NEW s \in Ids, NEW op \in Requests, Refuse(s, op) \/ Try(s, op) \/ Postpone(s, op)
      PROVE  ScreenInv' /\ AbstractStep
  BY <1>3, RefuseKeeps, TryKeeps, PostponeKeeps
<1>4. CASE Attempt
  BY <1>4, LaunchKeeps, RestoreKeeps, GiveUpKeeps, PerformKeeps DEF Attempt
<1>5. CASE TakeCheckpoint
  BY <1>5, TakeCheckpointKeeps
<1> QED
  BY <1>1, <1>2, <1>3, <1>4, <1>5 DEF Next

\* The inductive invariant of the screens (screen_worker.rs, call): what a
\* process holds and is still to be given is what the server kept, through
\* every failure, restart and half-restored process.
THEOREM ScreenInvariant == Spec => []ScreenInv
<1>1. ScreenInv /\ [Next]_vars => ScreenInv'
  BY StepKeeps
<1> QED
  BY InitScreen, <1>1, PTL DEF Spec

\* Every state of the screens is well typed: no screen keeps more operations
\* than call lets in.
THEOREM ScreenTypeCorrect == Spec => []TypeOK
<1>1. ScreenInv => TypeOK
  BY DEF ScreenInv
<1> QED
  BY ScreenInvariant, <1>1, PTL

\* A restored terminal holds exactly what the server would rebuild it from
\* (recovery.rs): nothing is missing from it and nothing was replayed twice.
THEOREM TerminalsHoldContent == Spec => []TerminalIsContent
<1>1. ScreenInv => TerminalIsContent
  BY DEF ScreenInv
<1> QED
  BY ScreenInvariant, <1>1, PTL

\* The screens over a process that may die in every exchange implement the
\* screens their callers rely on (RecoverableScreens): output is accepted once,
\* its replies are handed back at most once, a snapshot is whole or refused, and
\* a lost screen stays lost.  The mapping reads a screen as checkpoint and tail.
THEOREM ScreensRecover == Spec => Recoverable
<1>1. Init => Promise!Init
  <2> SUFFICES ASSUME Init PROVE Promise!Init
    OBVIOUS
  <2>1. Views = [s \in Ids |-> Promise!NoScreen]
    <3>1. Views = [s \in Ids |-> View(NoScreen)]
      BY DEF Init, Views, View
    <3> QED
      BY <3>1, LostView
  <2> QED
    BY <2>1 DEF Views, Init, Promise!Init, Promise!Only
<1>2. ScreenInv /\ [Next]_vars => [Promise!Next]_(Promise!vars)
  BY StepKeeps DEF AbstractStep
<1>3. Spec => Promise!Init /\ [][Promise!Next]_(Promise!vars)
  BY ScreenInvariant, <1>1, <1>2, PTL DEF Spec
<1> QED
  BY <1>3 DEF Recoverable, Promise!Spec

-----------------------------------------------------------------------------
(* The feed of a repository.                                               *)

\* What was published for a feed, and what is about to be, was the
\* repository's content at some time.
FromDisk ==
  /\ \A o \in Owners : feed[o].newest <= disk /\ worker[o].got <= disk
  /\ \A m \in Operations : operation[m].got <= disk

\* A sample whose feed has not moved on is as new as what the feed has shown.
SampleIsNewest(o) ==
  /\ worker[o].phase \in {"sampling", "read"} => worker[o].expected <= feed[o].revision
  /\ worker[o].phase = "read" /\ worker[o].expected = feed[o].revision
       => worker[o].got = Failed \/ worker[o].got >= feed[o].newest

\* Who is at the workbench, and whose permits the sockets have.
AccessCounted == holder <= issued /\ issued <= revision /\ revision <= MaxRevision
Owned(k) == k.open \/ k.subscribed => k.permit.owner \in Owners

FeedInv ==
  /\ FeedTypeOK /\ FromDisk
  /\ \A o \in Owners : SampleIsNewest(o)
  /\ AccessCounted
  /\ \A s \in Sockets : Owned(socket[s])

-----------------------------------------------------------------------------
(* Types. *)

LEMMA Values ==
  /\ NewFeed \in Feed /\ NoWorker \in Worker /\ Closed \in Socket
  /\ NewFeed.newest = 0 /\ NewFeed.revision = 0 /\ NoWorker.got = 0 /\ NoWorker.phase = "none"
  /\ Closed.messages = << >> /\ ~Closed.open /\ ~Closed.subscribed
<1>1. << >> \in Seq(Nat)
  BY EmptySeq
<1> QED
  BY <1>1 DEF NewFeed, NoWorker, Closed, Feed, Worker, Socket, Permit, Pending

LEMMA ReplacedTypes ==
  ASSUME NEW f \in Feed, NEW snapshot \in Int
  PROVE  /\ Replaced(f, snapshot) \in Feed
         /\ Replaced(f, snapshot).revision = f.revision + 1
         /\ Replaced(f, snapshot).snapshot = snapshot
         /\ Replaced(f, snapshot).newest = IF snapshot > f.newest THEN snapshot ELSE f.newest
<1> DEFINE newest == IF snapshot > f.newest THEN snapshot ELSE f.newest
<1>1. f.revision \in Nat /\ f.newest \in Nat /\ newest \in Nat
  BY DEF Feed
<1>2. Replaced(f, snapshot) = [f EXCEPT !.revision = f.revision + 1, !.snapshot = snapshot, !.newest = newest]
  BY DEF Replaced
<1> HIDE DEF newest
<1> DEFINE g == [f EXCEPT !.revision = f.revision + 1]
           h == [g EXCEPT !.snapshot = snapshot]
           k == [h EXCEPT !.newest = newest]
<1>3. g \in Feed /\ g.revision = f.revision + 1
  BY <1>1 DEF Feed
<1> HIDE DEF g
<1>4. h \in Feed /\ h.revision = f.revision + 1 /\ h.snapshot = snapshot
  BY <1>3 DEF Feed
<1> HIDE DEF h
<1>5. k \in Feed /\ k.revision = f.revision + 1 /\ k.snapshot = snapshot /\ k.newest = newest
  BY <1>1, <1>4 DEF Feed
<1>6. Replaced(f, snapshot) = k
  BY <1>2 DEF g, h
<1> HIDE DEF k
<1> QED
  BY <1>5, <1>6 DEF newest

LEMMA DroppedTypes ==
  ASSUME feed \in [Owners -> Feed], worker \in [Owners -> Worker], NEW sockets, Dropped(sockets)
  PROVE  /\ feed' \in [Owners -> Feed] /\ worker' \in [Owners -> Worker]
         /\ \A o \in Owners : \/ (feed'[o] = feed[o] /\ worker'[o] = worker[o])
                             \/ (feed'[o] = NewFeed /\ worker'[o] = NoWorker)
<1>1. NewFeed \in Feed /\ NoWorker \in Worker
  BY Values
<1> QED
  BY <1>1 DEF Dropped, Held

-----------------------------------------------------------------------------
(* The invariant. *)

LEMMA InitFeed == FeedInit => FeedInv
<1> SUFFICES ASSUME FeedInit PROVE FeedInv
  OBVIOUS
<1>1. FeedTypeOK
  <2>1. Len(Closed.messages) <= QueueSize
    BY Values, QueueAssumption, EmptySeq
  <2>2. [phase |-> "idle", got |-> 0] \in Operation
    BY DEF Operation
  <2> QED
    BY <2>1, <2>2, Values DEF FeedInit, WorkbenchInit, FeedTypeOK
<1>2. FromDisk
  BY Values DEF FeedInit, FromDisk
<1>3. \A o \in Owners : SampleIsNewest(o)
  BY Values DEF FeedInit, SampleIsNewest
<1>4. AccessCounted /\ \A s \in Sockets : Owned(socket[s])
  BY RevisionAssumption DEF FeedInit, WorkbenchInit, AccessCounted, Owned, Closed
<1> QED
  BY <1>1, <1>2, <1>3, <1>4 DEF FeedInv

\* Steps that change neither feeds, workers nor operations.
LEMMA Apart ==
  ASSUME FeedInv, UNCHANGED <<feed, worker, operation>>, disk' \in Nat, disk <= disk'
  PROVE  FromDisk' /\ \A o \in Owners : SampleIsNewest(o)'
<1>1. /\ disk \in Nat
      /\ \A o \in Owners : feed[o].newest \in Nat /\ worker[o].got \in Int
      /\ \A m \in Operations : operation[m].got \in Nat
  BY DEF FeedInv, FeedTypeOK, Feed, Worker, Operation
<1> QED
  BY <1>1 DEF FeedInv, FromDisk, SampleIsNewest

LEMMA SamplingKeeps ==
  ASSUME FeedInv, NEW o \in Owners, Begin(o) \/ Read(o) \/ Wake(o)
  PROVE  FeedInv'
<1>1. /\ UNCHANGED <<wbVars, repository, feed, socket, operation>> /\ FeedTypeOK
  BY DEF Begin, Read, Wake, FeedInv
<1>2. PICK w \in Worker :
        /\ worker' = [worker EXCEPT ![o] = w]
        /\ w.got \in Int /\ w.got <= disk
        /\ w.phase \in {"sampling", "read"} => w.expected <= feed[o].revision
        /\ w.phase = "read" => w.got = Failed \/ w.got >= feed[o].newest
  <2>1. /\ worker[o] \in Worker /\ feed[o] \in Feed /\ disk \in Nat /\ feed[o].newest <= disk
        /\ worker[o].got <= disk /\ PermitFor(o) \in Permit /\ SampleIsNewest(o)
    BY <1>1 DEF FeedInv, FromDisk, FeedTypeOK, PermitFor, Permit, Owners
  <2>2. CASE Begin(o)
    <3> DEFINE w == IF PermitGood(PermitFor(o))
                    THEN [worker[o] EXCEPT !.phase = "sampling", !.permit = PermitFor(o),
                                           !.expected = feed[o].revision]
                    ELSE [worker[o] EXCEPT !.phase = "ended"]
    <3>1. worker' = [worker EXCEPT ![o] = w]
      BY <2>2 DEF Begin
    <3>2. w \in Worker /\ w.got = worker[o].got /\ w.phase # "read" /\ (w.phase = "sampling" => w.expected = feed[o].revision)
      BY <2>1 DEF Worker, Feed
    <3>3. feed[o].revision \in Nat /\ w.got \in Int
      BY <2>1, <3>2 DEF Feed, Worker
    <3> HIDE DEF w
    <3>4. /\ w.got <= disk
          /\ w.phase \in {"sampling", "read"} => w.expected <= feed[o].revision
          /\ w.phase = "read" => w.got = Failed \/ w.got >= feed[o].newest
      BY <2>1, <3>2, <3>3
    <3> QED
      BY <3>1, <3>2, <3>3, <3>4
  <2>3. CASE Read(o)
    <3> DEFINE got == IF readable /\ PermitGood(worker[o].permit) THEN disk ELSE Failed
               w == [worker[o] EXCEPT !.phase = "read", !.got = got]
    <3>1. got \in Int /\ (got = disk \/ got = Failed) /\ Failed = -1
      BY <2>1 DEF Failed
    <3>2. worker' = [worker EXCEPT ![o] = w]
      BY <2>3 DEF Read
    <3> HIDE DEF got
    <3>3. w \in Worker /\ w.got = got /\ w.phase = "read" /\ w.expected = worker[o].expected
      BY <2>1, <3>1 DEF Worker
    <3>4. worker[o].expected <= feed[o].revision
      BY <2>1, <2>3 DEF SampleIsNewest, Read
    <3>5. feed[o].newest \in Nat
      BY <2>1 DEF Feed
    <3> HIDE DEF w
    <3>6. /\ w.got <= disk /\ w.got \in Int
          /\ w.expected <= feed[o].revision
          /\ w.got = Failed \/ w.got >= feed[o].newest
      BY <2>1, <3>1, <3>3, <3>4, <3>5
    <3> QED
      BY <3>2, <3>3, <3>6
  <2>4. CASE Wake(o)
    <3> DEFINE w == [worker[o] EXCEPT !.phase = "top"]
    <3>1. worker' = [worker EXCEPT ![o] = w]
      BY <2>4 DEF Wake
    <3>2. w \in Worker /\ w.got = worker[o].got /\ w.phase = "top" /\ w.got \in Int
      BY <2>1 DEF Worker
    <3> HIDE DEF w
    <3> QED
      BY <2>1, <3>1, <3>2
  <2> QED
    BY <2>2, <2>3, <2>4
<1>3. worker' \in [Owners -> Worker] /\ worker'[o] = w /\ \A p \in Owners \ {o} : worker'[p] = worker[p]
  <2>1. worker \in [Owners -> Worker]
    BY <1>1 DEF FeedTypeOK
  <2> QED
    BY <1>2, <2>1
<1>4. FeedTypeOK'
  BY <1>1, <1>3 DEF FeedTypeOK, wbVars, repository
<1>5. FromDisk'
  BY <1>1, <1>2, <1>3 DEF FeedInv, FromDisk, repository
<1>6. \A p \in Owners : SampleIsNewest(p)'
  <2> TAKE p \in Owners
  <2>1. CASE p = o
    BY <1>1, <1>2, <1>3, <2>1 DEF SampleIsNewest
  <2>2. CASE p # o
    BY <1>1, <1>3, <2>2 DEF FeedInv, SampleIsNewest
  <2> QED
    BY <2>1, <2>2
<1>7. AccessCounted' /\ \A s \in Sockets : Owned(socket[s])'
  BY <1>1 DEF FeedInv, AccessCounted, wbVars
<1> QED
  BY <1>4, <1>5, <1>6, <1>7 DEF FeedInv

LEMMA PublishSampleKeeps ==
  ASSUME FeedInv, NEW o \in Owners, PublishSample(o)
  PROVE  FeedInv'
<1> DEFINE value == IF PermitGood(worker[o].permit) THEN worker[o].got ELSE Failed
           w == [NoWorker EXCEPT !.phase = "waiting"]
<1>1. /\ UNCHANGED <<wbVars, repository, socket, operation>> /\ FeedTypeOK
      /\ feed' = (IF feed[o].revision = worker[o].expected /\ feed[o].snapshot # value
                  THEN [feed EXCEPT ![o] = Replaced(@, value)] ELSE feed)
      /\ worker' = [worker EXCEPT ![o] = w]
  BY DEF PublishSample, FeedInv
<1>2. /\ worker[o] \in Worker /\ feed[o] \in Feed /\ disk \in Nat /\ feed[o].newest <= disk
      /\ worker[o].got <= disk /\ worker[o].got \in Int /\ feed[o].newest \in Nat
  BY <1>1 DEF FeedInv, FromDisk, FeedTypeOK, Feed, Worker
<1>3. value \in Int /\ value <= disk
  BY <1>2 DEF Failed
<1>4. w \in Worker /\ w.got = 0 /\ w.phase = "waiting"
  BY Values DEF NoWorker, Worker
<1> HIDE DEF value, w
<1>5. PICK f \in Feed : feed' = [feed EXCEPT ![o] = f] /\ f.newest <= disk
  <2>1. /\ Replaced(feed[o], value) \in Feed
        /\ Replaced(feed[o], value).newest = IF value > feed[o].newest THEN value ELSE feed[o].newest
    BY <1>2, <1>3, ReplacedTypes
  <2>2. feed = [feed EXCEPT ![o] = feed[o]]
    BY <1>1 DEF FeedTypeOK
  <2> QED
    BY <1>1, <1>2, <1>3, <2>1, <2>2
<1>6. /\ worker' \in [Owners -> Worker] /\ worker'[o] = w /\ \A p \in Owners \ {o} : worker'[p] = worker[p]
      /\ feed' \in [Owners -> Feed] /\ feed'[o] = f /\ \A p \in Owners \ {o} : feed'[p] = feed[p]
  BY <1>1, <1>4, <1>5 DEF FeedTypeOK
<1>7. FeedTypeOK'
  BY <1>1, <1>6 DEF FeedTypeOK, wbVars, repository
<1>8. FromDisk'
  BY <1>1, <1>2, <1>4, <1>5, <1>6 DEF FeedInv, FromDisk, repository
<1>9. \A p \in Owners : SampleIsNewest(p)'
  <2> TAKE p \in Owners
  <2>1. CASE p = o
    BY <1>4, <1>6, <2>1 DEF SampleIsNewest
  <2>2. CASE p # o
    BY <1>6, <2>2 DEF FeedInv, SampleIsNewest
  <2> QED
    BY <2>1, <2>2
<1>10. AccessCounted' /\ \A s \in Sockets : Owned(socket[s])'
  BY <1>1 DEF FeedInv, AccessCounted, wbVars
<1> QED
  BY <1>7, <1>8, <1>9, <1>10 DEF FeedInv

\* Feeds that go with their last subscription, and their workers.
LEMMA DroppedKeeps ==
  ASSUME FeedInv, Dropped(socket'), UNCHANGED <<wbVars, repository, operation>>,
         socket' \in [Sockets -> Socket],
         \A s \in Sockets : Len(socket'[s].messages) <= QueueSize /\ Owned(socket'[s])
  PROVE  FeedInv'
<1>1. /\ feed' \in [Owners -> Feed] /\ worker' \in [Owners -> Worker] /\ FeedTypeOK
      /\ \A o \in Owners : \/ (feed'[o] = feed[o] /\ worker'[o] = worker[o])
                          \/ (feed'[o] = NewFeed /\ worker'[o] = NoWorker)
  BY DroppedTypes DEF FeedInv, FeedTypeOK
<1>2. FeedTypeOK'
  BY <1>1 DEF FeedTypeOK, wbVars, repository
<1>3. FromDisk'
  BY <1>1, Values DEF FeedInv, FromDisk, FeedTypeOK, repository
<1>4. \A o \in Owners : SampleIsNewest(o)'
  BY <1>1, Values DEF FeedInv, SampleIsNewest
<1>5. AccessCounted' /\ \A s \in Sockets : Owned(socket[s])'
  BY <1>1 DEF FeedInv, AccessCounted, wbVars
<1> QED
  BY <1>2, <1>3, <1>4, <1>5 DEF FeedInv

\* Steps of one socket that leave the feeds alone.
LEMMA SocketKeeps ==
  ASSUME FeedInv, UNCHANGED <<wbVars, repository, feed, worker, operation>>,
         NEW s \in Sockets, NEW k \in Socket, Len(k.messages) <= QueueSize, Owned(k),
         socket' = [socket EXCEPT ![s] = k]
  PROVE  FeedInv'
<1>1. FeedTypeOK /\ UNCHANGED <<holder, locked, revision, issued, disk, readable, outages>>
  BY DEF FeedInv, wbVars, repository
<1>2. socket' \in [Sockets -> Socket] /\ \A q \in Sockets : socket'[q] = IF q = s THEN k ELSE socket[q]
  <2>1. socket \in [Sockets -> Socket]
    BY <1>1 DEF FeedTypeOK
  <2> QED
    BY <2>1
<1>3. FeedTypeOK'
  BY <1>1, <1>2 DEF FeedTypeOK
<1>4. FromDisk' /\ \A o \in Owners : SampleIsNewest(o)'
  BY <1>1, Apart DEF FeedTypeOK
<1>5. AccessCounted' /\ \A q \in Sockets : Owned(socket[q])'
  BY <1>1, <1>2 DEF FeedInv, AccessCounted
<1> QED
  BY <1>3, <1>4, <1>5 DEF FeedInv

\* What a socket may become, under the permit it has.
Same(new, k) == new.permit = k.permit /\ new.open = k.open

LEMMA SocketTypes ==
  ASSUME NEW k \in Socket, Len(k.messages) <= QueueSize
  PROVE  /\ LET new == [k EXCEPT !.subscribed = FALSE, !.messages = << >>]
            IN  new \in Socket /\ new.messages = << >> /\ Same(new, k)
         /\ LET new == [k EXCEPT !.subscribed = TRUE, !.seen = 0, !.told = 0]
            IN  new \in Socket /\ new.messages = k.messages /\ Same(new, k)
         /\ \A n \in Nat : Len(k.messages) < QueueSize =>
              LET new == [k EXCEPT !.seen = n, !.messages = Append(@, n)]
              IN  new \in Socket /\ Len(new.messages) <= QueueSize /\ Same(new, k)
         /\ k.messages # << >> =>
              LET new == [k EXCEPT !.messages = Tail(@), !.told = IF Head(k.messages) > @ THEN Head(k.messages) ELSE @]
              IN  new \in Socket /\ Len(new.messages) <= QueueSize /\ Same(new, k)
<1> DEFINE M == Seq(Nat)
<1>1. << >> \in M /\ k.messages \in M /\ Len(k.messages) \in Nat /\ QueueSize \in Nat
  BY EmptySeq, QueueAssumption DEF Socket
<1>2. \A n \in Nat : /\ Append(k.messages, n) \in M /\ Len(Append(k.messages, n)) = Len(k.messages) + 1
  BY <1>1, AppendProperties
<1>3. k.messages # << >> => /\ Tail(k.messages) \in M /\ Head(k.messages) \in Nat
                           /\ Len(Tail(k.messages)) = Len(k.messages) - 1
  BY <1>1, HeadTailProperties
<1>4. k \in [open: BOOLEAN, subscribed: BOOLEAN, permit: Permit, seen: Nat, messages: M, told: Nat]
  BY DEF Socket
<1>5. Socket = [open: BOOLEAN, subscribed: BOOLEAN, permit: Permit, seen: Nat, messages: M, told: Nat]
  BY DEF Socket
<1> HIDE DEF M
<1>6. LET new == [k EXCEPT !.subscribed = FALSE, !.messages = << >>]
      IN  new \in Socket /\ new.messages = << >> /\ Same(new, k)
  BY <1>1, <1>4, <1>5 DEF Same
<1>7. LET new == [k EXCEPT !.subscribed = TRUE, !.seen = 0, !.told = 0]
      IN  new \in Socket /\ new.messages = k.messages /\ Same(new, k)
  BY <1>1, <1>4, <1>5 DEF Same
<1>8. ASSUME NEW n \in Nat, Len(k.messages) < QueueSize
      PROVE  LET new == [k EXCEPT !.seen = n, !.messages = Append(@, n)]
             IN  new \in Socket /\ Len(new.messages) <= QueueSize /\ Same(new, k)
  <2> DEFINE m == Append(k.messages, n)
             new == [k EXCEPT !.seen = n, !.messages = m]
  <2>1. m \in M /\ Len(m) <= QueueSize
    BY <1>1, <1>2, <1>8
  <2> HIDE DEF m
  <2>2. new \in Socket /\ new.messages = m /\ Same(new, k)
    BY <1>4, <1>5, <2>1 DEF Same
  <2> QED
    BY <2>1, <2>2 DEF m
<1>9. ASSUME k.messages # << >>
      PROVE  LET new == [k EXCEPT !.messages = Tail(@), !.told = IF Head(k.messages) > @ THEN Head(k.messages) ELSE @]
             IN  new \in Socket /\ Len(new.messages) <= QueueSize /\ Same(new, k)
  <2> DEFINE m == Tail(k.messages)
             n == IF Head(k.messages) > k.told THEN Head(k.messages) ELSE k.told
             new == [k EXCEPT !.messages = m, !.told = n]
  <2>1. m \in M /\ Len(m) <= QueueSize /\ n \in Nat
    BY <1>1, <1>3, <1>4, <1>9
  <2> HIDE DEF m, n
  <2>2. new \in Socket /\ new.messages = m /\ Same(new, k)
    BY <1>4, <1>5, <2>1 DEF Same
  <2> QED
    BY <2>1, <2>2 DEF m, n
<1> QED
  BY <1>6, <1>7, <1>8, <1>9

LEMMA ServingKeeps ==
  ASSUME FeedInv, NEW s \in Sockets, Serving(s)
  PROVE  FeedInv'
<1>1. FeedTypeOK /\ socket \in [Sockets -> Socket] /\ socket[s] \in Socket /\ Len(socket[s].messages) <= QueueSize
      /\ feed \in [Owners -> Feed] /\ holder \in Nat /\ revision \in Nat /\ issued \in Nat
      /\ Owned(socket[s]) /\ AccessCounted
  BY DEF FeedInv, FeedTypeOK
<1>2. Closed \in Socket /\ Len(Closed.messages) <= QueueSize /\ Len(<< >>) <= QueueSize
  BY Values, QueueAssumption, EmptySeq
<1>3. CASE Open(s)
  <2> DEFINE k == [Closed EXCEPT !.open = TRUE, !.permit = PermitFor(holder)]
  <2>1. PermitFor(holder) \in Permit
    BY <1>1 DEF PermitFor, Permit
  <2>2. k \in Socket /\ k.messages = Closed.messages /\ k.permit = PermitFor(holder)
    BY <1>2, <2>1 DEF Socket
  <2>3. socket' = [socket EXCEPT ![s] = k] /\ UNCHANGED <<wbVars, repository, feed, worker, operation>>
    BY <1>3 DEF Open
  <2>4. Owned(k)
    <3>1. holder # 0
      BY <1>3 DEF Open, PermitGood
    <3>2. holder \in Owners
      BY <1>1, <3>1, RevisionAssumption DEF AccessCounted, Owners
    <3> HIDE DEF k
    <3> QED
      BY <2>2, <3>2 DEF Owned, PermitFor
  <2> HIDE DEF k
  <2> QED
    BY <1>2, <2>2, <2>3, <2>4, SocketKeeps
<1>4. CASE Subscribe(s)
  <2> DEFINE k == [socket[s] EXCEPT !.subscribed = TRUE, !.seen = 0, !.told = 0]
             o == socket[s].permit.owner
  <2>1. k \in Socket /\ k.messages = socket[s].messages /\ Same(k, socket[s]) /\ socket[s].open
    BY <1>1, <1>4, SocketTypes DEF Subscribe
  <2>2. /\ socket' = [socket EXCEPT ![s] = k] /\ UNCHANGED <<wbVars, repository, feed, operation>>
        /\ worker' = IF Alive(o) THEN worker ELSE [worker EXCEPT ![o] = [NoWorker EXCEPT !.phase = "top"]]
    BY <1>4 DEF Subscribe
  <2> HIDE DEF k, o
  <2>3. socket' \in [Sockets -> Socket] /\ \A q \in Sockets : socket'[q] = IF q = s THEN k ELSE socket[q]
    BY <1>1, <2>1, <2>2
  <2>4. [NoWorker EXCEPT !.phase = "top"] \in Worker /\ [NoWorker EXCEPT !.phase = "top"].phase = "top"
        /\ [NoWorker EXCEPT !.phase = "top"].got = 0
    BY Values DEF Worker
  <2>5. /\ worker' \in [Owners -> Worker]
        /\ \A p \in Owners : worker'[p] = worker[p] \/ (worker'[p].phase = "top" /\ worker'[p].got = 0)
    <3>1. worker \in [Owners -> Worker]
      BY <1>1 DEF FeedTypeOK
    <3> QED
      BY <2>2, <2>4, <3>1
  <2>6. FeedTypeOK'
    BY <1>1, <2>1, <2>2, <2>3, <2>5 DEF FeedTypeOK, wbVars, repository
  <2>7. FromDisk'
    <3>1. disk \in Nat /\ feed' = feed /\ disk' = disk /\ operation' = operation
      BY <1>1, <2>2 DEF FeedTypeOK, repository
    <3>2. \A p \in Owners : worker'[p].got <= disk
      <4>1. 0 <= disk /\ \A p \in Owners : worker[p].got <= disk
        BY <3>1 DEF FeedInv, FromDisk
      <4> QED
        BY <2>5, <4>1
    <3> QED
      BY <3>1, <3>2 DEF FeedInv, FromDisk
  <2>8. \A p \in Owners : SampleIsNewest(p)'
    BY <2>2, <2>5 DEF FeedInv, SampleIsNewest
  <2>9. AccessCounted' /\ \A q \in Sockets : Owned(socket[q])'
    <3>1. Owned(k)
      BY <1>1, <2>1 DEF Owned, Same
    <3> QED
      BY <1>1, <2>2, <2>3, <3>1 DEF FeedInv, AccessCounted, wbVars
  <2> QED
    BY <2>6, <2>7, <2>8, <2>9 DEF FeedInv
<1>5. CASE Forward(s)
  <2> DEFINE n == feed[socket[s].permit.owner].revision
             k == [socket[s] EXCEPT !.seen = n, !.messages = Append(@, n)]
  <2>1. /\ socket[s].subscribed /\ n > socket[s].seen /\ Len(socket[s].messages) < QueueSize
        /\ socket' = [socket EXCEPT ![s] = k] /\ UNCHANGED <<wbVars, repository, feed, worker, operation>>
    BY <1>5 DEF Forward
  <2>2. n \in Nat
    BY <1>1, <2>1 DEF Owned, Feed
  <2>3. k \in Socket /\ Len(k.messages) <= QueueSize /\ Same(k, socket[s])
    <3> HIDE DEF n
    <3> QED
      BY <1>1, <2>1, <2>2, SocketTypes
  <2> HIDE DEF k, n
  <2>4. Owned(k)
    BY <1>1, <2>1, <2>3 DEF Owned, Same
  <2> QED
    BY <2>1, <2>3, <2>4, SocketKeeps
<1>6. CASE Deliver(s)
  <2> DEFINE k == [socket[s] EXCEPT !.messages = Tail(@),
                     !.told = IF Head(socket[s].messages) > @ THEN Head(socket[s].messages) ELSE @]
  <2>1. /\ socket[s].messages # << >>
        /\ socket' = [socket EXCEPT ![s] = k] /\ UNCHANGED <<wbVars, repository, feed, worker, operation>>
    BY <1>6 DEF Deliver
  <2>2. k \in Socket /\ Len(k.messages) <= QueueSize /\ Same(k, socket[s]) /\ socket[s].open
    BY <1>1, <1>6, <2>1, SocketTypes DEF Deliver
  <2> HIDE DEF k
  <2>3. Owned(k)
    BY <1>1, <2>2 DEF Owned, Same
  <2> QED
    BY <2>1, <2>2, <2>3, SocketKeeps
<1>7. ASSUME NEW k \in Socket, Len(k.messages) <= QueueSize, Owned(k), socket' = [socket EXCEPT ![s] = k],
             Dropped(socket'), UNCHANGED <<wbVars, repository, operation>>
      PROVE  FeedInv'
  <2>1. /\ socket' \in [Sockets -> Socket]
        /\ \A q \in Sockets : socket'[q] = IF q = s THEN k ELSE socket[q]
    BY <1>1, <1>7
  <2>2. \A q \in Sockets : Len(socket'[q].messages) <= QueueSize /\ Owned(socket'[q])
    BY <1>1, <1>7, <2>1 DEF FeedInv, FeedTypeOK
  <2> QED
    BY <1>7, <2>1, <2>2, DroppedKeeps
<1>8. CASE Unsubscribe(s)
  <2> DEFINE k == [socket[s] EXCEPT !.subscribed = FALSE, !.messages = << >>]
  <2>1. socket' = [socket EXCEPT ![s] = k] /\ Dropped(socket') /\ UNCHANGED <<wbVars, repository, operation>>
    BY <1>8 DEF Unsubscribe
  <2>2. k \in Socket /\ k.messages = << >> /\ Same(k, socket[s]) /\ socket[s].open
    BY <1>1, <1>8, SocketTypes DEF Unsubscribe
  <2> HIDE DEF k
  <2>3. Owned(k)
    BY <1>1, <2>2 DEF Owned, Same
  <2> QED
    BY <1>2, <1>7, <2>1, <2>2, <2>3
<1>9. CASE Leave(s)
  <2>1. Owned(Closed)
    BY Values DEF Owned
  <2> QED
    BY <1>2, <1>7, <1>9, <2>1 DEF Leave
<1> QED
  BY <1>3, <1>4, <1>5, <1>6, <1>8, <1>9 DEF Serving

LEMMA OperatingKeeps ==
  ASSUME FeedInv, NEW m \in Operations, Operating(m)
  PROVE  FeedInv'
<1>1. /\ FeedTypeOK /\ operation \in [Operations -> Operation] /\ operation[m].got \in Nat /\ operation[m].got <= disk
      /\ disk \in Nat
  BY DEF FeedInv, FeedTypeOK, Operation, FromDisk
<1>2. ASSUME NEW k \in Operation, operation' = [operation EXCEPT ![m] = k], k.got <= disk', k.got \in Nat,
             disk' \in Nat, disk <= disk', UNCHANGED <<wbVars, readable, outages, worker, socket>>,
             feed' \in [Owners -> Feed],
             \A o \in Owners : \/ feed'[o] = feed[o]
                             \/ (feed'[o].newest <= disk /\ feed'[o].revision = feed[o].revision + 1)
      PROVE  FeedInv'
  <2>1. operation' \in [Operations -> Operation] /\ \A q \in Operations : operation'[q] = IF q = m THEN k ELSE operation[q]
    BY <1>1, <1>2
  <2>2. FeedTypeOK'
    BY <1>1, <1>2, <2>1 DEF FeedTypeOK, wbVars
  <2>3. \A o \in Owners : /\ feed[o].newest \in Nat /\ feed'[o].newest \in Nat /\ feed[o].revision \in Nat
                          /\ worker[o].got \in Int /\ worker[o].expected \in Nat
    BY <1>1, <1>2 DEF FeedTypeOK, Feed, Worker
  <2>4. FromDisk'
    <3>1. \A o \in Owners : feed'[o].newest <= disk' /\ worker'[o].got <= disk'
      BY <1>1, <1>2, <2>3 DEF FeedInv, FromDisk
    <3>2. \A q \in Operations : operation[q].got \in Nat /\ operation[q].got <= disk
      BY <1>1 DEF FeedInv, FromDisk, Operation
    <3>3. \A q \in Operations : operation'[q].got <= disk'
      BY <1>1, <1>2, <2>1, <3>2
    <3> QED
      BY <3>1, <3>3 DEF FromDisk
  <2>5. \A o \in Owners : SampleIsNewest(o)'
    <3> TAKE o \in Owners
    <3>1. SampleIsNewest(o) /\ worker'[o] = worker[o]
      BY <1>2 DEF FeedInv
    <3>2. CASE feed'[o] = feed[o]
      BY <3>1, <3>2 DEF SampleIsNewest
    <3>3. CASE feed'[o].revision = feed[o].revision + 1
      BY <2>3, <3>1, <3>3 DEF SampleIsNewest
    <3> QED
      BY <1>2, <3>2, <3>3
  <2>6. AccessCounted' /\ \A q \in Sockets : Owned(socket[q])'
    BY <1>2 DEF FeedInv, AccessCounted, wbVars
  <2> QED
    BY <2>2, <2>4, <2>5, <2>6 DEF FeedInv
<1>3. /\ [operation[m] EXCEPT !.phase = "running"] \in Operation
      /\ [operation[m] EXCEPT !.phase = "running"].got = operation[m].got
      /\ [operation[m] EXCEPT !.phase = "acted"] \in Operation
      /\ [operation[m] EXCEPT !.phase = "acted"].got = operation[m].got
  BY <1>1 DEF Operation
<1>4. /\ [phase |-> "read", got |-> disk] \in Operation /\ [phase |-> "idle", got |-> 0] \in Operation
      /\ feed \in [Owners -> Feed]
  BY <1>1 DEF Operation, FeedTypeOK
<1>5. CASE StartOperation(m)
  <2> DEFINE k == [operation[m] EXCEPT !.phase = "running"]
  <2>1. /\ operation' = [operation EXCEPT ![m] = k] /\ feed' = feed
        /\ UNCHANGED <<wbVars, readable, outages, worker, socket>> /\ disk' = disk
    BY <1>1, <1>5 DEF StartOperation, repository
  <2>2. k \in Operation /\ k.got \in Nat /\ k.got <= disk'
    BY <1>1, <1>3, <1>4, <2>1
  <2>3. feed' \in [Owners -> Feed] /\ disk' \in Nat /\ disk <= disk' /\ \A o \in Owners : feed'[o] = feed[o]
    BY <1>1, <1>4, <2>1
  <2> HIDE DEF k
  <2> QED
    BY <1>2, <2>1, <2>2, <2>3
<1>6. CASE Act(m)
  <2> DEFINE k == [operation[m] EXCEPT !.phase = "acted"]
  <2>1. /\ operation' = [operation EXCEPT ![m] = k] /\ feed' = feed
        /\ UNCHANGED <<wbVars, readable, outages, worker, socket>> /\ disk' = disk + 1
    BY <1>1, <1>6 DEF Act, repository
  <2>2. k \in Operation /\ k.got \in Nat /\ k.got <= disk'
    BY <1>1, <1>3, <1>4, <2>1
  <2>3. feed' \in [Owners -> Feed] /\ disk' \in Nat /\ disk <= disk' /\ \A o \in Owners : feed'[o] = feed[o]
    BY <1>1, <1>4, <2>1
  <2> HIDE DEF k
  <2> QED
    BY <1>2, <2>1, <2>2, <2>3
<1>7. CASE TakeSnapshot(m)
  <2> DEFINE k == [phase |-> "read", got |-> disk]
  <2>1. /\ operation' = [operation EXCEPT ![m] = k] /\ feed' = feed
        /\ UNCHANGED <<wbVars, readable, outages, worker, socket>> /\ disk' = disk
    BY <1>1, <1>7 DEF TakeSnapshot, repository
  <2>2. k \in Operation /\ k.got \in Nat /\ k.got <= disk'
    BY <1>1, <1>3, <1>4, <2>1
  <2>3. feed' \in [Owners -> Feed] /\ disk' \in Nat /\ disk <= disk' /\ \A o \in Owners : feed'[o] = feed[o]
    BY <1>1, <1>4, <2>1
  <2> HIDE DEF k
  <2> QED
    BY <1>2, <2>1, <2>2, <2>3
<1>8. CASE PublishResult(m)
  <2> DEFINE value == operation[m].got
  <2>1. /\ feed' = [o \in Owners |-> IF Alive(o) /\ feed[o].snapshot # value
                                    THEN Replaced(feed[o], value) ELSE feed[o]]
        /\ operation' = [operation EXCEPT ![m] = [phase |-> "idle", got |-> 0]]
        /\ UNCHANGED <<wbVars, repository, worker, socket>>
    BY <1>8 DEF PublishResult
  <2>2. \A o \in Owners :
          /\ Replaced(feed[o], value) \in Feed /\ Replaced(feed[o], value).newest <= disk
          /\ Replaced(feed[o], value).revision = feed[o].revision + 1
    <3> TAKE o \in Owners
    <3>1. feed[o] \in Feed /\ value \in Int /\ value <= disk /\ feed[o].newest <= disk
      BY <1>1, <1>4 DEF FeedInv, FromDisk
    <3> HIDE DEF value
    <3> QED
      BY <3>1, ReplacedTypes
  <2> HIDE DEF value
  <2>3. feed' \in [Owners -> Feed]
    BY <1>4, <2>1, <2>2 DEF Alive, Held
  <2>4. \A o \in Owners : \/ feed'[o] = feed[o]
                          \/ (feed'[o].newest <= disk /\ feed'[o].revision = feed[o].revision + 1)
    BY <2>1, <2>2 DEF Alive, Held
  <2>5. /\ [phase |-> "idle", got |-> 0] \in Operation /\ [phase |-> "idle", got |-> 0].got = 0
        /\ disk' = disk /\ 0 <= disk' /\ disk' \in Nat
    BY <1>1, <1>4, <2>1 DEF repository
  <2> DEFINE k == [phase |-> "idle", got |-> 0]
  <2>6. /\ operation' = [operation EXCEPT ![m] = k] /\ k \in Operation /\ k.got \in Nat /\ k.got <= disk'
        /\ disk <= disk' /\ UNCHANGED <<wbVars, readable, outages, worker, socket>>
    BY <1>1, <2>1, <2>5 DEF repository
  <2> HIDE DEF k
  <2> QED
    BY <1>2, <2>3, <2>4, <2>5, <2>6
<1>9. CASE FailOperation(m)
  <2> DEFINE k == [phase |-> "idle", got |-> 0]
  <2>1. /\ operation' = [operation EXCEPT ![m] = k] /\ feed' = feed
        /\ UNCHANGED <<wbVars, readable, outages, worker, socket>> /\ disk' = disk
    BY <1>1, <1>9 DEF FailOperation, repository
  <2>2. k \in Operation /\ k.got \in Nat /\ k.got <= disk'
    BY <1>1, <1>3, <1>4, <2>1
  <2>3. feed' \in [Owners -> Feed] /\ disk' \in Nat /\ disk <= disk' /\ \A o \in Owners : feed'[o] = feed[o]
    BY <1>1, <1>4, <2>1
  <2> HIDE DEF k
  <2> QED
    BY <1>2, <2>1, <2>2, <2>3
<1> QED
  BY <1>5, <1>6, <1>7, <1>8, <1>9 DEF Operating

\* Steps that leave feeds, workers, sockets and operations alone.
LEMMA AroundKeeps ==
  ASSUME FeedInv, UNCHANGED <<feed, worker, socket, operation>>,
         disk' \in Nat, disk <= disk', readable' \in BOOLEAN, outages' \in Nat,
         holder' \in Nat, locked' \in BOOLEAN, revision' \in Nat, issued' \in Nat, AccessCounted'
  PROVE  FeedInv'
<1>1. FeedTypeOK'
  BY DEF FeedInv, FeedTypeOK
<1>2. FromDisk' /\ \A o \in Owners : SampleIsNewest(o)'
  BY Apart
<1>3. \A s \in Sockets : Owned(socket[s])'
  BY DEF FeedInv
<1> QED
  BY <1>1, <1>2, <1>3 DEF FeedInv

LEMMA SurroundingsKeep ==
  ASSUME FeedInv, Edit \/ Outage \/ Recover \/ ChangeAccess \/ LoginRunsOut
  PROVE  FeedInv'
<1>1. /\ disk \in Nat /\ readable \in BOOLEAN /\ outages \in Nat
      /\ holder \in Nat /\ locked \in BOOLEAN /\ revision \in Nat /\ issued \in Nat
      /\ holder <= issued /\ issued <= revision /\ revision <= MaxRevision
  BY DEF FeedInv, FeedTypeOK, AccessCounted
<1>2. /\ UNCHANGED <<feed, worker, socket, operation>>
      /\ disk' \in Nat /\ disk <= disk' /\ readable' \in BOOLEAN /\ outages' \in Nat
  <2>1. CASE Edit
    BY <1>1, <2>1 DEF Edit
  <2>2. CASE Outage
    <3>1. readable' \in BOOLEAN /\ UNCHANGED <<feed, worker, socket, operation>>
      BY <2>2 DEF Outage
    <3>2. outages' = outages + 1 /\ disk' = disk
      BY <2>2 DEF Outage
    <3> QED
      BY <1>1, <3>1, <3>2
  <2>3. CASE Recover
    BY <1>1, <2>3 DEF Recover
  <2>4. CASE ChangeAccess \/ LoginRunsOut
    BY <1>1, <2>4 DEF ChangeAccess, LoginRunsOut, repository
  <2> QED
    BY <2>1, <2>2, <2>3, <2>4
<1>3. /\ holder' \in Nat /\ locked' \in BOOLEAN /\ revision' \in Nat /\ issued' \in Nat
      /\ AccessCounted'
  <2>1. CASE Edit \/ Outage \/ Recover
    BY <1>1, <2>1 DEF Edit, Outage, Recover, wbVars, AccessCounted
  <2>2. CASE ChangeAccess
    <3>1. revision < MaxRevision /\ MaxRevision \in Nat
      BY <2>2, RevisionAssumption DEF ChangeAccess
    <3>2. CASE Enter
      BY <1>1, <3>1, <3>2 DEF Enter, AccessCounted
    <3>3. CASE Turn
      BY <1>1, <3>1, <3>3 DEF Turn, AccessCounted
    <3>4. CASE Exit
      <4>1. holder' = 0 /\ locked' = FALSE /\ revision' = revision + 1 /\ issued' = issued
        BY <3>4 DEF Exit
      <4>2. locked' \in BOOLEAN
        BY <4>1
      <4> QED
        BY <1>1, <3>1, <4>1, <4>2 DEF AccessCounted
    <3> QED
      BY <2>2, <3>2, <3>3, <3>4 DEF ChangeAccess
  <2>3. CASE LoginRunsOut
    BY <1>1, <2>3 DEF LoginRunsOut, RunOut, AccessCounted
  <2> QED
    BY <2>1, <2>2, <2>3
<1> QED
  BY <1>2, <1>3, AroundKeeps

LEMMA FeedStep == FeedInv /\ [FeedNext]_feedVars => FeedInv'
<1> SUFFICES ASSUME FeedInv, [FeedNext]_feedVars PROVE FeedInv'
  OBVIOUS
<1>1. CASE UNCHANGED feedVars
  <2>1. /\ UNCHANGED <<feed, worker, socket, operation, disk, readable, outages>>
        /\ UNCHANGED <<holder, locked, revision, issued>>
    BY <1>1 DEF feedVars, repository, wbVars
  <2>2. /\ disk \in Nat /\ readable \in BOOLEAN /\ outages \in Nat /\ AccessCounted
        /\ holder \in Nat /\ locked \in BOOLEAN /\ revision \in Nat /\ issued \in Nat
    BY DEF FeedInv, FeedTypeOK
  <2>3. disk' \in Nat /\ disk <= disk' /\ AccessCounted'
    BY <2>1, <2>2 DEF AccessCounted
  <2> QED
    BY <2>1, <2>2, <2>3, AroundKeeps
<1>2. ASSUME NEW o \in Owners, Sampling(o) PROVE FeedInv'
  BY <1>2, SamplingKeeps, PublishSampleKeeps DEF Sampling
<1>3. ASSUME NEW s \in Sockets, Serving(s) PROVE FeedInv'
  BY <1>3, ServingKeeps
<1>4. ASSUME NEW m \in Operations, Operating(m) PROVE FeedInv'
  BY <1>4, OperatingKeeps
<1>5. CASE Edit \/ Outage \/ Recover \/ ChangeAccess \/ LoginRunsOut
  BY <1>5, SurroundingsKeep
<1> QED
  BY <1>1, <1>2, <1>3, <1>4, <1>5 DEF FeedNext

\* The inductive invariant of the feed: what it shows was read from the
\* repository, and a sample it will accept is not older than that
\* (git_observation_worker.rs, sample and publish).
THEOREM FeedInvariant == FeedSpec => []FeedInv
<1> QED
  BY InitFeed, FeedStep, PTL DEF FeedSpec

\* Every state of the feed is well typed, and no socket's channel holds more
\* than it has room for.
THEOREM FeedTypeCorrect == FeedSpec => []FeedTypeOK
<1>1. FeedInv => FeedTypeOK
  BY DEF FeedInv
<1> QED
  BY <1>1, FeedInvariant, PTL

\* Only its worker's publication shows a sample in place of what a feed shows.
LEMMA SampleStep ==
  ASSUME FeedInv, FeedNext, NEW o \in Owners,
         worker[o].phase = "read", worker'[o].phase = "waiting", feed'[o].revision > feed[o].revision,
         feed'[o].snapshot # Failed
  PROVE  feed'[o].snapshot >= feed[o].newest
<1>1. /\ feed \in [Owners -> Feed] /\ worker \in [Owners -> Worker] /\ feed[o] \in Feed
      /\ worker[o].got \in Int /\ SampleIsNewest(o)
  BY DEF FeedInv, FeedTypeOK, Worker
<1>2. PublishSample(o)
  <2>1. worker'[o] # worker[o]
    OBVIOUS
  <2>2. CASE \E p \in Owners : Sampling(p)
    <3>1. PICK p \in Owners : Sampling(p)
      BY <2>2
    <3>2. p = o
      BY <1>1, <2>1, <3>1 DEF Sampling, Begin, Read, PublishSample, Wake
    <3> QED
      BY <1>1, <3>1, <3>2 DEF Sampling, Begin, Read, PublishSample, Wake
  <2>3. CASE \E s \in Sockets : Serving(s)
    <3>1. PICK s \in Sockets : Serving(s)
      BY <2>3
    <3>2. CASE Dropped(socket')
      <4>1. worker'[o] = worker[o] \/ worker'[o] = NoWorker
        BY <3>2 DEF Dropped
      <4> QED
        BY <2>1, <4>1, Values
    <3>3. CASE Subscribe(s)
      BY <1>1, <2>1, <3>3 DEF Subscribe
    <3> QED
      BY <2>1, <3>1, <3>2, <3>3 DEF Serving, Open, Forward, Deliver, Unsubscribe, Leave
  <2>4. CASE \E m \in Operations : Operating(m)
    BY <2>1, <2>4 DEF Operating, StartOperation, Act, TakeSnapshot, PublishResult, FailOperation
  <2>5. CASE Edit \/ Outage \/ Recover \/ ChangeAccess \/ LoginRunsOut
    BY <2>1, <2>5 DEF Edit, Outage, Recover, ChangeAccess, LoginRunsOut
  <2> QED
    BY <2>2, <2>3, <2>4, <2>5 DEF FeedNext
<1> DEFINE value == IF PermitGood(worker[o].permit) THEN worker[o].got ELSE Failed
<1>3. /\ feed' = IF feed[o].revision = worker[o].expected /\ feed[o].snapshot # value
                 THEN [feed EXCEPT ![o] = Replaced(@, value)] ELSE feed
      /\ value = worker[o].got \/ value = Failed
  BY <1>2 DEF PublishSample
<1> HIDE DEF value
<1>4. feed'[o] # feed[o]
  BY <1>1 DEF Feed
<1>5. feed[o].revision = worker[o].expected /\ feed' = [feed EXCEPT ![o] = Replaced(feed[o], value)]
  BY <1>3, <1>4
<1>6. value \in Int
  BY <1>1, <1>3 DEF Failed
<1>7. feed'[o].snapshot = value
  BY <1>1, <1>5, <1>6, ReplacedTypes
<1> QED
  BY <1>1, <1>3, <1>5, <1>7 DEF SampleIsNewest

\* A slow sample never hides the newer result of an operation
\* (git_observation.rs, the `expected` revision of publish and fail).
THEOREM SamplesStayNewest == FeedSpec => SamplesAreNewest
<1>1. /\ FeedInv
      /\ [FeedNext]_feedVars
      => [\A o \in Owners :
            worker[o].phase = "read" /\ feed'[o].revision > feed[o].revision
              /\ worker'[o].phase = "waiting" /\ feed'[o].snapshot # Failed
            => feed'[o].snapshot >= feed[o].newest]_feedVars
  <2> SUFFICES ASSUME FeedInv, FeedNext, NEW o \in Owners, worker[o].phase = "read",
                      feed'[o].revision > feed[o].revision,
                      worker'[o].phase = "waiting", feed'[o].snapshot # Failed
               PROVE  feed'[o].snapshot >= feed[o].newest
    OBVIOUS
  <2> QED
    BY SampleStep
<1> QED
  BY <1>1, FeedInvariant, PTL DEF FeedSpec, SamplesAreNewest

-----------------------------------------------------------------------------
(* What the pages are told. *)

\* A socket that watches nothing has nothing on its way, and one that does is
\* told in order up to what its task has seen, at most revision r.
Telling(k, r) ==
  /\ ~k.subscribed => k.messages = << >>
  /\ k.subscribed => LastSent(k) = k.seen /\ k.seen <= r /\ InOrder(k)

TellingInv == \A s \in Sockets : Telling(socket[s], feed[socket[s].permit.owner].revision)

\* The revision of a feed that is held only grows.
LEMMA RevisionsGrow ==
  ASSUME FeedInv, FeedNext, NEW o \in Owners, Held(o, socket')
  PROVE  feed[o].revision \in Nat /\ feed'[o].revision \in Nat /\ feed[o].revision <= feed'[o].revision
<1>1. feed \in [Owners -> Feed] /\ feed[o] \in Feed /\ feed[o].revision \in Nat
  BY DEF FeedInv, FeedTypeOK, Feed
<1>2. CASE feed'[o] = feed[o]
  BY <1>1, <1>2
<1>3. CASE \E p \in Owners : PublishSample(p)
  <2>1. PICK p \in Owners : PublishSample(p)
    BY <1>3
  <2> DEFINE value == IF PermitGood(worker[p].permit) THEN worker[p].got ELSE Failed
  <2>2. feed' = [feed EXCEPT ![p] = Replaced(feed[p], value)] \/ feed' = feed
    BY <2>1 DEF PublishSample
  <2>3. value \in Int
    BY DEF FeedInv, FeedTypeOK, Worker, Failed
  <2> HIDE DEF value
  <2>4. feed'[o] = feed[o] \/ feed'[o] = Replaced(feed[o], value)
    BY <1>1, <2>2
  <2>5. Replaced(feed[o], value).revision = feed[o].revision + 1
    BY <1>1, <2>3, ReplacedTypes
  <2> QED
    BY <1>1, <2>4, <2>5
<1>4. CASE \E m \in Operations : PublishResult(m)
  <2>1. PICK m \in Operations : PublishResult(m)
    BY <1>4
  <2>2. operation[m].got \in Int
    BY DEF FeedInv, FeedTypeOK, Operation
  <2>3. feed'[o] = feed[o] \/ feed'[o] = Replaced(feed[o], operation[m].got)
    BY <2>1 DEF PublishResult
  <2>4. Replaced(feed[o], operation[m].got).revision = feed[o].revision + 1
    BY <1>1, <2>2, ReplacedTypes
  <2> QED
    BY <1>1, <2>3, <2>4
<1>5. CASE Dropped(socket')
  BY <1>2, <1>5 DEF Dropped
<1>6. \A p \in Owners : Sampling(p) => feed' = feed \/ PublishSample(p)
  BY DEF Sampling, Begin, Read, Wake
<1>7. \A s \in Sockets : Serving(s) => feed' = feed \/ Dropped(socket')
  BY DEF Serving, Open, Subscribe, Forward, Deliver, Unsubscribe, Leave
<1>8. \A m \in Operations : Operating(m) => feed' = feed \/ PublishResult(m)
  BY DEF Operating, StartOperation, Act, TakeSnapshot, FailOperation
<1>9. Edit \/ Outage \/ Recover \/ ChangeAccess \/ LoginRunsOut => feed' = feed
  BY DEF Edit, Outage, Recover, ChangeAccess, LoginRunsOut
<1> QED
  BY <1>2, <1>3, <1>4, <1>5, <1>6, <1>7, <1>8, <1>9 DEF FeedNext

\* The task sends a revision, newer than all it has sent.
LEMMA SendKeepsOrder ==
  ASSUME NEW k \in Socket, NEW n \in Nat, k.subscribed, Telling(k, n), k.seen < n, NEW new,
         new.subscribed, new.seen = n, new.messages = Append(k.messages, n), new.told = k.told
  PROVE  Telling(new, n)
<1> DEFINE m == Append(k.messages, n)
<1>1. k.messages \in Seq(Nat) /\ k.told \in Nat /\ k.seen \in Nat /\ Len(k.messages) \in Nat
  BY DEF Socket
<1>2. /\ Len(m) = Len(k.messages) + 1 /\ m[Len(m)] = n
      /\ \A i \in 1..Len(k.messages) : m[i] = k.messages[i]
  BY <1>1, AppendProperties
<1>3. m # << >> /\ Len(m) \in Nat
  BY <1>1, <1>2, EmptySeq
<1>4. /\ new.subscribed /\ new.seen = n /\ new.messages = m /\ new.told = k.told
  OBVIOUS
<1> HIDE DEF m
<1>5. /\ LastSent(k) = k.seen /\ \A i \in 1..Len(k.messages) : k.told < k.messages[i]
      /\ \A i, j \in 1..Len(k.messages) : i < j => k.messages[i] < k.messages[j]
  BY DEF Telling, InOrder
<1>6. k.told < n /\ \A i \in 1..Len(k.messages) : k.messages[i] < n
  <2>1. CASE k.messages = << >>
    BY <1>1, <1>5, <2>1, EmptySeq DEF LastSent
  <2>2. CASE k.messages # << >>
    <3>1. Len(k.messages) \in 1..Len(k.messages) /\ k.messages[Len(k.messages)] = k.seen
      BY <1>1, <1>5, <2>2, EmptySeq DEF LastSent
    <3>2. \A i \in 1..Len(k.messages) : k.messages[i] \in Nat /\ k.messages[i] <= k.seen
      <4> SUFFICES ASSUME NEW i \in 1..Len(k.messages)
                   PROVE  k.messages[i] \in Nat /\ k.messages[i] <= k.seen
        OBVIOUS
      <4>1. k.messages[i] \in Nat
        BY <1>1, ElementOfSeq
      <4>2. i = Len(k.messages) \/ i < Len(k.messages)
        BY <1>1
      <4>3. i < Len(k.messages) => k.messages[i] < k.seen
        BY <1>5, <3>1
      <4> QED
        BY <1>1, <3>1, <4>1, <4>2, <4>3
    <3>3. k.told < k.seen
      BY <1>5, <3>1
    <3> QED
      BY <1>1, <3>2, <3>3
  <2> QED
    BY <2>1, <2>2
<1>7. \A i \in 1..Len(m) : i \in 1..Len(k.messages) \/ i = Len(m)
  BY <1>1, <1>2
<1>8. InOrder(new)
  <2>1. \A i \in 1..Len(m) : k.told < m[i]
    BY <1>2, <1>5, <1>6, <1>7
  <2>2. ASSUME NEW i \in 1..Len(m), NEW j \in 1..Len(m), i < j PROVE m[i] < m[j]
    <3>1. i \in 1..Len(k.messages)
      BY <1>1, <1>2, <2>2
    <3>2. CASE j \in 1..Len(k.messages)
      BY <1>2, <1>5, <2>2, <3>1, <3>2
    <3>3. CASE j = Len(m)
      BY <1>2, <1>6, <3>1, <3>3
    <3> QED
      BY <1>7, <3>2, <3>3
  <2> QED
    BY <1>4, <2>1, <2>2 DEF InOrder
<1>9. LastSent(new) = n
  BY <1>2, <1>3, <1>4 DEF LastSent
<1> QED
  BY <1>4, <1>8, <1>9 DEF Telling

\* The socket sends the oldest of what waits.
LEMMA DeliveryKeepsOrder ==
  ASSUME NEW k \in Socket, NEW r \in Nat, k.messages # << >>, Telling(k, r), NEW new,
         new.subscribed = k.subscribed, new.seen = k.seen, new.messages = Tail(k.messages),
         new.told = IF Head(k.messages) > k.told THEN Head(k.messages) ELSE k.told
  PROVE  Telling(new, r)
<1> DEFINE m == Tail(k.messages)
           h == Head(k.messages)
           n == IF h > k.told THEN h ELSE k.told
<1>1. k.messages \in Seq(Nat) /\ k.told \in Nat /\ k.seen \in Nat /\ Len(k.messages) \in Nat
  BY DEF Socket
<1>2. /\ Len(m) = Len(k.messages) - 1 /\ h = k.messages[1] /\ h \in Nat /\ m \in Seq(Nat)
      /\ \A i \in 1..Len(m) : m[i] = k.messages[i + 1]
  BY <1>1, HeadTailProperties
<1>3. Len(k.messages) \in Nat \ {0} /\ (m = << >> <=> Len(m) = 0) /\ Len(m) \in Nat
  <2>1. Len(k.messages) # 0
    BY <1>1, EmptySeq
  <2>2. m = << >> <=> Len(m) = 0
    BY <1>2, EmptySeq
  <2> HIDE DEF m
  <2> QED
    BY <1>1, <1>2, <2>1, <2>2
<1>4. /\ k.subscribed /\ LastSent(k) = k.seen /\ k.seen <= r
      /\ \A i \in 1..Len(k.messages) : k.told < k.messages[i]
      /\ \A i, j \in 1..Len(k.messages) : i < j => k.messages[i] < k.messages[j]
  BY DEF Telling, InOrder
<1>5. n = h
  BY <1>2, <1>3, <1>4
<1>6. new.subscribed /\ new.seen = k.seen /\ new.messages = m /\ new.told = n
  BY <1>4
<1> HIDE DEF m, n, h
<1>7. \A i \in 1..Len(m) : h < m[i]
  BY <1>2, <1>3, <1>4
<1>8. \A i, j \in 1..Len(m) : i < j => m[i] < m[j]
  BY <1>2, <1>3, <1>4
<1>9. LastSent(new) = k.seen
  <2>1. LastSent(k) = k.messages[Len(k.messages)]
    BY DEF LastSent
  <2>2. CASE m = << >>
    BY <1>2, <1>3, <1>4, <1>5, <1>6, <2>1, <2>2 DEF LastSent
  <2>3. CASE m # << >>
    <3>1. Len(m) \in 1..Len(m) /\ Len(m) + 1 = Len(k.messages)
      BY <1>2, <1>3, <2>3
    <3>2. m[Len(m)] = k.messages[Len(k.messages)]
      BY <1>2, <3>1
    <3> QED
      BY <1>4, <1>6, <2>1, <2>3, <3>2 DEF LastSent
  <2> QED
    BY <2>2, <2>3
<1> QED
  BY <1>4, <1>5, <1>6, <1>7, <1>8, <1>9 DEF Telling, InOrder

\* A page subscribes, with nothing on its way.
LEMMA SubscribingTells ==
  ASSUME NEW r \in Nat, NEW new,
         new.subscribed, new.seen = 0, new.told = 0, new.messages = << >>
  PROVE  Telling(new, r)
<1>1. Len(new.messages) = 0
  BY EmptySeq
<1> QED
  BY <1>1 DEF Telling, LastSent, InOrder

\* A newer feed takes nothing back.
LEMMA TellingStays ==
  ASSUME NEW k \in Socket, NEW r \in Nat, NEW t \in Nat, r <= t, Telling(k, r)
  PROVE  Telling(k, t)
BY DEF Telling, Socket

LEMMA TellingStep == FeedInv /\ TellingInv /\ [FeedNext]_feedVars => TellingInv'
<1> SUFFICES ASSUME FeedInv, TellingInv, [FeedNext]_feedVars PROVE TellingInv'
  OBVIOUS
<1>1. CASE UNCHANGED feedVars
  BY <1>1 DEF feedVars, TellingInv
<1>2. CASE FeedNext
  <2>1. /\ socket \in [Sockets -> Socket] /\ feed \in [Owners -> Feed]
        /\ \A s \in Sockets : Owned(socket[s]) /\ Telling(socket[s], feed[socket[s].permit.owner].revision)
        /\ \A s \in Sockets : Len(socket[s].messages) <= QueueSize
    BY DEF FeedInv, FeedTypeOK, TellingInv
  <2> SUFFICES ASSUME NEW q \in Sockets
               PROVE  Telling(socket'[q], feed'[socket'[q].permit.owner].revision)
    BY DEF TellingInv
  \* A socket that stays as it is.
  <2>2. ASSUME socket'[q] = socket[q]
        PROVE  Telling(socket'[q], feed'[socket'[q].permit.owner].revision)
    <3> DEFINE o == socket[q].permit.owner
    <3>1. CASE ~socket[q].subscribed
      BY <2>1, <2>2, <3>1 DEF Telling
    <3>2. CASE socket[q].subscribed
      <4>1. o \in Owners /\ Held(o, socket')
        BY <2>1, <2>2, <3>2 DEF Owned, Held
      <4> HIDE DEF o
      <4>2. feed[o].revision \in Nat /\ feed'[o].revision \in Nat /\ feed[o].revision <= feed'[o].revision
        BY <1>2, <4>1, RevisionsGrow
      <4>3. Telling(socket[q], feed[o].revision) /\ socket[q] \in Socket
        BY <2>1 DEF o
      <4>4. Telling(socket[q], feed'[o].revision)
        BY <4>2, <4>3, TellingStays
      <4> QED
        BY <2>2, <4>4 DEF o
    <3> QED
      BY <3>1, <3>2
  <2>3. ASSUME NEW s \in Sockets, Serving(s)
        PROVE  Telling(socket'[q], feed'[socket'[q].permit.owner].revision)
    <3>1. socket' = [socket EXCEPT ![s] = socket'[s]]
      BY <2>1, <2>3 DEF Serving, Open, Subscribe, Forward, Deliver, Unsubscribe, Leave
    <3>2. CASE q # s
      BY <2>1, <2>2, <3>1, <3>2
    <3>3. CASE q = s
      <4> DEFINE k == socket[s]
                 o == k.permit.owner
                 r == feed[o].revision
      <4>1. k \in Socket /\ Telling(k, r) /\ Len(k.messages) <= QueueSize
        BY <2>1
      <4>2. k.open \/ k.subscribed => r \in Nat
        BY <2>1 DEF Owned, Feed
      <4>3. CASE Open(s) \/ Leave(s) \/ Unsubscribe(s)
        <5>1. ~socket'[s].subscribed /\ socket'[s].messages = << >>
          <6>1. ~Closed.subscribed /\ Closed.messages = << >>
            BY DEF Closed
          <6>2. CASE Open(s)
            <7>1. socket'[s] = [Closed EXCEPT !.open = TRUE, !.permit = PermitFor(holder)]
              BY <2>1, <6>2 DEF Open
            <7> QED
              BY <6>1, <7>1 DEF Closed
          <6>3. CASE Leave(s)
            BY <2>1, <6>1, <6>3 DEF Leave
          <6>4. CASE Unsubscribe(s)
            <7>1. socket'[s] = [k EXCEPT !.subscribed = FALSE, !.messages = << >>]
              BY <2>1, <6>4 DEF Unsubscribe
            <7> QED
              BY <4>1, <7>1 DEF Socket
          <6> QED
            BY <4>3, <6>2, <6>3, <6>4
        <5> QED
          BY <3>3, <5>1 DEF Telling
      <4>4. CASE Subscribe(s)
        <5> DEFINE new == [k EXCEPT !.subscribed = TRUE, !.seen = 0, !.told = 0]
        <5>1. socket'[s] = new /\ feed' = feed /\ k.open /\ ~k.subscribed
          BY <2>1, <4>4 DEF Subscribe
        <5>2. k.messages = << >>
          BY <4>1, <5>1 DEF Telling
        <5>3. /\ new.permit = k.permit
              /\ new.subscribed /\ new.seen = 0 /\ new.told = 0 /\ new.messages = k.messages
          BY <4>1 DEF Socket
        <5> HIDE DEF new, r
        <5>4. Telling(new, r)
          BY <4>2, <5>1, <5>2, <5>3, SubscribingTells
        <5> QED
          BY <3>3, <5>1, <5>3, <5>4 DEF r
      <4>5. CASE Forward(s)
        <5> DEFINE new == [k EXCEPT !.seen = r, !.messages = Append(@, r)]
        <5>1. socket'[s] = new /\ feed' = feed /\ k.subscribed /\ r > k.seen
          BY <2>1, <4>5 DEF Forward
        <5>2. /\ new.permit = k.permit /\ k.seen \in Nat
              /\ new.subscribed = k.subscribed /\ new.seen = r /\ new.told = k.told
              /\ new.messages = Append(k.messages, r)
          BY <4>1 DEF Socket
        <5> HIDE DEF new, k, r
        <5>3. r \in Nat /\ k.seen < r
          BY <4>2, <5>1, <5>2
        <5>4. Telling(new, r)
          BY <4>1, <5>1, <5>2, <5>3, SendKeepsOrder
        <5> QED
          BY <3>3, <5>1, <5>2, <5>4 DEF r, k
      <4>6. CASE Deliver(s)
        <5> DEFINE new == [k EXCEPT !.messages = Tail(@),
                             !.told = IF Head(k.messages) > @ THEN Head(k.messages) ELSE @]
        <5>1. socket'[s] = new /\ feed' = feed /\ k.open /\ k.messages # << >>
          BY <2>1, <4>6 DEF Deliver
        <5>2. /\ new.permit = k.permit /\ new.subscribed = k.subscribed /\ new.seen = k.seen
              /\ new.messages = Tail(k.messages)
              /\ new.told = IF Head(k.messages) > k.told THEN Head(k.messages) ELSE k.told
          BY <4>1 DEF Socket
        <5> HIDE DEF new, k, r
        <5>3. Telling(new, r)
          BY <4>1, <4>2, <5>1, <5>2, DeliveryKeepsOrder
        <5> QED
          BY <3>3, <5>1, <5>2, <5>3 DEF r, k
      <4> QED
        BY <2>3, <4>3, <4>4, <4>5, <4>6 DEF Serving
    <3> QED
      BY <3>2, <3>3
  <2>4. ASSUME NEW o \in Owners, Sampling(o) PROVE socket' = socket
    BY <2>4 DEF Sampling, Begin, Read, PublishSample, Wake
  <2>5. ASSUME NEW m \in Operations, Operating(m) PROVE socket' = socket
    BY <2>5 DEF Operating, StartOperation, Act, TakeSnapshot, PublishResult, FailOperation
  <2>6. Edit \/ Outage \/ Recover \/ ChangeAccess \/ LoginRunsOut => socket' = socket
    BY DEF Edit, Outage, Recover, ChangeAccess, LoginRunsOut
  <2> QED
    BY <1>2, <2>2, <2>3, <2>4, <2>5, <2>6 DEF FeedNext
<1> QED
  BY <1>1, <1>2

\* A page is told in order, never beyond the feed, and what its task has seen
\* it was told or will be (git_events_socket.rs, the subscription's task).
THEOREM NothingIsSkipped == FeedSpec => []NothingSkipped
<1>1. FeedInit => TellingInv
  BY DEF FeedInit, TellingInv, Telling, Closed
<1>2. TellingInv => NothingSkipped
  BY DEF TellingInv, Telling, NothingSkipped
<1> QED
  BY <1>1, <1>2, FeedInvariant, TellingStep, PTL DEF FeedSpec
===============================================================================
