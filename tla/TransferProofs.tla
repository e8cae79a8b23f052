--------------------------- MODULE TransferProofs ---------------------------
(***************************************************************************)
(* Work that was stopped has no effect, and what was typed can be read:    *)
(* the transfers of the server for any number of requests, ids and slots,  *)
(* and the pastes for any number of sessions, pastes and days.             *)
(*                                                                         *)
(* A transfer stopped by a change of access is stopped by its permit,      *)
(* whose revision or holder never comes back (SealedRefused); one stopped  *)
(* by its user, by a flag it shares with its entry for as long as it has   *)
(* one (Watching, StoppedRaised).  No entry may give the flag away: so     *)
(* flags are numbered upwards (FlagsMade), and while a seal is under way   *)
(* no request of the new page is there to be cleared (SealShuts).          *)
(*                                                                         *)
(* A paste that is over left its files in a directory that its session has *)
(* registered, unless that session is ending (WrittenWithin); a directory  *)
(* that is not registered belongs to the one paste that holds it, which    *)
(* alone may empty it (Unregistered).  So what a failing paste removes is  *)
(* its own (Landed), and a session that swept what it had registered left  *)
(* nothing of its pastes (SweptClean).                                     *)
(***************************************************************************)
EXTENDS Transfers, TerminalStaging, FiniteSetTheorems, TLAPS

-----------------------------------------------------------------------------
(* The transfers of the server. *)

\* Identities and ids are of those that were given.
OwnersIssued ==
  /\ holder <= issued
  /\ \A t \in Requests : transfer[t].owner <= issued
NamedAtWork ==
  \A t \in In({"slotted", "permitted", "running", "checked"}) : transfer[t].id \in Ids

\* Permits are of their request, and of a revision that has been.
PermitsOwn ==
  \A t \in AtWork :
    /\ transfer[t].permit.owner = transfer[t].owner
    /\ transfer[t].permit.revision <= revision
FlagsMade == \A i \in Ids : entry[i].flag <= flags

\* A seal that is not complete has no request of the holder to clear.
SealShuts ==
  seal = "none" \/ holder = 0 \/ locked \/ \A t \in Requests : transfer[t].owner # holder

\* What a change of access met at work will be refused by its permit ...
SealedRefused ==
  \A t \in sealed : t \in AtWork /\ ~PermitGood(transfer[t].permit)

\* ... what runs watches the flag of its entry while it has one ...
Watching ==
  \A t \in In({"running"}) :
    \/ t \in outlived
    \/ transfer[t].flag \in raised
    \/ /\ entry[transfer[t].id].flag = transfer[t].flag
       /\ transfer[t].flag # 0 /\ ~entry[transfer[t].id].expired

\* ... so that what was cancelled runs on only with its flag raised.
StoppedRaised ==
  \A t \in stopped :
    /\ t \in In({"running", "checked", "ticket", "streaming"})
    /\ t \in outlived \/ (t \in In({"running"}) /\ transfer[t].flag \in raised)

TransferInv ==
  /\ TypeOK /\ OwnersIssued /\ NamedAtWork /\ PermitsOwn /\ FlagsMade /\ SealShuts
  /\ SealedRefused /\ Watching /\ StoppedRaised

LEMMA TransferInit == Init => TransferInv
<1> USE DEF Init, WorkbenchInit, IdleTransfer, NoEntry, PermitFor
<1>. SUFFICES ASSUME Init PROVE TransferInv
  OBVIOUS
<1>1. TypeOK
  BY DEF TypeOK, Entry, Transfer, Permit, Phases, Kinds
<1>2. \A t \in Requests : transfer[t].phase = "idle" /\ transfer[t].owner = 0
  OBVIOUS
<1>3. OwnersIssued
  BY <1>2 DEF OwnersIssued
<1>4. \A ps : "idle" \notin ps => In(ps) = {}
  BY <1>2 DEF In
<1>5. NamedAtWork /\ PermitsOwn /\ FlagsMade /\ SealShuts /\ SealedRefused /\ Watching /\ StoppedRaised
  BY <1>2 DEF NamedAtWork, PermitsOwn, FlagsMade, SealShuts, SealedRefused, Watching,
     StoppedRaised, AtWork, In
<1>. QED
  BY <1>1, <1>3, <1>5 DEF TransferInv

LEMMA IdleTyped ==
  ASSUME TypeOK
  PROVE  IdleTransfer.phase = "idle" /\ IdleTransfer.owner = 0 /\ IdleTransfer \in Transfer
BY DEF TypeOK, IdleTransfer, Transfer, PermitFor, Permit, Phases, Kinds

LEMMA Retire ==
  ASSUME TransferInv, TypeOK', UNCHANGED <<wbVars, seal, flags, raised>>,
         \A u \in Requests :
           \/ transfer'[u] = transfer[u]
           \/ /\ transfer'[u].phase \notin {"permitted", "running"}
              /\ transfer'[u].phase \in {"slotted", "checked"} => transfer'[u].id \in Ids
              /\ \/ transfer'[u].owner \in {transfer[u].owner, 0}
                 \/ transfer'[u].owner = holder /\ seal = "none",
         \A i \in Ids : /\ entry'[i].flag = entry[i].flag
                        /\ entry'[i].expired => entry[i].expired,
         \A u \in sealed' : u \in sealed /\ transfer'[u] = transfer[u],
         \A u \in stopped' :
           /\ u \in stopped
           /\ \/ transfer'[u] = transfer[u]
              \/ u \in outlived /\ transfer'[u].phase \in {"checked", "ticket", "streaming"},
         \A u \in outlived :
           u \notin outlived' => u \notin stopped' /\ transfer'[u].phase # "running"
  PROVE  TransferInv'
<1> USE DEF TransferInv
<1>1. holder' = holder /\ locked' = locked /\ revision' = revision /\ issued' = issued
      /\ seal' = seal /\ flags' = flags /\ raised' = raised
  BY DEF wbVars
<1>2. OwnersIssued'
  BY <1>1 DEF OwnersIssued, TypeOK
<1>3. NamedAtWork'
  BY DEF NamedAtWork, In
<1>4. PermitsOwn'
  BY <1>1 DEF PermitsOwn, AtWork, In
<1>5. FlagsMade'
  BY <1>1 DEF FlagsMade
<1>6. SealShuts'
  BY <1>1 DEF SealShuts
<1>7. SealedRefused'
  BY <1>1 DEF SealedRefused, AtWork, In, PermitGood
<1>8. Watching'
  BY <1>1 DEF Watching, NamedAtWork, In
<1>9. StoppedRaised'
  BY <1>1 DEF StoppedRaised, In
<1>. QED
  BY <1>2, <1>3, <1>4, <1>5, <1>6, <1>7, <1>8, <1>9

LEMMA FinishedKeeps ==
  ASSUME TypeOK, NEW n
  PROVE  /\ Finished(n) \in [Ids -> Entry]
         /\ \A i \in Ids : /\ Finished(n)[i].flag = entry[i].flag
                           /\ Finished(n)[i].expired => entry[i].expired
BY DEF Finished, TypeOK, Entry

LEMMA RetainedKeeps ==
  ASSUME TypeOK
  PROVE  /\ Retained \in [Requests -> Transfer]
         /\ \A u \in Requests :
              IF transfer[u].phase = "ticket" /\ transfer[u].expired
              THEN Retained[u] = IdleTransfer ELSE Retained[u] = transfer[u]
BY IdleTyped DEF Retained, TypeOK

LEMMA AdmitPreserves ==
  ASSUME TransferInv, NEW t \in Requests, NEW k \in Kinds, NEW i \in Ids, Admit(t, k, i)
  PROVE  TransferInv'
<1> DEFINE new == [IdleTransfer EXCEPT !.phase = "slotted", !.kind = k, !.owner = holder, !.id = i]
<1>. TypeOK
  BY DEF TransferInv
<1>1. new \in Transfer /\ new.phase = "slotted" /\ new.owner = holder /\ new.id = i
  BY DEF TypeOK, IdleTransfer, Transfer, Phases, PermitFor, Permit
<1>. HIDE DEF new
<1>2. transfer[t].phase = "idle" /\ seal = "none" /\ UNCHANGED <<wbVars, seal, registry>>
  BY DEF Admit, Served
<1>3. transfer' = Retained \/ transfer' = [Retained EXCEPT ![t] = new]
  BY DEF Admit, new
<1>4. transfer' \in [Requests -> Transfer]
  BY <1>1, <1>3, RetainedKeeps
<1>5. \A u \in Requests :
        \/ transfer'[u] = transfer[u]
        \/ /\ transfer'[u] = IdleTransfer
           /\ transfer[u].phase = "ticket" /\ transfer[u].expired
        \/ u = t /\ transfer'[u] = new
  BY <1>1, <1>3, RetainedKeeps
<1>6. IsFiniteSet(SlotHolders(Retained)) /\ refusal' \in {-1} \cup Nat
  <2>1. IsFiniteSet(SlotHolders(Retained))
    BY RequestsAssumption, FS_Subset DEF SlotHolders
  <2>2. Cardinality(SlotHolders(Retained)) \in Nat
    BY <2>1, FS_CardinalityType
  <2>. QED
    BY <2>1, <2>2 DEF Admit, TypeOK
<1>7. /\ stopped' = stopped \ {u \in In({"ticket"}) : transfer[u].expired}
      /\ sealed' = sealed \ {u \in In({"ticket"}) : transfer[u].expired}
      /\ late' = late \ {u \in In({"ticket"}) : transfer[u].expired}
      /\ outlived' = outlived \ {u \in In({"ticket"}) : transfer[u].expired}
  BY DEF Admit, Forget
<1>8. TypeOK'
  BY <1>2, <1>4, <1>6, <1>7 DEF TypeOK, registry, wbVars
<1>9. t \notin sealed /\ t \notin stopped
  BY <1>2 DEF TransferInv, SealedRefused, StoppedRaised, AtWork, In
<1>10. \A u \in Requests :
           \/ transfer'[u] = transfer[u]
           \/ /\ transfer'[u].phase \notin {"permitted", "running"}
              /\ transfer'[u].phase \in {"slotted", "checked"} => transfer'[u].id \in Ids
              /\ \/ transfer'[u].owner \in {transfer[u].owner, 0}
                 \/ transfer'[u].owner = holder /\ seal = "none"
  BY <1>1, <1>2, <1>5, IdleTyped
<1>11. \A u \in sealed' \cup stopped' : transfer'[u] = transfer[u]
  BY <1>5, <1>7, <1>9 DEF In, TypeOK
<1>12. \A u \in outlived :
           u \notin outlived' => u \notin stopped' /\ transfer'[u].phase # "running"
  BY <1>2, <1>5, <1>7, IdleTyped DEF In
<1>13. UNCHANGED <<wbVars, seal, flags, raised, entry>>
  BY <1>2 DEF registry
<1>. QED
  BY <1>7, <1>8, <1>10, <1>11, <1>12, <1>13, Retire

LEMMA TakePermitPreserves ==
  ASSUME TransferInv, NEW t \in Requests, TakePermit(t)
  PROVE  TransferInv'
<1> DEFINE p == PermitFor(transfer[t].owner)
<1>. TypeOK
  BY DEF TransferInv
<1>1. transfer[t].phase = "slotted" /\ transfer[t] \in Transfer
  BY DEF TakePermit, TypeOK
<1>2. UNCHANGED <<wbVars, seal, registry, history>>
  BY DEF TakePermit
<1>3. UNCHANGED <<holder, locked, revision, issued, seal, entry, flags, raised, refusal,
                  stopped, sealed, late, outlived>>
  BY <1>2 DEF wbVars, registry, history
<1>4. t \notin sealed /\ t \notin stopped
  BY <1>1 DEF TransferInv, SealedRefused, StoppedRaised, AtWork, In
<1>5. p \in Permit /\ p.owner = transfer[t].owner /\ p.revision = revision
  BY <1>1 DEF PermitFor, Permit, Transfer, TypeOK
<1>6. CASE PermitGood(p)
  <2> DEFINE q == [transfer[t] EXCEPT !.phase = "permitted", !.permit = p]
  <2>1. transfer' = [transfer EXCEPT ![t] = q]
    BY <1>6 DEF TakePermit, TypeOK
  <2>2. /\ q \in Transfer /\ q.phase = "permitted" /\ q.permit = p
        /\ q.owner = transfer[t].owner /\ q.id = transfer[t].id
    BY <1>1, <1>5 DEF Transfer, Phases
  <2>. HIDE DEF p, q
  <2>3. transfer' \in [Requests -> Transfer]
    BY <2>1, <2>2 DEF TypeOK
  <2>4. transfer'[t] = q /\ \A u \in Requests : u # t => transfer'[u] = transfer[u]
    BY <2>1 DEF TypeOK
  <2>5. TypeOK'
    BY <1>3, <2>3 DEF TypeOK
  <2>6. OwnersIssued'
    BY <1>3, <2>2, <2>4 DEF OwnersIssued, TransferInv
  <2>7. NamedAtWork'
    BY <1>1, <2>2, <2>4 DEF NamedAtWork, TransferInv, In
  <2>8. PermitsOwn'
    BY <1>3, <1>5, <2>2, <2>4 DEF PermitsOwn, TransferInv, AtWork, In, TypeOK
  <2>9. SealShuts' /\ FlagsMade'
    BY <1>3, <2>2, <2>4 DEF SealShuts, FlagsMade, TransferInv
  <2>10. SealedRefused'
    BY <1>3, <1>4, <2>4 DEF SealedRefused, TransferInv, AtWork, In, PermitGood, TypeOK
  <2>11. Watching'
    BY <1>3, <2>2, <2>4 DEF Watching, TransferInv, In
  <2>12. StoppedRaised'
    BY <1>3, <1>4, <2>4 DEF StoppedRaised, TransferInv, In, TypeOK
  <2>. QED
    BY <2>5, <2>6, <2>7, <2>8, <2>9, <2>10, <2>11, <2>12 DEF TransferInv
<1>7. CASE ~PermitGood(p)
  <2>1. transfer' = [transfer EXCEPT ![t] = IdleTransfer]
    BY <1>7 DEF TakePermit
  <2>2. \A u \in Requests : \/ transfer'[u] = transfer[u]
                            \/ u = t /\ transfer'[u] = IdleTransfer
    BY <2>1 DEF TypeOK
  <2>3. TypeOK'
    BY <1>3, <2>1, IdleTyped DEF TypeOK
  <2>4. \A u \in sealed \cup stopped : transfer'[u] = transfer[u]
    BY <1>4, <2>2 DEF TypeOK
  <2>. QED
    BY <1>2, <1>3, <2>2, <2>3, <2>4, IdleTyped, Retire
<1>. QED
  BY <1>6, <1>7

LEMMA EntryFound ==
  ASSUME TypeOK, FlagsMade, NEW i \in Ids, NEW o \in Nat
  PROVE  /\ EntryFor(i, o) \in Entry
         /\ EntryFor(i, o).flag \in 1..NewFlags(i) /\ ~EntryFor(i, o).expired
         /\ NewFlags(i) \in Nat /\ flags <= NewFlags(i)
         /\ entry[i].flag # 0 /\ ~entry[i].expired => EntryFor(i, o) = entry[i]
         /\ Purged \in [Ids -> Entry]
         /\ \A j \in Ids : /\ Purged[j].flag <= flags
                           /\ ~entry[j].expired => Purged[j] = entry[j]
<1>1. NoEntry \in Entry /\ NoEntry.flag = 0 /\ ~NoEntry.expired
  BY DEF NoEntry, Entry
<1>2. \A j \in Ids : /\ entry[j] \in Entry
                     /\ entry[j].flag \in Nat /\ entry[j].flag <= flags
                     /\ entry[j].expired \in BOOLEAN
  BY DEF TypeOK, Entry, FlagsMade
<1>3. /\ Purged \in [Ids -> Entry]
      /\ \A j \in Ids : IF entry[j].expired THEN Purged[j] = NoEntry ELSE Purged[j] = entry[j]
  BY <1>1, <1>2 DEF Purged
<1>4. ~Purged[i].expired /\ Purged[i] \in Entry /\ Purged[i].flag \in Nat /\ Purged[i].flag <= flags
  BY <1>1, <1>2, <1>3 DEF TypeOK
<1> DEFINE n == [NoEntry EXCEPT !.owner = o, !.flag = flags + 1]
<1>5. n \in Entry /\ n.flag = flags + 1 /\ ~n.expired
  <2>. flags \in Nat
    BY DEF TypeOK
  <2>1. flags + 1 \in Nat
    OBVIOUS
  <2>. QED
    BY <1>1, <2>1 DEF Entry
<1>. HIDE DEF n
<1>6. /\ Purged[i].flag # 0 => EntryFor(i, o) = Purged[i] /\ NewFlags(i) = flags
      /\ Purged[i].flag = 0 => EntryFor(i, o) = n /\ NewFlags(i) = flags + 1
  BY DEF EntryFor, NewFlags, n
<1>7. \A j \in Ids : /\ Purged[j].flag <= flags
                     /\ ~entry[j].expired => Purged[j] = entry[j]
  BY <1>1, <1>2, <1>3 DEF TypeOK
<1>8. /\ EntryFor(i, o) \in Entry
      /\ EntryFor(i, o).flag \in 1..NewFlags(i) /\ ~EntryFor(i, o).expired
      /\ NewFlags(i) \in Nat /\ flags <= NewFlags(i)
  BY <1>4, <1>5, <1>6 DEF TypeOK
<1>. QED
  BY <1>3, <1>6, <1>7, <1>8

LEMMA RegisterPreserves ==
  ASSUME TransferInv, NEW t \in Requests, Register(t)
  PROVE  TransferInv'
<1>. TypeOK /\ FlagsMade
  BY DEF TransferInv
<1>1. /\ transfer[t].phase = "permitted" /\ transfer[t] \in Transfer
      /\ transfer[t].id \in Ids /\ transfer[t].owner \in Nat
  BY DEF Register, TransferInv, TypeOK, NamedAtWork, In, Transfer
<1>2. PICK i \in Ids : i = transfer[t].id
  BY <1>1
<1>3. PICK e : e = EntryFor(i, transfer[t].owner)
  OBVIOUS
<1>4. /\ e \in Entry /\ e.flag \in 1..NewFlags(i) /\ ~e.expired
      /\ NewFlags(i) \in Nat /\ flags <= NewFlags(i)
      /\ entry[i].flag # 0 /\ ~entry[i].expired => e = entry[i]
      /\ Purged \in [Ids -> Entry]
      /\ \A j \in Ids : /\ Purged[j].flag <= flags
                        /\ ~entry[j].expired => Purged[j] = entry[j]
  BY <1>1, <1>3, EntryFound
<1>5. /\ UNCHANGED <<wbVars, seal, raised>> /\ flags' = NewFlags(i)
      /\ \/ /\ entry' = [Purged EXCEPT ![i] = [e EXCEPT !.started = TRUE]]
            /\ transfer' = [transfer EXCEPT ![t].phase = "running", ![t].flag = e.flag]
            /\ UNCHANGED history
         \/ /\ entry' = [Purged EXCEPT ![i] = e]
            /\ transfer' = [transfer EXCEPT ![t] = IdleTransfer]
            /\ sealed' = sealed \ {t}
            /\ UNCHANGED <<refusal, stopped, late, outlived>>
  BY <1>2, <1>3 DEF Register
<1>6. /\ UNCHANGED <<holder, locked, revision, issued, seal, raised, refusal,
                     stopped, late, outlived>>
      /\ sealed' = sealed \/ sealed' = sealed \ {t}
  BY <1>5 DEF wbVars, history
<1>7. t \notin stopped
  BY <1>1 DEF TransferInv, StoppedRaised, In
<1>8. /\ entry' \in [Ids -> Entry]
      /\ entry'[i].flag = e.flag /\ ~entry'[i].expired
      /\ \A j \in Ids : j # i => entry'[j] = Purged[j]
  <2>1. PICK f : f = [e EXCEPT !.started = TRUE]
    OBVIOUS
  <2>2. f \in Entry /\ f.flag = e.flag /\ f.expired = e.expired
    BY <1>4, <2>1 DEF Entry
  <2>3. entry' = [Purged EXCEPT ![i] = f] \/ entry' = [Purged EXCEPT ![i] = e]
    BY <1>5, <2>1
  <2>. QED
    BY <1>4, <2>2, <2>3
<1>9. \A j \in Ids : entry'[j].flag <= flags'
  BY <1>4, <1>5, <1>8 DEF TypeOK, Entry
<1>10. PICK q : q = [transfer[t] EXCEPT !.phase = "running", !.flag = e.flag]
  OBVIOUS
<1>11. /\ q \in Transfer /\ q.phase = "running" /\ q.flag = e.flag /\ q.id = i
       /\ q.owner = transfer[t].owner /\ q.permit = transfer[t].permit
  BY <1>1, <1>2, <1>4, <1>10 DEF Transfer, Phases, Entry
<1>12. \/ transfer' = [transfer EXCEPT ![t] = q] /\ UNCHANGED sealed
       \/ transfer' = [transfer EXCEPT ![t] = IdleTransfer] /\ sealed' = sealed \ {t}
  BY <1>5, <1>10 DEF TypeOK, history
<1>13. /\ transfer' \in [Requests -> Transfer]
       /\ \A u \in Requests : u # t => transfer'[u] = transfer[u]
       /\ \/ transfer'[t] = q
          \/ transfer'[t] = IdleTransfer /\ t \notin sealed'
  BY <1>11, <1>12, IdleTyped DEF TypeOK
<1>14. TypeOK'
  <2>1. raised \subseteq 1..flags'
    BY <1>4, <1>5 DEF TypeOK
  <2>. QED
    BY <1>4, <1>5, <1>6, <1>8, <1>13, <2>1 DEF TypeOK
<1>15. OwnersIssued'
  BY <1>6, <1>11, <1>13, IdleTyped DEF OwnersIssued, TransferInv, TypeOK
<1>16. NamedAtWork'
  BY <1>11, <1>13, IdleTyped DEF NamedAtWork, TransferInv, In
<1>17. PermitsOwn'
  BY <1>1, <1>6, <1>11, <1>13, IdleTyped DEF PermitsOwn, TransferInv, AtWork, In
<1>18. FlagsMade'
  BY <1>9 DEF FlagsMade
<1>19. SealShuts'
  <2>1. holder # 0 => \A u \in Requests : transfer'[u].owner = holder => transfer[u].owner = holder
    BY <1>11, <1>13, IdleTyped
  <2>. QED
    BY <1>6, <2>1 DEF SealShuts, TransferInv
<1>20. SealedRefused'
  BY <1>6, <1>11, <1>13 DEF SealedRefused, TransferInv, AtWork, In, PermitGood, TypeOK
<1>21. Watching'
  <2>. SUFFICES ASSUME NEW u \in Requests, transfer'[u].phase = "running",
                       u \notin outlived, transfer'[u].flag \notin raised
                PROVE  /\ entry'[transfer'[u].id].flag = transfer'[u].flag
                       /\ transfer'[u].flag # 0 /\ ~entry'[transfer'[u].id].expired
    BY <1>6 DEF Watching, In
  <2>1. CASE u = t
    BY <1>4, <1>8, <1>11, <1>13, <2>1, IdleTyped
  <2>2. CASE u # t
    <3>1. transfer'[u] = transfer[u]
      BY <1>13, <2>2
    <3>2. /\ entry[transfer[u].id].flag = transfer[u].flag
          /\ transfer[u].flag # 0 /\ ~entry[transfer[u].id].expired
          /\ transfer[u].id \in Ids
      BY <3>1 DEF TransferInv, Watching, NamedAtWork, In
    <3>. QED
      BY <1>4, <1>8, <3>1, <3>2
  <2>. QED
    BY <2>1, <2>2
<1>22. StoppedRaised'
  BY <1>6, <1>7, <1>13 DEF StoppedRaised, TransferInv, In, TypeOK
<1>. QED
  BY <1>14, <1>15, <1>16, <1>17, <1>18, <1>19, <1>20, <1>21, <1>22 DEF TransferInv

LEMMA ReleasePreserves ==
  ASSUME TransferInv, NEW t \in Requests, Release(t), UNCHANGED <<wbVars, seal>>
  PROVE  TransferInv'
<1>. TypeOK
  BY DEF TransferInv
<1>1. /\ transfer' = [transfer EXCEPT ![t] = IdleTransfer]
      /\ entry' = Finished(transfer[t].id)
      /\ stopped' = stopped \ {t} /\ sealed' = sealed \ {t}
      /\ late' = late \ {t} /\ outlived' = outlived \ {t}
      /\ UNCHANGED <<flags, raised, refusal>>
  BY DEF Release, Forget
<1>2. /\ transfer' \in [Requests -> Transfer]
      /\ transfer'[t] = IdleTransfer
      /\ \A u \in Requests : u # t => transfer'[u] = transfer[u]
  BY <1>1, IdleTyped DEF TypeOK
<1>3. TypeOK'
  BY <1>1, <1>2, FinishedKeeps DEF TypeOK, wbVars
<1>4. \A u \in sealed' \cup stopped' : transfer'[u] = transfer[u]
  BY <1>1, <1>2 DEF TypeOK
<1>5. \A i \in Ids : entry'[i].flag = entry[i].flag /\ (entry'[i].expired => entry[i].expired)
  BY <1>1, FinishedKeeps
<1>6. \A u \in Requests :
           \/ transfer'[u] = transfer[u]
           \/ /\ transfer'[u].phase \notin {"permitted", "running"}
              /\ transfer'[u].phase \in {"slotted", "checked"} => transfer'[u].id \in Ids
              /\ transfer'[u].owner \in {transfer[u].owner, 0}
  BY <1>2, IdleTyped
<1>7. \A u \in outlived :
           u \notin outlived' => u \notin stopped' /\ transfer'[u].phase # "running"
  BY <1>1, <1>2, IdleTyped
<1>. QED
  BY <1>1, <1>3, <1>4, <1>5, <1>6, <1>7, Retire

LEMMA MovePreserves ==
  ASSUME TransferInv, NEW t \in Requests, NEW q \in Transfer,
         UNCHANGED <<wbVars, seal, flags, raised, history>>,
         transfer' = [transfer EXCEPT ![t] = q],
         entry' = entry \/ entry' = Finished(transfer[t].id),
         q.phase \in {"checked", "ticket", "streaming"},
         q.phase = "checked" => q.id \in Ids,
         q.owner = transfer[t].owner,
         t \notin sealed, t \in stopped => t \in outlived
  PROVE  TransferInv'
<1>. TypeOK
  BY DEF TransferInv
<1>1. UNCHANGED <<stopped, sealed, late, outlived, refusal>>
  BY DEF history
<1>2. /\ transfer' \in [Requests -> Transfer]
      /\ transfer'[t] = q
      /\ \A u \in Requests : u # t => transfer'[u] = transfer[u]
  BY DEF TypeOK
<1>3. /\ entry' \in [Ids -> Entry]
      /\ \A i \in Ids : entry'[i].flag = entry[i].flag /\ (entry'[i].expired => entry[i].expired)
  BY FinishedKeeps DEF TypeOK
<1>4. TypeOK'
  BY <1>1, <1>2, <1>3 DEF TypeOK, wbVars
<1>5. \A u \in Requests :
           \/ transfer'[u] = transfer[u]
           \/ /\ transfer'[u].phase \notin {"permitted", "running"}
              /\ transfer'[u].phase \in {"slotted", "checked"} => transfer'[u].id \in Ids
              /\ transfer'[u].owner \in {transfer[u].owner, 0}
  BY <1>2
<1>6. \A u \in sealed' : u \in sealed /\ transfer'[u] = transfer[u]
  BY <1>1, <1>2 DEF TypeOK
<1>7. \A u \in stopped' :
           /\ u \in stopped
           /\ \/ transfer'[u] = transfer[u]
              \/ u \in outlived /\ transfer'[u].phase \in {"checked", "ticket", "streaming"}
  BY <1>1, <1>2 DEF TypeOK
<1>. QED
  BY <1>1, <1>3, <1>4, <1>5, <1>6, <1>7, Retire

LEMMA PhaseMoves ==
  ASSUME TypeOK, NEW t \in Requests, NEW phase \in Phases
  PROVE  \E q \in Transfer :
           /\ [transfer EXCEPT ![t].phase = phase] = [transfer EXCEPT ![t] = q]
           /\ q.phase = phase /\ q.owner = transfer[t].owner /\ q.id = transfer[t].id
<1> DEFINE q == [transfer[t] EXCEPT !.phase = phase]
<1>1. transfer[t] \in Transfer
  BY DEF TypeOK
<1>2. q \in Transfer /\ q.phase = phase /\ q.owner = transfer[t].owner /\ q.id = transfer[t].id
  BY <1>1 DEF Transfer
<1>. QED
  BY <1>2

LEMMA LastCheckPreserves ==
  ASSUME TransferInv, NEW t \in Requests, LastCheck(t)
  PROVE  TransferInv'
<1>. TypeOK
  BY DEF TransferInv
<1>1. transfer[t].phase = "running" /\ Good(t) /\ transfer[t].id \in Ids
  BY DEF LastCheck, TransferInv, NamedAtWork, In
<1>2. t \notin sealed /\ (t \in stopped => t \in outlived)
  BY <1>1 DEF TransferInv, SealedRefused, StoppedRaised, Good
<1>3. PICK q \in Transfer :
        /\ transfer' = [transfer EXCEPT ![t] = q]
        /\ q.phase = "checked" /\ q.owner = transfer[t].owner /\ q.id = transfer[t].id
  BY PhaseMoves DEF LastCheck, Goto, Phases
<1>4. UNCHANGED <<wbVars, seal, flags, raised, history>> /\ entry' = entry
  BY DEF LastCheck, registry
<1>. QED
  BY <1>1, <1>2, <1>3, <1>4, MovePreserves

LEMMA Apart ==
  ASSUME TransferInv, NEW t \in Requests, transfer[t].phase \in {"checked", "ticket", "streaming"}
  PROVE  t \notin sealed /\ (t \in stopped => t \in outlived)
BY DEF TransferInv, SealedRefused, StoppedRaised, AtWork, In

LEMMA IssueTicketPreserves ==
  ASSUME TransferInv, NEW t \in Requests, IssueTicket(t)
  PROVE  TransferInv'
<1>. TypeOK
  BY DEF TransferInv
<1>1. transfer[t].phase = "checked" /\ transfer[t] \in Transfer
  BY DEF IssueTicket, TypeOK
<1>2. PICK q : q = [transfer[t] EXCEPT !.phase = "ticket", !.id = NoId]
  OBVIOUS
<1>3. q \in Transfer /\ q.phase = "ticket" /\ q.owner = transfer[t].owner
  BY <1>1, <1>2 DEF Transfer, Phases
<1>4. /\ transfer' = [transfer EXCEPT ![t] = q] /\ entry' = Finished(transfer[t].id)
      /\ UNCHANGED <<wbVars, seal, flags, raised, history>>
  BY <1>2 DEF IssueTicket, TypeOK
<1>5. t \notin sealed /\ (t \in stopped => t \in outlived)
  BY <1>1, Apart
<1>. QED
  BY <1>3, <1>4, <1>5, MovePreserves

LEMMA RedeemPreserves ==
  ASSUME TransferInv, NEW t \in Requests, Redeem(t)
  PROVE  TransferInv'
<1>. TypeOK
  BY DEF TransferInv
<1>1. transfer[t].phase = "ticket"
  BY DEF Redeem
<1>2. t \notin sealed /\ (t \in stopped => t \in outlived)
  BY <1>1, Apart
<1>3. PICK q \in Transfer :
        /\ transfer' = [transfer EXCEPT ![t] = q]
        /\ q.phase = "streaming" /\ q.owner = transfer[t].owner /\ q.id = transfer[t].id
  BY PhaseMoves DEF Redeem, Goto, Phases
<1>4. UNCHANGED <<wbVars, seal, flags, raised, history>> /\ entry' = entry
  BY DEF Redeem, registry
<1>. QED
  BY <1>2, <1>3, <1>4, MovePreserves

LEMMA ExpireTicketPreserves ==
  ASSUME TransferInv, NEW t \in Requests, ExpireTicket(t)
  PROVE  TransferInv'
<1>. TypeOK
  BY DEF TransferInv
<1>1. transfer[t].phase = "ticket" /\ transfer[t] \in Transfer
  BY DEF ExpireTicket, TypeOK
<1>2. t \notin sealed /\ (t \in stopped => t \in outlived)
  BY <1>1, Apart
<1>3. PICK q : q = [transfer[t] EXCEPT !.expired = TRUE]
  OBVIOUS
<1>4. q \in Transfer /\ q.phase = "ticket" /\ q.owner = transfer[t].owner
  BY <1>1, <1>3 DEF Transfer
<1>5. /\ transfer' = [transfer EXCEPT ![t] = q]
      /\ UNCHANGED <<wbVars, seal, flags, raised, history>> /\ entry' = entry
  BY <1>3 DEF ExpireTicket, registry
<1>. QED
  BY <1>2, <1>4, <1>5, MovePreserves

LEMMA ClearDownloadsPreserves ==
  ASSUME TransferInv, ClearDownloads
  PROVE  TransferInv'
<1>. TypeOK
  BY DEF TransferInv
<1>1. /\ seal = "downloads" /\ seal' = "tasks"
      /\ stopped' = stopped \ In({"ticket"}) /\ sealed' = sealed \ In({"ticket"})
      /\ late' = late \ In({"ticket"}) /\ outlived' = outlived \ In({"ticket"})
      /\ UNCHANGED <<holder, locked, revision, issued, entry, flags, raised, refusal>>
  BY DEF ClearDownloads, Forget, wbVars, registry
<1>2. /\ transfer' \in [Requests -> Transfer]
      /\ \A u \in Requests : IF transfer[u].phase = "ticket" THEN transfer'[u] = IdleTransfer
                             ELSE transfer'[u] = transfer[u]
  BY IdleTyped DEF ClearDownloads, TypeOK
<1>3. TypeOK'
  BY <1>1, <1>2 DEF TypeOK
<1>4. OwnersIssued'
  BY <1>1, <1>2, IdleTyped DEF TransferInv, OwnersIssued, TypeOK
<1>5. NamedAtWork'
  BY <1>2, IdleTyped DEF TransferInv, NamedAtWork, In
<1>6. PermitsOwn'
  BY <1>1, <1>2, IdleTyped DEF TransferInv, PermitsOwn, AtWork, In
<1>7. FlagsMade'
  BY <1>1 DEF TransferInv, FlagsMade
<1>8. SealShuts'
  BY <1>1, <1>2, IdleTyped DEF TransferInv, SealShuts
<1>9. SealedRefused'
  BY <1>1, <1>2 DEF TransferInv, SealedRefused, AtWork, In, PermitGood
<1>10. Watching'
  BY <1>1, <1>2, IdleTyped DEF TransferInv, Watching, In
<1>11. StoppedRaised'
  BY <1>1, <1>2 DEF TransferInv, StoppedRaised, In
<1>. QED
  BY <1>3, <1>4, <1>5, <1>6, <1>7, <1>8, <1>9, <1>10, <1>11 DEF TransferInv

LEMMA ClearTasksPreserves ==
  ASSUME TransferInv, ClearTasks
  PROVE  TransferInv'
<1>. TypeOK
  BY DEF TransferInv
<1>1. /\ seal = "tasks" /\ seal' = "none"
      /\ raised' = raised \cup ({entry[i].flag : i \in Ids} \ {0})
      /\ entry' = [i \in Ids |-> NoEntry]
      /\ sealed' = sealed \cup AtWork
      /\ late' = late \cup In({"checked", "ticket"})
      /\ UNCHANGED <<holder, locked, revision, issued, flags, transfer, refusal, stopped, outlived>>
  BY DEF ClearTasks, wbVars
<1>2. entry' \in [Ids -> Entry] /\ \A i \in Ids : entry'[i].flag = 0
  BY <1>1 DEF NoEntry, Entry
<1>3. {entry[i].flag : i \in Ids} \ {0} \subseteq 1..flags
  BY DEF TransferInv, FlagsMade, TypeOK, Entry
<1>4. TypeOK'
  BY <1>1, <1>2, <1>3 DEF TypeOK, AtWork, In
<1>5. OwnersIssued' /\ NamedAtWork' /\ PermitsOwn'
  BY <1>1 DEF TransferInv, OwnersIssued, NamedAtWork, PermitsOwn, AtWork, In
<1>6. FlagsMade'
  BY <1>1, <1>2 DEF FlagsMade, TypeOK
<1>7. SealShuts'
  BY <1>1 DEF SealShuts
<1>8. SealedRefused'
  <2>. SUFFICES ASSUME NEW u \in AtWork PROVE ~PermitGood(transfer[u].permit)
    BY <1>1 DEF TransferInv, SealedRefused, AtWork, In, PermitGood
  <2>1. transfer[u].permit.owner = transfer[u].owner /\ u \in Requests
    BY DEF TransferInv, PermitsOwn, AtWork, In
  <2>. QED
    BY <1>1, <2>1 DEF TransferInv, SealShuts, PermitGood
<1>9. Watching'
  BY <1>1 DEF TransferInv, Watching, NamedAtWork, In
<1>10. StoppedRaised'
  BY <1>1 DEF TransferInv, StoppedRaised, In
<1>. QED
  BY <1>4, <1>5, <1>6, <1>7, <1>8, <1>9, <1>10 DEF TransferInv

LEMMA CancelPreserves ==
  ASSUME TransferInv, NEW i \in Ids, Cancel(i)
  PROVE  TransferInv'
<1>. TypeOK /\ FlagsMade /\ holder \in Nat
  BY DEF TransferInv, TypeOK
<1>1. PICK e : e = EntryFor(i, holder)
  OBVIOUS
<1>2. /\ e \in Entry /\ e.flag \in 1..NewFlags(i) /\ ~e.expired
      /\ NewFlags(i) \in Nat /\ flags <= NewFlags(i)
      /\ entry[i].flag # 0 /\ ~entry[i].expired => e = entry[i]
      /\ Purged \in [Ids -> Entry]
      /\ \A j \in Ids : /\ Purged[j].flag <= flags
                        /\ ~entry[j].expired => Purged[j] = entry[j]
  BY <1>1, EntryFound
<1>3. /\ flags' = NewFlags(i) /\ entry' = [Purged EXCEPT ![i] = e]
      /\ \/ /\ raised' = raised \cup {e.flag}
            /\ stopped' = stopped \cup {t \in In({"running"}) :
                                 transfer[t].id = i /\ transfer[t].owner = holder}
         \/ UNCHANGED <<raised, stopped>>
  BY <1>1 DEF Cancel
<1>4. UNCHANGED <<holder, locked, revision, issued, seal, transfer, refusal, sealed, late, outlived>>
  BY DEF Cancel, wbVars
<1>5. /\ entry' \in [Ids -> Entry] /\ entry'[i] = e
      /\ \A j \in Ids : j # i => entry'[j] = Purged[j]
  BY <1>2, <1>3
<1>6. TypeOK'
  <2>1. raised' \subseteq 1..flags'
    <3>1. raised \subseteq 1..flags /\ flags \in Nat
      BY DEF TypeOK
    <3>2. raised' \subseteq raised \cup {e.flag}
      BY <1>3
    <3>. QED
      BY <1>2, <1>3, <3>1, <3>2
  <2>2. stopped' \subseteq Requests
    BY <1>3 DEF TypeOK, In
  <2>. QED
    BY <1>2, <1>3, <1>4, <1>5, <2>1, <2>2 DEF TypeOK
<1>7. OwnersIssued' /\ NamedAtWork' /\ PermitsOwn' /\ SealShuts' /\ SealedRefused'
  BY <1>4 DEF TransferInv, OwnersIssued, NamedAtWork, PermitsOwn, SealShuts, SealedRefused,
     AtWork, In, PermitGood
<1>8. FlagsMade'
  <2>. SUFFICES ASSUME NEW j \in Ids PROVE entry'[j].flag <= flags'
    BY DEF FlagsMade
  <2>1. CASE j = i
    BY <1>2, <1>3, <1>5, <2>1
  <2>2. CASE j # i
    <3>1. Purged[j].flag \in Nat /\ Purged[j].flag <= flags /\ flags \in Nat
      BY <1>2 DEF Entry, TypeOK
    <3>. QED
      BY <1>2, <1>3, <1>5, <2>2, <3>1
  <2>. QED
    BY <2>1, <2>2
<1>9. \A u \in Requests :
        transfer[u].phase = "running" /\ u \notin outlived /\ transfer[u].flag \notin raised =>
          LET j == transfer[u].id
          IN j \in Ids /\ entry'[j] = entry[j] /\ entry[j].flag = transfer[u].flag
             /\ transfer[u].flag # 0 /\ ~entry[j].expired /\ (j = i => e.flag = transfer[u].flag)
  <2>. SUFFICES ASSUME NEW u \in Requests, transfer[u].phase = "running",
                       u \notin outlived, transfer[u].flag \notin raised
                PROVE  LET j == transfer[u].id
          IN j \in Ids /\ entry'[j] = entry[j] /\ entry[j].flag = transfer[u].flag
             /\ transfer[u].flag # 0 /\ ~entry[j].expired /\ (j = i => e.flag = transfer[u].flag)
    OBVIOUS
  <2>1. PICK j \in Ids : j = transfer[u].id
    BY DEF TransferInv, NamedAtWork, In
  <2>2. entry[j].flag = transfer[u].flag /\ transfer[u].flag # 0 /\ ~entry[j].expired
    BY <2>1 DEF TransferInv, Watching, In
  <2>3. entry'[j] = entry[j] /\ (j = i => e.flag = transfer[u].flag)
    BY <1>2, <1>5, <2>1, <2>2
  <2>. QED
    BY <2>1, <2>2, <2>3
<1>10. Watching'
  BY <1>3, <1>4, <1>9 DEF Watching, In
<1>11. StoppedRaised'
  <2>. SUFFICES ASSUME NEW u \in stopped'
                PROVE  /\ u \in In({"running", "checked", "ticket", "streaming"})
                       /\ u \in outlived \/ (u \in In({"running"}) /\ transfer[u].flag \in raised')
    BY <1>4 DEF StoppedRaised, In
  <2>1. CASE u \in stopped
    BY <1>3, <2>1 DEF TransferInv, StoppedRaised
  <2>2. CASE u \notin stopped
    <3>1. /\ u \in In({"running"}) /\ transfer[u].id = i /\ raised' = raised \cup {e.flag}
      BY <1>3, <2>2
    <3>. QED
      BY <1>9, <3>1 DEF In
  <2>. QED
    BY <2>1, <2>2
<1>. QED
  BY <1>6, <1>7, <1>8, <1>10, <1>11 DEF TransferInv

LEMMA ExpireEntryPreserves ==
  ASSUME TransferInv, NEW i \in Ids, ExpireEntry(i)
  PROVE  TransferInv'
<1>. TypeOK
  BY DEF TransferInv
<1>1. /\ entry' = [entry EXCEPT ![i].expired = TRUE]
      /\ outlived' = outlived \cup {t \in In({"running"}) : transfer[t].flag = entry[i].flag}
      /\ UNCHANGED <<holder, locked, revision, issued, seal, flags, raised, transfer, refusal,
                     stopped, sealed, late>>
  BY DEF ExpireEntry, wbVars
<1>2. /\ entry' \in [Ids -> Entry]
      /\ \A j \in Ids : entry'[j].flag = entry[j].flag /\ (j # i => entry'[j] = entry[j])
  BY <1>1 DEF TypeOK, Entry
<1>3. TypeOK'
  BY <1>1, <1>2 DEF TypeOK, In
<1>4. OwnersIssued' /\ NamedAtWork' /\ PermitsOwn' /\ SealShuts' /\ SealedRefused'
  BY <1>1 DEF TransferInv, OwnersIssued, NamedAtWork, PermitsOwn, SealShuts, SealedRefused,
     AtWork, In, PermitGood
<1>5. FlagsMade'
  BY <1>1, <1>2 DEF TransferInv, FlagsMade
<1>6. Watching'
  BY <1>1, <1>2 DEF TransferInv, Watching, NamedAtWork, In
<1>7. StoppedRaised'
  BY <1>1 DEF TransferInv, StoppedRaised, In
<1>. QED
  BY <1>3, <1>4, <1>5, <1>6, <1>7 DEF TransferInv

LEMMA AccessTurns ==
  ASSUME TypeOK, OwnersIssued, Enter \/ Turn \/ Exit
  PROVE  /\ revision' = revision + 1 /\ locked' \in BOOLEAN
         /\ holder' \in Nat /\ issued' \in Nat /\ holder' <= issued' /\ issued <= issued'
         /\ holder' \in {holder, 0} \/ issued < holder'
<1>. holder \in Nat /\ issued \in Nat /\ holder <= issued /\ revision \in Nat
  BY DEF TypeOK, OwnersIssued
<1>1. CASE Enter
  BY <1>1 DEF Enter
<1>2. CASE Turn
  BY <1>2 DEF Turn
<1>3. CASE Exit
  <2>1. locked' \in BOOLEAN
    BY <1>3, Zenon DEF Exit
  <2>2. holder' = 0 /\ issued' = issued /\ revision' = revision + 1
    BY <1>3 DEF Exit
  <2>. QED
    BY <2>1, <2>2
<1>. QED
  BY <1>1, <1>2, <1>3

LEMMA ChangeAccessPreserves ==
  ASSUME TransferInv, ChangeAccess
  PROVE  TransferInv'
<1>. TypeOK /\ OwnersIssued
  BY DEF TransferInv
<1>1. /\ revision' = revision + 1 /\ locked' \in BOOLEAN
      /\ holder' \in Nat /\ issued' \in Nat /\ holder' <= issued' /\ issued <= issued'
      /\ holder' \in {holder, 0} \/ issued < holder'
  BY AccessTurns DEF ChangeAccess
<1>2. /\ seal = "none" /\ sealed' = sealed \cup AtWork
      /\ seal' \in {"none", "downloads"}
      /\ seal' = "downloads" => holder' = 0 \/ holder' # holder \/ locked'
      /\ UNCHANGED <<entry, flags, raised, transfer, refusal, stopped, late, outlived>>
  BY DEF ChangeAccess, registry
<1>. revision \in Nat /\ issued \in Nat /\ holder \in Nat
  BY DEF TypeOK
<1>3. \A t \in Requests : transfer[t].owner \in Nat /\ transfer[t].owner <= issued
  BY DEF TypeOK, Transfer, OwnersIssued
<1>4. TypeOK'
  BY <1>1, <1>2 DEF TypeOK, AtWork, In
<1>5. OwnersIssued'
  BY <1>1, <1>2, <1>3 DEF OwnersIssued
<1>6. \A t \in AtWork : /\ transfer[t].permit.owner = transfer[t].owner
                        /\ transfer[t].permit.revision \in Nat
                        /\ transfer[t].permit.revision <= revision
  BY DEF TransferInv, PermitsOwn, TypeOK, Transfer, Permit, AtWork, In
<1>7. NamedAtWork' /\ FlagsMade' /\ Watching' /\ StoppedRaised'
  BY <1>2 DEF TransferInv, NamedAtWork, FlagsMade, Watching, StoppedRaised, In
<1>8. PermitsOwn'
  BY <1>1, <1>2, <1>6 DEF PermitsOwn, AtWork, In
<1>9. SealShuts'
  <2>. SUFFICES ASSUME seal' = "downloads", holder' # 0, ~locked', NEW t \in Requests
                PROVE  transfer[t].owner # holder'
    BY <1>2 DEF SealShuts
  <2>1. issued < holder'
    BY <1>1, <1>2
  <2>. QED
    BY <1>1, <1>3, <2>1
<1>10. SealedRefused'
  <2>. SUFFICES ASSUME NEW t \in AtWork
                PROVE  transfer[t].permit.revision # revision + 1
    BY <1>1, <1>2 DEF TransferInv, SealedRefused, AtWork, In, PermitGood
  <2>. QED
    BY <1>6
<1>. QED
  BY <1>4, <1>5, <1>7, <1>8, <1>9, <1>10 DEF TransferInv

LEMMA LoginRunsOutPreserves ==
  ASSUME TransferInv, LoginRunsOut
  PROVE  TransferInv'
<1>. TypeOK
  BY DEF TransferInv
<1>1. /\ holder' = 0
      /\ UNCHANGED <<locked, revision, issued, seal, entry, flags, raised, transfer, refusal,
                     stopped, sealed, late, outlived>>
  BY DEF LoginRunsOut, RunOut, transferVars, registry, history
<1>2. TypeOK'
  BY <1>1 DEF TypeOK
<1>3. OwnersIssued'
  BY <1>1 DEF TransferInv, OwnersIssued, TypeOK
<1>4. NamedAtWork' /\ FlagsMade' /\ Watching' /\ StoppedRaised' /\ PermitsOwn'
  BY <1>1 DEF TransferInv, NamedAtWork, FlagsMade, Watching, StoppedRaised, PermitsOwn, AtWork, In
<1>5. SealShuts' /\ SealedRefused'
  BY <1>1 DEF TransferInv, SealShuts, SealedRefused, AtWork, In, PermitGood
<1>. QED
  BY <1>2, <1>3, <1>4, <1>5 DEF TransferInv

LEMMA TransferStep == TransferInv /\ [Next]_vars => TransferInv'
<1>. SUFFICES ASSUME TransferInv, [Next]_vars PROVE TransferInv'
  OBVIOUS
<1>1. ASSUME NEW t \in Requests, NEW kind \in Kinds, NEW i \in Ids, Admit(t, kind, i)
      PROVE  TransferInv'
  BY <1>1, AdmitPreserves
<1>2. ASSUME NEW t \in Requests, TakePermit(t) PROVE TransferInv'
  BY <1>2, TakePermitPreserves
<1>3. ASSUME NEW t \in Requests, Register(t) PROVE TransferInv'
  BY <1>3, RegisterPreserves
<1>4. ASSUME NEW t \in Requests, Break(t) \/ PutInPlace(t) \/ EndStream(t) PROVE TransferInv'
  BY <1>4, ReleasePreserves DEF Break, PutInPlace, EndStream
<1>5. ASSUME NEW t \in Requests, LastCheck(t) PROVE TransferInv'
  BY <1>5, LastCheckPreserves
<1>6. ASSUME NEW t \in Requests, IssueTicket(t) PROVE TransferInv'
  BY <1>6, IssueTicketPreserves
<1>7. ASSUME NEW t \in Requests, Redeem(t) PROVE TransferInv'
  BY <1>7, RedeemPreserves
<1>8. ASSUME NEW t \in Requests, ExpireTicket(t) PROVE TransferInv'
  BY <1>8, ExpireTicketPreserves
<1>9. ASSUME NEW i \in Ids, Cancel(i) PROVE TransferInv'
  BY <1>9, CancelPreserves
<1>10. ASSUME NEW i \in Ids, ExpireEntry(i) PROVE TransferInv'
  BY <1>10, ExpireEntryPreserves
<1>11. CASE ChangeAccess
  BY <1>11, ChangeAccessPreserves
<1>12. CASE LoginRunsOut
  BY <1>12, LoginRunsOutPreserves
<1>13. CASE ClearDownloads
  BY <1>13, ClearDownloadsPreserves
<1>14. CASE ClearTasks
  BY <1>14, ClearTasksPreserves
<1>15. CASE UNCHANGED vars
  <2>1. UNCHANGED <<holder, locked, revision, issued, seal, entry, flags, raised, transfer,
                    refusal, stopped, sealed, late, outlived>>
    BY <1>15 DEF vars, wbVars, transferVars, registry, history
  <2>. QED
    BY <2>1 DEF TransferInv, TypeOK, OwnersIssued, NamedAtWork, PermitsOwn, FlagsMade, SealShuts,
       SealedRefused, Watching, StoppedRaised, AtWork, In, PermitGood
<1>. QED
  BY <1>1, <1>2, <1>3, <1>4, <1>5, <1>6, <1>7, <1>8, <1>9, <1>10, <1>11, <1>12, <1>13, <1>14,
     <1>15 DEF Next

LEMMA TransferSafety == Spec => []TransferInv
<1>1. Init => TransferInv
  BY TransferInit
<1>2. TransferInv /\ [Next]_vars => TransferInv'
  BY TransferStep
<1>. QED
  BY <1>1, <1>2, PTL DEF Spec

(* For any number of requests, ids, slots and tickets, every variable keeps *)
(* its type: the limits of the queue and the registry are not needed for it. *)
THEOREM TransferTypes == Spec => []TypeOK
<1>1. TransferInv => TypeOK
  BY DEF TransferInv
<1>. QED
  BY <1>1, TransferSafety, PTL

(* Whatever the interleaving of requests, seals, expiries and cancellations, *)
(* a request told to stop before its last check neither puts its file in     *)
(* place nor leaves a ticket, unless it outlived its registry entry.         *)
THEOREM StoppedWorkHasNoEffect == Spec => []NoEffectAfterStop
<1>1. TransferInv => NoEffectAfterStop
  BY Apart DEF NoEffectAfterStop, In, TransferInv
<1>. QED
  BY <1>1, TransferSafety, PTL

-----------------------------------------------------------------------------
(* Pastes into terminals. *)

\* A paste holds its directory while its task may still use it; what it wrote
\* is found there until its task has undone it, or for good.
Holding == {"scanning", "scanned", "writing", "landed", "undoing", "emptying"}
Stored == {"writing", "landed", "undoing", "emptying", "closing", "over"}
OwnDirs(s) == {s} \X {"tmp", "home"}
Holds(p, d) == paste[p].phase \in Holding /\ paste[p].dir = d

\* Sessions register, and pastes use, directories of their own ...
OwnDirectory ==
  /\ \A s \in Sessions : registered[s] \subseteq OwnDirs(s)
  /\ \A p \in Pastes :
       /\ paste[p].dir # NoDir => paste[p].dir \in OwnDirs(Of(p))
       /\ paste[p].phase \in Holding => paste[p].dir # NoDir
       /\ paste[p].phase \in Holding /\ ~paste[p].created => paste[p].dir \in paste[p].known
       /\ paste[p].known \subseteq registered[Of(p)]
       /\ paste[p].phase = "emptying" => paste[p].created

\* ... files are in the directory of the paste that wrote them, which holds it
\* or is over and has registered it ...
WrittenWithin ==
  \A d \in Dirs, p \in Pastes : Within(d, p) =>
    /\ dir[d].there /\ d = paste[p].dir
    /\ paste[p].phase \in Stored
    /\ \/ paste[p].phase \in Holding
       \/ d \in registered[Of(p)]
       \/ session[Of(p)] \in {"swept", "gone"}

\* ... and until one is registered it is one paste's alone, and young.
Unregistered ==
  \A s \in Sessions : \A d \in OwnDirs(s) :
    session[s] # "gone" /\ d \notin registered[s] =>
      /\ ~dir[d].old
      /\ dir[d].there => \E p \in Pastes : Holds(p, d)
      /\ \A p \in Pastes : d \notin paste[p].todo /\ (Holds(p, d) => dir[d].there)
      /\ \A p, q \in Pastes : Holds(p, d) /\ Holds(q, d) => p = q

\* What was told as completed is complete, and still there.
Landed ==
  \A p \in Pastes :
    /\ paste[p].told = "completed" => paste[p].outcome = "completed"
    /\ paste[p].phase = "landed" => paste[p].outcome = "completed"
    /\ paste[p].outcome = "completed" =>
         /\ \/ paste[p].phase = "landed"
            \/ paste[p].phase = "over" /\ paste[p].dir \in registered[Of(p)]
         /\ session[Of(p)] = "connected" /\ p \notin lapsed => p \in dir[paste[p].dir].whole

\* A picture is spooled from its request to its outcome.
Spools ==
  \A p \in Pastes :
    /\ paste[p].phase = "idle" => paste[p].source = "none"
    /\ paste[p].told # "none" => paste[p].phase \in {"landed", "closing", "over"}
    /\ paste[p].told # "none" \/ paste[p].phase = "over" => paste[p].source # "there"

\* What ended before its session read `registered` left nothing.
SweptClean ==
  \A p \in Pastes : session[Of(p)] \in {"swept", "gone"} /\ p \notin atWork =>
    /\ paste[p].phase \notin Running
    /\ \A d \in Dirs : ~Within(d, p)

StagingInv ==
  /\ StagingTypeOK /\ OwnDirectory /\ WrittenWithin /\ Unregistered /\ Landed /\ Spools
  /\ SweptClean

\* Sessions share no directory.
LEMMA OwnDirsApart ==
  /\ NoDir \notin Dirs
  /\ \A s \in Sessions : /\ OwnDirs(s) \subseteq Dirs
                         /\ <<s, "tmp">> \in OwnDirs(s) /\ <<s, "home">> \in OwnDirs(s)
  /\ \A d \in Dirs : \E s \in Sessions : d \in OwnDirs(s)
  /\ \A s, t \in Sessions : \A d \in OwnDirs(s) : d \in OwnDirs(t) => s = t
BY StagingAssumption DEF OwnDirs, Dirs

LEMMA StagingInitial == StagingInit => StagingInv
<1>. SUFFICES ASSUME StagingInit PROVE StagingInv
  OBVIOUS
<1>1. PICK of \in [Pastes -> Sessions] : paste = [p \in Pastes |->
       [phase |-> "idle", session |-> of[p], stopped |-> FALSE, source |-> "none", known |-> {},
        dir |-> NoDir, created |-> FALSE, todo |-> {}, told |-> "none", outcome |-> "failed"]]
  BY DEF StagingInit
<1>2. \A p \in Pastes :
        /\ paste[p] \in Paste
        /\ paste[p].phase = "idle" /\ paste[p].source = "none" /\ paste[p].known = {}
        /\ paste[p].dir = NoDir /\ paste[p].todo = {} /\ paste[p].told = "none"
        /\ paste[p].outcome = "failed"
  BY <1>1 DEF Paste, PastePhases, Outcomes, Dirs
<1>3. /\ session = [s \in Sessions |-> "connected"]
      /\ uploads = [s \in Sessions |-> {}] /\ registered = [s \in Sessions |-> {}]
      /\ dir = [d \in Dirs |-> NoDirectory] /\ days = 0
      /\ lapsed = {} /\ atWork = {}
  BY DEF StagingInit
<1>4. NoDirectory \in Directory /\ ~NoDirectory.there /\ ~NoDirectory.old
      /\ NoDirectory.part = {} /\ NoDirectory.whole = {}
  BY DEF NoDirectory, Directory
<1>5. paste \in [Pastes -> Paste]
  BY <1>1, <1>2
<1>6. StagingTypeOK
  BY <1>3, <1>4, <1>5 DEF StagingTypeOK
<1>7. OwnDirectory
  BY <1>2, <1>3 DEF OwnDirectory, Holding
<1>8. WrittenWithin /\ SweptClean
  BY <1>2, <1>3, <1>4 DEF WrittenWithin, Within, SweptClean, Running
<1>9. Unregistered
  BY <1>2, <1>3, <1>4, OwnDirsApart DEF Unregistered, Holds, Holding
<1>10. Landed /\ Spools
  BY <1>2 DEF Landed, Spools
<1>. QED
  BY <1>6, <1>7, <1>8, <1>9, <1>10 DEF StagingInv

\* From f to g the directories keep their files; p may have put one of its own in b.
Settles(f, g, p, b) ==
  /\ g \in [Dirs -> Directory]
  /\ \A d \in Dirs : /\ g[d].there = f[d].there
                     /\ g[d].old => f[d].old
                     /\ f[d].whole \subseteq g[d].whole
  /\ \A d \in Dirs, r \in Pastes :
       r \in g[d].part \cup g[d].whole =>
         r \in f[d].part \cup f[d].whole \/ (r = p /\ d = b /\ f[d].there)

\* A step of one paste that empties no directory and makes none.
LEMMA PasteMoves ==
  ASSUME StagingInv, NEW p \in Pastes, NEW q \in Paste,
         paste' = [paste EXCEPT ![p] = q], uploads' \in [Sessions -> SUBSET Pastes],
         UNCHANGED <<session, registered, days, lapsed, atWork>>,
         NEW b, Settles(dir, dir', p, b),
         b = NoDir \/ (b = paste[p].dir /\ q.phase = "writing"),
         q.session = Of(p), q.dir = paste[p].dir, q.created = paste[p].created,
         q.known \subseteq registered[Of(p)],
         q.known = paste[p].known \/ q.phase \notin Holding,
         q.phase \in Holding => paste[p].phase \in Holding,
         paste[p].phase \in Holding /\ q.phase \notin Holding =>
           paste[p].dir \in registered[Of(p)] \/ session[Of(p)] = "gone",
         paste[p].phase \in Stored => q.phase \in Stored,
         q.phase = "emptying" => q.created,
         \A d \in q.todo : d \in paste[p].todo \/ dir[d].old,
         q.told = "completed" => q.outcome = "completed",
         q.outcome = "completed" =>
           \/ paste[p].outcome = "completed" /\ q.phase = paste[p].phase
           \/ q.phase = "landed" /\ p \in dir'[q.dir].whole,
         q.phase = "landed" => q.outcome = "completed",
         q.phase = "idle" => q.source = "none",
         q.told # "none" => q.phase \in {"landed", "closing", "over"},
         q.told # "none" \/ q.phase = "over" => q.source # "there",
         q.phase \in Running => paste[p].phase \in Running \/ session[Of(p)] = "connected"
  PROVE  StagingInv'
<1>1. /\ paste' \in [Pastes -> Paste] /\ paste'[p] = q
      /\ \A r \in Pastes : r # p => paste'[r] = paste[r]
  BY DEF StagingInv, StagingTypeOK
<1>2. \A r \in Pastes : paste'[r].session = Of(r) /\ paste'[r].dir = paste[r].dir
                        /\ paste'[r].created = paste[r].created
  BY <1>1 DEF Of
<1>10. \A d \in Dirs, r \in Pastes : Within(d, r)' =>
         Within(d, r) \/ (r = p /\ d = paste[p].dir /\ dir[d].there /\ q.phase = "writing")
  <2>. SUFFICES ASSUME NEW d \in Dirs, NEW r \in Pastes, r \in dir'[d].part \cup dir'[d].whole
                PROVE  \/ r \in dir[d].part \cup dir[d].whole
                       \/ r = p /\ d = paste[p].dir /\ dir[d].there /\ q.phase = "writing"
    BY DEF Within
  <2>1. NoDir \notin Dirs
    BY OwnDirsApart
  <2>2. r \in dir[d].part \cup dir[d].whole \/ (r = p /\ d = b /\ dir[d].there)
    BY DEF Settles
  <2>. QED
    BY <2>1, <2>2
<1>11. /\ dir' \in [Dirs -> Directory]
       /\ \A d \in Dirs : /\ dir'[d].there = dir[d].there
                          /\ dir'[d].old => dir[d].old
                          /\ dir[d].whole \subseteq dir'[d].whole
  BY DEF Settles
<1>3. StagingTypeOK'
  BY <1>1, <1>11 DEF StagingInv, StagingTypeOK
<1>4. OwnDirectory'
  BY <1>1, <1>2 DEF StagingInv, OwnDirectory, Of
<1>5. WrittenWithin'
  <2>1. \A r \in Pastes : /\ paste[r].phase \in Stored => paste'[r].phase \in Stored
                          /\ paste[r].phase \in Holding => \/ paste'[r].phase \in Holding
                                                           \/ paste[r].dir \in registered[Of(r)]
                                                           \/ session[Of(r)] = "gone"
    BY <1>1
  <2>. SUFFICES ASSUME NEW d \in Dirs, NEW r \in Pastes, Within(d, r)'
                PROVE  /\ dir'[d].there /\ d = paste'[r].dir
                       /\ paste'[r].phase \in Stored
                       /\ \/ paste'[r].phase \in Holding
                          \/ d \in registered[Of(r)]
                          \/ session[Of(r)] \in {"swept", "gone"}
    BY <1>2 DEF WrittenWithin, Of
  <2>2. CASE Within(d, r)
    BY <1>2, <1>11, <2>1, <2>2 DEF StagingInv, WrittenWithin
  <2>3. CASE r = p /\ d = paste[p].dir /\ dir[d].there /\ q.phase = "writing"
    BY <1>1, <1>2, <1>11, <2>3 DEF Stored, Holding
  <2>. QED
    BY <1>10, <2>2, <2>3
<1>6. Unregistered'
  <2>. SUFFICES ASSUME NEW s \in Sessions, NEW d \in OwnDirs(s), session[s] # "gone",
                       d \notin registered[s]
                PROVE  /\ ~dir'[d].old
                       /\ dir'[d].there => \E r \in Pastes : Holds(r, d)'
                       /\ \A r \in Pastes : d \notin paste'[r].todo /\ (Holds(r, d)' => dir'[d].there)
                       /\ \A r, u \in Pastes : Holds(r, d)' /\ Holds(u, d)' => r = u
    BY DEF Unregistered
  <2>1. d \in Dirs
    BY OwnDirsApart
  <2>2. /\ ~dir[d].old
        /\ dir[d].there => \E r \in Pastes : Holds(r, d)
        /\ \A r \in Pastes : d \notin paste[r].todo /\ (Holds(r, d) => dir[d].there)
        /\ \A r, u \in Pastes : Holds(r, d) /\ Holds(u, d) => r = u
    BY DEF StagingInv, Unregistered
  <2>3. \A r \in Pastes : Holds(r, d) => Of(r) = s
    <3>. SUFFICES ASSUME NEW r \in Pastes, paste[r].dir = d PROVE Of(r) = s
      BY DEF Holds
    <3>1. d \in OwnDirs(Of(r)) /\ Of(r) \in Sessions
      BY <2>1, OwnDirsApart DEF StagingInv, OwnDirectory, StagingTypeOK, Paste, Of
    <3>. QED
      BY <3>1, OwnDirsApart
  <2>4. \A r \in Pastes : Holds(r, d)' <=> Holds(r, d)
    <3>1. \A r \in Pastes : r # p => (Holds(r, d)' <=> Holds(r, d))
      BY <1>1 DEF Holds
    <3>2. Holds(p, d)' => Holds(p, d)
      BY <1>1, <1>2 DEF Holds
    <3>3. Holds(p, d) => Holds(p, d)'
      BY <1>1, <1>2, <2>3 DEF Holds
    <3>. QED
      BY <3>1, <3>2, <3>3
  <2>5. \A r \in Pastes : d \notin paste'[r].todo
    BY <1>1, <2>2
  <2>. QED
    BY <1>11, <2>1, <2>2, <2>4, <2>5
<1>7. Landed'
  <2>. SUFFICES ASSUME NEW r \in Pastes
                PROVE
    /\ paste'[r].told = "completed" => paste'[r].outcome = "completed"
    /\ paste'[r].phase = "landed" => paste'[r].outcome = "completed"
    /\ paste'[r].outcome = "completed" =>
         /\ \/ paste'[r].phase = "landed"
            \/ paste'[r].phase = "over" /\ paste'[r].dir \in registered[Of(r)]
         /\ session[Of(r)] = "connected" /\ r \notin lapsed => r \in dir'[paste'[r].dir].whole
    BY <1>2 DEF Landed, Of
  <2>1. /\ paste'[r].told = "completed" => paste'[r].outcome = "completed"
        /\ paste'[r].phase = "landed" => paste'[r].outcome = "completed"
    BY <1>1 DEF StagingInv, Landed
  <2>2. ASSUME paste[r].outcome = "completed", paste'[r].phase = paste[r].phase
        PROVE  /\ \/ paste'[r].phase = "landed"
                  \/ paste'[r].phase = "over" /\ paste'[r].dir \in registered[Of(r)]
               /\ session[Of(r)] = "connected" /\ r \notin lapsed => r \in dir'[paste'[r].dir].whole
    <3>1. paste[r].dir \in Dirs
      <4>1. paste[r].phase = "landed" \/ paste[r].dir \in registered[Of(r)]
        BY <2>2 DEF StagingInv, Landed
      <4>2. CASE paste[r].phase = "landed"
        BY <4>2 DEF StagingInv, OwnDirectory, Holding, StagingTypeOK, Paste
      <4>3. CASE paste[r].dir \in registered[Of(r)]
        BY <4>3 DEF StagingInv, StagingTypeOK, Paste, Of
      <4>. QED
        BY <4>1, <4>2, <4>3
    <3>2. session[Of(r)] = "connected" /\ r \notin lapsed => r \in dir[paste[r].dir].whole
      BY <2>2 DEF StagingInv, Landed
    <3>3. \/ paste[r].phase = "landed"
          \/ paste[r].phase = "over" /\ paste[r].dir \in registered[Of(r)]
      BY <2>2 DEF StagingInv, Landed
    <3>. QED
      BY <1>2, <1>11, <2>2, <3>1, <3>2, <3>3
  <2>3. \/ paste'[r].outcome # "completed"
        \/ paste[r].outcome = "completed" /\ paste'[r].phase = paste[r].phase
        \/ paste'[r].phase = "landed" /\ r \in dir'[paste'[r].dir].whole
    BY <1>1
  <2>. QED
    BY <2>1, <2>2, <2>3
<1>8. Spools'
  BY <1>1 DEF StagingInv, Spools
<1>9. SweptClean'
  <2>1. \A r \in Pastes : session[Of(r)] # "connected" /\ paste'[r].phase \in Running
                            => paste[r].phase \in Running
    BY <1>1
  <2>2. q.phase = "writing" => q.phase \in Running
    BY DEF Running, PastePhases
  <2>. SUFFICES ASSUME NEW r \in Pastes, session[Of(r)] \in {"swept", "gone"}, r \notin atWork
                PROVE  /\ paste'[r].phase \notin Running
                       /\ \A d \in Dirs : ~Within(d, r)'
    BY <1>2 DEF SweptClean, Of
  <2>3. paste[r].phase \notin Running /\ \A d \in Dirs : ~Within(d, r)
    BY DEF StagingInv, SweptClean
  <2>4. paste'[r].phase \notin Running
    BY <2>1, <2>3
  <2>. QED
    BY <1>1, <1>10, <2>2, <2>3, <2>4
<1>. QED
  BY <1>3, <1>4, <1>5, <1>6, <1>7, <1>8, <1>9 DEF StagingInv

LEMMA PasteTyped ==
  ASSUME StagingInv, NEW p \in Pastes
  PROVE  /\ StagingTypeOK /\ paste[p] \in Paste /\ Of(p) \in Sessions
         /\ paste[p].phase \notin {"landed", "closing", "over"} => paste[p].told = "none"
         /\ paste[p].phase \in {"idle", "read", "checked", "queued", "preferred", "fallback",
              "home", "sweeping", "scanning", "scanned", "writing", "undoing", "emptying",
              "closing", "dropped"} => paste[p].outcome # "completed"
         /\ paste[p].known \subseteq registered[Of(p)]
BY DEF StagingInv, StagingTypeOK, Paste, Of, Landed, Spools, OwnDirectory

LEMMA DirectoryKept ==
  ASSUME StagingInv, NEW p, UNCHANGED dir
  PROVE  Settles(dir, dir', p, NoDir)
BY DEF StagingInv, StagingTypeOK, Settles

LEMMA Advances ==
  ASSUME StagingInv, NEW p \in Pastes, NEW x \in PastePhases,
         paste' = [paste EXCEPT ![p].phase = x], uploads' \in [Sessions -> SUBSET Pastes],
         UNCHANGED <<session, registered, dir, days, lapsed, atWork>>,
         \/ paste[p].phase \in {"idle", "read", "checked"} /\ x \in {"read", "checked", "queued"}
         \/ paste[p].phase = "idle" /\ x = "over"
         \/ paste[p].phase \in {"preferred", "fallback"} /\ x \in {"fallback", "home"}
         \/ paste[p].phase = "scanning" /\ x = "scanned"
  PROVE  StagingInv'
<1>. StagingTypeOK /\ paste[p] \in Paste
  BY PasteTyped
<1>1. PICK q : q = [paste[p] EXCEPT !.phase = x]
  OBVIOUS
<1>2. /\ q \in Paste /\ q.phase = x
      /\ q.session = Of(p) /\ q.dir = paste[p].dir /\ q.created = paste[p].created
      /\ q.known = paste[p].known /\ q.todo = paste[p].todo /\ q.told = paste[p].told
      /\ q.outcome = paste[p].outcome /\ q.source = paste[p].source
  BY <1>1 DEF Paste, Of
<1>3. paste' = [paste EXCEPT ![p] = q]
  BY <1>1 DEF StagingTypeOK
<1>4. /\ paste[p].phase \notin Stored /\ (x \in Holding => paste[p].phase \in Holding)
      /\ (paste[p].phase \in Holding => x \in Holding)
      /\ (x \in Running => paste[p].phase \in Running)
      /\ x \notin {"emptying", "landed", "idle"}
  BY DEF Stored, Holding, Running, PastePhases
<1>5. paste[p].outcome # "completed" /\ paste[p].told = "none"
  BY PasteTyped
<1>6. /\ paste[p].known \subseteq registered[Of(p)]
      /\ paste[p].phase = "idle" => paste[p].source = "none"
      /\ paste[p].told # "none" => paste[p].source # "there"
  BY DEF StagingInv, OwnDirectory, Spools
<1>7. dir \in [Dirs -> Directory]
  BY DEF StagingTypeOK
<1>8. x = "over" => q.source # "there"
  BY <1>2, <1>6
<1>9. Settles(dir, dir', p, NoDir)
  BY DirectoryKept
<1>. QED
  BY <1>2, <1>3, <1>4, <1>5, <1>6, <1>7, <1>8, <1>9, PasteMoves

LEMMA FailsWith ==
  ASSUME StagingInv, NEW p \in Pastes, NEW x \in {"undoing", "emptying", "closing"},
         NEW o \in {"cancelled", "failed"},
         paste' = [paste EXCEPT ![p].phase = x, ![p].outcome = o],
         UNCHANGED <<uploads, session, registered, days, lapsed, atWork>>,
         Settles(dir, dir', p, NoDir),
         paste[p].phase \in Running \ {"landed", "closing"},
         paste[p].phase \in Holding \/ x = "closing",
         x = "emptying" => paste[p].created,
         x = "closing" /\ paste[p].phase \in Holding => ~paste[p].created \/ session[Of(p)] = "gone"
  PROVE  StagingInv'
<1>. StagingTypeOK /\ paste[p] \in Paste
  BY PasteTyped
<1>1. PICK q : q = [paste[p] EXCEPT !.phase = x, !.outcome = o]
  OBVIOUS
<1>2. /\ q \in Paste /\ q.phase = x /\ q.outcome = o
      /\ q.session = Of(p) /\ q.dir = paste[p].dir /\ q.created = paste[p].created
      /\ q.known = paste[p].known /\ q.todo = paste[p].todo /\ q.told = paste[p].told
      /\ q.source = paste[p].source
  BY <1>1 DEF Paste, Of, PastePhases, Outcomes
<1>3. paste' = [paste EXCEPT ![p] = q]
  BY <1>1 DEF StagingTypeOK
<1>4. /\ x \in Stored /\ (x \in Holding => x # "closing")
      /\ (x # "closing" => x \in Holding)
      /\ o # "completed"
  BY DEF Stored, Holding
<1>5. paste[p].told = "none"
  BY PasteTyped DEF Running, PastePhases
<1>6. /\ paste[p].known \subseteq registered[Of(p)]
      /\ paste[p].phase \in Holding /\ ~paste[p].created => paste[p].dir \in paste[p].known
      /\ paste[p].told # "none" => paste[p].source # "there"
  BY DEF StagingInv, OwnDirectory, Spools
<1>7. uploads \in [Sessions -> SUBSET Pastes]
  BY DEF StagingTypeOK
<1>8. q.phase \in Holding => paste[p].phase \in Holding
  BY <1>2, <1>4
<1>9. paste[p].phase \in Holding /\ q.phase \notin Holding =>
        paste[p].dir \in registered[Of(p)] \/ session[Of(p)] = "gone"
  BY <1>2, <1>4, <1>6
<1>. QED
  BY <1>2, <1>3, <1>4, <1>5, <1>6, <1>7, <1>8, <1>9, PasteMoves, ZenonT(60)

LEMMA RefusePreserves ==
  ASSUME StagingInv, NEW p \in Pastes, Refuse(p), paste[p].phase \in {"read", "checked"},
         UNCHANGED <<session, uploads, registered, dir, days, lapsed, atWork>>
  PROVE  StagingInv'
<1>. StagingTypeOK /\ paste[p] \in Paste
  BY PasteTyped
<1>1. PICK q : q = [paste[p] EXCEPT !.phase = "over", !.source = Spooled(p)]
  OBVIOUS
<1>2. Spooled(p) \in {"none", "gone"}
  BY DEF Spooled, Paste
<1>3. /\ q \in Paste /\ q.phase = "over" /\ q.source # "there"
      /\ q.session = Of(p) /\ q.dir = paste[p].dir /\ q.created = paste[p].created
      /\ q.known = paste[p].known /\ q.todo = paste[p].todo /\ q.told = paste[p].told
      /\ q.outcome = paste[p].outcome
  BY <1>1, <1>2 DEF Paste, Of, PastePhases
<1>4. paste' = [paste EXCEPT ![p] = q]
  BY <1>1 DEF StagingTypeOK, Refuse
<1>5. /\ paste[p].phase \notin Stored /\ paste[p].phase \notin Holding
      /\ "over" \notin Holding /\ "over" \notin Running
  BY DEF Stored, Holding, Running
<1>6. paste[p].outcome # "completed" /\ paste[p].told = "none"
  BY PasteTyped
<1>7. /\ paste[p].known \subseteq registered[Of(p)] /\ uploads \in [Sessions -> SUBSET Pastes]
  BY DEF StagingInv, OwnDirectory, StagingTypeOK
<1>. QED
  BY <1>3, <1>4, <1>5, <1>6, <1>7, DirectoryKept, PasteMoves

LEMMA ReadClipboardPreserves ==
  ASSUME StagingInv, NEW p \in Pastes, ReadClipboard(p)
  PROVE  StagingInv'
<1>. StagingTypeOK /\ paste[p] \in Paste /\ paste[p].phase = "idle"
     /\ UNCHANGED <<session, uploads, registered, dir, days, lapsed, atWork>>
  BY PasteTyped DEF ReadClipboard
<1>1. uploads \in [Sessions -> SUBSET Pastes]
  BY DEF StagingTypeOK
<1>2. CASE GoOn(p, "over")
  BY <1>1, <1>2, Advances DEF GoOn, PastePhases
<1>3. ASSUME NEW src \in {"none", "there"},
             paste' = [paste EXCEPT ![p].phase = "read", ![p].source = src]
      PROVE  StagingInv'
  <2>1. PICK q : q = [paste[p] EXCEPT !.phase = "read", !.source = src]
    OBVIOUS
  <2>2. /\ q \in Paste /\ q.phase = "read"
        /\ q.session = Of(p) /\ q.dir = paste[p].dir /\ q.created = paste[p].created
        /\ q.known = paste[p].known /\ q.todo = paste[p].todo /\ q.told = paste[p].told
        /\ q.outcome = paste[p].outcome
    BY <2>1 DEF Paste, Of, PastePhases
  <2>3. paste' = [paste EXCEPT ![p] = q]
    BY <1>3, <2>1 DEF StagingTypeOK
  <2>4. "read" \notin Stored /\ "read" \notin Holding /\ "read" \notin Running
        /\ "idle" \notin Stored /\ "idle" \notin Holding
    BY DEF Stored, Holding, Running
  <2>5. paste[p].outcome # "completed" /\ paste[p].told = "none"
        /\ paste[p].known \subseteq registered[Of(p)]
    BY PasteTyped
  <2>. QED
    BY <1>1, <2>2, <2>3, <2>4, <2>5, DirectoryKept, PasteMoves, ZenonT(60)
<1>. QED
  BY <1>2, <1>3 DEF ReadClipboard, PayloadKind

LEMMA RequestPreserves ==
  ASSUME StagingInv, NEW p \in Pastes, Upload(p) \/ Check(p) \/ RegisterUpload(p)
  PROVE  StagingInv'
<1>. StagingTypeOK /\ Of(p) \in Sessions
  BY PasteTyped
<1>1. {"read", "over", "checked", "queued"} \subseteq PastePhases
  BY DEF PastePhases
<1>2. /\ UNCHANGED <<session, registered, dir, days, lapsed, atWork>>
      /\ uploads \in [Sessions -> SUBSET Pastes]
  BY DEF Upload, Check, RegisterUpload, StagingTypeOK
<1>3. CASE Upload(p)
  <2>1. PICK x \in {"read", "over"} : paste' = [paste EXCEPT ![p].phase = x]
    BY <1>3 DEF Upload, GoOn
  <2>2. paste[p].phase = "idle" /\ uploads' = uploads
    BY <1>3 DEF Upload
  <2>. QED
    BY <1>1, <1>2, <2>1, <2>2, Advances
<1>4. CASE Check(p)
  <2>1. paste[p].phase = "read" /\ uploads' = uploads
    BY <1>4 DEF Check
  <2>2. CASE GoOn(p, "checked")
    BY <1>1, <1>2, <2>1, <2>2, Advances DEF GoOn
  <2>3. CASE Refuse(p)
    BY <1>2, <2>1, <2>3, RefusePreserves
  <2>. QED
    BY <1>4, <2>2, <2>3 DEF Check
<1>5. CASE RegisterUpload(p)
  <2>1. paste[p].phase = "checked"
    BY <1>5 DEF RegisterUpload
  <2>2. CASE /\ uploads' = [uploads EXCEPT ![Of(p)] = @ \cup {p}]
             /\ GoOn(p, "queued")
    <3>1. uploads' \in [Sessions -> SUBSET Pastes]
      BY <1>2, <2>2
    <3>. QED
      BY <1>1, <1>2, <2>1, <2>2, <3>1, Advances DEF GoOn
  <2>3. CASE Refuse(p) /\ UNCHANGED uploads
    BY <1>2, <2>1, <2>3, RefusePreserves
  <2>. QED
    BY <1>5, <2>2, <2>3 DEF RegisterUpload
<1>. QED
  BY <1>3, <1>4, <1>5

LEMMA StopPreserves ==
  ASSUME StagingInv, NEW p \in Pastes, Stop(p)
  PROVE  StagingInv'
<1>. StagingTypeOK /\ paste[p] \in Paste
  BY PasteTyped
<1>1. PICK q : q = [paste[p] EXCEPT !.stopped = TRUE]
  OBVIOUS
<1>2. /\ q \in Paste /\ q.phase = paste[p].phase
      /\ q.session = Of(p) /\ q.dir = paste[p].dir /\ q.created = paste[p].created
      /\ q.known = paste[p].known /\ q.todo = paste[p].todo /\ q.told = paste[p].told
      /\ q.outcome = paste[p].outcome /\ q.source = paste[p].source
  BY <1>1 DEF Paste, Of
<1>3. /\ paste' = [paste EXCEPT ![p] = q]
      /\ UNCHANGED <<session, uploads, registered, dir, days, lapsed, atWork>>
      /\ uploads \in [Sessions -> SUBSET Pastes]
  BY <1>1 DEF StagingTypeOK, Stop
<1>4. /\ paste[p].known \subseteq registered[Of(p)]
      /\ paste[p].phase = "emptying" => paste[p].created
      /\ paste[p].told = "completed" => paste[p].outcome = "completed"
      /\ paste[p].phase = "landed" => paste[p].outcome = "completed"
      /\ paste[p].phase = "idle" => paste[p].source = "none"
      /\ paste[p].told # "none" => paste[p].phase \in {"landed", "closing", "over"}
      /\ paste[p].told # "none" \/ paste[p].phase = "over" => paste[p].source # "there"
  BY DEF StagingInv, OwnDirectory, Landed, Spools
<1>5. Settles(dir, dir', p, NoDir)
  BY <1>3, DirectoryKept
<1>. QED
  BY <1>2, <1>3, <1>4, <1>5, PasteMoves, ZenonT(60)

LEMMA TakePreserves ==
  ASSUME StagingInv, NEW p \in Pastes, Take(p)
  PROVE  StagingInv'
<1>. StagingTypeOK /\ paste[p] \in Paste /\ Of(p) \in Sessions
  BY PasteTyped
<1>1. /\ paste[p].phase = "queued" /\ session[Of(p)] = "connected"
      /\ UNCHANGED <<session, registered, dir, days, lapsed, atWork>>
      /\ uploads \in [Sessions -> SUBSET Pastes]
      /\ registered[Of(p)] \in SUBSET Dirs
  BY DEF StagingTypeOK, Take
<1>2. paste[p].outcome # "completed" /\ paste[p].told = "none"
      /\ paste[p].known \subseteq registered[Of(p)]
  BY <1>1, PasteTyped
<1>3. /\ {"preferred", "over", "queued"} \cap Holding = {} /\ "queued" \notin Stored
      /\ "over" \notin Running /\ {"preferred", "over"} \subseteq PastePhases
  BY DEF Holding, Stored, Running, PastePhases
<1>4. Settles(dir, dir', p, NoDir)
  BY <1>1, DirectoryKept
<1>5. CASE /\ paste' = [paste EXCEPT ![p].phase = "preferred", ![p].known = registered[Of(p)]]
           /\ UNCHANGED uploads
  <2>1. PICK k \in SUBSET Dirs : k = registered[Of(p)]
    BY <1>1
  <2>2. PICK q : q = [paste[p] EXCEPT !.phase = "preferred", !.known = k]
    OBVIOUS
  <2>3. /\ q \in Paste /\ q.phase = "preferred" /\ q.known = k
        /\ q.session = Of(p) /\ q.dir = paste[p].dir /\ q.created = paste[p].created
        /\ q.todo = paste[p].todo /\ q.told = paste[p].told
        /\ q.outcome = paste[p].outcome /\ q.source = paste[p].source
    BY <1>3, <2>2 DEF Paste, Of
  <2>4. paste' = [paste EXCEPT ![p] = q]
    BY <1>5, <2>1, <2>2 DEF StagingTypeOK
  <2>5. q.phase \notin Holding /\ paste[p].phase \notin Holding /\ paste[p].phase \notin Stored
    BY <1>1, <1>3, <2>3
  <2>. QED
    BY <1>1, <1>2, <1>4, <1>5, <2>1, <2>3, <2>4, <2>5, PasteMoves
<1>6. CASE /\ paste' = [paste EXCEPT ![p].phase = "over", ![p].told = "failed",
                                     ![p].source = Spooled(p)]
           /\ FinishUpload(p)
  <2>1. Spooled(p) \in {"none", "gone"}
    BY DEF Spooled, Paste
  <2>2. PICK q : q = [paste[p] EXCEPT !.phase = "over", !.told = "failed", !.source = Spooled(p)]
    OBVIOUS
  <2>3. /\ q \in Paste /\ q.phase = "over" /\ q.told = "failed" /\ q.source # "there"
        /\ q.session = Of(p) /\ q.dir = paste[p].dir /\ q.created = paste[p].created
        /\ q.todo = paste[p].todo /\ q.known = paste[p].known
        /\ q.outcome = paste[p].outcome
    BY <1>3, <2>1, <2>2 DEF Paste, Of, Outcomes
  <2>4. paste' = [paste EXCEPT ![p] = q]
    BY <1>6, <2>2 DEF StagingTypeOK
  <2>5. q.phase \notin Holding /\ paste[p].phase \notin Holding /\ paste[p].phase \notin Stored
        /\ q.phase \notin Running
    BY <1>1, <1>3, <2>3
  <2>6. uploads' \in [Sessions -> SUBSET Pastes]
    BY <1>1, <1>6 DEF FinishUpload
  <2>. QED
    BY <1>1, <1>2, <1>4, <2>3, <2>4, <2>5, <2>6, PasteMoves
<1>. QED
  BY <1>5, <1>6 DEF Take

LEMMA ListExpiredPreserves ==
  ASSUME StagingInv, NEW p \in Pastes, ListExpired(p)
  PROVE  StagingInv'
<1>. StagingTypeOK /\ paste[p] \in Paste /\ Of(p) \in Sessions
  BY PasteTyped
<1>1. PICK k : k = {d \in Sessions \X {"home"} : dir[d].there /\ dir[d].old}
  OBVIOUS
<1>2. k \subseteq Dirs /\ \A d \in k : dir[d].old
  BY <1>1 DEF Dirs
<1>3. PICK q : q = [paste[p] EXCEPT !.phase = "sweeping", !.todo = k]
  OBVIOUS
<1>4. /\ q \in Paste /\ q.phase = "sweeping" /\ q.todo = k
      /\ q.session = Of(p) /\ q.dir = paste[p].dir /\ q.created = paste[p].created
      /\ q.known = paste[p].known /\ q.told = paste[p].told
      /\ q.outcome = paste[p].outcome /\ q.source = paste[p].source
  BY <1>2, <1>3 DEF Paste, Of, PastePhases
<1>5. /\ paste' = [paste EXCEPT ![p] = q] /\ paste[p].phase = "home"
      /\ UNCHANGED <<session, uploads, registered, dir, days, lapsed, atWork>>
      /\ uploads \in [Sessions -> SUBSET Pastes]
  BY <1>1, <1>3 DEF StagingTypeOK, ListExpired
<1>6. paste[p].outcome # "completed" /\ paste[p].told = "none"
      /\ paste[p].known \subseteq registered[Of(p)]
  BY <1>5, PasteTyped
<1>7. /\ q.phase \notin Holding /\ paste[p].phase \notin Holding /\ paste[p].phase \notin Stored
      /\ paste[p].phase \in Running
  BY <1>4, <1>5 DEF Holding, Stored, Running, PastePhases
<1>8. Settles(dir, dir', p, NoDir)
  BY <1>5, DirectoryKept
<1>. QED
  BY <1>2, <1>4, <1>5, <1>6, <1>7, <1>8, PasteMoves

LEMMA TellPreserves ==
  ASSUME StagingInv, NEW p \in Pastes, Tell(p)
  PROVE  StagingInv'
<1>. StagingTypeOK /\ paste[p] \in Paste /\ Of(p) \in Sessions
  BY PasteTyped
<1>1. Spooled(p) \in {"none", "gone"}
  BY DEF Spooled, Paste
<1>2. PICK q : q = [paste[p] EXCEPT !.told = paste[p].outcome, !.source = Spooled(p)]
  OBVIOUS
<1>3. /\ q \in Paste /\ q.phase = paste[p].phase /\ q.told = paste[p].outcome
      /\ q.source # "there"
      /\ q.session = Of(p) /\ q.dir = paste[p].dir /\ q.created = paste[p].created
      /\ q.known = paste[p].known /\ q.todo = paste[p].todo /\ q.outcome = paste[p].outcome
  BY <1>1, <1>2 DEF Paste, Of, Outcomes
<1>4. /\ paste' = [paste EXCEPT ![p] = q] /\ paste[p].phase \in {"landed", "closing"}
      /\ UNCHANGED <<session, uploads, registered, dir, days, lapsed, atWork>>
      /\ uploads \in [Sessions -> SUBSET Pastes]
  BY <1>2 DEF StagingTypeOK, Tell
<1>5. /\ paste[p].known \subseteq registered[Of(p)]
      /\ paste[p].phase = "landed" => paste[p].outcome = "completed"
  BY DEF StagingInv, OwnDirectory, Landed
<1>6. Settles(dir, dir', p, NoDir)
  BY <1>4, DirectoryKept
<1>. QED
  BY <1>3, <1>4, <1>5, <1>6, PasteMoves

LEMMA PreparingGivesWay ==
  ASSUME StagingInv, NEW p \in Pastes,
         UNCHANGED <<session, uploads, registered, dir, days, lapsed, atWork>>,
         \/ paste[p].phase = "preferred" /\ GoOn(p, "fallback")
         \/ paste[p].phase = "fallback" /\ (GoOn(p, "home") \/ GiveUp(p))
         \/ paste[p].phase = "sweeping" /\ GiveUp(p)
  PROVE  StagingInv'
<1>. StagingTypeOK
  BY PasteTyped
<1>1. uploads \in [Sessions -> SUBSET Pastes] /\ {"fallback", "home"} \subseteq PastePhases
  BY DEF StagingTypeOK, PastePhases
<1>2. CASE \/ paste[p].phase = "preferred" /\ GoOn(p, "fallback")
           \/ paste[p].phase = "fallback" /\ GoOn(p, "home")
  BY <1>1, <1>2, Advances DEF GoOn
<1>3. CASE paste[p].phase \in {"fallback", "sweeping"} /\ GiveUp(p)
  <2>1. /\ paste[p].phase \in Running \ {"landed", "closing"}
        /\ paste[p].phase \notin Holding
    BY <1>3 DEF Running, PastePhases, Holding
  <2>2. Settles(dir, dir', p, NoDir)
    BY DirectoryKept
  <2>. QED
    BY <1>3, <2>1, <2>2, FailsWith DEF GiveUp
<1>. QED
  BY <1>2, <1>3

LEMMA EmptyFails ==
  ASSUME StagingInv, NEW p \in Pastes, NEW o \in {"cancelled", "failed"}, Empty(p, o),
         UNCHANGED <<uploads, session, registered, days, lapsed, atWork>>,
         Settles(dir, dir', p, NoDir), paste[p].phase \in {"scanning", "undoing"}
  PROVE  StagingInv'
<1>1. /\ paste[p].phase \in Running \ {"landed", "closing"}
      /\ paste[p].phase \in Holding
  BY DEF Running, PastePhases, Holding
<1>2. CASE paste[p].created
  <2>1. paste' = [paste EXCEPT ![p].phase = "emptying", ![p].outcome = o]
    BY <1>2 DEF Empty
  <2>. QED
    BY <1>1, <1>2, <2>1, FailsWith
<1>3. CASE ~paste[p].created
  <2>1. paste' = [paste EXCEPT ![p].phase = "closing", ![p].outcome = o]
    BY <1>3 DEF Empty
  <2>. QED
    BY <1>1, <1>3, <2>1, FailsWith
<1>. QED
  BY <1>2, <1>3

LEMMA ScanPreserves ==
  ASSUME StagingInv, NEW p \in Pastes, Scan(p)
  PROVE  StagingInv'
<1>1. /\ paste[p].phase = "scanning"
      /\ UNCHANGED <<session, uploads, registered, dir, days, lapsed, atWork>>
      /\ uploads \in [Sessions -> SUBSET Pastes] /\ "scanned" \in PastePhases
  BY PasteTyped DEF Scan, StagingTypeOK, PastePhases
<1>2. Settles(dir, dir', p, NoDir)
  BY <1>1, DirectoryKept
<1>3. CASE GoOn(p, "scanned")
  BY <1>1, <1>3, Advances DEF GoOn
<1>4. CASE Empty(p, "cancelled") \/ Empty(p, "failed")
  BY <1>1, <1>2, <1>4, EmptyFails
<1>. QED
  BY <1>3, <1>4 DEF Scan

LEMMA UndoFails ==
  ASSUME StagingInv, NEW p \in Pastes, NEW o \in {"cancelled", "failed"}, Undo(p, o),
         UNCHANGED <<uploads, session, registered, dir, days, lapsed, atWork>>,
         paste[p].phase \in {"scanned", "writing"}
  PROVE  StagingInv'
<1>1. /\ paste[p].phase \in Running \ {"landed", "closing"}
      /\ paste[p].phase \in Holding
  BY DEF Running, PastePhases, Holding
<1>2. Settles(dir, dir', p, NoDir)
  BY DirectoryKept
<1>. QED
  BY <1>1, <1>2, FailsWith DEF Undo

LEMMA LoseChannelPreserves ==
  ASSUME StagingInv, NEW p \in Pastes, LoseChannel(p)
  PROVE  StagingInv'
<1>1. /\ paste[p].phase \in Running \ {"landed", "closing"} /\ session[Of(p)] = "gone"
      /\ UNCHANGED <<session, uploads, registered, dir, days, lapsed, atWork>>
      /\ paste' = [paste EXCEPT ![p].phase = "closing", ![p].outcome = "failed"]
  BY DEF LoseChannel, Channel, GiveUp
<1>2. Settles(dir, dir', p, NoDir)
  BY <1>1, DirectoryKept
<1>. QED
  BY <1>1, <1>2, FailsWith

LEMMA RemoveRootsPreserves ==
  ASSUME StagingInv, NEW p \in Pastes, RemoveRoots(p)
  PROVE  StagingInv'
<1>. StagingTypeOK /\ paste[p] \in Paste
  BY PasteTyped
<1>1. /\ paste[p].phase = "undoing" /\ Empty(p, paste[p].outcome)
      /\ UNCHANGED <<session, uploads, registered, days, lapsed, atWork>>
      /\ dir' \in {dir, [dir EXCEPT ![paste[p].dir].part = @ \ {p}]}
  BY DEF RemoveRoots
<1>2. paste[p].outcome \in {"cancelled", "failed"}
  BY <1>1, PasteTyped DEF Paste, Outcomes
<1>3. paste[p].dir \in Dirs /\ dir \in [Dirs -> Directory]
  BY <1>1 DEF StagingInv, OwnDirectory, Holding, StagingTypeOK, Paste
<1>4. Settles(dir, dir', p, NoDir)
  <2>1. CASE dir' = dir
    BY <2>1, DirectoryKept
  <2>2. CASE dir' = [dir EXCEPT ![paste[p].dir].part = @ \ {p}]
    BY <1>3, <2>2 DEF Settles, Directory
  <2>. QED
    BY <1>1, <2>1, <2>2
<1>. QED
  BY <1>1, <1>2, <1>4, EmptyFails

LEMMA StartWritingPreserves ==
  ASSUME StagingInv, NEW p \in Pastes, StartWriting(p)
  PROVE  StagingInv'
<1>. StagingTypeOK /\ paste[p] \in Paste
  BY PasteTyped
<1>1. /\ paste[p].phase = "scanned"
      /\ UNCHANGED <<session, uploads, registered, days, lapsed, atWork>>
      /\ uploads \in [Sessions -> SUBSET Pastes] /\ "writing" \in PastePhases
  BY DEF StartWriting, StagingTypeOK, PastePhases
<1>2. CASE Undo(p, "failed") /\ UNCHANGED dir
  BY <1>1, <1>2, UndoFails
<1>3. PICK d : d = paste[p].dir
  OBVIOUS
<1>4. CASE /\ dir[d].there
           /\ dir' = [dir EXCEPT ![d].part = @ \cup {p}, ![d].old = FALSE]
           /\ GoOn(p, "writing")
  <2>1. d \in Dirs /\ dir \in [Dirs -> Directory]
    BY <1>1, <1>3 DEF StagingInv, OwnDirectory, Holding, StagingTypeOK, Paste
  <2>2. PICK e : e = [dir[d] EXCEPT !.part = @ \cup {p}, !.old = FALSE]
    OBVIOUS
  <2>3. /\ e \in Directory /\ e.there = dir[d].there /\ ~e.old /\ e.whole = dir[d].whole
        /\ e.part = dir[d].part \cup {p}
    BY <2>1, <2>2 DEF Directory
  <2>4. dir' = [dir EXCEPT ![d] = e]
    BY <1>4, <2>1, <2>2
  <2>5. Settles(dir, dir', p, d)
    BY <1>4, <2>1, <2>3, <2>4 DEF Settles
  <2>6. PICK q : q = [paste[p] EXCEPT !.phase = "writing"]
    OBVIOUS
  <2>7. /\ q \in Paste /\ q.phase = "writing"
        /\ q.session = Of(p) /\ q.dir = paste[p].dir /\ q.created = paste[p].created
        /\ q.known = paste[p].known /\ q.todo = paste[p].todo /\ q.told = paste[p].told
        /\ q.outcome = paste[p].outcome /\ q.source = paste[p].source
    BY <1>1, <2>6 DEF Paste, Of
  <2>8. paste' = [paste EXCEPT ![p] = q]
    BY <1>4, <2>6 DEF StagingTypeOK, GoOn
  <2>9. paste[p].outcome # "completed" /\ paste[p].told = "none"
        /\ paste[p].known \subseteq registered[Of(p)]
    BY <1>1, PasteTyped
  <2>10. /\ paste[p].phase \in Holding /\ q.phase \in Holding /\ paste[p].phase \notin Stored
         /\ paste[p].phase \in Running
    BY <1>1, <2>7 DEF Holding, Stored, Running, PastePhases
  <2>. QED
    BY <1>1, <1>3, <2>5, <2>7, <2>8, <2>9, <2>10, PasteMoves
<1>. QED
  BY <1>2, <1>3, <1>4 DEF StartWriting

LEMMA LandPreserves ==
  ASSUME StagingInv, NEW p \in Pastes, Land(p)
  PROVE  StagingInv'
<1>. StagingTypeOK /\ paste[p] \in Paste
  BY PasteTyped
<1>1. PICK d : d = paste[p].dir
  OBVIOUS
<1>2. /\ paste[p].phase = "writing" /\ p \in dir[d].part
      /\ UNCHANGED <<session, uploads, registered, days, lapsed, atWork>>
      /\ dir' = [dir EXCEPT ![d].part = @ \ {p}, ![d].whole = @ \cup {p}]
      /\ uploads \in [Sessions -> SUBSET Pastes]
  BY <1>1 DEF Land, StagingTypeOK
<1>3. d \in Dirs /\ dir \in [Dirs -> Directory]
  BY <1>1, <1>2 DEF StagingInv, OwnDirectory, Holding, StagingTypeOK, Paste
<1>4. PICK e : e = [dir[d] EXCEPT !.part = @ \ {p}, !.whole = @ \cup {p}]
  OBVIOUS
<1>5. /\ e \in Directory /\ e.there = dir[d].there /\ e.old = dir[d].old
      /\ e.whole = dir[d].whole \cup {p} /\ e.part = dir[d].part \ {p}
  BY <1>3, <1>4 DEF Directory
<1>6. dir' = [dir EXCEPT ![d] = e]
  BY <1>2, <1>3, <1>4
<1>7. Settles(dir, dir', p, NoDir) /\ p \in dir'[d].whole
  BY <1>2, <1>3, <1>5, <1>6, ZenonT(60) DEF Settles
<1>8. PICK q : q = [paste[p] EXCEPT !.phase = "landed", !.outcome = "completed"]
  OBVIOUS
<1>9. /\ q \in Paste /\ q.phase = "landed" /\ q.outcome = "completed"
      /\ q.session = Of(p) /\ q.dir = paste[p].dir /\ q.created = paste[p].created
      /\ q.known = paste[p].known /\ q.todo = paste[p].todo /\ q.told = paste[p].told
      /\ q.source = paste[p].source
  BY <1>8 DEF Paste, Of, PastePhases, Outcomes
<1>10. paste' = [paste EXCEPT ![p] = q]
  BY <1>8 DEF StagingTypeOK, Land
<1>11. paste[p].told = "none" /\ paste[p].known \subseteq registered[Of(p)]
  BY <1>2, PasteTyped
<1>12. /\ paste[p].phase \in Holding /\ q.phase \in Holding /\ q.phase \in Stored
       /\ paste[p].phase \in Running
  BY <1>2, <1>9 DEF Holding, Stored, Running, PastePhases
<1>. QED
  BY <1>1, <1>2, <1>7, <1>9, <1>10, <1>11, <1>12, PasteMoves

LEMMA AbortPreserves ==
  ASSUME StagingInv, NEW p \in Pastes, Abort(p)
  PROVE  StagingInv'
<1>1. /\ paste[p].phase = "writing"
      /\ UNCHANGED <<session, uploads, registered, dir, days, lapsed, atWork>>
      /\ Undo(p, "cancelled") \/ Undo(p, "failed")
  BY DEF Abort
<1>. QED
  BY <1>1, UndoFails

\* A directory is made, or one of the session is used again.
LEMMA PreparesPreserves ==
  ASSUME StagingInv, NEW p \in Pastes, NEW d \in OwnDirs(Of(p)), Prepares(p, d),
         paste[p].phase \in {"preferred", "sweeping"}, session[Of(p)] # "gone",
         UNCHANGED <<session, uploads, registered, days, lapsed, atWork>>
  PROVE  StagingInv'
<1>. StagingTypeOK /\ paste[p] \in Paste /\ Of(p) \in Sessions
  BY PasteTyped
<1>1. d \in Dirs /\ d # NoDir /\ dir \in [Dirs -> Directory]
  BY OwnDirsApart DEF StagingTypeOK
<1>2. PICK q : q = [paste[p] EXCEPT !.phase = "scanning", !.dir = d, !.created = ~dir[d].there]
  OBVIOUS
<1>3. /\ q \in Paste /\ q.phase = "scanning" /\ q.dir = d /\ q.created = ~dir[d].there
      /\ q.session = Of(p)
      /\ q.known = paste[p].known /\ q.todo = paste[p].todo /\ q.told = paste[p].told
      /\ q.outcome = paste[p].outcome /\ q.source = paste[p].source
  BY <1>1, <1>2 DEF Paste, Of, PastePhases, Directory
<1>4. paste' = [paste EXCEPT ![p] = q]
  BY <1>2 DEF Prepares, StagingTypeOK
<1>5. /\ paste' \in [Pastes -> Paste] /\ paste'[p] = q
      /\ \A r \in Pastes : r # p => paste'[r] = paste[r]
  BY <1>3, <1>4 DEF StagingTypeOK
<1>6. \A r \in Pastes : paste'[r].session = Of(r)
  BY <1>3, <1>5 DEF Of
<1>7. NewDirectory \in Directory /\ NewDirectory.there /\ ~NewDirectory.old
      /\ NewDirectory.part = {} /\ NewDirectory.whole = {}
  BY DEF NewDirectory, NoDirectory, Directory
<1>8. /\ dir[d].there => d \in registered[Of(p)]
      /\ dir' \in [Dirs -> Directory]
      /\ dir'[d].there
      /\ dir[d].there => dir' = dir
      /\ ~dir[d].there => dir'[d] = NewDirectory
      /\ \A e \in Dirs : e # d => dir'[e] = dir[e]
  <2>1. paste[p].known \subseteq registered[Of(p)]
    BY PasteTyped
  <2>2. dir[d].there => d \in paste[p].known /\ dir' = dir
    BY DEF Prepares
  <2>3. ~dir[d].there => dir' = [dir EXCEPT ![d] = NewDirectory]
    BY DEF Prepares
  <2>. QED
    BY <1>1, <1>7, <2>1, <2>2, <2>3
<1>9. \A r \in Pastes : ~dir[d].there => ~Within(d, r)
  BY <1>1 DEF StagingInv, WrittenWithin
<1>10. \A e \in Dirs, r \in Pastes : Within(e, r)' <=> Within(e, r)
  <2>. SUFFICES ASSUME NEW e \in Dirs, NEW r \in Pastes PROVE Within(e, r)' <=> Within(e, r)
    OBVIOUS
  <2>1. CASE e # d \/ dir[d].there
    BY <1>1, <1>8, <2>1 DEF Within
  <2>2. CASE e = d /\ ~dir[d].there
    BY <1>7, <1>8, <1>9, <2>2 DEF Within
  <2>. QED
    BY <2>1, <2>2
<1>11. \A e \in Dirs : ~Within(e, p)
  BY DEF StagingInv, WrittenWithin, Stored
<1>12. paste[p].phase \notin Holding /\ q.phase \in Holding /\ paste[p].phase \in Running
  BY <1>3 DEF Holding, Running, PastePhases
<1>13. StagingTypeOK'
  BY <1>5, <1>8 DEF StagingTypeOK
<1>14. OwnDirectory'
  <2>1. ~q.created => q.dir \in q.known
    BY <1>1, <1>3 DEF Prepares, Directory
  <2>2. \A r \in Pastes :
          /\ paste'[r].dir # NoDir => paste'[r].dir \in OwnDirs(Of(r))
          /\ paste'[r].phase \in Holding => paste'[r].dir # NoDir
          /\ paste'[r].phase \in Holding /\ ~paste'[r].created => paste'[r].dir \in paste'[r].known
          /\ paste'[r].known \subseteq registered[Of(r)]
          /\ paste'[r].phase = "emptying" => paste'[r].created
    <3>. SUFFICES ASSUME NEW r \in Pastes
                  PROVE
          /\ paste'[r].dir # NoDir => paste'[r].dir \in OwnDirs(Of(r))
          /\ paste'[r].phase \in Holding => paste'[r].dir # NoDir
          /\ paste'[r].phase \in Holding /\ ~paste'[r].created => paste'[r].dir \in paste'[r].known
          /\ paste'[r].known \subseteq registered[Of(r)]
          /\ paste'[r].phase = "emptying" => paste'[r].created
      OBVIOUS
    <3>1. CASE r = p
      <4>1. paste[p].known \subseteq registered[Of(p)]
        BY PasteTyped
      <4>. QED
        BY <1>1, <1>3, <1>5, <2>1, <3>1, <4>1
    <3>2. CASE r # p
      BY <1>5, <3>2 DEF StagingInv, OwnDirectory
    <3>. QED
      BY <3>1, <3>2
  <2>3. \A s \in Sessions : registered[s] \subseteq OwnDirs(s)
    BY DEF StagingInv, OwnDirectory
  <2>. QED
    BY <1>6, <2>2, <2>3 DEF OwnDirectory, Of
<1>15. WrittenWithin'
  <2>. SUFFICES ASSUME NEW e \in Dirs, NEW r \in Pastes, Within(e, r)
                PROVE  /\ dir'[e].there /\ e = paste'[r].dir
                       /\ paste'[r].phase \in Stored
                       /\ \/ paste'[r].phase \in Holding
                          \/ e \in registered[Of(r)]
                          \/ session[Of(r)] \in {"swept", "gone"}
    BY <1>6, <1>10 DEF WrittenWithin, Of
  <2>1. r # p /\ paste'[r] = paste[r]
    BY <1>5, <1>11
  <2>2. dir'[e].there
    <3>1. dir[e].there
      BY DEF StagingInv, WrittenWithin
    <3>. QED
      BY <1>8, <3>1
  <2>. QED
    BY <2>1, <2>2 DEF StagingInv, WrittenWithin
<1>16. Unregistered'
  <2>. SUFFICES ASSUME NEW s \in Sessions, NEW e \in OwnDirs(s), session[s] # "gone",
                       e \notin registered[s]
                PROVE  /\ ~dir'[e].old
                       /\ dir'[e].there => \E r \in Pastes : Holds(r, e)'
                       /\ \A r \in Pastes : e \notin paste'[r].todo /\ (Holds(r, e)' => dir'[e].there)
                       /\ \A r, u \in Pastes : Holds(r, e)' /\ Holds(u, e)' => r = u
    BY DEF Unregistered
  <2>1. /\ ~dir[e].old
        /\ dir[e].there => \E r \in Pastes : Holds(r, e)
        /\ \A r \in Pastes : e \notin paste[r].todo /\ (Holds(r, e) => dir[e].there)
        /\ \A r, u \in Pastes : Holds(r, e) /\ Holds(u, e) => r = u
    BY DEF StagingInv, Unregistered
  <2>2. e \in Dirs
    BY OwnDirsApart
  <2>3. \A r \in Pastes : e \notin paste'[r].todo
    BY <1>3, <1>5, <2>1
  <2>4. CASE e = d
    <3>1. s = Of(p)
      BY <2>4, OwnDirsApart
    <3>2. ~dir[d].there
      BY <1>8, <2>4, <3>1
    <3>3. \A r \in Pastes : ~Holds(r, d)
      BY <2>1, <2>4, <3>2
    <3>4. \A r \in Pastes : Holds(r, d)' <=> r = p
      BY <1>3, <1>5, <1>12, <3>3 DEF Holds
    <3>. QED
      BY <1>7, <1>8, <2>3, <2>4, <3>2, <3>4
  <2>5. CASE e # d
    <3>1. \A r \in Pastes : Holds(r, e)' <=> Holds(r, e)
      BY <1>3, <1>5, <1>12, <2>5 DEF Holds
    <3>2. dir'[e] = dir[e]
      BY <1>8, <2>2, <2>5
    <3>. QED
      BY <2>1, <2>3, <3>1, <3>2
  <2>. QED
    BY <2>4, <2>5
<1>17. Landed'
  <2>1. paste[p].outcome # "completed" /\ paste[p].told = "none"
    BY PasteTyped
  <2>2. \A r \in Pastes : r # p /\ paste[r].outcome = "completed" => paste[r].dir \in Dirs
    <3>. SUFFICES ASSUME NEW r \in Pastes, paste[r].outcome = "completed"
                  PROVE  paste[r].dir \in Dirs
      OBVIOUS
    <3>. QED
      BY DEF StagingInv, Landed, OwnDirectory, Holding, StagingTypeOK, Paste, Of
  <2>3. \A e \in Dirs, r \in Pastes : r \in dir[e].whole => r \in dir'[e].whole
    <3>1. \A e \in Dirs, r \in Pastes : r \in dir[e].whole => Within(e, r)
      BY DEF Within
    <3>. QED
      BY <1>1, <1>8, <1>9, <3>1
  <2>. SUFFICES ASSUME NEW r \in Pastes, r # p
                PROVE
      /\ paste[r].told = "completed" => paste[r].outcome = "completed"
      /\ paste[r].phase = "landed" => paste[r].outcome = "completed"
      /\ paste[r].outcome = "completed" =>
           /\ \/ paste[r].phase = "landed"
              \/ paste[r].phase = "over" /\ paste[r].dir \in registered[Of(r)]
           /\ session[Of(r)] = "connected" /\ r \notin lapsed => r \in dir'[paste[r].dir].whole
    BY <1>3, <1>5, <1>6, <2>1 DEF Landed, Of
  <2>. QED
    BY <2>2, <2>3 DEF StagingInv, Landed
<1>18. Spools'
  <2>1. paste[p].told = "none"
    BY PasteTyped
  <2>. QED
    BY <1>3, <1>5, <2>1 DEF StagingInv, Spools
<1>19. SweptClean'
  <2>1. \A r \in Pastes : paste'[r].phase \in Running => paste[r].phase \in Running
    BY <1>5, <1>12
  <2>. SUFFICES ASSUME NEW r \in Pastes, session[Of(r)] \in {"swept", "gone"}, r \notin atWork
                PROVE  /\ paste'[r].phase \notin Running
                       /\ \A e \in Dirs : ~Within(e, r)
    BY <1>6, <1>10 DEF SweptClean, Of
  <2>. QED
    BY <2>1 DEF StagingInv, SweptClean
<1>. QED
  BY <1>13, <1>14, <1>15, <1>16, <1>17, <1>18, <1>19 DEF StagingInv

LEMMA PreparePreserves ==
  ASSUME StagingInv, NEW p \in Pastes, PreparePreferred(p) \/ PrepareFallback(p) \/ PrepareHome(p)
  PROVE  StagingInv'
<1>. Of(p) \in Sessions
  BY PasteTyped
<1>1. /\ session[Of(p)] # "gone"
      /\ UNCHANGED <<session, uploads, registered, days, lapsed, atWork>>
  BY DEF PreparePreferred, PrepareFallback, PrepareHome, Channel
<1>2. PICK a, b : a = <<Of(p), "tmp">> /\ b = <<Of(p), "home">>
  OBVIOUS
<1>3. a \in OwnDirs(Of(p)) /\ b \in OwnDirs(Of(p))
  BY <1>2, OwnDirsApart
<1>4. CASE PreparePreferred(p)
  BY <1>1, <1>2, <1>3, <1>4, PreparesPreserves, PreparingGivesWay DEF PreparePreferred
<1>5. CASE PrepareFallback(p)
  BY <1>1, <1>2, <1>3, <1>5, PreparesPreserves, PreparingGivesWay DEF PrepareFallback
<1>6. CASE PrepareHome(p)
  BY <1>1, <1>6, PreparingGivesWay DEF PrepareHome
<1>. QED
  BY <1>4, <1>5, <1>6

\* A directory is emptied: whose files were there is in `lapsed`, or they are the
\* emptying paste's own.
LEMMA EmptyingPreserves ==
  ASSUME StagingInv, NEW p \in Pastes, NEW d \in Dirs, NEW q \in Paste,
         paste' = [paste EXCEPT ![p] = q], dir' = [dir EXCEPT ![d] = NoDirectory],
         UNCHANGED <<session, uploads, registered, days, atWork>>,
         lapsed' \subseteq Pastes, lapsed \subseteq lapsed',
         q.session = Of(p), q.dir = paste[p].dir, q.created = paste[p].created,
         q.known = paste[p].known, q.told = paste[p].told, q.source = paste[p].source,
         q.outcome = paste[p].outcome, q.todo \subseteq paste[p].todo,
         \/ q.phase = paste[p].phase /\ paste[p].phase = "sweeping"
         \/ paste[p].phase = "emptying" /\ q.phase = "closing" /\ d = paste[p].dir,
         \A r \in Pastes : paste[r].outcome = "completed" /\ session[Of(r)] = "connected"
                             /\ r \in dir[d].whole => r \in lapsed',
         \A s \in Sessions : d \in OwnDirs(s) =>
           session[s] = "gone" \/ d \in registered[s] \/ paste[p].phase = "emptying"
  PROVE  StagingInv'
<1>. StagingTypeOK /\ paste[p] \in Paste /\ Of(p) \in Sessions
  BY PasteTyped
<1>1. /\ paste' \in [Pastes -> Paste] /\ paste'[p] = q
      /\ \A r \in Pastes : r # p => paste'[r] = paste[r]
  BY DEF StagingTypeOK
<1>2. \A r \in Pastes : /\ paste'[r].session = Of(r) /\ paste'[r].dir = paste[r].dir
                        /\ paste'[r].created = paste[r].created
                        /\ paste'[r].known = paste[r].known /\ paste'[r].told = paste[r].told
                        /\ paste'[r].source = paste[r].source
                        /\ paste'[r].outcome = paste[r].outcome
                        /\ paste'[r].todo \subseteq paste[r].todo
                        /\ r # p => paste'[r].phase = paste[r].phase
  BY <1>1 DEF Of
<1>3. NoDirectory \in Directory /\ ~NoDirectory.there /\ ~NoDirectory.old
      /\ NoDirectory.part = {} /\ NoDirectory.whole = {}
  BY DEF NoDirectory, Directory
<1>4. /\ dir' \in [Dirs -> Directory] /\ dir'[d] = NoDirectory
      /\ \A e \in Dirs : e # d => dir'[e] = dir[e]
  BY <1>3 DEF StagingTypeOK
<1>5. \A e \in Dirs, r \in Pastes : Within(e, r)' <=> Within(e, r) /\ e # d
  <2>. SUFFICES ASSUME NEW e \in Dirs, NEW r \in Pastes
                PROVE  Within(e, r)' <=> Within(e, r) /\ e # d
    OBVIOUS
  <2>1. CASE e = d
    BY <1>3, <1>4, <2>1 DEF Within
  <2>2. CASE e # d
    BY <1>4, <2>2 DEF Within
  <2>. QED
    BY <2>1, <2>2
<1>6. \A r \in Pastes :
        /\ paste[r].phase \in Stored => paste'[r].phase \in Stored
        /\ paste'[r].phase \in Holding => paste[r].phase \in Holding
        /\ paste'[r].phase \in Running => paste[r].phase \in Running
        /\ paste'[r].phase = "emptying" => paste[r].phase = "emptying"
        /\ paste[r].phase \in Holding /\ paste'[r].phase \notin Holding => paste[r].dir = d
  BY <1>1, <1>2 DEF Stored, Holding, Running, PastePhases
<1>7. StagingTypeOK'
  BY <1>1, <1>4 DEF StagingTypeOK
<1>8. OwnDirectory'
  BY <1>2, <1>6 DEF StagingInv, OwnDirectory, Of
<1>9. WrittenWithin'
  <2>. SUFFICES ASSUME NEW e \in Dirs, NEW r \in Pastes, Within(e, r), e # d
                PROVE  /\ dir'[e].there /\ e = paste'[r].dir
                       /\ paste'[r].phase \in Stored
                       /\ \/ paste'[r].phase \in Holding
                          \/ e \in registered[Of(r)]
                          \/ session[Of(r)] \in {"swept", "gone"}
    BY <1>2, <1>5 DEF WrittenWithin, Of
  <2>1. /\ dir[e].there /\ e = paste[r].dir
        /\ paste[r].phase \in Stored
        /\ \/ paste[r].phase \in Holding
           \/ e \in registered[Of(r)]
           \/ session[Of(r)] \in {"swept", "gone"}
    BY DEF StagingInv, WrittenWithin
  <2>. QED
    BY <1>2, <1>4, <1>6, <2>1
<1>10. Unregistered'
  <2>. SUFFICES ASSUME NEW s \in Sessions, NEW e \in OwnDirs(s), session[s] # "gone",
                       e \notin registered[s]
                PROVE  /\ ~dir'[e].old
                       /\ dir'[e].there => \E r \in Pastes : Holds(r, e)'
                       /\ \A r \in Pastes : e \notin paste'[r].todo /\ (Holds(r, e)' => dir'[e].there)
                       /\ \A r, u \in Pastes : Holds(r, e)' /\ Holds(u, e)' => r = u
    BY DEF Unregistered
  <2>1. /\ ~dir[e].old
        /\ dir[e].there => \E r \in Pastes : Holds(r, e)
        /\ \A r \in Pastes : e \notin paste[r].todo /\ (Holds(r, e) => dir[e].there)
        /\ \A r, u \in Pastes : Holds(r, e) /\ Holds(u, e) => r = u
    BY DEF StagingInv, Unregistered
  <2>2. e \in Dirs
    BY OwnDirsApart
  <2>3. \A r \in Pastes : e \notin paste'[r].todo
    BY <1>2, <2>1
  <2>4. CASE e = d
    <3>1. paste[p].phase = "emptying" /\ q.phase = "closing" /\ d = paste[p].dir
      BY <2>4
    <3>2. Holds(p, d) /\ q.phase \notin Holding
      BY <3>1 DEF Holds, Holding
    <3>3. \A r \in Pastes : Holds(r, d) => r = p
      BY <2>1, <2>4, <3>2
    <3>4. \A r \in Pastes : ~Holds(r, d)'
      BY <1>1, <1>2, <3>2, <3>3 DEF Holds
    <3>. QED
      BY <1>3, <1>4, <2>3, <2>4, <3>4
  <2>5. CASE e # d
    <3>1. \A r \in Pastes : Holds(r, e)' <=> Holds(r, e)
      BY <1>2, <1>6, <2>5 DEF Holds
    <3>2. dir'[e] = dir[e]
      BY <1>4, <2>2, <2>5
    <3>. QED
      BY <2>1, <2>3, <3>1, <3>2
  <2>. QED
    BY <2>4, <2>5
<1>11. Landed'
  <2>. SUFFICES ASSUME NEW r \in Pastes
                PROVE
      /\ paste'[r].told = "completed" => paste'[r].outcome = "completed"
      /\ paste'[r].phase = "landed" => paste'[r].outcome = "completed"
      /\ paste'[r].outcome = "completed" =>
           /\ \/ paste'[r].phase = "landed"
              \/ paste'[r].phase = "over" /\ paste'[r].dir \in registered[Of(r)]
           /\ session[Of(r)] = "connected" /\ r \notin lapsed' => r \in dir'[paste'[r].dir].whole
    BY <1>2 DEF Landed, Of
  <2>1. paste[p].outcome # "completed" /\ q.phase # "landed"
    BY PasteTyped
  <2>2. /\ paste[r].told = "completed" => paste[r].outcome = "completed"
        /\ paste[r].phase = "landed" => paste[r].outcome = "completed"
        /\ paste[r].outcome = "completed" =>
             /\ \/ paste[r].phase = "landed"
                \/ paste[r].phase = "over" /\ paste[r].dir \in registered[Of(r)]
             /\ session[Of(r)] = "connected" /\ r \notin lapsed => r \in dir[paste[r].dir].whole
    BY DEF StagingInv, Landed
  <2>3. /\ paste'[r].told = "completed" => paste'[r].outcome = "completed"
        /\ paste'[r].phase = "landed" => paste'[r].outcome = "completed"
    BY <1>1, <1>2, <2>1, <2>2
  <2>4. ASSUME paste[r].outcome = "completed"
        PROVE  /\ \/ paste'[r].phase = "landed"
                  \/ paste'[r].phase = "over" /\ paste'[r].dir \in registered[Of(r)]
               /\ session[Of(r)] = "connected" /\ r \notin lapsed' => r \in dir'[paste'[r].dir].whole
    <3>1. r # p
      BY <2>1, <2>4
    <3>2. paste[r].dir \in Dirs
      BY <2>2, <2>4 DEF StagingInv, OwnDirectory, Holding, StagingTypeOK, Paste, Of
    <3>3. ASSUME session[Of(r)] = "connected", r \notin lapsed'
          PROVE  r \in dir'[paste[r].dir].whole
      <4>1. r \in dir[paste[r].dir].whole
        BY <2>2, <2>4, <3>3
      <4>2. paste[r].dir # d
        BY <2>4, <3>3, <4>1
      <4>. QED
        BY <1>4, <3>2, <4>1, <4>2
    <3>. QED
      BY <1>2, <2>2, <2>4, <3>1, <3>3
  <2>. QED
    BY <1>2, <2>3, <2>4
<1>12. Spools'
  BY <1>1, <1>2 DEF StagingInv, Spools
<1>13. SweptClean'
  <2>. SUFFICES ASSUME NEW r \in Pastes, session[Of(r)] \in {"swept", "gone"}, r \notin atWork
                PROVE  /\ paste'[r].phase \notin Running
                       /\ \A e \in Dirs : ~Within(e, r)
    BY <1>2, <1>5 DEF SweptClean, Of
  <2>. QED
    BY <1>6 DEF StagingInv, SweptClean
<1>. QED
  BY <1>7, <1>8, <1>9, <1>10, <1>11, <1>12, <1>13 DEF StagingInv

LEMMA SweepExpiredPreserves ==
  ASSUME StagingInv, NEW p \in Pastes, SweepExpired(p)
  PROVE  StagingInv'
<1>. StagingTypeOK /\ paste[p] \in Paste
  BY PasteTyped
<1>1. PICK d \in paste[p].todo :
        /\ dir' = [dir EXCEPT ![d] = NoDirectory]
        /\ lapsed' = lapsed \cup {r \in Pastes : Within(d, r)}
        /\ paste' = [paste EXCEPT ![p].todo = @ \ {d}]
  BY DEF SweepExpired, Emptied
<1>2. d \in Dirs /\ lapsed \subseteq Pastes
  BY DEF Paste, StagingTypeOK
<1>3. PICK q : q = [paste[p] EXCEPT !.todo = @ \ {d}]
  OBVIOUS
<1>4. /\ q \in Paste /\ q.phase = paste[p].phase /\ q.todo \subseteq paste[p].todo
      /\ q.session = Of(p) /\ q.dir = paste[p].dir /\ q.created = paste[p].created
      /\ q.known = paste[p].known /\ q.told = paste[p].told
      /\ q.outcome = paste[p].outcome /\ q.source = paste[p].source
  BY <1>3 DEF Paste, Of
<1>5. /\ paste' = [paste EXCEPT ![p] = q] /\ paste[p].phase = "sweeping"
      /\ UNCHANGED <<session, uploads, registered, days, atWork>>
  BY <1>1, <1>3 DEF StagingTypeOK, SweepExpired
<1>6. /\ \A r \in Pastes : r \in dir[d].whole => r \in lapsed'
      /\ lapsed' \subseteq Pastes /\ lapsed \subseteq lapsed'
  BY <1>1, <1>2 DEF Within
<1>7. \A s \in Sessions : d \in OwnDirs(s) => session[s] = "gone" \/ d \in registered[s]
  BY DEF StagingInv, Unregistered
<1>. QED
  BY <1>1, <1>2, <1>4, <1>5, <1>6, <1>7, EmptyingPreserves

LEMMA EmptyOwnPreserves ==
  ASSUME StagingInv, NEW p \in Pastes, EmptyOwn(p)
  PROVE  StagingInv'
<1>. StagingTypeOK /\ paste[p] \in Paste /\ Of(p) \in Sessions
  BY PasteTyped
<1>1. PICK d : d = paste[p].dir
  OBVIOUS
<1>2. /\ paste[p].phase = "emptying" /\ session[Of(p)] # "gone"
      /\ dir' = [dir EXCEPT ![d] = NoDirectory]
      /\ paste' = [paste EXCEPT ![p].phase = "closing"]
      /\ lapsed' = IF paste[p].created /\ d \in registered[Of(p)]
                   THEN lapsed \cup {r \in Pastes : Within(d, r)} ELSE lapsed
      /\ UNCHANGED <<session, uploads, registered, days, atWork>>
  BY <1>1 DEF EmptyOwn, Emptied, Channel, GoOn
<1>3. paste[p].created /\ d \in OwnDirs(Of(p)) /\ d \in Dirs /\ Holds(p, d)
  BY <1>1, <1>2, OwnDirsApart DEF StagingInv, OwnDirectory, Holding, Holds
<1>4. PICK q : q = [paste[p] EXCEPT !.phase = "closing"]
  OBVIOUS
<1>5. /\ q \in Paste /\ q.phase = "closing" /\ q.todo = paste[p].todo
      /\ q.session = Of(p) /\ q.dir = paste[p].dir /\ q.created = paste[p].created
      /\ q.known = paste[p].known /\ q.told = paste[p].told
      /\ q.outcome = paste[p].outcome /\ q.source = paste[p].source
  BY <1>4 DEF Paste, Of, PastePhases
<1>6. paste' = [paste EXCEPT ![p] = q]
  BY <1>2, <1>4 DEF StagingTypeOK
<1>7. lapsed' \subseteq Pastes /\ lapsed \subseteq lapsed'
  BY <1>2 DEF StagingTypeOK
<1>8. ASSUME NEW r \in Pastes, paste[r].outcome = "completed", r \in dir[d].whole
      PROVE  r \in lapsed'
  <2>1. CASE d \in registered[Of(p)]
    BY <1>2, <1>3, <1>8, <2>1 DEF Within
  <2>2. CASE d \notin registered[Of(p)]
    <3>1. Within(d, r)
      BY <1>8 DEF Within
    <3>2. d = paste[r].dir
      BY <1>3, <3>1 DEF StagingInv, WrittenWithin
    <3>3. Of(r) \in Sessions /\ d \in OwnDirs(Of(r))
      BY <1>1, <1>3, <3>2, PasteTyped, OwnDirsApart DEF StagingInv, OwnDirectory
    <3>4. Of(r) = Of(p)
      BY <1>3, <3>3, OwnDirsApart
    <3>5. paste[r].phase = "landed"
      BY <1>8, <2>2, <3>2, <3>4 DEF StagingInv, Landed
    <3>6. Holds(r, d)
      BY <3>2, <3>5 DEF Holds, Holding
    <3>7. r = p
      BY <1>2, <1>3, <2>2, <3>6 DEF StagingInv, Unregistered
    <3>. QED
      BY <1>2, <3>5, <3>7
  <2>. QED
    BY <2>1, <2>2
<1>9. \A r \in Pastes : paste[r].outcome = "completed" /\ session[Of(r)] = "connected"
                        /\ r \in dir[d].whole => r \in lapsed'
  BY <1>8
<1>10. \A s \in Sessions : d \in OwnDirs(s) =>
         session[s] = "gone" \/ d \in registered[s] \/ paste[p].phase = "emptying"
  BY <1>2
<1>11. q.todo \subseteq paste[p].todo
  BY <1>5
<1>. QED
  BY <1>2, <1>3, <1>5, <1>6, <1>7, <1>9, <1>10, <1>11, <1>1, EmptyingPreserves, ZenonT(60)

LEMMA EndPreserves ==
  ASSUME StagingInv, NEW p \in Pastes, End(p)
  PROVE  StagingInv'
<1>. StagingTypeOK /\ paste[p] \in Paste /\ Of(p) \in Sessions
  BY PasteTyped
<1>1. PICK d : d = paste[p].dir
  OBVIOUS
<1>2. /\ paste[p].phase \in {"landed", "closing"} /\ paste[p].told # "none"
      /\ registered' = IF paste[p].phase = "landed"
                       THEN [registered EXCEPT ![Of(p)] = @ \cup {d}] ELSE registered
      /\ paste' = [paste EXCEPT ![p].phase = "over"]
      /\ uploads' \in [Sessions -> SUBSET Pastes]
      /\ UNCHANGED <<session, dir, days, lapsed, atWork>>
  BY <1>1 DEF End, GoOn, FinishUpload, StagingTypeOK
<1>3. /\ paste' \in [Pastes -> Paste] /\ paste'[p].phase = "over"
      /\ \A r \in Pastes : r # p => paste'[r] = paste[r]
      /\ \A r \in Pastes :
           /\ paste'[r].session = Of(r) /\ paste'[r].dir = paste[r].dir
           /\ paste'[r].created = paste[r].created /\ paste'[r].known = paste[r].known
           /\ paste'[r].todo = paste[r].todo /\ paste'[r].told = paste[r].told
           /\ paste'[r].outcome = paste[r].outcome /\ paste'[r].source = paste[r].source
  <2>1. PICK q : q = [paste[p] EXCEPT !.phase = "over"]
    OBVIOUS
  <2>2. /\ q \in Paste /\ q.phase = "over" /\ q.session = Of(p) /\ q.dir = paste[p].dir
        /\ q.created = paste[p].created /\ q.known = paste[p].known
        /\ q.todo = paste[p].todo /\ q.told = paste[p].told
        /\ q.outcome = paste[p].outcome /\ q.source = paste[p].source
    BY <2>1 DEF Paste, PastePhases, Of
  <2>3. paste' = [paste EXCEPT ![p] = q]
    BY <1>2, <2>1 DEF StagingTypeOK
  <2>4. paste' \in [Pastes -> Paste] /\ paste'[p] = q
        /\ \A r \in Pastes : r # p => paste'[r] = paste[r]
    BY <2>2, <2>3 DEF StagingTypeOK
  <2>. QED
    BY <2>2, <2>4 DEF Of
<1>4. paste[p].phase = "landed" => d \in OwnDirs(Of(p)) /\ d \in Dirs /\ Holds(p, d)
  <2>1. "landed" \in Holding
    BY DEF Holding
  <2>2. paste[p].phase = "landed" => d # NoDir /\ d \in OwnDirs(Of(p))
    BY <1>1, <2>1 DEF StagingInv, OwnDirectory
  <2>. QED
    BY <1>1, <2>1, <2>2, OwnDirsApart DEF Holds
<1>5. /\ registered' \in [Sessions -> SUBSET Dirs]
      /\ \A s \in Sessions : registered[s] \subseteq registered'[s]
      /\ \A s \in Sessions : registered'[s] \subseteq OwnDirs(s)
      /\ paste[p].phase = "landed" => d \in registered'[Of(p)]
  BY <1>2, <1>4 DEF StagingInv, StagingTypeOK, OwnDirectory
<1>6. /\ "over" \notin Holding /\ "over" \in Stored /\ "over" \notin Running
      /\ "closing" \notin Holding
  BY DEF Holding, Stored, Running
<1>7. StagingTypeOK'
  BY <1>2, <1>3, <1>5 DEF StagingTypeOK
<1>8. OwnDirectory'
  BY <1>3, <1>5, <1>6, PasteTyped DEF StagingInv, OwnDirectory, Of
<1>9. WrittenWithin'
  <2>. SUFFICES ASSUME NEW e \in Dirs, NEW r \in Pastes, Within(e, r)
                PROVE  /\ dir[e].there /\ e = paste'[r].dir
                       /\ paste'[r].phase \in Stored
                       /\ \/ paste'[r].phase \in Holding
                          \/ e \in registered'[Of(r)]
                          \/ session[Of(r)] \in {"swept", "gone"}
    BY <1>2, <1>3 DEF WrittenWithin, Within, Of
  <2>1. /\ dir[e].there /\ e = paste[r].dir
        /\ paste[r].phase \in Stored
        /\ \/ paste[r].phase \in Holding
           \/ e \in registered[Of(r)]
           \/ session[Of(r)] \in {"swept", "gone"}
    BY DEF StagingInv, WrittenWithin
  <2>2. CASE r = p
    BY <1>1, <1>2, <1>3, <1>5, <1>6, <2>1, <2>2
  <2>3. CASE r # p
    <3>1. Of(r) \in Sessions
      BY PasteTyped
    <3>. QED
      BY <1>3, <1>5, <2>1, <2>3, <3>1
  <2>. QED
    BY <2>2, <2>3
<1>10. Unregistered'
  <2>. SUFFICES ASSUME NEW s \in Sessions, NEW e \in OwnDirs(s), session[s] # "gone",
                       e \notin registered'[s]
                PROVE  /\ ~dir[e].old
                       /\ dir[e].there => \E r \in Pastes : Holds(r, e)'
                       /\ \A r \in Pastes : e \notin paste'[r].todo /\ (Holds(r, e)' => dir[e].there)
                       /\ \A r, u \in Pastes : Holds(r, e)' /\ Holds(u, e)' => r = u
    BY <1>2 DEF Unregistered
  <2>1. /\ ~dir[e].old
        /\ dir[e].there => \E r \in Pastes : Holds(r, e)
        /\ \A r \in Pastes : e \notin paste[r].todo /\ (Holds(r, e) => dir[e].there)
        /\ \A r, u \in Pastes : Holds(r, e) /\ Holds(u, e) => r = u
    BY <1>5 DEF StagingInv, Unregistered
  <2>2. ~Holds(p, e)
    <3>1. CASE paste[p].phase = "landed"
      <4>1. s # Of(p) => e # d
        BY <1>4, <3>1, OwnDirsApart
      <4>2. s = Of(p) => e # d
        BY <1>5, <3>1
      <4>. QED
        BY <1>1, <4>1, <4>2 DEF Holds
    <3>2. CASE paste[p].phase = "closing"
      BY <1>6, <3>2 DEF Holds
    <3>. QED
      BY <1>2, <3>1, <3>2
  <2>3. \A r \in Pastes : Holds(r, e)' <=> Holds(r, e)
    <3>1. ~Holds(p, e)'
      BY <1>3, <1>6 DEF Holds
    <3>2. \A r \in Pastes : r # p => (Holds(r, e)' <=> Holds(r, e))
      BY <1>3 DEF Holds
    <3>. QED
      BY <2>2, <3>1, <3>2
  <2>. QED
    BY <1>3, <2>1, <2>3
<1>11. Landed'
  <2>. SUFFICES ASSUME NEW r \in Pastes
                PROVE
    /\ paste[r].told = "completed" => paste[r].outcome = "completed"
    /\ paste'[r].phase = "landed" => paste[r].outcome = "completed"
    /\ paste[r].outcome = "completed" =>
         /\ \/ paste'[r].phase = "landed"
            \/ paste'[r].phase = "over" /\ paste[r].dir \in registered'[Of(r)]
         /\ session[Of(r)] = "connected" /\ r \notin lapsed => r \in dir[paste[r].dir].whole
    BY <1>2, <1>3 DEF Landed, Of
  <2>1. /\ paste[r].told = "completed" => paste[r].outcome = "completed"
        /\ paste[r].phase = "landed" => paste[r].outcome = "completed"
        /\ paste[r].outcome = "completed" =>
             /\ \/ paste[r].phase = "landed"
                \/ paste[r].phase = "over" /\ paste[r].dir \in registered[Of(r)]
             /\ session[Of(r)] = "connected" /\ r \notin lapsed => r \in dir[paste[r].dir].whole
    BY DEF StagingInv, Landed
  <2>2. CASE r = p
    BY <1>1, <1>2, <1>3, <1>5, <2>1, <2>2
  <2>3. CASE r # p
    <3>1. Of(r) \in Sessions
      BY PasteTyped
    <3>. QED
      BY <1>3, <1>5, <2>1, <2>3, <3>1
  <2>. QED
    BY <2>2, <2>3
<1>12. Spools'
  <2>1. paste[p].source # "there"
    BY <1>2 DEF StagingInv, Spools
  <2>. QED
    BY <1>3, <2>1 DEF StagingInv, Spools
<1>13. SweptClean'
  <2>. SUFFICES ASSUME NEW r \in Pastes, session[Of(r)] \in {"swept", "gone"}, r \notin atWork
                PROVE  /\ paste'[r].phase \notin Running
                       /\ \A e \in Dirs : ~Within(e, r)
    BY <1>2, <1>3 DEF SweptClean, Within, Of
  <2>. QED
    BY <1>3, <1>6 DEF StagingInv, SweptClean
<1>. QED
  BY <1>7, <1>8, <1>9, <1>10, <1>11, <1>12, <1>13 DEF StagingInv

\* A step of a session.
LEMMA SessionMoves ==
  ASSUME StagingInv, NEW s \in Sessions, NEW state \in {"closing", "swept", "gone"},
         session' = [session EXCEPT ![s] = state], session[s] # "gone",
         state = "closing" => session[s] = "connected",
         UNCHANGED <<registered, days, lapsed>>,
         uploads' \in [Sessions -> SUBSET Pastes],
         paste' \in [Pastes -> Paste],
         \A r \in Pastes :
           /\ paste'[r].session = Of(r) /\ paste'[r].dir = paste[r].dir
           /\ paste'[r].created = paste[r].created /\ paste'[r].known = paste[r].known
           /\ paste'[r].todo = paste[r].todo /\ paste'[r].told = paste[r].told
           /\ paste'[r].outcome = paste[r].outcome /\ paste'[r].source = paste[r].source
           /\ \/ paste'[r].phase = paste[r].phase
              \/ paste[r].phase = "queued" /\ paste'[r].phase = "dropped",
         dir' \in [Dirs -> Directory],
         \A d \in Dirs : dir'[d] = dir[d] \/ (d \in registered[s] /\ dir'[d] = NoDirectory),
         atWork \subseteq atWork', atWork' \subseteq Pastes,
         state \in {"swept", "gone"} => \A r \in Pastes : Of(r) = s /\ r \notin atWork' =>
           paste'[r].phase \notin Running /\ \A d \in Dirs : ~Within(d, r)'
  PROVE  StagingInv'
<1>1. /\ session' \in [Sessions -> {"connected", "closing", "swept", "gone"}]
      /\ session'[s] = state /\ \A t \in Sessions : t # s => session'[t] = session[t]
  BY DEF StagingInv, StagingTypeOK
<1>2. \A d \in Dirs, r \in Pastes : Within(d, r)' => Within(d, r) /\ dir'[d] = dir[d]
  BY DEF Within, NoDirectory
<1>3. \A r \in Pastes :
        /\ Of(r) \in Sessions
        /\ paste'[r].phase \in Holding <=> paste[r].phase \in Holding
        /\ paste[r].phase \in Stored => paste'[r].phase \in Stored
        /\ paste'[r].phase \in Running => paste[r].phase \in Running
        /\ paste'[r].phase \in {"idle", "emptying", "landed", "closing", "over"}
             <=> paste[r].phase \in {"idle", "emptying", "landed", "closing", "over"}
        /\ paste[r].phase \in {"idle", "emptying", "landed", "closing", "over"}
             => paste'[r].phase = paste[r].phase
  BY PasteTyped DEF Holding, Stored, Running
<1>4. StagingTypeOK'
  BY <1>1 DEF StagingInv, StagingTypeOK
<1>5. OwnDirectory'
  BY <1>3 DEF StagingInv, OwnDirectory, Of
<1>6. WrittenWithin'
  <2>. SUFFICES ASSUME NEW d \in Dirs, NEW r \in Pastes, Within(d, r), dir'[d] = dir[d]
                PROVE  /\ dir[d].there /\ d = paste'[r].dir
                       /\ paste'[r].phase \in Stored
                       /\ \/ paste'[r].phase \in Holding
                          \/ d \in registered[Of(r)]
                          \/ session'[Of(r)] \in {"swept", "gone"}
    BY <1>2 DEF WrittenWithin, Of
  <2>1. /\ dir[d].there /\ d = paste[r].dir
        /\ paste[r].phase \in Stored
        /\ \/ paste[r].phase \in Holding
           \/ d \in registered[Of(r)]
           \/ session[Of(r)] \in {"swept", "gone"}
    BY DEF StagingInv, WrittenWithin
  <2>2. session[Of(r)] \in {"swept", "gone"} => session'[Of(r)] \in {"swept", "gone"}
    BY <1>1, <1>3
  <2>. QED
    BY <1>3, <2>1, <2>2
<1>7. Unregistered'
  <2>. SUFFICES ASSUME NEW t \in Sessions, NEW d \in OwnDirs(t), session'[t] # "gone",
                       d \notin registered[t]
                PROVE  /\ ~dir'[d].old
                       /\ dir'[d].there => \E r \in Pastes : Holds(r, d)'
                       /\ \A r \in Pastes : d \notin paste'[r].todo /\ (Holds(r, d)' => dir'[d].there)
                       /\ \A r, u \in Pastes : Holds(r, d)' /\ Holds(u, d)' => r = u
    BY DEF Unregistered
  <2>1. session[t] # "gone" /\ d \in Dirs
    BY <1>1, OwnDirsApart
  <2>2. dir'[d] = dir[d]
    <3>1. registered[s] \subseteq OwnDirs(s)
      BY DEF StagingInv, OwnDirectory
    <3>2. d \in registered[s] => t = s
      BY <3>1, OwnDirsApart
    <3>. QED
      BY <2>1, <3>2
  <2>3. \A r \in Pastes : Holds(r, d)' <=> Holds(r, d)
    BY <1>3 DEF Holds
  <2>4. /\ ~dir[d].old
        /\ dir[d].there => \E r \in Pastes : Holds(r, d)
        /\ \A r \in Pastes : d \notin paste[r].todo /\ (Holds(r, d) => dir[d].there)
        /\ \A r, u \in Pastes : Holds(r, d) /\ Holds(u, d) => r = u
    BY <2>1 DEF StagingInv, Unregistered
  <2>. QED
    BY <2>2, <2>3, <2>4
<1>8. Landed'
  <2>. SUFFICES ASSUME NEW r \in Pastes
                PROVE
    /\ paste[r].told = "completed" => paste[r].outcome = "completed"
    /\ paste'[r].phase = "landed" => paste[r].outcome = "completed"
    /\ paste[r].outcome = "completed" =>
         /\ \/ paste'[r].phase = "landed"
            \/ paste'[r].phase = "over" /\ paste[r].dir \in registered[Of(r)]
         /\ session'[Of(r)] = "connected" /\ r \notin lapsed => r \in dir'[paste[r].dir].whole
    BY DEF Landed, Of
  <2>1. /\ paste[r].told = "completed" => paste[r].outcome = "completed"
        /\ paste[r].phase = "landed" => paste[r].outcome = "completed"
        /\ paste[r].outcome = "completed" =>
             /\ \/ paste[r].phase = "landed"
                \/ paste[r].phase = "over" /\ paste[r].dir \in registered[Of(r)]
             /\ session[Of(r)] = "connected" /\ r \notin lapsed => r \in dir[paste[r].dir].whole
    BY DEF StagingInv, Landed
  <2>2. ASSUME paste[r].outcome = "completed", session'[Of(r)] = "connected"
        PROVE  /\ session[Of(r)] = "connected" /\ dir'[paste[r].dir] = dir[paste[r].dir]
    <3>1. Of(r) # s /\ session[Of(r)] = "connected"
      BY <1>1, <1>3, <2>2
    <3>2. paste[r].dir \in OwnDirs(Of(r)) /\ paste[r].dir \in Dirs
      <4>1. paste[r].phase = "landed" \/ paste[r].dir \in registered[Of(r)]
        BY <2>1, <2>2
      <4>2. registered[Of(r)] \subseteq OwnDirs(Of(r))
        BY <1>3 DEF StagingInv, OwnDirectory
      <4>3. paste[r].phase = "landed" => paste[r].dir \in OwnDirs(Of(r))
        BY DEF StagingInv, OwnDirectory, Holding
      <4>. QED
        BY <1>3, <4>1, <4>2, <4>3, OwnDirsApart
    <3>3. paste[r].dir \notin registered[s]
      BY <1>3, <3>1, <3>2, OwnDirsApart DEF StagingInv, OwnDirectory
    <3>. QED
      BY <3>1, <3>2, <3>3
  <2>. QED
    BY <1>3, <2>1, <2>2
<1>9. Spools'
  <2>. SUFFICES ASSUME NEW r \in Pastes
                PROVE
    /\ paste'[r].phase = "idle" => paste[r].source = "none"
    /\ paste[r].told # "none" => paste'[r].phase \in {"landed", "closing", "over"}
    /\ paste[r].told # "none" \/ paste'[r].phase = "over" => paste[r].source # "there"
    BY DEF Spools
  <2>. QED
    BY <1>3 DEF StagingInv, Spools
<1>10. SweptClean'
  <2>. SUFFICES ASSUME NEW r \in Pastes, session'[Of(r)] \in {"swept", "gone"}, r \notin atWork'
                PROVE  /\ paste'[r].phase \notin Running
                       /\ \A d \in Dirs : ~Within(d, r)'
    BY DEF SweptClean, Of
  <2>1. CASE Of(r) = s
    BY <1>1, <2>1
  <2>2. CASE Of(r) # s
    <3>1. session[Of(r)] \in {"swept", "gone"} /\ r \notin atWork
      BY <1>1, <1>3, <2>2
    <3>2. paste[r].phase \notin Running /\ \A d \in Dirs : ~Within(d, r)
      BY <3>1 DEF StagingInv, SweptClean
    <3>. QED
      BY <1>2, <1>3, <3>2
  <2>. QED
    BY <2>1, <2>2
<1>. QED
  BY <1>4, <1>5, <1>6, <1>7, <1>8, <1>9, <1>10 DEF StagingInv

LEMMA ClosePreserves ==
  ASSUME StagingInv, NEW s \in Sessions, Close(s)
  PROVE  StagingInv'
<1>. StagingTypeOK
  BY DEF StagingInv
<1>1. /\ session[s] = "connected" /\ session' = [session EXCEPT ![s] = "closing"]
      /\ UNCHANGED <<registered, dir, days, lapsed, atWork>>
      /\ dir' \in [Dirs -> Directory] /\ atWork' \subseteq Pastes
  BY DEF Close, StagingTypeOK
<1>2. CASE /\ paste' = [p \in Pastes |-> IF p \in uploads[s]
                          THEN [paste[p] EXCEPT !.stopped = TRUE] ELSE paste[p]]
           /\ uploads' = [uploads EXCEPT ![s] = {}]
  <2>1. uploads' \in [Sessions -> SUBSET Pastes]
    BY <1>2 DEF StagingTypeOK
  <2>2. \A r \in Pastes :
          /\ paste'[r] \in Paste
          /\ paste'[r].session = Of(r) /\ paste'[r].dir = paste[r].dir
          /\ paste'[r].created = paste[r].created /\ paste'[r].known = paste[r].known
          /\ paste'[r].todo = paste[r].todo /\ paste'[r].told = paste[r].told
          /\ paste'[r].outcome = paste[r].outcome /\ paste'[r].source = paste[r].source
          /\ paste'[r].phase = paste[r].phase
    <3>. TAKE r \in Pastes
    <3>1. PICK q : q = [paste[r] EXCEPT !.stopped = TRUE]
      OBVIOUS
    <3>2. paste[r] \in Paste
      BY DEF StagingTypeOK
    <3>3. /\ q \in Paste /\ q.session = Of(r) /\ q.dir = paste[r].dir
          /\ q.created = paste[r].created /\ q.known = paste[r].known
          /\ q.todo = paste[r].todo /\ q.told = paste[r].told
          /\ q.outcome = paste[r].outcome /\ q.source = paste[r].source
          /\ q.phase = paste[r].phase
      BY <3>1, <3>2 DEF Paste, Of
    <3>4. paste'[r] = q \/ paste'[r] = paste[r]
      BY <1>2, <3>1
    <3>. QED
      BY <3>2, <3>3, <3>4 DEF Of
  <2>3. paste' \in [Pastes -> Paste]
    BY <1>2, <2>2
  <2>. QED
    BY <1>1, <2>1, <2>2, <2>3, SessionMoves
<1>3. CASE UNCHANGED <<paste, uploads>>
  <2>1. paste' \in [Pastes -> Paste] /\ uploads' \in [Sessions -> SUBSET Pastes]
    BY <1>3 DEF StagingTypeOK
  <2>. QED
    BY <1>1, <1>3, <2>1, SessionMoves DEF Of
<1>. QED
  BY <1>2, <1>3 DEF Close

LEMMA SweepRegisteredPreserves ==
  ASSUME StagingInv, NEW s \in Sessions, SweepRegistered(s)
  PROVE  StagingInv'
<1>. StagingTypeOK
  BY DEF StagingInv
<1>1. /\ session[s] = "closing" /\ session' = [session EXCEPT ![s] = "swept"]
      /\ atWork' = atWork \cup {p \in Pastes : Of(p) = s /\ paste[p].phase \in Running}
      /\ dir' = [d \in Dirs |-> IF d \in registered[s] THEN NoDirectory ELSE dir[d]]
      /\ UNCHANGED <<uploads, registered, paste, days, lapsed>>
  BY DEF SweepRegistered
<1>2. /\ paste' \in [Pastes -> Paste] /\ uploads' \in [Sessions -> SUBSET Pastes]
      /\ atWork \subseteq atWork' /\ atWork' \subseteq Pastes
  BY <1>1 DEF StagingTypeOK
<1>3. NoDirectory \in Directory /\ NoDirectory.part = {} /\ NoDirectory.whole = {}
  BY DEF NoDirectory, Directory
<1>4. dir' \in [Dirs -> Directory]
      /\ \A d \in Dirs : dir'[d] = dir[d] \/ (d \in registered[s] /\ dir'[d] = NoDirectory)
  BY <1>1, <1>3 DEF StagingTypeOK
<1>5. ASSUME NEW r \in Pastes, Of(r) = s, r \notin atWork'
      PROVE  paste'[r].phase \notin Running /\ \A d \in Dirs : ~Within(d, r)'
  <2>1. paste[r].phase \notin Running
    BY <1>1, <1>5
  <2>2. ASSUME NEW d \in Dirs, Within(d, r)' PROVE FALSE
    <3>1. d \notin registered[s] /\ Within(d, r)
      BY <1>1, <1>3, <2>2 DEF Within
    <3>2. paste[r].phase \in Holding
      BY <1>1, <1>5, <3>1 DEF StagingInv, WrittenWithin
    <3>. QED
      BY <2>1, <3>2 DEF Holding, Running, PastePhases
  <2>. QED
    BY <1>1, <2>1, <2>2
<1>. QED
  BY <1>1, <1>2, <1>4, <1>5, SessionMoves DEF Of

LEMMA DisconnectPreserves ==
  ASSUME StagingInv, NEW s \in Sessions, Disconnect(s)
  PROVE  StagingInv'
<1>. StagingTypeOK
  BY DEF StagingInv
<1>1. /\ session[s] # "gone" /\ session' = [session EXCEPT ![s] = "gone"]
      /\ atWork' = IF session[s] = "swept" THEN atWork
                   ELSE atWork \cup {p \in Pastes : Of(p) = s}
      /\ paste' = [p \in Pastes |-> IF Of(p) = s /\ paste[p].phase = "queued"
                     THEN [paste[p] EXCEPT !.phase = "dropped"] ELSE paste[p]]
      /\ UNCHANGED <<uploads, registered, dir, days, lapsed>>
  BY DEF Disconnect
<1>2. /\ uploads' \in [Sessions -> SUBSET Pastes] /\ dir' \in [Dirs -> Directory]
      /\ atWork \subseteq atWork' /\ atWork' \subseteq Pastes
  BY <1>1 DEF StagingTypeOK
<1>3. \A r \in Pastes :
        /\ paste'[r] \in Paste
        /\ paste'[r].session = Of(r) /\ paste'[r].dir = paste[r].dir
        /\ paste'[r].created = paste[r].created /\ paste'[r].known = paste[r].known
        /\ paste'[r].todo = paste[r].todo /\ paste'[r].told = paste[r].told
        /\ paste'[r].outcome = paste[r].outcome /\ paste'[r].source = paste[r].source
        /\ \/ paste'[r].phase = paste[r].phase
           \/ paste[r].phase = "queued" /\ paste'[r].phase = "dropped"
  <2>. TAKE r \in Pastes
  <2>1. PICK q : q = [paste[r] EXCEPT !.phase = "dropped"]
    OBVIOUS
  <2>2. paste[r] \in Paste
    BY DEF StagingTypeOK
  <2>3. /\ q \in Paste /\ q.session = Of(r) /\ q.dir = paste[r].dir
        /\ q.created = paste[r].created /\ q.known = paste[r].known
        /\ q.todo = paste[r].todo /\ q.told = paste[r].told
        /\ q.outcome = paste[r].outcome /\ q.source = paste[r].source
        /\ q.phase = "dropped"
    BY <2>1, <2>2 DEF Paste, PastePhases, Of
  <2>4. paste'[r] = paste[r] \/ (paste[r].phase = "queued" /\ paste'[r] = q)
    BY <1>1, <2>1
  <2>. QED
    BY <2>2, <2>3, <2>4 DEF Of
<1>4. paste' \in [Pastes -> Paste]
  BY <1>1, <1>3
<1>5. ASSUME NEW r \in Pastes, Of(r) = s, r \notin atWork'
      PROVE  paste'[r].phase \notin Running /\ \A d \in Dirs : ~Within(d, r)'
  <2>1. session[s] = "swept" /\ r \notin atWork
    BY <1>1, <1>5
  <2>2. paste[r].phase \notin Running /\ \A d \in Dirs : ~Within(d, r)
    BY <1>5, <2>1 DEF StagingInv, SweptClean
  <2>3. paste'[r].phase \notin Running
    BY <1>3, <2>2 DEF Running
  <2>. QED
    BY <1>1, <2>2, <2>3 DEF Within
<1>. QED
  BY <1>1, <1>2, <1>3, <1>4, <1>5, SessionMoves

LEMMA ExpirePreserves ==
  ASSUME StagingInv, NEW d \in Dirs, Expire(d)
  PROVE  StagingInv'
<1>. StagingTypeOK
  BY DEF StagingInv
<1>1. /\ dir[d].there
      /\ \A p \in Pastes : paste[p].phase \in Running => paste[p].dir # d
      /\ dir' = [dir EXCEPT ![d].old = TRUE] /\ days' = days + 1
      /\ UNCHANGED <<session, uploads, registered, paste, lapsed, atWork>>
  BY DEF Expire
<1>2. PICK g : g = [dir[d] EXCEPT !.old = TRUE]
  OBVIOUS
<1>3. dir[d] \in Directory
  BY DEF StagingTypeOK
<1>4. /\ g \in Directory /\ g.there = dir[d].there /\ g.part = dir[d].part
      /\ g.whole = dir[d].whole
  BY <1>2, <1>3 DEF Directory
<1>5. dir' = [dir EXCEPT ![d] = g]
  BY <1>1, <1>2 DEF StagingTypeOK
<1>6. /\ dir' \in [Dirs -> Directory] /\ dir'[d] = g
      /\ \A e \in Dirs : e # d => dir'[e] = dir[e]
      /\ \A e \in Dirs : /\ dir'[e].there = dir[e].there /\ dir'[e].part = dir[e].part
                         /\ dir'[e].whole = dir[e].whole
  BY <1>4, <1>5 DEF StagingTypeOK
<1>7. StagingTypeOK'
  BY <1>1, <1>6 DEF StagingTypeOK
<1>8. OwnDirectory' /\ Spools'
  BY <1>1 DEF StagingInv, OwnDirectory, Spools, Of
<1>9. WrittenWithin'
  BY <1>1, <1>6 DEF StagingInv, WrittenWithin, Within, Of
<1>10. Unregistered'
  <2>. SUFFICES ASSUME NEW t \in Sessions, NEW e \in OwnDirs(t), session[t] # "gone",
                       e \notin registered[t]
                PROVE  /\ ~dir'[e].old
                       /\ dir'[e].there => \E r \in Pastes : Holds(r, e)
                       /\ \A r \in Pastes : e \notin paste[r].todo /\ (Holds(r, e) => dir'[e].there)
                       /\ \A r, u \in Pastes : Holds(r, e) /\ Holds(u, e) => r = u
    BY <1>1 DEF Unregistered, Holds
  <2>1. /\ ~dir[e].old
        /\ dir[e].there => \E r \in Pastes : Holds(r, e)
        /\ \A r \in Pastes : e \notin paste[r].todo /\ (Holds(r, e) => dir[e].there)
        /\ \A r, u \in Pastes : Holds(r, e) /\ Holds(u, e) => r = u
    BY DEF StagingInv, Unregistered
  <2>2. e \in Dirs
    BY OwnDirsApart
  <2>3. e # d
    BY <1>1, <2>1 DEF Holds, Holding, Running, PastePhases
  <2>. QED
    BY <1>6, <2>1, <2>2, <2>3
<1>11. Landed'
  <2>1. \A r \in Pastes : paste[r].outcome = "completed" => paste[r].dir \in Dirs
    <3>. SUFFICES ASSUME NEW r \in Pastes, paste[r].outcome = "completed"
                  PROVE  paste[r].dir \in Dirs
      OBVIOUS
    <3>1. paste[r].phase = "landed" \/ paste[r].dir \in registered[Of(r)]
      BY DEF StagingInv, Landed
    <3>. QED
      BY <3>1, PasteTyped DEF StagingInv, OwnDirectory, Holding, StagingTypeOK, Paste
  <2>. QED
    BY <1>1, <1>6, <2>1 DEF StagingInv, Landed, Of
<1>12. SweptClean'
  BY <1>1, <1>6 DEF StagingInv, SweptClean, Within, Of
<1>. QED
  BY <1>7, <1>8, <1>9, <1>10, <1>11, <1>12 DEF StagingInv

LEMMA StagingStep == StagingInv /\ [StagingNext]_stagingVars => StagingInv'
<1>. SUFFICES ASSUME StagingInv, [StagingNext]_stagingVars PROVE StagingInv'
  OBVIOUS
<1>1. ASSUME NEW p \in Pastes,
             \/ Upload(p) \/ ReadClipboard(p) \/ Check(p) \/ RegisterUpload(p) \/ Stop(p)
             \/ Take(p)
      PROVE  StagingInv'
  BY <1>1, ReadClipboardPreserves, RequestPreserves, StopPreserves, TakePreserves
<1>2. ASSUME NEW p \in Pastes,
             \/ PreparePreferred(p) \/ PrepareHome(p) \/ ListExpired(p) \/ SweepExpired(p)
             \/ PrepareFallback(p)
      PROVE  StagingInv'
  BY <1>2, PreparePreserves, ListExpiredPreserves, SweepExpiredPreserves
<1>3. ASSUME NEW p \in Pastes,
             \/ Scan(p) \/ StartWriting(p) \/ Land(p) \/ Abort(p) \/ RemoveRoots(p)
             \/ EmptyOwn(p) \/ LoseChannel(p) \/ Tell(p) \/ End(p)
      PROVE  StagingInv'
  BY <1>3, ScanPreserves, StartWritingPreserves, LandPreserves, AbortPreserves,
     RemoveRootsPreserves, EmptyOwnPreserves, LoseChannelPreserves, TellPreserves, EndPreserves
<1>4. ASSUME NEW s \in Sessions, Close(s) \/ SweepRegistered(s) \/ Disconnect(s)
      PROVE  StagingInv'
  BY <1>4, ClosePreserves, SweepRegisteredPreserves, DisconnectPreserves
<1>5. ASSUME NEW d \in Dirs, Expire(d) PROVE StagingInv'
  BY <1>5, ExpirePreserves
<1>6. CASE UNCHANGED stagingVars
  BY <1>6 DEF stagingVars, StagingInv, StagingTypeOK, OwnDirectory, WrittenWithin, Within,
     Unregistered, Holds, Landed, Spools, SweptClean, Of
<1>. QED
  BY <1>1, <1>2, <1>3, <1>4, <1>5, <1>6 DEF StagingNext

LEMMA StagingSafety == StagingSpec => []StagingInv
<1>1. StagingInit => StagingInv
  BY StagingInitial
<1>2. StagingInv /\ [StagingNext]_stagingVars => StagingInv'
  BY StagingStep
<1>. QED
  BY <1>1, <1>2, PTL DEF StagingSpec

(* Every variable of the pastes keeps its type. *)
THEOREM StagingTypes == StagingSpec => []StagingTypeOK
<1>1. StagingInv => StagingTypeOK
  BY DEF StagingInv
<1>. QED
  BY <1>1, StagingSafety, PTL

(* For any number of sessions and pastes, however their tasks meet the     *)
(* sweeps, the failures and each other: a path that was typed leads to the *)
(* whole file while its session is connected, unless it went with a        *)
(* directory that had expired.                                             *)
THEOREM TypedPathsKeepLeading == StagingSpec => []TypedPathsLead
<1>1. StagingInv => TypedPathsLead
  BY DEF StagingInv, Landed, TypedPathsLead, Of
<1>. QED
  BY <1>1, StagingSafety, PTL

(* ... and a session that ends in order leaves nothing of its pastes on    *)
(* the host, nor a paste that is over a picture on this machine.           *)
THEOREM EndedSessionsLeaveNothing == StagingSpec => []NothingStays
<1>1. StagingInv => NothingStays
  BY DEF StagingInv, Spools, SweptClean, NothingStays, Of
<1>. QED
  BY <1>1, StagingSafety, PTL
=============================================================================
