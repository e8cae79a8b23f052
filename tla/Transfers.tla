------------------------------ MODULE Transfers ------------------------------
(***************************************************************************)
(* Uploads and downloads of the server (transfers.rs), the registry that   *)
(* can cancel them (transfer_lifecycle.rs) and the download tickets.       *)
(* A request takes one of the slots, then a permit, then registers its id; *)
(* it works on its file, checking permit and cancellation as it goes, and  *)
(* in the end moves the file in place or leaves a ticket for it, which     *)
(* holds the slot until it is redeemed and streamed, or is found expired.  *)
(* Sealing the workbench clears the tickets, then the registry, while the  *)
(* requests of the old page are still running (state.rs).                  *)
(* A flag stands for the AtomicBool a registry entry shares with the       *)
(* transfer that started it; they are numbered as they are made.           *)
(***************************************************************************)
EXTENDS Workbench, Integers, FiniteSets

CONSTANTS
  Requests,     \* upload and download requests in flight
  Ids,          \* task ids chosen by the page
  Slots,        \* permits of the `transfers` semaphore
  NoId,         \* the id of a request that has none
  MaxTickets,   \* downloads kept at once
  MaxRevision,  \* bound: access changes stop at this revision
  MaxFlags      \* bound: registry entries ever made

ASSUME SlotsAssumption == Slots \in Nat /\ MaxTickets \in Nat
ASSUME RequestsAssumption == IsFiniteSet(Requests)

VARIABLES
  seal,      \* access_lifecycle::seal: what clear_login_secrets clears next
  entry,     \* the registry; flag 0 where there is no entry
  flags,     \* flags made
  raised,    \* the flags that are set
  transfer,  \* the requests
  refusal,   \* history: slots in live use when a request was last refused, or -1
  stopped,   \* history: cancelled by the user before their last check
  sealed,    \* history: at work when access changed or the registry was cleared
  late,      \* history: past their last check when the registry was cleared
  outlived   \* history: at work longer than their registry entry

registry == <<entry, flags, raised>>
history == <<refusal, stopped, sealed, late, outlived>>
transferVars == <<seal, registry, transfer, history>>
vars == <<wbVars, transferVars>>

-----------------------------------------------------------------------------
Kinds == {"local", "remote", "download"}
Phases == {"idle", "slotted", "permitted", "running", "checked", "ticket", "streaming"}
Entry == [owner: Nat, started: BOOLEAN, flag: Nat, expired: BOOLEAN]
Transfer == [phase: Phases, kind: Kinds, owner: Nat, permit: Permit, id: Ids \cup {NoId},
             flag: Nat, expired: BOOLEAN]

NoEntry == [owner |-> 0, started |-> FALSE, flag |-> 0, expired |-> FALSE]
IdleTransfer == [phase |-> "idle", kind |-> "local", owner |-> 0, permit |-> PermitFor(0),
                 id |-> NoId, flag |-> 0, expired |-> FALSE]

TypeOK ==
  /\ seal \in {"none", "downloads", "tasks"}
  /\ entry \in [Ids -> Entry] /\ flags \in Nat /\ raised \subseteq 1..flags
  /\ transfer \in [Requests -> Transfer]
  /\ refusal \in {-1} \cup Nat
  /\ stopped \cup sealed \cup late \cup outlived \subseteq Requests
  /\ holder \in Nat /\ locked \in BOOLEAN /\ revision \in Nat /\ issued \in Nat

Init ==
  /\ WorkbenchInit
  /\ seal = "none"
  /\ entry = [i \in Ids |-> NoEntry] /\ flags = 0 /\ raised = {}
  /\ transfer = [t \in Requests |-> IdleTransfer]
  /\ refusal = -1 /\ stopped = {} /\ sealed = {} /\ late = {} /\ outlived = {}

-----------------------------------------------------------------------------
(* Helpers. *)

In(phases) == {t \in Requests : transfer[t].phase \in phases}
AtWork == In({"permitted", "running"})

\* Requests are served for an unlocked workbench.  The page that brings about
\* a change learns of it, and of its new identity, when the seal is complete.
Served == holder # 0 /\ ~locked /\ seal = "none"
Goto(t, phase) == transfer' = [transfer EXCEPT ![t].phase = phase]

\* downloads.retain: the expired tickets go, and their slots with them.
Retained == [t \in Requests |->
               IF transfer[t].phase = "ticket" /\ transfer[t].expired
               THEN IdleTransfer ELSE transfer[t]]
SlotHolders(tr) == {t \in Requests : tr[t].phase # "idle"}
Tickets(tr) == {t \in Requests : tr[t].phase = "ticket"}

\* Operation::check
Good(t) == PermitGood(transfer[t].permit) /\ transfer[t].flag \notin raised

\* Transfers::access purges, then makes an entry unless there is one.
Purged == [i \in Ids |-> IF entry[i].expired THEN NoEntry ELSE entry[i]]
EntryFor(i, owner) ==
  IF Purged[i].flag # 0 THEN Purged[i]
  ELSE [NoEntry EXCEPT !.owner = owner, !.flag = flags + 1]
NewFlags(i) == IF Purged[i].flag # 0 THEN flags ELSE flags + 1

\* Transfers::finish: the entry stays for a minute, as a tombstone.
Finished(i) == IF i \in Ids /\ entry[i].flag # 0
               THEN [entry EXCEPT ![i].expired = FALSE] ELSE entry
\* History ends with the requests it is about.
Forget(gone) ==
  /\ stopped' = stopped \ gone /\ sealed' = sealed \ gone
  /\ late' = late \ gone /\ outlived' = outlived \ gone

\* The handler returns: the operation is dropped, the slot is free.
Release(t) ==
  /\ transfer' = [transfer EXCEPT ![t] = IdleTransfer]
  /\ entry' = Finished(transfer[t].id)
  /\ Forget({t})
  /\ UNCHANGED <<flags, raised, refusal>>

-----------------------------------------------------------------------------
(* A request: slot, permit, registration. *)

\* upload and prepare_download: retain, then try_acquire_owned.  A download
\* counts the tickets as well.
Admit(t, kind, i) ==
  /\ transfer[t].phase = "idle" /\ Served
  /\ IF \/ Cardinality(SlotHolders(Retained)) >= Slots
        \/ kind = "download" /\ Cardinality(Tickets(Retained)) >= MaxTickets
     THEN /\ transfer' = Retained
          /\ refusal' = Cardinality(SlotHolders(Retained))
     ELSE /\ transfer' = [Retained EXCEPT ![t] =
                            [IdleTransfer EXCEPT !.phase = "slotted", !.kind = kind,
                                                 !.owner = holder, !.id = i]]
          /\ UNCHANGED refusal
  /\ Forget({u \in In({"ticket"}) : transfer[u].expired})
  /\ UNCHANGED <<wbVars, seal, registry>>

\* Operation::start takes the permit first ...
TakePermit(t) ==
  /\ transfer[t].phase = "slotted"
  /\ IF PermitGood(PermitFor(transfer[t].owner))
     THEN transfer' = [transfer EXCEPT ![t].phase = "permitted",
                                       ![t].permit = PermitFor(transfer[t].owner)]
     ELSE transfer' = [transfer EXCEPT ![t] = IdleTransfer]
  /\ UNCHANGED <<wbVars, seal, registry, history>>

\* Fault: the transfer watches a flag of its own, not its entry's.
RegisterApart(t) ==
  LET i == transfer[t].id
      e == EntryFor(i, transfer[t].owner)
  IN /\ transfer[t].phase = "permitted"
     /\ e.owner = transfer[t].owner /\ ~e.started /\ e.flag \notin raised
     /\ NewFlags(i) < MaxFlags
     /\ entry' = [Purged EXCEPT ![i] = [e EXCEPT !.started = TRUE]]
     /\ flags' = NewFlags(i) + 1
     /\ transfer' = [transfer EXCEPT ![t].phase = "running", ![t].flag = flags']
     /\ UNCHANGED <<wbVars, seal, raised, history>>

\* ... then Transfers::start: an id runs once, and not after its cancellation.
Register(t) ==
  LET i == transfer[t].id
      e == EntryFor(i, transfer[t].owner)
  IN /\ transfer[t].phase = "permitted"
     /\ NewFlags(i) <= MaxFlags
     /\ flags' = NewFlags(i)
     /\ IF e.owner = transfer[t].owner /\ ~e.started /\ e.flag \notin raised
        THEN /\ entry' = [Purged EXCEPT ![i] = [e EXCEPT !.started = TRUE]]
             /\ transfer' = [transfer EXCEPT ![t].phase = "running", ![t].flag = e.flag]
             /\ UNCHANGED history
        ELSE /\ entry' = [Purged EXCEPT ![i] = e]
             /\ transfer' = [transfer EXCEPT ![t] = IdleTransfer]
             /\ sealed' = sealed \ {t}
             /\ UNCHANGED <<refusal, stopped, late, outlived>>
     /\ UNCHANGED <<wbVars, seal, raised>>

-----------------------------------------------------------------------------
(* At work. *)

\* A check fails at a chunk or at the two-second tick; a chunk or the whole
\* transfer runs out of time; a read, a write or the remote fails.
Break(t) ==
  /\ transfer[t].phase = "running"
  /\ Release(t)
  /\ UNCHANGED <<wbVars, seal>>

\* Fault: the file is complete, so nothing is checked any more.
LastCheckSkipped(t) ==
  /\ transfer[t].phase = "running" /\ transfer[t].kind # "remote"
  /\ Goto(t, "checked")
  /\ UNCHANGED <<wbVars, seal, registry, history>>

\* The file is complete: authorize and Operation::check once more.
LastCheck(t) ==
  /\ transfer[t].phase = "running" /\ transfer[t].kind # "remote"
  /\ Good(t)
  /\ Goto(t, "checked")
  /\ UNCHANGED <<wbVars, seal, registry, history>>

\* TempPath::persist; or the remote reports its upload as completed.
PutInPlace(t) ==
  /\ \/ transfer[t].phase = "checked" /\ transfer[t].kind = "local"
     \/ transfer[t].phase = "running" /\ transfer[t].kind = "remote"
  /\ Release(t)
  /\ UNCHANGED <<wbVars, seal>>

\* The ticket is inserted, with the slot; the operation is dropped.
IssueTicket(t) ==
  /\ transfer[t].phase = "checked" /\ transfer[t].kind = "download"
  /\ transfer' = [transfer EXCEPT ![t].phase = "ticket", ![t].id = NoId]
  /\ entry' = Finished(transfer[t].id)
  /\ UNCHANGED <<wbVars, seal, flags, raised, history>>

\* transfers::download: the page that asked for it, once, within a minute.
Redeem(t) ==
  /\ transfer[t].phase = "ticket" /\ ~transfer[t].expired
  /\ holder = transfer[t].owner /\ Served
  /\ Goto(t, "streaming")
  /\ UNCHANGED <<wbVars, seal, registry, history>>

\* The body ends, breaks off, or its permit is refused: file and slot go.
EndStream(t) ==
  /\ transfer[t].phase = "streaming"
  /\ Release(t)
  /\ UNCHANGED <<wbVars, seal>>

-----------------------------------------------------------------------------
(* Cancellation, expiry, sealing. *)

\* Transfers::cancel, which leaves a raised entry when it finds none.
Cancel(i) ==
  LET e == EntryFor(i, holder)
  IN /\ Served
     /\ NewFlags(i) <= MaxFlags
     /\ flags' = NewFlags(i)
     /\ entry' = [Purged EXCEPT ![i] = e]
     /\ IF e.owner = holder
        THEN /\ raised' = raised \cup {e.flag}
             /\ stopped' = stopped \cup {t \in In({"running"}) :
                                 transfer[t].id = i /\ transfer[t].owner = holder}
        ELSE UNCHANGED <<raised, stopped>>
     /\ UNCHANGED <<wbVars, seal, transfer, refusal, sealed, late, outlived>>

\* 660 s since it was made, or 60 s since it was finished.
ExpireEntry(i) ==
  /\ entry[i].flag # 0 /\ ~entry[i].expired
  /\ entry' = [entry EXCEPT ![i].expired = TRUE]
  /\ outlived' = outlived \cup {t \in In({"running"}) : transfer[t].flag = entry[i].flag}
  /\ UNCHANGED <<wbVars, seal, flags, raised, transfer, refusal, stopped, sealed, late>>

ExpireTicket(t) ==
  /\ transfer[t].phase = "ticket" /\ ~transfer[t].expired
  /\ transfer' = [transfer EXCEPT ![t].expired = TRUE]
  /\ UNCHANGED <<wbVars, seal, registry, history>>

\* The changes of access are serialized by vault_gate, seal included.  A page
\* that moves an unlocked login, or attaches to it, does without the seal.
ChangeAccess ==
  /\ seal = "none" /\ revision < MaxRevision
  /\ Enter \/ Turn \/ Exit
  /\ seal' \in IF holder' = 0 \/ (locked' /\ ~locked) THEN {"downloads"}
               ELSE IF holder' # holder \/ locked' THEN {"none", "downloads"}
               ELSE {"none"}
  /\ sealed' = sealed \cup AtWork
  /\ UNCHANGED <<registry, transfer, refusal, stopped, late, outlived>>

LoginRunsOut ==
  /\ holder # 0
  /\ RunOut
  /\ UNCHANGED transferVars

\* ServerState::clear_login_secrets: downloads.clear ...
ClearDownloads ==
  /\ seal = "downloads"
  /\ seal' = "tasks"
  /\ transfer' = [t \in Requests |->
                    IF transfer[t].phase = "ticket" THEN IdleTransfer ELSE transfer[t]]
  /\ Forget(In({"ticket"}))
  /\ UNCHANGED <<wbVars, registry, refusal>>

\* ... then transfer_tasks.clear: every flag is raised, every entry removed.
ClearTasks ==
  /\ seal = "tasks"
  /\ seal' = "none"
  /\ raised' = raised \cup ({entry[i].flag : i \in Ids} \ {0})
  /\ entry' = [i \in Ids |-> NoEntry]
  /\ sealed' = sealed \cup AtWork
  /\ late' = late \cup In({"checked", "ticket"})
  /\ UNCHANGED <<wbVars, flags, transfer, refusal, stopped, outlived>>

Next ==
  \/ \E t \in Requests :
       \/ \E kind \in Kinds, i \in Ids : Admit(t, kind, i)
       \/ TakePermit(t) \/ Register(t) \/ Break(t) \/ LastCheck(t) \/ PutInPlace(t)
       \/ IssueTicket(t) \/ Redeem(t) \/ EndStream(t) \/ ExpireTicket(t)
  \/ \E i \in Ids : Cancel(i) \/ ExpireEntry(i)
  \/ ChangeAccess \/ LoginRunsOut \/ ClearDownloads \/ ClearTasks

Spec == Init /\ [][Next]_vars

-----------------------------------------------------------------------------
(* Work that was stopped has no effect: a request told to stop before its  *)
(* last check - by a takeover, a logout, a lock, or by the user while the  *)
(* registry still had its entry - neither puts its file in place nor       *)
(* leaves a ticket.  (A remote upload ends when the remote says so.)       *)
NoEffectAfterStop ==
  \A t \in In({"checked", "ticket", "streaming"}) :
    t \notin sealed /\ (t \in stopped => t \in outlived)

(* A request is refused only while every slot is in use: by a request at   *)
(* work, by a ticket that can still be redeemed, or by a body being sent.  *)
(* Tickets nobody redeems give their slots back, though nothing watches    *)
(* them, and the limit on tickets never refuses what the slots allow.      *)
RefusedOnlyWhenBusy == refusal \in {-1, Slots}

(* transfer_lifecycle.rs, active_transfer_observes_cancellation_and_       *)
(* cannot_replay: a transfer whose cancellation was accepted observes it.  *)
CancelReaches == \A t \in In({"running"}) : t \in stopped => transfer[t].flag \in raised

(* docs/server-runtime.md:96 and :211: a takeover clears the tickets, and  *)
(* a lock makes those not redeemed invalid.                                *)
NoTicketAcrossSeal == \A t \in In({"ticket"}) : t \notin late
=============================================================================
