--------------------------- MODULE VaultLifecycle ---------------------------
(***************************************************************************)
(* The unlocked session of the credential vault on the server: when it     *)
(* begins, its auto-lock deadline, and the status pages are told.          *)
(*                                                                         *)
(* Three parties meet here.  A request handler holds the vault gate from   *)
(* its first check to its last statement (vault.rs, settings.rs).  The key *)
(* derivation runs on a blocking thread and outlives a handler whose page  *)
(* hangs up.  A timer per scheduled deadline locks the vault if the        *)
(* session generation is still the one it was set for.  ObservedVault's    *)
(* `mutation` mutex serializes the vault changes of all three and          *)
(* publishes after each (vault_events.rs), but `reschedule` does not take  *)
(* it, and CredentialLifecycle releases its session mutex between the      *)
(* generation check and the lock (credential_lifecycle.rs).                *)
(*                                                                         *)
(* Durations are left out: a timer may fire at any time after it was set,  *)
(* and a new deadline may or may not have passed already.                  *)
(***************************************************************************)
EXTENDS Naturals

CONSTANT MaxGeneration  \* bound: handlers start below this generation

ASSUME GenerationAssumption == MaxGeneration \in Nat

VARIABLES
  vault,       \* the stored vault and its runtime key: status()
  session,     \* CredentialLifecycle.session: generation, unlocked_at is Some
  autoLock,    \* the security settings configure a deadline
  published,   \* what the status watch holds: status and revision
  handler,     \* the handler that holds the gate, "idle" when it is free
  derivations, \* key derivations handed to the blocking pool, not yet running
  change,      \* the vault change that holds the mutation mutex
  schedule,    \* the generation the verified handler has yet to schedule, or 0
  timers,      \* generations whose deadline is pending
  unattended   \* history: the session began and its handler was dropped

vaultVars == <<vault, session, autoLock, published, handler, derivations, change,
               schedule, timers, unattended>>
gated == <<handler, derivations, schedule>>

Statuses == {"absent", "locked", "unlocked"}
Actors == {"handler", "orphan", "timer"}
NoChange == [op |-> "none", by |-> "handler", generation |-> 0]

VaultTypeOK ==
  /\ vault \in Statuses
  /\ session \in [open : BOOLEAN, generation : Nat]
  /\ autoLock \in BOOLEAN
  /\ published \in [status : Statuses, revision : Nat]
  /\ handler \in {"idle", "deriving", "verified", "locking"}
  /\ derivations \in SUBSET {"handler", "orphan"}
  /\ change \in [op : {"none", "opened", "locking", "closed"}, by : Actors,
                 generation : Nat]
  /\ schedule \in Nat
  /\ timers \in SUBSET Nat
  /\ unattended \in BOOLEAN

VaultInit ==
  /\ vault \in {"absent", "locked"}
  /\ session = [open |-> FALSE, generation |-> 0]
  /\ autoLock \in BOOLEAN
  /\ published = [status |-> vault, revision |-> 1]
  /\ handler = "idle"
  /\ derivations = {}
  /\ change = NoChange
  /\ schedule = 0
  /\ timers = {}
  /\ unattended = FALSE

-----------------------------------------------------------------------------
(* ObservedVault *)

Unchanging == change.op = "none"
Derives(actor) == actor \in derivations \/ (change.op = "opened" /\ change.by = actor)

\* Fault: a timeout does not publish.
PublishManual ==
  published' = IF published.status = vault' \/ change.by = "timer" THEN published
               ELSE [status |-> vault', revision |-> published.revision + 1]

\* publish: a new revision for a status that differs from the last one.
Publish ==
  published' = IF published.status = vault' THEN published
               ELSE [status |-> vault', revision |-> published.revision + 1]

\* Fault: closing a session gives its generation back.
SessionReturned(open) ==
  session' = [open |-> open,
              generation |-> IF open THEN session.generation + 1
                             ELSE session.generation - 1]

\* Every operation that opens or closes the session starts a new generation.
Session(open) == session' = [open |-> open, generation |-> session.generation + 1]

-----------------------------------------------------------------------------
(* Handlers: unlock, initialize, change and reset begin a session.         *)

Start ==
  /\ handler = "idle"
  /\ session.generation < MaxGeneration

Request ==
  /\ Start
  /\ handler' = "deriving"
  /\ derivations' = derivations \cup {"handler"}
  /\ UNCHANGED <<vault, session, autoLock, published, change, schedule, timers,
                 unattended>>

\* The vault accepts the password and keeps the key, or the operation fails.
Derive(actor) ==
  /\ actor \in derivations
  /\ Unchanging
  /\ derivations' = derivations \ {actor}
  /\ \/ /\ vault' = "unlocked"
        /\ change' = [op |-> "opened", by |-> actor, generation |-> 0]
        /\ UNCHANGED handler
     \/ /\ handler' = IF actor = "handler" THEN "idle" ELSE handler
        /\ UNCHANGED <<vault, change>>
  /\ UNCHANGED <<session, autoLock, published, schedule, timers, unattended>>

\* begin_session, then publish; the result goes to the handler, if it waits.
BeginSession ==
  /\ change.op = "opened"
  /\ Session(TRUE)
  /\ UNCHANGED vault
  /\ Publish
  /\ change' = NoChange
  /\ IF change.by = "handler"
     THEN /\ handler' = "verified"
          /\ schedule' = IF autoLock THEN session'.generation ELSE 0
          /\ unattended' = FALSE
     ELSE /\ UNCHANGED <<handler, schedule>>
          /\ unattended' = TRUE
  /\ UNCHANGED <<autoLock, derivations, timers>>

\* schedule_lock; or the login expired meanwhile and the vault is locked again.
Schedule ==
  /\ handler = "verified"
  /\ schedule' = 0
  /\ \/ /\ handler' = "idle"
        /\ timers' = IF schedule = 0 THEN timers ELSE timers \cup {schedule}
     \/ /\ handler' = "locking"
        /\ UNCHANGED timers
  /\ UNCHANGED <<vault, session, autoLock, published, derivations, change,
                 unattended>>

\* The page hangs up and the handler is dropped: its derivation goes on, its
\* deadline is never scheduled.  Bound: one orphan at a time.
Hangup ==
  /\ \/ /\ handler = "deriving"
        /\ ~Derives("orphan")
        /\ IF "handler" \in derivations
           THEN /\ derivations' = (derivations \ {"handler"}) \cup {"orphan"}
                /\ UNCHANGED change
           ELSE /\ change' = [change EXCEPT !.by = "orphan"]
                /\ UNCHANGED derivations
        /\ UNCHANGED unattended
     \/ /\ handler = "verified"
        /\ unattended' = TRUE
        /\ UNCHANGED <<derivations, change>>
  /\ handler' = "idle"
  /\ schedule' = 0
  /\ UNCHANGED <<vault, session, autoLock, published, timers>>

\* vault::lock, and the seal of every admission, logout and disconnect.
Lock ==
  /\ Start
  /\ handler' = "locking"
  /\ UNCHANGED <<vault, session, autoLock, published, derivations, change,
                 schedule, timers, unattended>>

\* Fault: clearing the vault leaves its session open.
ClearVaultOnly ==
  /\ Start
  /\ Unchanging
  /\ vault' = "absent"
  /\ Publish
  /\ UNCHANGED <<session, autoLock, change, timers, unattended, gated>>

\* CredentialLifecycle::clear.
Clear ==
  /\ Start
  /\ Unchanging
  /\ vault' = "absent"
  /\ Session(FALSE)
  /\ Publish
  /\ UNCHANGED <<autoLock, change, timers, unattended, gated>>

\* Fault: a new setting moves the generation and sets no new deadline.
SecurityForgetful(configured) ==
  /\ Start
  /\ autoLock' = configured
  /\ session' = [session EXCEPT !.generation = @ + 1]
  /\ UNCHANGED <<vault, published, handler, derivations, change, schedule, timers,
                 unattended>>

\* settings::security: save, then reschedule from the unlock time.  A deadline
\* already past locks now.
Security(configured) ==
  /\ Start
  /\ autoLock' = configured
  /\ session' = [session EXCEPT !.generation = @ + 1]
  /\ IF session.open /\ configured
     THEN \/ handler' = "locking" /\ UNCHANGED <<timers, unattended>>
          \/ /\ timers' = timers \cup {session'.generation}
             /\ unattended' = FALSE
             /\ UNCHANGED handler
     ELSE UNCHANGED <<handler, timers, unattended>>
  /\ UNCHANGED <<vault, published, derivations, change, schedule>>

-----------------------------------------------------------------------------
(* Locking: by the handler, or by a deadline of the same generation.       *)

LockVault ==
  /\ handler = "locking"
  /\ Unchanging
  /\ change' = [op |-> "locking", by |-> "handler", generation |-> session.generation]
  /\ UNCHANGED <<vault, session, autoLock, published, timers, unattended, gated>>

\* Fault: the deadline expects the generation after its own.
LockIfNext(g) ==
  /\ g \in timers
  /\ Unchanging
  /\ timers' = timers \ {g}
  /\ IF session.generation = g + 1
     THEN change' = [op |-> "locking", by |-> "timer", generation |-> g]
     ELSE UNCHANGED change
  /\ UNCHANGED <<vault, session, autoLock, published, unattended, gated>>

\* lock_if_generation reads the generation under the session mutex ...
LockIfGeneration(g) ==
  /\ g \in timers
  /\ Unchanging
  /\ timers' = timers \ {g}
  /\ IF session.generation = g
     THEN change' = [op |-> "locking", by |-> "timer", generation |-> g]
     ELSE UNCHANGED change
  /\ UNCHANGED <<vault, session, autoLock, published, unattended, gated>>

\* ... and then locks: first the key is dropped, then the session closed.
DropKey ==
  /\ change.op = "locking"
  /\ vault' = IF vault = "unlocked" THEN "locked" ELSE vault
  /\ change' = [change EXCEPT !.op = "closed"]
  /\ UNCHANGED <<session, autoLock, published, timers, unattended, gated>>

CloseSession ==
  /\ change.op = "closed"
  /\ Session(FALSE)
  /\ UNCHANGED vault
  /\ Publish
  /\ change' = NoChange
  /\ handler' = IF change.by = "handler" THEN "idle" ELSE handler
  /\ unattended' = FALSE
  /\ UNCHANGED <<autoLock, derivations, schedule, timers>>

-----------------------------------------------------------------------------

VaultNext ==
  \/ Request
  \/ \E actor \in {"handler", "orphan"} : Derive(actor)
  \/ BeginSession \/ Schedule \/ Hangup
  \/ Lock \/ Clear \/ \E configured \in BOOLEAN : Security(configured)
  \/ LockVault \/ \E g \in timers : LockIfGeneration(g)
  \/ DropKey \/ CloseSession

VaultSpec == VaultInit /\ [][VaultNext]_vaultVars

\* A change under way completes, a blocking call returns, a handler that holds
\* the gate goes on, and a deadline that is due fires (the mutex is fair).
VaultFairness ==
  /\ WF_vaultVars(BeginSession) /\ WF_vaultVars(Schedule)
  /\ WF_vaultVars(DropKey) /\ WF_vaultVars(CloseSession) /\ SF_vaultVars(LockVault)
  /\ \A g \in 1..MaxGeneration : SF_vaultVars(LockIfGeneration(g))
FairVaultSpec == VaultSpec /\ VaultFairness

-----------------------------------------------------------------------------
(* Properties. *)

\* Between changes, pages have been told the status the vault has: no
\* transition is lost, whoever made it.
PublishedCatchesUp == Unchanging => published.status = vault

\* Between changes, the session is open exactly while the key is held, so a
\* new setting always finds the deadline to move.
SessionFollowsKey == Unchanging => (session.open <=> vault = "unlocked")

\* An unlocked vault with a configured deadline has a pending deadline of its
\* own generation, whatever stale ones remain, unless the handler that
\* unlocked it was dropped before it could set one.
DeadlineArmed ==
  vault = "unlocked" /\ session.open /\ autoLock /\ Unchanging /\ handler = "idle"
    => session.generation \in timers \/ unattended

\* credential_lifecycle.rs:342 (disabling_timeout_cancels_by_advancing_generation):
\* a deadline locks only the generation it was set for.
DeadlineIsCurrent ==
  change.op = "locking" /\ change.by = "timer"
    => session.generation = change.generation

\* A deadline once set takes effect: the vault is locked, or the settings
\* disabled or moved it, or a new session replaced it.
DeadlineLocks ==
  \A g \in 1..MaxGeneration :
    (vault = "unlocked" /\ session.generation = g /\ g \in timers)
      ~> (vault # "unlocked" \/ session.generation # g)
=============================================================================
