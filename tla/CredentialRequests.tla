-------------------------- MODULE CredentialRequests --------------------------
(***************************************************************************)
(* The requests that change the vault file: its first password and its     *)
(* recovery keys, the drafts of private keys and the credentials           *)
(* (qterm-server vault.rs, credential_management.rs; src-tauri             *)
(* commands/credential; application/credential_workflow.rs).  The server   *)
(* runs them under the vault gate and works on a blocking thread, which    *)
(* goes on when the page hangs up.  The desktop runs the ones that open a  *)
(* dialog at the same time and all others on its main thread.              *)
(* Access, VaultLifecycle and ConfigurationFiles have the login, the timer *)
(* and the references to credentials.                                      *)
(***************************************************************************)
EXTENDS Naturals, Sequences, FiniteSets

CONSTANTS
  Calls,        \* requests under way
  NoVault,      \* no vault, nothing pending, no draft
  MaxKeys,      \* bound: recovery keys and drafts ever made
  MaxItems,     \* MAX_ITEMS
  MaxLogins     \* bound: logins

ASSUME CallsAssumption == {MaxKeys, MaxItems, MaxLogins} \subseteq Nat /\ MaxKeys > 0

VARIABLES
  shell,      \* "server" or "desktop"
  vault,      \* the vault file, or NoVault
  unlocked,   \* its data key is in memory
  recoveries, \* the recovery keys made so far: which vault and generation each is for
  saved,      \* the recovery keys in files of the user
  pending,    \* the recovery key that was prepared (pending_recovery, recovery_reset)
  draft,      \* the private key that was prepared, or NoVault
  stored,     \* how often each draft was stored; 2 is more than once
  call,       \* requests
  login,      \* logins so far
  unsure      \* history: drafts whose page hung up while they were stored

custody == <<recoveries, saved>>
drafting == <<draft, stored, unsure>>
credVars == <<shell, vault, unlocked, custody, pending, drafting, call, login>>

-----------------------------------------------------------------------------
Recoveries == 1..MaxKeys
KeyDrafts == 1..MaxKeys
Room == Len(recoveries) + Len(stored) < MaxKeys
VaultFile == [id: Recoveries, generation: Recoveries, recovery: Recoveries, items: 0..(MaxItems + 1)]
\* current: the key a reset was prepared with, 0 for a new vault.
PendingKey == [file: Recoveries, current: 0..MaxKeys, downloaded: BOOLEAN, owner: 0..MaxLogins]
NoCall == [op |-> "none", step |-> "idle", file |-> 0, current |-> 0, key |-> 0, owner |-> 0]
Call == [op: {"none", "initialize", "prepareReset", "reset", "generate", "store", "commit"},
         step: {"idle", "working", "landed", "orphan", "dialog", "verified", "taken", "written"},
         file: 0..MaxKeys, current: 0..MaxKeys, key: 0..MaxKeys,
         owner: 0..MaxLogins]

CredTypeOK ==
  /\ shell \in {"server", "desktop"} /\ vault \in VaultFile \cup {NoVault} /\ unlocked \in BOOLEAN
  /\ recoveries \in Seq([vault: Recoveries, generation: Recoveries])
  /\ saved \subseteq Recoveries /\ pending \in PendingKey \cup {NoVault}
  /\ draft \in KeyDrafts \cup {NoVault} /\ stored \in Seq(0..2) /\ unsure \subseteq KeyDrafts
  /\ call \in [Calls -> Call] /\ login \in 0..MaxLogins

CredInit ==
  /\ shell \in {"server", "desktop"}
  /\ \/ vault = NoVault /\ recoveries = <<>> /\ saved = {}
     \/ /\ vault = [id |-> 1, generation |-> 1, recovery |-> 1, items |-> 0]
        /\ recoveries = <<[vault |-> 1, generation |-> 1]>> /\ saved = {1}
  /\ unlocked = FALSE /\ pending = NoVault
  /\ draft = NoVault /\ stored = <<>> /\ unsure = {}
  /\ call = [c \in Calls |-> NoCall] /\ login = 0

-----------------------------------------------------------------------------
(* The vault file.  Each access holds configuration_gate. *)

\* validate_document
Readable == vault # NoVault /\ vault.items <= MaxItems

\* prepare_initial_recovery: a key for a vault with an identity of its own.
MakeInitial == recoveries' = Append(recoveries, [vault |-> Len(recoveries) + 1, generation |-> 1])
Newest == Len(recoveries) + 1

\* initialize: only where no vault is.
Initializes(k) ==
  /\ vault = NoVault
  /\ vault' = [id |-> recoveries[k].vault, generation |-> 1, recovery |-> k, items |-> 0]
  /\ unlocked' = TRUE

\* verify_recovery_file, decrypt_recovery_data_key
Verifies(k) ==
  /\ Readable
  /\ recoveries[k] = [vault |-> vault.id, generation |-> vault.generation]
  /\ vault.recovery = k
\* prepare_recovery_reset: the key of the next generation.
MakeNext == recoveries' = Append(recoveries, [vault |-> vault.id, generation |-> vault.generation + 1])
\* reset_master_password: both keys are checked again.
ResetsPassword(current, k) ==
  /\ Verifies(current)
  /\ recoveries[k] = [vault |-> vault.id, generation |-> vault.generation + 1]
  /\ vault' = [vault EXCEPT !.generation = @ + 1, !.recovery = k]
  /\ unlocked' = TRUE

\* save_material: what is stored is not counted; the next to read it does.
StoresItem == Readable /\ unlocked /\ vault' = [vault EXCEPT !.items = @ + 1]

StoredAgain(d) == stored' = [stored EXCEPT ![d] = IF @ = 0 THEN 1 ELSE 2]

-----------------------------------------------------------------------------
(* The vault gate of the server; the dialogs of the desktop. *)

OnServer == shell = "server" /\ \A c \in Calls : call[c].step \notin {"working", "landed"}
OnDesktop == shell = "desktop"
CallAt(c, op, step) == call[c].op = op /\ call[c].step = step
Moves(c, step) == call' = [call EXCEPT ![c].step = step]
EndCall(c) == call' = [call EXCEPT ![c] = NoCall]

\* The blocking half of a request, with or without the handler that waits for it.
Works(c, op) == call[c].op = op /\ call[c].step \in {"working", "orphan"}
BeginCall(c, op, k, current, d) ==
  /\ call[c].step = "idle"
  /\ call' = [call EXCEPT ![c] = [op |-> op, step |-> IF OnDesktop THEN "dialog" ELSE "working",
                                  file |-> k, current |-> current, key |-> d, owner |-> login]]

\* The page hangs up: the handler is dropped and with it the gate.
CallHangsUp(c) ==
  /\ call[c].step \in {"working", "landed"}
  /\ IF call[c].step = "working" THEN Moves(c, "orphan") ELSE EndCall(c)
  /\ unsure' = IF call[c].op = "commit" THEN unsure \cup {call[c].key} ELSE unsure
  /\ UNCHANGED <<shell, vault, unlocked, custody, pending, draft, stored, login>>

-----------------------------------------------------------------------------
(* A new vault, on the server. *)

\* prepare_recovery
PrepareRecovery ==
  /\ OnServer /\ vault = NoVault /\ Room
  /\ MakeInitial
  /\ pending' = [file |-> Newest, current |-> 0, downloaded |-> FALSE, owner |-> login]
  /\ UNCHANGED <<shell, vault, unlocked, saved, drafting, call, login>>

\* download_recovery, which takes no gate; the answer may not arrive.
DownloadRecovery ==
  /\ shell = "server" /\ pending # NoVault /\ pending.owner = login
  /\ pending' = [pending EXCEPT !.downloaded = TRUE]
  /\ saved' \in {saved, saved \cup {pending.file}}
  /\ UNCHANGED <<shell, vault, unlocked, recoveries, drafting, call, login>>

Claimable(new) == /\ pending # NoVault /\ pending.owner = login
                  /\ pending.downloaded /\ (pending.current = 0) = new
\* Fault: the confirmation is not compared with what is pending.
ConfirmedAny(new) == Claimable(new) /\ saved # {}
\* The user confirms to have saved a key, and it is the one that is pending.
Confirmed(new) == Claimable(new) /\ pending.file \in saved

\* initialize of vault.rs: the key is taken,
BeginInitialize(c) ==
  /\ OnServer /\ Confirmed(TRUE)
  /\ pending' = NoVault
  /\ BeginCall(c, "initialize", pending.file, 0, 0)
  /\ UNCHANGED <<shell, vault, unlocked, custody, drafting, login>>

\* ... the vault is made with it, unless the password is weak or a vault there,
LandInitialize(c) ==
  /\ Works(c, "initialize")
  /\ \/ /\ Initializes(call[c].file)
        /\ IF call[c].step = "orphan" THEN EndCall(c) ELSE Moves(c, "landed")
     \/ UNCHANGED <<vault, unlocked>> /\ EndCall(c)
  /\ UNCHANGED <<shell, custody, pending, drafting, login>>

\* ... and locked when the login has ended meanwhile.
ReturnInitialize(c) ==
  /\ CallAt(c, "initialize", "landed")
  /\ unlocked' = (unlocked /\ call[c].owner = login)
  /\ EndCall(c)
  /\ UNCHANGED <<shell, vault, custody, pending, drafting, login>>

-----------------------------------------------------------------------------
(* A lost password, on the server. *)

\* prepare_reset: the user sends a key; it is verified and the next one made.
BeginPrepareReset(c) ==
  /\ OnServer
  /\ \E k \in saved : BeginCall(c, "prepareReset", 0, k, 0)
  /\ UNCHANGED <<shell, vault, unlocked, custody, pending, drafting, login>>

ReturnPrepareReset(c) ==
  /\ CallAt(c, "prepareReset", "working")
  /\ \/ /\ Verifies(call[c].current) /\ Room
        /\ MakeNext
        /\ pending' = [file |-> Newest, current |-> call[c].current,
                       downloaded |-> FALSE, owner |-> call[c].owner]
     \/ UNCHANGED <<recoveries, pending>>
  /\ EndCall(c)
  /\ UNCHANGED <<shell, vault, unlocked, saved, drafting, login>>

\* reset: as initialize, with the key of the vault and the next one.
BeginReset(c) ==
  /\ OnServer /\ Confirmed(FALSE)
  /\ pending' = NoVault
  /\ BeginCall(c, "reset", pending.file, pending.current, 0)
  /\ UNCHANGED <<shell, vault, unlocked, custody, drafting, login>>

LandReset(c) ==
  /\ Works(c, "reset")
  /\ ResetsPassword(call[c].current, call[c].file) \/ UNCHANGED <<vault, unlocked>>
  /\ EndCall(c)
  /\ UNCHANGED <<shell, custody, pending, drafting, login>>

CancelReset ==
  /\ OnServer
  /\ pending' = NoVault
  /\ UNCHANGED <<shell, vault, unlocked, custody, drafting, call, login>>

-----------------------------------------------------------------------------
(* The same on the desktop, where a key is saved as a file first. *)

\* credential_vault_initialize: the user is asked where; then a key is made,
AskInitialize(c) ==
  /\ OnDesktop
  /\ BeginCall(c, "initialize", 0, 0, 0)
  /\ UNCHANGED <<shell, vault, unlocked, custody, pending, drafting, login>>

MakeRecovery(c) ==
  /\ CallAt(c, "initialize", "dialog")
  /\ \/ /\ Room
        /\ MakeInitial
        /\ call' = [call EXCEPT ![c].step = "taken", ![c].file = Newest]
     \/ UNCHANGED recoveries /\ EndCall(c)
  /\ UNCHANGED <<shell, vault, unlocked, saved, pending, drafting, login>>

\* ... write_recovery_file, a new file or none,
WriteInitial(c) ==
  /\ CallAt(c, "initialize", "taken")
  /\ \/ saved' = saved \cup {call[c].file} /\ Moves(c, "written")
     \/ UNCHANGED saved /\ EndCall(c)
  /\ UNCHANGED <<shell, vault, unlocked, recoveries, pending, drafting, login>>

\* ... and the vault; the file goes when that fails.
CommitInitialize(c) ==
  /\ CallAt(c, "initialize", "written")
  /\ \/ Initializes(call[c].file) /\ UNCHANGED saved
     \/ saved' = saved \ {call[c].file} /\ UNCHANGED <<vault, unlocked>>
  /\ EndCall(c)
  /\ UNCHANGED <<shell, recoveries, pending, drafting, login>>

\* credential_vault_prepare_master_password_reset: what was pending is
\* forgotten; a file is picked,
AskCurrent(c) ==
  /\ OnDesktop
  /\ pending' = NoVault
  /\ \E k \in saved : BeginCall(c, "prepareReset", 0, k, 0)
  /\ UNCHANGED <<shell, vault, unlocked, custody, drafting, login>>

\* ... verified,
VerifyCurrent(c) ==
  /\ CallAt(c, "prepareReset", "dialog")
  /\ \/ /\ Verifies(call[c].current) /\ Room
        /\ MakeNext
        /\ call' = [call EXCEPT ![c].step = "verified", ![c].file = Newest]
     \/ UNCHANGED recoveries /\ EndCall(c)
  /\ UNCHANGED <<shell, vault, unlocked, saved, pending, drafting, login>>

\* ... and remembered.
RememberReset(c) ==
  /\ CallAt(c, "prepareReset", "verified")
  /\ pending' = [file |-> call[c].file, current |-> call[c].current,
                 downloaded |-> FALSE, owner |-> login]
  /\ EndCall(c)
  /\ UNCHANGED <<shell, vault, unlocked, custody, drafting, login>>

\* credential_vault_cancel_master_password_reset
CancelPrepared ==
  /\ OnDesktop
  /\ pending' = NoVault
  /\ UNCHANGED <<shell, vault, unlocked, custody, drafting, call, login>>

\* credential_vault_reset_master_password: where to save, what is pending,
AskReset(c) ==
  /\ OnDesktop
  /\ BeginCall(c, "reset", 0, 0, 0)
  /\ UNCHANGED <<shell, vault, unlocked, custody, pending, drafting, login>>

TakePending(c) ==
  /\ CallAt(c, "reset", "dialog")
  /\ \/ /\ pending # NoVault
        /\ call' = [call EXCEPT ![c].step = "taken", ![c].file = pending.file,
                                ![c].current = pending.current]
        /\ pending' = NoVault
     \/ EndCall(c) /\ UNCHANGED pending
  /\ UNCHANGED <<shell, vault, unlocked, custody, drafting, login>>

\* ... the new file; what was pending is remembered again when that fails,
WriteReplacement(c) ==
  /\ CallAt(c, "reset", "taken")
  /\ \/ /\ saved' = saved \cup {call[c].file}
        /\ Moves(c, "written") /\ UNCHANGED pending
     \/ /\ pending' = [file |-> call[c].file, current |-> call[c].current,
                       downloaded |-> FALSE, owner |-> login]
        /\ EndCall(c) /\ UNCHANGED saved
  /\ UNCHANGED <<shell, vault, unlocked, recoveries, drafting, login>>

\* ... and the vault; the new file goes when that fails.
CommitReset(c) ==
  /\ CallAt(c, "reset", "written")
  /\ \/ ResetsPassword(call[c].current, call[c].file) /\ UNCHANGED saved
     \/ saved' = saved \ {call[c].file} /\ UNCHANGED <<vault, unlocked>>
  /\ EndCall(c)
  /\ UNCHANGED <<shell, recoveries, pending, drafting, login>>

-----------------------------------------------------------------------------
(* Locking, unlocking, clearing. *)

\* A request of the server that does not wait, a command of the main thread.
Served == OnServer \/ OnDesktop

UnlockVault ==
  /\ Served /\ Readable
  /\ unlocked' = TRUE
  /\ UNCHANGED <<shell, vault, custody, pending, drafting, call, login>>

\* lock; the desktop keeps its draft.
LockVault ==
  /\ Served
  /\ unlocked' = FALSE
  /\ draft' = IF OnDesktop THEN draft ELSE NoVault
  /\ UNCHANGED <<shell, vault, custody, pending, stored, unsure, call, login>>

\* lock_if_generation: the time is over.
LockLate ==
  /\ unlocked /\ unlocked' = FALSE
  /\ UNCHANGED <<shell, vault, custody, pending, drafting, call, login>>

\* clear; the desktop keeps its draft and what is pending.
ClearVaultFile ==
  /\ Served
  /\ vault' = NoVault /\ unlocked' = FALSE
  /\ draft' = IF OnDesktop THEN draft ELSE NoVault
  /\ pending' = IF OnDesktop THEN pending ELSE NoVault
  /\ UNCHANGED <<shell, custody, stored, unsure, call, login>>

\* Another login, a logout, the lock of the terminal: clear_login_secrets and
\* the lock of the vault, under the gate.
SealVault ==
  /\ OnServer
  /\ login' \in {login, login + 1} \cap 0..MaxLogins
  /\ unlocked' = FALSE /\ pending' = NoVault /\ draft' = NoVault
  /\ UNCHANGED <<shell, vault, custody, stored, unsure, call>>

\* A login expires.
LoginExpires ==
  /\ shell = "server" /\ login < MaxLogins
  /\ login' = login + 1
  /\ UNCHANGED <<shell, vault, unlocked, custody, pending, drafting, call>>

\* The process stops and starts again.
RestartShell ==
  /\ unlocked' = FALSE /\ pending' = NoVault /\ draft' = NoVault
  /\ call' = [c \in Calls |-> NoCall]
  /\ unsure' = unsure \cup ({call[c].key : c \in Calls} \ {0})
  /\ UNCHANGED <<shell, vault, custody, stored, login>>

-----------------------------------------------------------------------------
(* Drafts of private keys, and credentials. *)

\* remember_private_key: one draft at a time.
Remember ==
  /\ Room
  /\ stored' = Append(stored, 0)
  /\ draft' = Len(stored) + 1

\* import; prepare_private_key_path, prepare_generated_private_key
PrepareKey ==
  /\ Served /\ (shell = "server" => Readable /\ unlocked)
  /\ Remember
  /\ UNCHANGED <<shell, vault, unlocked, custody, pending, unsure, call, login>>

\* generate, which makes the key on a blocking thread
BeginGenerate(c) ==
  /\ OnServer /\ Readable /\ unlocked
  /\ BeginCall(c, "generate", 0, 0, 0)
  /\ UNCHANGED <<shell, vault, unlocked, custody, pending, drafting, login>>

ReturnGenerate(c) ==
  /\ CallAt(c, "generate", "working")
  /\ Remember
  /\ EndCall(c)
  /\ UNCHANGED <<shell, vault, unlocked, custody, pending, unsure, login>>

\* generate of vault.rs stores the key it makes at once.
BeginStore(c) ==
  /\ OnServer
  /\ BeginCall(c, "store", 0, 0, 0)
  /\ UNCHANGED <<shell, vault, unlocked, custody, pending, drafting, login>>

LandStore(c) ==
  /\ Works(c, "store")
  /\ StoresItem \/ UNCHANGED vault
  /\ EndCall(c)
  /\ UNCHANGED <<shell, unlocked, custody, pending, drafting, login>>

\* commit: the draft is read,
BeginCommit(c) ==
  /\ OnServer /\ draft # NoVault
  /\ BeginCall(c, "commit", 0, 0, draft)
  /\ UNCHANGED <<shell, vault, unlocked, custody, pending, drafting, login>>

\* ... stored, if the vault is unlocked and the key can be read,
LandCommit(c) ==
  /\ Works(c, "commit")
  /\ \/ /\ StoresItem
        /\ StoredAgain(call[c].key)
        /\ IF call[c].step = "orphan" THEN EndCall(c) ELSE Moves(c, "landed")
     \/ UNCHANGED <<vault, stored>> /\ EndCall(c)
  /\ UNCHANGED <<shell, unlocked, custody, pending, draft, unsure, login>>

\* Fault: what was stored stays a draft.
ReturnCommitKeeping(c) ==
  /\ CallAt(c, "commit", "landed")
  /\ EndCall(c)
  /\ UNCHANGED <<shell, vault, unlocked, custody, pending, drafting, login>>

\* ... and forgotten, if it is still the draft.
ReturnCommit(c) ==
  /\ CallAt(c, "commit", "landed")
  /\ draft' = IF draft = call[c].key THEN NoVault ELSE draft
  /\ EndCall(c)
  /\ UNCHANGED <<shell, vault, unlocked, custody, pending, stored, unsure, login>>

\* commit_private_key of the desktop, on the main thread
CommitAtOnce ==
  /\ OnDesktop /\ draft # NoVault /\ StoresItem
  /\ StoredAgain(draft)
  /\ draft' = NoVault
  /\ UNCHANGED <<shell, unlocked, custody, pending, unsure, call, login>>

CancelDraft ==
  /\ Served
  /\ draft' = NoVault
  /\ UNCHANGED <<shell, vault, unlocked, custody, pending, stored, unsure, call, login>>

\* create_password
CreateCredential ==
  /\ Served /\ StoresItem
  /\ UNCHANGED <<shell, unlocked, custody, pending, drafting, call, login>>

\* delete; ConfigurationFiles has the references.
DeleteCredential ==
  /\ Served /\ Readable /\ unlocked /\ vault.items > 0
  /\ vault' = [vault EXCEPT !.items = @ - 1]
  /\ UNCHANGED <<shell, unlocked, custody, pending, drafting, call, login>>

CredNext ==
  \/ PrepareRecovery \/ DownloadRecovery \/ CancelReset \/ CancelPrepared
  \/ UnlockVault \/ LockVault \/ LockLate \/ ClearVaultFile \/ SealVault \/ LoginExpires \/ RestartShell
  \/ PrepareKey \/ CommitAtOnce \/ CancelDraft \/ CreateCredential \/ DeleteCredential
  \/ \E c \in Calls :
       \/ CallHangsUp(c) \/ BeginInitialize(c) \/ LandInitialize(c) \/ ReturnInitialize(c)
       \/ BeginPrepareReset(c) \/ ReturnPrepareReset(c) \/ BeginReset(c) \/ LandReset(c)
       \/ AskInitialize(c) \/ MakeRecovery(c) \/ WriteInitial(c) \/ CommitInitialize(c)
       \/ AskCurrent(c) \/ VerifyCurrent(c) \/ RememberReset(c)
       \/ AskReset(c) \/ TakePending(c) \/ WriteReplacement(c) \/ CommitReset(c)
       \/ BeginGenerate(c) \/ ReturnGenerate(c) \/ BeginStore(c) \/ LandStore(c)
       \/ BeginCommit(c) \/ LandCommit(c) \/ ReturnCommit(c)

CredSpec == CredInit /\ [][CredNext]_credVars

-----------------------------------------------------------------------------
(* A vault can be opened without its password: the recovery key it was     *)
(* last made for is in a file of the user, however the dialogs, failures,  *)
(* replaced keys, lost pages and restarts fell.                            *)
RecoverySaved == vault # NoVault => vault.recovery \in saved

(* A draft is stored once, unless the page hung up or the process stopped  *)
(* while it was stored, so that nobody was told.                           *)
DraftStoredOnce == \A d \in 1..Len(stored) : d \notin unsure => stored[d] <= 1
=============================================================================
