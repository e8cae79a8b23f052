-------------------------- MODULE ConfigurationFiles --------------------------
(***************************************************************************)
(* The three files of the portable configuration, the operations on them,  *)
(* and the merge that replaces all three under a journal                   *)
(* (infrastructure/persistence).  Every access of a repository is one step *)
(* under configuration_gate and is refused while a journal is pending.     *)
(* The server runs several operations at once; the desktop runs one at a   *)
(* time on its main thread, merges on another, and recovers when it        *)
(* starts.  An operation of several accesses is a task.  Any access may    *)
(* fail, and the process may stop between two of them.                     *)
(***************************************************************************)
EXTENDS Catalog

CONSTANTS
  Tasks,        \* operations under way
  Deployments,  \* the kinds of processes: is it the server?
  Drafts,       \* connections the user may save
  Sources,      \* configurations of other directories
  Start,        \* configurations to start from
  MaxEdits      \* bound: operations ever begun

ASSUME NoneAssumption == None \notin Content \cup Vault \cup Profile \cup Rule \cup Credentials
ASSUME SourcesAssumption == Sources \subseteq Content
ASSUME DraftsAssumption == Drafts \subseteq Profile
ASSUME StartAssumption == \A content \in Start : content \in Content /\ Valid(content.connections)

VARIABLES
  server,    \* the process is the server
  process,   \* "down", "recovering" or "up"
  files,     \* the three files
  journal,   \* .merge-pending.json: the files before the merge, or None
  key,       \* the data key in memory; 0: locked
  prepared,  \* the previewed merge, or None
  writing,   \* what the merge does to the files
  task,      \* operations
  keys,      \* data keys ever made
  used,      \* identifiers ever given to something stored
  edits      \* operations begun

disk == <<files, journal>>
memory == <<key, prepared, task>>
merging == <<journal, prepared, writing>>
counters == <<keys, used, edits>>
vars == <<server, process, disk, memory, writing, counters>>

-----------------------------------------------------------------------------
Operations == {"none", "saveProfile", "saveRule", "deleteProfile",
               "deleteCredential", "clearVault"}
\* subject: the identifier it is about, None for a new one; draft: what to
\* store; known: the connections at its last access to them.
IdleTask == [op |-> "none", step |-> 0, subject |-> None, draft |-> None, known |-> {}]
NotWriting == [phase |-> "none", step |-> 0, next |-> None, source |-> None, options |-> {}]

PartAt == <<"connections", "rules", "vault">>

Task == [op: Operations, step: 0..4, subject: Profiles \cup Credentials \cup Rules \cup {None},
         draft: Profile \cup Rule \cup {None}, known: SUBSET Profiles]
Prepared == [source: Sources, options: Options, target: Content, next: Content]
Writing == [phase: {"none", "apply", "restore"}, step: 0..4, next: Content \cup {None},
            source: Sources \cup {None}, options: Options \cup {{}}]

TypeOK ==
  /\ server \in Deployments /\ process \in {"down", "recovering", "up"}
  /\ files \in Content /\ journal \in Content \cup {None}
  /\ key \in Nat /\ keys \in Nat /\ edits \in Nat
  /\ prepared \in Prepared \cup {None} /\ writing \in Writing /\ task \in [Tasks -> Task]
  /\ used \subseteq Profiles \cup Credentials \cup Rules

Stores(content) == Stored(content.connections.profiles) \cup Stored(content.rules)
                   \cup Secrets(content.vault)

Init ==
  /\ server \in Deployments /\ process = "up"
  /\ files \in Start /\ journal = None
  /\ key = 0 /\ prepared = None /\ writing = NotWriting
  /\ task = [t \in Tasks |-> IdleTask]
  /\ keys = 1 /\ used = Stores(files) /\ edits = 0

-----------------------------------------------------------------------------
(* configuration_gate and the locks around it. *)

profiles == files.connections.profiles
Idle(t) == task[t].op = "none"

\* A repository is reached: nobody holds the gate and no journal is pending.
Reached == process = "up" /\ writing.phase = "none" /\ journal = None

\* Only one operation at a time runs on the desktop's main thread.
Free == server \/ \A t \in Tasks : Idle(t)
\* network_gate and vault_gate of the server.
Holds(ops) == server /\ \E t \in Tasks : task[t].op \in ops
NetworkFree == ~Holds({"deleteProfile", "saveRule"})
VaultFree == ~Holds({"deleteCredential", "clearVault"})

Count == edits < MaxEdits /\ edits' = edits + 1
Begin(t, op, subject, draft, known) ==
  /\ Idle(t) /\ Free /\ Reached /\ Count
  /\ task' = [task EXCEPT ![t] = [op |-> op, step |-> 1, subject |-> subject,
                                  draft |-> draft, known |-> known]]
  /\ UNCHANGED <<server, process, files, merging, key, keys, used>>

Doing(t, op, step) == Reached /\ task[t].op = op /\ task[t].step = step
Finish(t) == task' = [task EXCEPT ![t] = IdleTask]
Continue(t) == task' = [task EXCEPT ![t].step = @ + 1]

\* An access to one of the files; what it stores has been used.
Store(content) ==
  /\ files' = content
  /\ used' = used \cup Stores(content)
  /\ UNCHANGED <<server, process, merging, keys, edits>>

WithProfiles(f) == [files EXCEPT !.connections.profiles = f]
WithRules(f) == [files EXCEPT !.rules = f]
WithVault(v) == [files EXCEPT !.vault = v]

\* An operation that is a single access.
Edit(content) ==
  /\ Free /\ Reached /\ Count
  /\ files' = content /\ used' = used \cup Stores(content)
  /\ UNCHANGED <<server, process, merging, memory, keys>>

-----------------------------------------------------------------------------
(* Connections and groups. *)

\* The server checks the credential first, and takes no agent (validate_auth).
BeginSaveProfile(t) ==
  \E profile \in Drafts, p \in Stored(profiles) \cup {None} :
    /\ server => /\ profile.auth # "agent"
                 /\ profile.credential \in Secrets(files.vault) \cup {None}
    /\ Begin(t, "saveProfile", p, profile, {})

\* insert and update
StoreProfile(t) ==
  /\ Doing(t, "saveProfile", 1)
  /\ \E p \in IF task[t].subject = None THEN Profiles \ used ELSE {task[t].subject} \cap Stored(profiles) :
       LET next == [files.connections EXCEPT !.profiles[p] = task[t].draft]
       IN /\ Valid(next)
          /\ Store([files EXCEPT !.connections = next])
  /\ Finish(t) /\ UNCHANGED key

InsertGroup(g) ==
  /\ g \notin files.connections.groups
  /\ Edit([files EXCEPT !.connections.groups = @ \cup {g}])

DeleteGroup(g) ==
  /\ g \in files.connections.groups
  /\ Edit([files EXCEPT !.connections =
       [groups |-> @.groups \ {g},
        profiles |-> [p \in Profiles |->
          IF p \in Stored(@.profiles) /\ @.profiles[p].group = g
          THEN [@.profiles[p] EXCEPT !.group = None] ELSE @.profiles[p]]]])

-----------------------------------------------------------------------------
(* Rules, and the connection they belong to. *)

\* Mutant: without the network gate.
BeginSaveRuleUngated(t) ==
  \E p \in Stored(profiles), kind \in Kinds, r \in Stored(files.rules) \cup {None} :
    /\ RouteValid(profiles, p)
    /\ Begin(t, "saveRule", r, [profile |-> p, kind |-> kind], {})

\* create and update: the connection's route is checked, the rule stored later.
BeginSaveRule(t) ==
  /\ NetworkFree
  /\ \E p \in Stored(profiles), kind \in Kinds, r \in Stored(files.rules) \cup {None} :
       /\ RouteValid(profiles, p)
       /\ Begin(t, "saveRule", r, [profile |-> p, kind |-> kind], {})

StoreRule(t) ==
  /\ Doing(t, "saveRule", 1)
  /\ \E r \in IF task[t].subject = None THEN Rules \ used ELSE {task[t].subject} \cap Stored(files.rules) :
       Store(WithRules([files.rules EXCEPT ![r] = task[t].draft]))
  /\ Finish(t) /\ UNCHANGED key

DeleteRule(r) ==
  /\ NetworkFree /\ r \in Stored(files.rules)
  /\ Edit(WithRules([files.rules EXCEPT ![r] = None]))

\* delete_profile_with_network_rules keeps a copy of the connection.
BeginDeleteProfile(t) ==
  /\ NetworkFree
  /\ \E p \in Stored(profiles) : Begin(t, "deleteProfile", p, profiles[p], {})

DropProfile(t) ==
  /\ Doing(t, "deleteProfile", 1)
  /\ task[t].subject \in Stored(profiles) \ Jumps(profiles)
  /\ Store(WithProfiles([profiles EXCEPT ![task[t].subject] = None]))
  /\ Continue(t) /\ UNCHANGED key

DropItsRules(t) ==
  /\ Doing(t, "deleteProfile", 2)
  /\ Store(WithRules([r \in Rules |->
       IF r \in Stored(files.rules) /\ files.rules[r].profile = task[t].subject
       THEN None ELSE files.rules[r]]))
  /\ Finish(t) /\ UNCHANGED key

\* The rules could not be deleted: the copy is put back.
KeepRules(t) ==
  /\ task[t].op = "deleteProfile" /\ task[t].step = 2 /\ process = "up" /\ writing.phase = "none"
  /\ Continue(t)
  /\ UNCHANGED <<server, process, disk, key, prepared, writing, counters>>

PutProfileBack(t) ==
  /\ Doing(t, "deleteProfile", 3)
  /\ LET next == [files.connections EXCEPT !.profiles[task[t].subject] = task[t].draft]
     IN Valid(next) /\ Store([files EXCEPT !.connections = next])
  /\ Finish(t) /\ UNCHANGED key

-----------------------------------------------------------------------------
(* Credentials and the connections that use them. *)

\* The desktop looks whether the credential exists.
BeginDeleteCredential(t) ==
  /\ VaultFree
  /\ \E c \in Credentials :
       /\ ~server => c \in Secrets(files.vault)
       /\ Begin(t, "deleteCredential", c, None, {})

\* Mutant: the credential's users are found, and not written back.
ClearReferencesUnsaved(t) ==
  /\ Doing(t, "deleteCredential", IF server THEN 2 ELSE 1)
  /\ Store(files)
  /\ task' = [task EXCEPT ![t] = IF server THEN IdleTask
                                 ELSE [@ EXCEPT !.step = 2, !.known = Stored(profiles)]]
  /\ UNCHANGED key

\* clear_credential_references refuses if a jump needs it.
ClearReferences(t) ==
  LET c == task[t].subject
      users == {p \in Stored(profiles) : profiles[p].credential = c}
  IN /\ Doing(t, "deleteCredential", IF server THEN 2 ELSE 1)
     /\ users \cap Jumps(profiles) = {}
     /\ Store(WithProfiles([p \in Profiles |->
          IF p \in users THEN [profiles[p] EXCEPT !.credential = None] ELSE profiles[p]]))
     /\ task' = [task EXCEPT ![t] = IF server THEN IdleTask
                                    ELSE [@ EXCEPT !.step = 2, !.known = Stored(profiles)]]
     /\ UNCHANGED key

\* JsonCredentialVault::delete
DeleteSecret(t) ==
  LET c == task[t].subject
  IN /\ Doing(t, "deleteCredential", IF server THEN 1 ELSE 2)
     /\ key # 0 /\ c \in Secrets(files.vault)
     /\ Store(WithVault([files.vault EXCEPT !.secrets[c] = None]))
     /\ IF server THEN Continue(t) ELSE Finish(t)
     /\ UNCHANGED key

BeginClearVault(t) == VaultFree /\ Begin(t, "clearVault", None, None, {})

\* clear_all_credential_references: routes lose the jumps that need a secret.
ClearAllReferences(t) ==
  LET needy == {p \in Stored(profiles) : profiles[p].auth = "secret"}
      next == [files.connections EXCEPT !.profiles = [p \in Profiles |->
                IF profiles[p] = None THEN None
                ELSE [profiles[p] EXCEPT !.credential = None, !.jumps = @ \ needy]]]
  IN /\ Doing(t, "clearVault", 1)
     /\ Valid(next)
     /\ Store([files EXCEPT !.connections = next])
     /\ Continue(t) /\ UNCHANGED key

\* Mutant: the file goes, the key stays in memory.
ClearVaultOnly(t) ==
  /\ Doing(t, "clearVault", 2)
  /\ Store(WithVault(None))
  /\ UNCHANGED key /\ Finish(t)

ClearVault(t) ==
  /\ Doing(t, "clearVault", 2)
  /\ Store(WithVault(None))
  /\ key' = 0 /\ Finish(t)

\* An access fails or is refused: the operation ends.
Fail(t) ==
  /\ process = "up" /\ writing.phase = "none" /\ ~Idle(t)
  /\ ~(task[t].op = "deleteProfile" /\ task[t].step = 2)
  /\ Finish(t)
  /\ UNCHANGED <<server, process, disk, key, prepared, writing, counters>>

-----------------------------------------------------------------------------
(* The vault (JsonCredentialVault). *)

VaultEdit(vault, newKey) ==
  /\ VaultFree /\ Reached /\ Count
  /\ files' = WithVault(vault) /\ used' = used \cup Stores(files')
  /\ key' = newKey
  /\ UNCHANGED <<server, process, merging, task>>

Initialize ==
  /\ files.vault = None
  /\ keys' = keys + 1
  /\ VaultEdit([key |-> keys + 1, wrap |-> 0, secrets |-> [c \in Credentials |-> None]], keys + 1)

\* The password, or the recovery file, opens the key of the file.
ChangeMasterPassword ==
  /\ files.vault # None
  /\ VaultEdit([files.vault EXCEPT !.wrap = @ + 1], files.vault.key)
  /\ UNCHANGED keys

SaveMaterial ==
  /\ Free /\ key # 0 /\ files.vault # None
  /\ \E c \in Credentials \ used, m \in Materials :
       VaultEdit([files.vault EXCEPT !.secrets[c] = m], key)
  /\ UNCHANGED keys

Unlock ==
  /\ VaultFree /\ Reached /\ files.vault # None
  /\ key' = files.vault.key
  /\ UNCHANGED <<server, process, disk, prepared, writing, task, counters>>

Lock ==
  /\ process = "up" /\ writing.phase = "none" /\ key' = 0
  /\ UNCHANGED <<server, process, disk, prepared, writing, task, counters>>

-----------------------------------------------------------------------------
(* The merge, on the desktop (configuration_merge.rs). *)

\* read_selected, the plan, and stage in a directory of its own
Preview ==
  /\ ~server /\ Reached
  /\ \E source \in Sources, options \in Options :
       /\ ("credentials" \in options /\ source.vault # None) => (key # 0 /\ files.vault # None)
       /\ \E next \in Merges(source, files, options, used) :
            prepared' = IF next = files THEN None
                        ELSE [source |-> source, options |-> options, target |-> files, next |-> next]
  /\ UNCHANGED <<server, process, disk, key, writing, task, counters>>

\* Cancelled, expired, refused, or the source has changed.
Discard ==
  /\ process = "up" /\ writing.phase = "none" /\ prepared # None /\ prepared' = None
  /\ UNCHANGED <<server, process, disk, key, writing, task, counters>>

\* Mutant: what was previewed is committed whatever is there by now.
CommitBlind ==
  /\ Reached /\ prepared # None
  /\ "credentials" \in prepared.options => (key # 0 /\ files.vault # None)
  /\ journal' = files
  /\ writing' = [phase |-> "apply", step |-> 1, next |-> prepared.next,
                 source |-> prepared.source, options |-> prepared.options]
  /\ prepared' = None
  /\ UNCHANGED <<server, process, files, key, task, counters>>

\* commit compares what was previewed with what is there, then keeps it in
\* the journal.
Commit ==
  /\ Reached /\ prepared # None
  /\ "credentials" \in prepared.options => (key # 0 /\ files.vault # None)
  /\ prepared.target = files
  /\ journal' = files
  /\ writing' = [phase |-> "apply", step |-> 1, next |-> prepared.next,
                 source |-> prepared.source, options |-> prepared.options]
  /\ prepared' = None
  /\ UNCHANGED <<server, process, files, key, task, counters>>

Write(content) ==
  /\ writing.step <= 3
  /\ files' = [files EXCEPT ![PartAt[writing.step]] = content[PartAt[writing.step]]]
  /\ writing' = [writing EXCEPT !.step = @ + 1]
  /\ UNCHANGED <<server, process, journal, memory, counters>>

Apply == writing.phase = "apply" /\ Write(writing.next)

\* The journal is removed: this commits the merge.
Accept ==
  /\ writing.phase = "apply" /\ writing.step = 4
  /\ journal' = None /\ writing' = NotWriting
  /\ used' = used \cup Stores(files)
  /\ UNCHANGED <<server, process, files, memory, keys, edits>>

\* A write, or the removal, has failed: recover from the journal.
GiveUp ==
  /\ writing.phase = "apply"
  /\ writing' = [NotWriting EXCEPT !.phase = "restore", !.step = 1]
  /\ UNCHANGED <<server, process, disk, memory, counters>>

Restore == writing.phase = "restore" /\ Write(journal)

RemoveJournal ==
  /\ writing.phase = "restore" /\ writing.step = 4
  /\ journal' = None /\ writing' = NotWriting /\ process' = "up"
  /\ UNCHANGED <<server, files, memory, counters>>

\* The journal stays: nothing is read or written until a restart recovers.
StayPending ==
  /\ writing.phase = "restore"
  /\ writing' = NotWriting
  /\ process' = IF process = "recovering" THEN "down" ELSE process
  /\ UNCHANGED <<server, disk, memory, counters>>

-----------------------------------------------------------------------------
(* The process. *)

Crash ==
  /\ process # "down" /\ process' = "down"
  /\ key' = 0 /\ prepared' = None /\ writing' = NotWriting
  /\ task' = [t \in Tasks |-> IdleTask]
  /\ UNCHANGED <<server, disk, counters>>

Boot ==
  /\ process = "down"
  /\ IF journal = None
     THEN process' = "up" /\ UNCHANGED writing
     ELSE /\ process' = "recovering"
          /\ writing' = [NotWriting EXCEPT !.phase = "restore", !.step = 1]
  /\ UNCHANGED <<server, disk, memory, counters>>

ProfileStep(t) == BeginSaveProfile(t) \/ StoreProfile(t)
RuleStep(t) == BeginSaveRule(t) \/ StoreRule(t)
DeletionStep(t) == BeginDeleteProfile(t) \/ DropProfile(t) \/ DropItsRules(t) \/ KeepRules(t)
                   \/ PutProfileBack(t)
CredentialStep(t) == BeginDeleteCredential(t) \/ ClearReferences(t) \/ DeleteSecret(t)
                     \/ BeginClearVault(t) \/ ClearAllReferences(t) \/ ClearVault(t)
MergeStep == Preview \/ Discard \/ Commit \/ Apply \/ Accept \/ GiveUp \/ Restore
             \/ RemoveJournal \/ StayPending

Next ==
  \/ \E t \in Tasks : ProfileStep(t) \/ RuleStep(t) \/ DeletionStep(t) \/ CredentialStep(t) \/ Fail(t)
  \/ \E g \in Groups : InsertGroup(g) \/ DeleteGroup(g)
  \/ \E r \in Rules : DeleteRule(r)
  \/ Initialize \/ ChangeMasterPassword \/ SaveMaterial \/ Unlock \/ Lock
  \/ MergeStep
  \/ Crash \/ Boot

Spec == Init /\ [][Next]_vars

-----------------------------------------------------------------------------
(* Properties. *)

\* What a reader of the repositories can get: they refuse while a journal is
\* pending, and what recovery brings back is the journal.
Visible == IF journal = None THEN files ELSE journal

Promise == INSTANCE Configuration WITH catalog <- Visible

\* Whatever fails and wherever the process stops, readers see a merge of three
\* files happen at once or not at all, and a merge adds to what is there when
\* it is committed, whatever has happened since its preview.
ImplementsConfiguration == Promise!Spec

\* The key in memory is the one of the vault in the file, across clearing,
\* merging and recovery; otherwise a secret would be stored that nobody can
\* read again (save_material encrypts with the key in memory).
KeyOpensVault == key # 0 => (files.vault # None /\ files.vault.key = key)

\* A rule is only stored for a connection that exists, although the check is
\* an access of its own; rules of no connection could not be seen or deleted.
RuleNamesProfile ==
  [][\A r \in Rules : (Visible'.rules[r] # None /\ Visible'.rules[r] # Visible.rules[r])
       => Visible'.rules[r].profile \in Stored(Visible'.connections.profiles)]_vars

\* The desktop removes a secret when no connection it knew of uses it.
NoneLeftUsing ==
  [][\A t \in Tasks :
       (/\ ~server /\ task[t].op = "deleteCredential"
        /\ Secrets(files'.vault) # Secrets(files.vault))
       => \A p \in task[t].known \cap Stored(profiles) :
            profiles[p].credential # task[t].subject]_vars

\* docs/qb-spec/archive/2026/QB-20260819-portable-credential-library/spec.md:70:
\* references are removed before the secret, so that no connection points to
\* a deleted one.
DeletedIsUnreferenced ==
  [][\A c \in Credentials :
       (task # task' /\ c \in Secrets(files.vault) \ Secrets(files'.vault))
       => \A p \in Stored(files'.connections.profiles) :
            files'.connections.profiles[p].credential # c]_vars
=============================================================================
