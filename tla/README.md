# Qterm, specified and verified

Qterm is a terminal, file and Git workbench. One Rust core (`src/crates/qterm-core`) runs behind a
web server (`src/crates/qterm-server`) and behind a desktop shell (`src/src-tauri`); the React
frontend is `src/src`. The server is where the hard behaviour is: it keeps terminal sessions, an
encrypted credential vault and **one** workbench alive while browser pages log in, take over, lose
their connection and come back. These TLA+ modules specify that behaviour, TLC checks them on small
instances, and TLAPS proves the most important invariants for every value of the constants.

`PROJECT.json` holds what a tool needs: the runs, the source lines each definition stands for, the
faults (mutants) each property has been seen to catch, the findings, the hazards and the theorems.

## 1. The system

Processes and tasks: HTTP handlers, one task per WebSocket, a reader thread per local PTY, one task
per SSH session (the *runner*) and one per SSH connection (of the SSH library), blocking threads for
key derivation and PTY writes, timers, and one Node process that emulates terminals. They meet on
mutexes (`std` and `tokio`), watch, broadcast, mpsc and oneshot channels.

| Component | State | Operations | Meets | What is hard | What makes it correct |
|---|---|---|---|---|---|
| **Access** (`access*.rs`, `data_access.rs`, `terminal_lock.rs`, `auth.rs`) | the login (cookie, access key, client, owner, lock, transport, expiry), takeover tickets, the revision watch, the vault gate | login, takeover, resume, attach/pong/detach of the presence socket, logout, privacy lock and unlock, authorize, permit | every other component asks it; it seals the vault | key derivation under an async gate whose handler may be dropped; a check now and its use later; sockets that overlap | a permit dies with the ownership it was given under; a takeover confirms what was shown; a protected workbench opens only to who gave the password |
| **Vault session** (`vault.rs`, `vault_events.rs`, `settings.rs`, `credential_lifecycle.rs`) | key, session and generation, deadline timers, published status | unlock, lock, clear, change of the security setting, deadline | Access seals it; pages watch its status | three parties change it under different locks; orphaned derivations | key, session, deadline and published status agree |
| **Headless screens** (`screen_worker*`, `server/screen/worker.mjs`) | per screen: checkpoint, tail of operations, owed replies; the process | create, write, resize, snapshot, destroy, recovery | retained sessions | the process may die in any exchange, having done it or not | no output lost or doubled; each terminal query answered once |
| **Retained sessions** (`retained_session.rs`, `retained_socket.rs`, `socket_io.rs`, `pty.rs`) | the program's end, `inner` (screen, newest client, broadcast), pages' tasks, the registry | create, reader, attach, restore, live loop, credit, type, resize, detach, list, destroy, drop | screens, PTY or SSH channel, pages | locks held across blocking writes, lagging pages, superseded pages | snapshot and live output neither overlap nor leave a gap; replies reach the program |
| **SSH sessions** (`infrastructure/ssh/client*`, `domain/session.rs`) | state machine, pending host key, cancel, control queue, transfers | connect through jump hosts, decide on keys, authenticate, open the shell, serve controls, close | known hosts, retained sessions, transfers | a connection that outlives its runner; two timers around one question; close at any time | no credentials before trust; no question without a listener; every end visible |
| **Opening sockets** (`socket.rs`, `local_socket.rs`, `connection.rs`) | the connection being opened | open a local or SSH session | vault gate, registry | the lookup under the gate, pages that change meanwhile, the limit of 32 checked twice | no session behind a page's back; no session without a page |
| **Workspaces and drafts** (`workspace_runtime.rs`, `workspace_recovery.rs`, `catalog.rs`, `src/src/server`, `src/src/workspace`) | layout and its revision in memory and in a file, drafts with revisions, the page's copies and queues | load, save, prune, recover blocks, draft compare-and-set, pause, resume | sessions, pages | late requests of gone pages, revisions asked for again, restarts | nothing is replaced by what was not made from it |
| **Port forwarding** (`forwarding.rs`, `client/network.rs`, `network.rs`) | listeners, forward tasks, running rules, the record | start, stop, edit, session end | SSH sessions | requests abandoned half-way, connections in the queue of a stopped rule | the record shows what runs; a stopped rule is quiet |
| **Server transfers** (`transfers.rs`, `transfer_lifecycle.rs`, `transfer_storage.rs`) | cancellation registry, download tickets, four slots, staging files | upload, prepare and claim a download, cancel, clear | Access clears them | clean-up against preparation; expiry of a running entry | no effect after a stop; refused only when busy |
| **File windows and transfers** (`client/transfer/*`, `file_service.rs`, `commands/files.rs`, `commands/transfer.rs`) | names and files of a host or the machine; the local paths a page may name | upload, selection, create, copy, rename, delete, conditional save, download, dialogs | SSH sessions | jobs on one name or directory, failure between renames, other programs, dialogs answered late | a name leads to whole files; nothing is lost that was not asked for; only what the user picked is sent or written |
| **Terminal staging** (`transfer/staging.rs`, `terminal_staging_service.rs`, `terminal_clipboard.rs`, `clipboard.rs`) | a session's uploads and directories, the directories of the remote host | paste, stop, expiry sweep, end of the session | SSH sessions, the clipboard | a paste asked for under two locks, failures that empty a directory, lost connections | typed paths lead to files; nothing stays behind |
| **Repository observation** (`git_observation*.rs`, `git_events_socket.rs`) | a feed per repository, its worker, sockets | sample, publish, subscribe, forward | Git operations | older samples after newer ones, full channels | pages see the newest state |
| **Git operations** (`git.rs`, `git_remote.rs`, `git_cli`, `client/git.rs`, `domain/git.rs`) | none of their own; the repository | stage, discard, commit, branches, synchronise, merge, resolve: reads and git commands in turn | feeds, SSH sessions, the user's editor and shell | decisions on what was read command by command; killed commands | nothing committed or unsaved is lost; conflicts are confirmed singly |
| Verification budgets (`verification.rs`) | sliding window, delayed answers | admit | Access, vault | the window's edge | bounded attempts |
| Access log (`access_log/*`) | bounded queue, segments | record, rotate | - | queue full, rotation | bounded, in order |
| **Persistence, configuration merge** (`infrastructure/persistence/*`, `application/configuration_merge*`, `credential_management.rs`) | three files and a journal, the key in memory, a prepared merge | save, delete, clear, change keys, merge, roll back, recover | vault, connections, rules | a failure or a crash between two files; preview against commit | whole operations only; the key opens the vault |
| Domain and application services, DTOs | - | pure | - | - | - |
| Desktop application (`src-tauri`) | the same core without the server's gates | Tauri commands | core | operations of several files without a gate | as persistence |
| Frontend (`src/src`) | schedulers, reconnection, layouts, drafts | - | server | pauses, lost answers | as workspaces |

## 2. The modules

| Module | Models | Read with |
|---|---|---|
| `Access` | admission to the workbench | `MCAccess` (symmetry for TLC), `AccessProofs` |
| `VaultLifecycle` | the vault's unlocked session | `ServerProofs` |
| `RecoverableScreens` | **abstract**: what headless screens promise | - |
| `ScreenWorker` | the screens over a process that fails; implements `RecoverableScreens` | `ServerProofs` |
| `RetainedSession` | a kept session and its pages; composes `RecoverableScreens` | `MCRetainedSession`, `RetainedProofs` |
| `SshSession` | a terminal session over SSH from connection to end | `SessionProofs` |
| `Workbench` | **abstract**: what the services rely on about the login; implemented by `Access` | - |
| `Transfers` | uploads, downloads, tickets and slots of the server; built on `Workbench` | `MCTransfers`, `TransferProofs` |
| `GitFeed` | one repository's feed, its worker, sockets and operations; built on `Workbench` | `ServerProofs` |
| `RemoteFiles` | jobs that write one name of a remote host | `MCFiles`, `FilesProofs` |
| `FileEntries` | the jobs that change the entries of a directory, local or remote, and the downloads into it | `MCFiles`, `FilesProofs` |
| `PickedPaths` | which local paths the desktop's page may send or write | `MCFiles`, `FilesProofs` |
| `TerminalStaging` | what is pasted into a terminal, from the clipboard to its removal | `MCTransfers` (transfers or terminals), `TransferProofs` |
| `GitRepository` | **external**: what git commands do to a repository | - |
| `GitOperations` | the git operations, local or remote; built on `GitRepository` | `MCFiles` (one of the four places where files are at stake), `FilesProofs` |
| `NetworkRules` | forwarding rules: requests, the session's loop, connections | `NetworkProofs` |
| `Catalog` | values of the configuration: routes, groups, secrets, the plan of a merge | - |
| `Configuration` | **abstract**: the configuration changes by whole operations | - |
| `ConfigurationFiles` | the three files, their operations and the journalled merge; implements `Configuration` | `MCConfiguration`, `ConfigurationProofs` |
| `CredentialRequests` | recovery keys, private-key drafts and credentials: the server's requests, the desktop's dialogs | `MCConfiguration` (files or requests), `ConfigurationProofs` |
| `WorkspaceRuntime` | layouts, drafts, the opening of sessions, and the page that drives them | `MCWorkspace`, `SessionProofs` |

`Access` knows of the vault only its status; `VaultLifecycle` details it. `Transfers` and `GitFeed`
EXTEND `Workbench`, which `Access` refines, and take every change of the login it allows. `RetainedSession` uses the
abstract screens (`Screens == INSTANCE RecoverableScreens`), which is sound because `ScreenWorker`
refines them. `SshSession` is one of the two things a retained session may keep.

### Access
One variable per field of `Inner` (`access.rs`): `login`, `ticket` (`pending`), `revision` (the
`changes` watch). The cookie and the access key are drawn together, so one number stands for the
pair; the owner, transport and revision tokens are numbers in the order they were issued. Time is three kinds of
steps: a login expires, its presence lapses, a ticket expires.
`gate` is the vault gate with the verification that holds it, in the three stages between which
others run (blocking derivation; verified; checked again). `abandoned` is a verification whose handler was
dropped when the page hung up: its blocking thread goes on. `LoginPage`, `Takeover`, `Resume` are the
three admissions; `Upgrade`, `Attach`, `Refuse`, `Pong`, `Notice`, `Disconnect`, `Detach` the
presence socket; `Authorize`, `Subscribe`, `Admit`, `Release` a data request (`DataAccess::admit`,
`Permit::run`); `Logout`, `LockTerminal`, `LockVault`, `ClearVault`, `Begin` what a request asks for
at the gate; `Verify`, `Recheck`, `Unlock` the stages of a verification, `Abandon` and
`FinishAbandoned` its loss of the page. `shown` and `verified` are history.

### VaultLifecycle
`session` is `CredentialLifecycle.session`; `published` the status watch of `ObservedVault`;
`change` the change that holds its `mutation` mutex, whose steps are separate because other parties
read in between. `handler` holds the vault gate; `derivations` are those on the blocking pool, the
`"orphan"` one survived its handler; `timers` the generations with a deadline pending.

### RecoverableScreens and ScreenWorker
A screen is the sequence of operations it accepted: terminal emulation is deterministic, so
equal sequences are equal screens. Each exchange of `ScreenWorker` with the process succeeds, is rejected,
or fails with the process dead, the operation done or not. A call tries twice, recovers
(`todo`: the screens yet to restore), takes a checkpoint after `CheckpointOps` operations, and keeps
a tail of at most `MaxTail`.

### RetainedSession
`program`, `output`, `input` are the program and its two buffers (external). The reader's
`Process`, `Reply`, `Publish` hold `inner`; so do `Attach`/`Attached`, `Listed`, `Destroyed`, which
also hold the registry. A page goes through attaching, restoring and the live loop (`Turn`,
`Receive`, `Ack`, `Type`, `Resize`, `Heartbeat`, `Detach`), under a window of unacknowledged
messages; the broadcast drops what a slow page has not taken (lag), which sends the page away.

### SshSession
`runner` is where `run_session` is and for which node of the route; `link` the connection of that
node, which is a task of its own: it goes on when the runner gives up, so that a question may be asked by
a connection nobody waits for. A question about a key travels through `question` (`pending`),
`answering` (a request took it), `decision` (sent to the handler) and back to the handler.
`Close` and `CancelOwnedWork` are the two halves of `begin_close`; `owing` says that the second is
due. `start_transfer` is three steps (`CheckJob`, `RegisterJob`, `SubmitJob`).
Time counts in units for the two timers only; timers fire late at will, never early.

### Transfers
`entry` is the registry of `transfer_lifecycle.rs`, an entry's `flag` the `AtomicBool` it shares with
the transfer that started it; `transfer` the requests in the phases between which the code awaits;
`seal` what `clear_login_secrets` clears next. Entries and tickets expire at any time.
`stopped`, `sealed`, `late`, `outlived`, `refusal` are history.

### GitFeed
`feed` has the revision and snapshot of `Feed`; `worker` goes through permit, sampling and
publication (`run` of `git_observation_worker.rs`), remembering the revision it `expected`; a
`socket` has the forwarder's channel and what its page was `told`; an `operation` changes the
repository and publishes the snapshot its handler returns. `disk` numbers the repository's content.

### RemoteFiles
Names lead to files and open handles keep their file. Each kind of job has its own way of
publishing (fixed partial name, private temporary name, backup and rename); `OtherCreates` and
`OtherEdits` are another program; `Lose` cuts a job off where it stands. A file remembers who wrote
each of its chunks.

### FileEntries
`top` and `inside` are the entries of a directory and of its folders; a thing is a number, so that a
file that took another's name is another thing. A job (`work`) remembers what it `saw` under its name when
it looked and what it `may` remove or replace, and acts by name later: `LookRename` and `RenameLocal`,
`LookDelete` and `RemoveTree`, `LookSave` and `CommitSave` are the two halves of one function. Requests
come from the desktop (`AskDesktop`) or from a page of the server (`AskServer`, `AskServerLocal`); those for a
host wait in its session's queue and are dropped or cut off when it ends (`EndSession`).

### PickedPaths
The four fields of `TransferState`; `dialogs` are dialogs for a selection that are open; `log` is what the
user answered and what the page was allowed to do.

### TerminalStaging
`uploads` and `registered` are `clipboard_uploads` and `clipboard_directories` of a session's entry; a
`paste` goes through the request (`Upload` on the server, `ReadClipboard` on the desktop, `Check`,
`RegisterUpload`), the session's loop (`Take`) and its task (`run_terminal_staging`), which prefers a
directory under /tmp and falls back to one under the home. Preparing the latter lists what is a day old
(`ListExpired`) and empties one directory after the other (`SweepExpired`). A failed paste empties what
it made (`Empty`, `EmptyOwn`), with what others put there; `lapsed` remembers files that went in either way
after their directory had expired. At its end a session removes what it remembers (`End`, `SweepRegistered`,
`Disconnect`). The files of one paste are one unit, there as a part or as a whole. `days` counts the
directories that expire; a paste is assumed to take less than a day.

### GitRepository, GitOperations
`repo` is a repository with its worktree, index, unmerged paths, refs, MERGE_HEAD, index.lock and its
remote; contents are numbers, and a commit has its tree and its past. An operation (`op`) is the list of
the reads and commands it has still to do (`todo`) with what it has read. `Runs` is one command: it does
what git does, is refused, or is killed after a part of it (`Cut`). The lists of a local and a remote
repository differ where the code's do: the order of a snapshot's reads, how a text is saved, how an
entry is removed before the first commit. `Fail` ends an operation between two commands; `Edit` and
`OthersPush` are the user and other clones. `seen` and `merges`, `shared` are history.

### NetworkRules
`gate` is `network_gate`, `request` the handlers that hold or wait for it, `controls` the queue to the
loop of a session, `running` and `mapped` its rules and remote forwards, `recorded` the server's
`network_running`. `LoopStart`/`Answered`, `LoopStop`/`Withdrawn`, `TakeDirect`/`Opened`, `Drain`/`End`
are the arms of its `select!`, split where they await the remote. A page that hangs up drops the
handler (`HangUp`) and not the loop.

### Catalog, Configuration, ConfigurationFiles
`files` are the three JSON files, `journal` the files before the merge. One access of a repository is one
step under `configuration_gate`; an operation of several accesses is a `task`, on the server several
at once. A merge goes through preview, comparison and commit; `Apply`, `GiveUp`, `Restore`,
`RemoveJournal` are its writes and its roll back; `Crash` may come anywhere and `Boot` begins the
recovery. `Merges` is the planner: what it adds, under which names, and which sources it
refuses.

### CredentialRequests
`vault` is the vault file with the recovery key it was last made for; `saved` are the keys in files of the
user; `pending` is `pending_recovery` of the server or `recovery_reset` of the desktop; `draft` the one
private key that waits for its name. A request of the server is `Begin` (admitted, what is pending taken),
`Land` (the blocking thread) and `Return` (the handler after it); when the page hangs up the thread lands
alone. A dialog of the desktop is `Ask`, with the steps between which others run. `unlocked` is the key in
memory, `login` the login a request was admitted under.

### WorkspaceRuntime
`file`, `document`, `revision`, `drafts` are the server's; `page`, `panes` the page's, with the queue
of layouts and the revisions its modules remember; `call`, `draftCall` what it waits for, `late`,
`lateDraft` what the server has admitted of pages that no longer wait. `openings` are sockets that
open a session, with the gate from `starting` on. A layout is its blocks and the number of the edit that
made it; `seen` are the edits it descends from. `LandCall` runs a whole handler: none of
them awaits between its reads and its writes. Two things are remembered for the properties only: `acked`, the
edits of its own that a page was told are stored, and `count.pruned`, the files whose draft a
layout has thrown away in this login.

## 3. The runs

All run with two workers within five minutes. Deadlock is checked only for `ScreenWorker`: in every
other model the system may rightly stop, when pages, sessions or the bounded inputs are used up.

| Run | Instance | What it shows |
|---|---|---|
| `access` | 2 pages, 1 socket, 1 request, 1 ticket, 2 identities, 2 transports, revision < 4 | `PermitRevisionSound`, `TicketShowsOccupant`, `OpenOnlyAfterVerification`, the refinement `ImplementsWorkbench` |
| `vault` | generation <= 5 | `SessionFollowsKey`, `DeadlineLocks` |
| `screen_worker` | 2 screens, queries, checkpoint and tail limit 2, 3 operations each | the refinement `Recoverable`, `CallReturns`; no deadlock |
| `retained` | local session, 2 pages, all buffers 1, 2 messages, 1 resize | `ViewIsHistory`, `RepliesConserved` |
| `retained_live` | SSH session, 2 pages, resizes and events but no output | `SupersededPageEnds`, `LivePageCatchesUp`, `ClosedSessionReleasesScreen` |
| `ssh` | a jump host and a target, 2 transfers, queue of 2, limits 1 and 3 | `KeyBeforeCredentials`, `EndsVisibly`, `CloseReleases`, `AcceptedJobsEnd` |
| `files` | a remote name with 3 jobs of any kind and files of 2 writes; or 2 jobs of any kind on a directory of 2 names, 5 things; or 2 local paths and 5 acts of dialogs; or a repository with 1 file, 2 branches, 3 operations in 2 slots, 1 outside event, from 5 initial states, local and remote | `TargetIsWhole`, `NothingLost`, `DiscardsOnlySeen`; `OnlyAskedIsLost`; `SentAsPicked`; `CommitsSurvive`, `EditsSurvive` |
| `transfers` | 3 requests, 2 slots, 1 id, 2 tickets, 2 registry entries, revision <= 2; or 2 pastes into the terminals of 2 sessions, 1 expiry | `NoEffectAfterStop`; `TypedPathsLead`, `NothingStays` |
| `git_feed` | 1 socket, 1 operation, channel of 1, 3 versions, 1 outage | `SamplesAreNewest`, `CatchesUp` |
| `network` | 1 session, a local and a remote rule, 2 requests, 1 connection | `RunningIsRecorded`, `StoppedRuleIsQuiet`, `GateIsReleased` |
| `configuration` | server or desktop, 2 tasks, 3 connections, 2 rules, 2 secrets, 1 source, 2 operations; or 2 requests of the server or the desktop, 3 recovery keys and drafts together, a vault full at 1 credential, 2 logins | `KeyOpensVault`, the refinement `ImplementsConfiguration`, `RuleNamesProfile`; `RecoverySaved`, `DraftStoredOnce` |
| `workspace` | 2 blocks, 1 file, 1 session, up to 3 logins, 1 pause, 1 restart, 3 texts; five sets of bounds and faults | `SessionsShown`, `LayoutsDescend`, `DraftsDescend` |

Further configurations are kept beside the runs. `AccessLive.cfg` (one page, two sockets) checks
`SupersededSocketEnds`, which holds. The others reproduce findings, each a property TLC finds violated within
seconds, `NoDraftOverwritten` within a minute: `AccessVault.cfg`, `VaultDeadline.cfg`, `RetainedBlocked.cfg`,
`SshHostKey.cfg`, `RemoteSweep.cfg`, `RemotePart.cfg`, `GitFeedLock.cfg`, `ConfigurationSecret.cfg`,
`WorkspaceLoss.cfg`, `GitConflicts.cfg` (run them with the module that declares the property, or
its MC module; where several properties are listed, leave one at a time).

**Why the bounds are enough.** *Access*: two pages and two identities give every takeover, return
and stale ticket; one request suffices because requests interact only through the login, and
`PermitsSound` is proved for any number; `AccessLive.cfg` has the replacement of a
socket by a newer one of the same page. The revision bound stops only lock and unlock requests.
*Vault*: five generations are two full sessions, each with a moved deadline. *Screens*: a checkpoint
every two operations out of three makes every call possible before, at and after one, and the tail
limit is reached when a checkpoint cannot be taken; two screens because a failure of one call
rebuilds all. *Retained*: capacity 1 everywhere makes "full" and "lagging" reachable with two
messages; a third page would only repeat the second's role of superseding. The liveness run leaves
output out because an output message and a resize event are the same to the loop, credit and
broadcast: both are one message. `MCRetainedSession` gives TLC a symmetry (pages are interchangeable)
and a view without `answer`, which no step reads; the liveness run uses neither. *SSH*: two nodes
have both the first connection and the tunnel; a queue of two and two transfers make it full; limits
1 < 3 keep the code's order of 15 s < 60 s with both timers able to fire before and after an answer.
*Remote files*: two writes give a half-written file; a third job sees the effect of two others; jobs
differ only in their kind, so that one order of kinds is enough. *Directory*: two
names are a source and a target, five things let a folder have two files while two more are made, and a
conflict needs no third job, since another program acts too. *Dialogs*: the
shortest misuse is four acts long, two dialogs answered in the wrong order and an upload.
*Git*: one file is in conflict or not, and an operation acts on
each file alone; two branches are a current and another one; of three operations one may start a
merge, one act on a snapshot and one change what it read; a stopped merge in the initial state
counts as one of the three.
*Credentials*: three keys are a vault's, its successor and one that was replaced before it was used; a
vault full at one credential has the limit, and two drafts let one replace the other while it is stored.
*Transfers*: three requests for two slots make them full with one to refuse; two
registry entries are an expired one and its successor. *Staging*: two sessions of one account share the
home, so that one may sweep the other's directory; two pastes meet in one directory or in two, and one expiry
is enough for a sweep. Only with three pastes of one session does one make a registered directory anew
while another uses it (finding 30); the proofs are for any number. *GitFeed*: a channel of one is full while one message
waits; three versions let a sample be overtaken twice. *Network*: a rule of either kind, and two requests, one
holding the gate; sessions do not share rules' tasks, and the safety properties are proved for any number.
*Configuration*: three connections give a route, its gateway and one to merge; the two operations
interleave with each other and with a merge. *Workspace*: two blocks exceed the limit of one session,
two logins leave late requests and waiting sockets behind, and a restart begins the revisions again;
the sets of bounds keep layouts with sessions, drafts over logins and drafts with lost answers apart,
since their product is too large. A third login lets the request of one gone page wait while a second page
stores what it loaded, and a third text lets a draft that was thrown away begin again (findings 31 and 32).
Each property of a passing run has a mutant in `PROJECT.json`, a plausible fault of the code it
catches at these bounds; the fault is written beside the definition it replaces.

**Fairness and why the code justifies it.**
*Access* (`AccessLive.cfg`): socket tasks run (weak), a disconnect gets the vault gate, a fair `tokio::Mutex` (strong),
a blocking verification returns. *Vault*: handlers and blocking calls go on (weak); a deadline and an
orphan lock get the mutation mutex among competitors (strong). *Screens*: every exchange has a timeout, so a call
goes on (weak); nothing is assumed of the process. *Retained*: the reader and holders of `inner` go
on (weak); in the page's loop `tokio::select!` polls ready branches in random order, so that a
branch that is ready again and again is taken (strong); a page acknowledges what it received while
its socket is open, and is otherwise taken away by its heartbeat. The program is assumed to read its input
unless it is blocked on its output, which is the point of `RetainedBlocked.cfg`. *SSH*: tasks and
timers run; what was asked of the remote is answered **or the transport is lost** (keepalive,
3 x 30 s); the remote need not present a key nor end its shell, and the user need not do anything.
*GitFeed*: workers, forwarders and sockets go on (weak): timers fire and a send gives up after five
seconds; nobody has to subscribe, operate or repair the repository. *Network*: `select!` is fair to
controls and cancellation (strong); the remote answers a request for a forward or the transport
breaks, which is an assumption: nothing in the code limits that wait.

## 4. What is proved

TLAPS proves the following for every value of the constants that satisfies the modules' `ASSUME`s
(sets of pages, sockets and requests of any size, any bounds, routes and outputs of any length).

* `AccessProofs`. `AccessInv` is inductive. `PermitRevisionSound` alone is not: one must know that
  no revision is remembered that was not issued yet, that owner numbers are not reused, that the
  gate's holder is the login's owner while it verifies, that a socket which may detach the login's
  transport exists and carries its owner. From it: `TypeCorrect`, `PermitsSound`, `TicketsSound`,
  `GateExcludesAdmission`, `PresenceDetachable`, and `PrivacyLockSound` under the stated hypothesis that the
  page that creates the vault does not hang up during that request.
* `ServerProofs`, the vault. `VaultInv` adds to the three invariants what holds while a change is under way (an
  opened session has a key, one about to close has none, a handler that has yet to schedule
  remembers its generation) and that the gate holder's derivation and locking belong to its phase. From it: `VaultTypeCorrect`,
  `PublicationSound`, `SessionSound`, `DeadlineSound`.
* `SessionProofs`, the connection. `SshInv` says that the question about a key is in one place, never leaves the
  connection it was asked for, and what is known wherever it is: an acceptance under way has been
  stored, a rejection under way is the user's, neither is left when the runner authenticates. From it:
  `SshTypeCorrect`, `KeyBeforeCredentialsSound`, `RejectionSound`, `QuestionSound`. `ProgressInv`
  adds the states each phase meets and who may have closed the session: `EndsVisiblySound`.
* `SessionProofs`, transfers of a session. `JobsInv` says that a queue with anything in it belongs to a session whose loop
  serves it, that a transfer is in it once and exactly while it waits, and that one at a time is being opened,
  while the loop opens one; before the session serves there is no transfer. Hence `JobsAreKept` (`[]AcceptedJobsKept`), the safe half of `AcceptedJobsEnd`. Assumed: no transfer is called
  what the queue calls the user's input.

* `AccessProofs` also has `WorkbenchRefined`: every step of `Access` is a step of `Workbench` or
  leaves it alone, under `AccessInv`. What `Transfers` and `GitFeed` assume of the login is thereby
  not an assumption.
* `NetworkProofs`. `TypeInv` ties what a loop, a request and a connection name to their phase.
  `QuietInv` follows a connection from its listener to its channel and says that its rule runs, in
  the version it was accepted for. `RecordInv` follows a request: a reply that is owed, given or
  abandoned accounts for every difference between what runs and what is recorded; it needs that the gate's
  holder is the only request that waits. From them `NetworkTypeCorrect`, `StoppedIsQuiet`,
  `RunningRecorded`.
* `NetworkProofs` also has `AnswersAreOwed` (`[]HolderIsAnswered`), the half of `GateIsReleased` that is a safety property: the request that holds
  the gate waits for an answer it has, or for a session that has ended, or for a loop that has its control,
  in the queue or in hand. It is inductive under `TypeInv` alone; what remains for TLC is that the loop goes on.
* `ConfigurationProofs`. The inductive invariant says what the three files are at each step of a merge and of its
  roll back relative to the journal, that the prepared merge was planned from what it remembers, and
  which key the vault in the file has. From it `ConfigurationTypeCorrect`, `KeyOpens`, and
  `WholeOperations`, the refinement of `Configuration`.
* `FilesProofs`. The jobs of `RemoteFiles` know nothing of each other, so `FileInv` is about ownership: a
  private name leads to its job's own file, a file is written only while no name anyone looks under leads to it,
  and it is given such a name when it is whole. From there: no file is found under two names; a
  save that freed the name holds a file under its backup; a save that compared twice still knows the text it
  is about to discard. Two plain uploads share a partial file, and for them only types and offsets
  are claimed. From it `FileTypes`, `TargetStaysWhole`, `SavesLoseNothing`, `SavesDiscardSeen`. For the dialogs
  the invariant relates the approvals the desktop keeps to the log of what the user answered:
  `PagesSendWhatWasPicked`.
* `TransferProofs`. `TransferInv` says why a stop cannot be missed: what a change of access met at work carries
  a permit that will never be good again, and what runs watches the flag of its own entry for as long as
  it has one; flags are numbered upwards, and while a seal is under way no request of the new page can
  be cleared with the old. From it `TransferTypes`, `StoppedWorkHasNoEffect`. `StagingInv` says whose a directory is:
  a registered one is its session's; one that is not is held by a single paste and cannot have expired;
  files lie only in the directory of a paste that holds it, or that is over and has registered it. From it
  `StagingTypes`, `TypedPathsKeepLeading`, `EndedSessionsLeaveNothing`. The first attempt failed at `EmptyOwn`,
  rightly: see finding 30.

* `ConfigurationProofs` also has `RulesNameConnections`, the action property `RuleNamesProfile`. The check
  of a rule's connection and the write of the rule are two accesses of the files; what joins them is that
  one operation at a time works on rules and connections (the network gate of the server, one dialog of the
  desktop), so that the connection that was checked is there until the rule is, and that a merge or its
  roll back writes rules and connections of one plan.
* `ConfigurationProofs`, credentials. On the server a saved recovery key stays saved, so it is enough
  that a key goes into a vault after it went into a file. The desktop removes the file of a key that was not
  used: there `CredInv` says that each key is in one place, waiting, in one request or in
  the vault, whence the file that is removed is never the vault's. A draft that is being stored is either in no
  commit yet, or its commit landed and holds the gate until the draft is gone; the commits that
  land without their page are those `DraftStoredOnce` excepts (finding 27). From it
  `CredTypeCorrect`, `RecoveryStaysSaved`, `DraftsStoredOnce`. Assumed: there may be a key (`MaxKeys > 0`).
* `RetainedProofs`. `RepliesInv` adds to `RepliesConserved` that whoever unlocks the session owes no reply, and
  uses of the abstract screen only that a call hands out exactly the replies it answers with. From it
  `RepliesReachProgram`, for any pages, capacities and output. Assumed: a page is not called what
  the other holders of a lock are called.
* `RetainedProofs`, pages. `ViewIsHistory` speaks of the moments in which nobody holds `inner`; `ViewsInv` says what is true
  in between. While the reader holds it, the history is one message ahead of the broadcast, and the message
  is the one the reader is about to send. A live screen holds the whole history. A page has its view from the snapshot
  on, before it is served, and whoever holds `inner` for a page is attaching it. Each such page `Follows`
  the broadcast, whatever else changes: a message sent comes last in what it has yet to receive, and the one it
  receives came first. These last two are facts about the output among messages of every kind (`OnlyWrites`), and need induction over
  the length of a sequence. The library's induction theorems take an operator and cannot be used, but its
  theorem on least elements (`WFMin`) can: `ByInduction` follows from it, for a set of numbers, and from
  that `KeepsLast`, `KeepsFirst` and `KeepsWrites`. `PagesShowHistory`.
* `FilesProofs`, directories. The inductive invariant is small: only folders have files, and a job about
  to act has seen nothing under its name or what it may remove. The proof is in the effects: each of
  the ways to change the directory (to put, clear, move, trim, fill or place a thing) loses nothing but what is
  under the job's name, at each instant in which another program may have acted. From it
  `OnlyAskedEntriesAreLost`.
* `FilesProofs`, Git. A repository is `Grounded` when the past of each commit is a closed set of commits, what is on
  the remote or tracked was shared, and each commit made here is on a branch or was shared. Each command, and each
  command that is killed half-way (`Cut`), moves a branch only to a commit that has the branch's past, and
  keeps what only the worktree has unless it was asked for that file. What an operation read earlier plays no part:
  the two theorems hold for any order of reads and commands, edits of the user and pushes
  of others between them. `GitInvariant`, `CommitsAreKept`, `EditsAreKept`. They rest on `GitRepository`,
  what git itself is assumed to do. Assumed: an operation may be asked for (`MaxRequests > 0`).
* `ServerProofs`, screens: the refinement of `RecoverableScreens`, step by step. `ScreenInv` says that what is not
  live keeps nothing, that the process, when there is one, holds for each screen it was given exactly checkpoint and
  tail, and that a call that is half done finds its own operation last in the tail. A step of the worker
  then changes the three things the mapping reads of a screen (state, content, replies owed) as one step of
  `RecoverableScreens`, or none of them: a restart, a restore and a checkpoint are invisible. `ScreenTypeCorrect`,
  `TerminalsHoldContent`, `ScreensRecover`, for any screens, outputs and limits with a checkpoint before the tail is full.
* `ServerProofs`, the feed. `FeedInv` says that everything a feed shows, and everything about to be shown, was read from the
  repository; that a sample's expected revision was the feed's at some time; and that, while the feed is
  still at that revision, the sample is as new as what the feed has shown. Results of operations may overtake
  each other; a sample may not overtake one. It needs that a feed and its worker go together, and that the content
  of the repository is numbered by age. `FeedTypeCorrect`, `SamplesStayNewest`. What the pages are told: a feed's
  revision only grows while anybody holds the feed, a socket that watches nothing has nothing on its way, and
  to send and to deliver keep what waits in order, up to what the task has seen. `NothingIsSkipped` (`[]NothingSkipped`), the safe half of `CatchesUp`.

* `SessionProofs`, sessions. A page that has loaded the layout shows every retained session: whoever starts one has the
  login of the newest page and holds the gate until the session is registered, so that a page is never mounted between the
  two; and what loading answers gives every session a block unless the layout is full. The invariant says this of the
  openings and of the answer under way. `WorkspaceTypeCorrect`, `SessionsAreShown`.
* `SessionProofs`, layouts. That one layout comes after another (`Follows`) is not known when it is stored: the server
  compares a revision. `LayoutsInv` therefore speaks of whatever has the server's revision or can still get it: the
  layout shown, each layout of the queue, the request of a gone page. Each of them follows every
  edit a page was told is stored, and every edit of this page that may be in the file already without its being told. The queue is in
  order, and the page's revision never runs ahead of the server's. `LayoutsKeepDescending`.
* `SessionProofs`, drafts. The same for each file, with the revision of its draft: what the pane shows comes
  after what is being sent, that after what gone pages have sent in this login, and each after
  the draft if it is sent with the draft's revision. A pane that has not restored its draft has sent nothing. A file whose draft a
  layout threw away is excepted until the next login, since its revisions begin again. This needs that a closed block is not
  drawn again (`BlocksDrawn`). `DraftsKeepDescending`.
  Both proofs failed first, rightly: `LayoutsDescend` counted what a page stored unchanged, and `DraftsDescend`
  did not except the drafts that were thrown away. The run's bounds were too small to tell; they have
  been enlarged, and the code's behaviour is in findings 31 and 32. Assumed: blocks are finitely many, and no layout is `None`.

The screens, the vault and the feed share no state; their theorems share a module because none is about another. The same holds
for the connection of a session and the workbench.

Model-checked only is all liveness, which is out of the prover's reach: `DeadlineLocks`, `CallReturns`, `SupersededPageEnds`,
  `LivePageCatchesUp`, `ClosedSessionReleasesScreen`, `CloseReleases`, `AcceptedJobsEnd`, `CatchesUp`, `GateIsReleased`.
Every other property of a run is the statement of a theorem. Three of the liveness properties have a safe half, which
is proved and not a run's property: `AcceptedJobsKept`, `NothingSkipped` and `HolderIsAnswered`. TLC finds them
true too when they are added to `Ssh.cfg`, `GitFeed.cfg` (also with a channel of two) and `Network.cfg` as invariants, and
violated under the mutants of the liveness properties they belong to.

## 5. Findings

Where the code and a statement about it part (quoted in full in `PROJECT.json`):

1. `AccessVault.cfg`: a vault unlock that waited for the gate unlocks the vault although the terminal
   was locked meanwhile; the documentation says a disconnect seals both.
2. `AccessVault.cfg`: a key derivation outlives the handler of a page that hung up, and unlocks the
   vault after the logout.
3. `VaultDeadline.cfg`: a deadline that passed its generation check locks the vault after a setting
   that should have cancelled it.
4. `RetainedBlocked.cfg`: a reply to a terminal query is written to a full PTY with the session locked;
   the program cannot make room, listing waits with the registry locked, and the session cannot be
   destroyed.
5. `SshHostKey.cfg`: the 60 s for a decision on a host key end after 15 s, with the connection's timeout
   around them.
6. The loop of an SSH terminal awaits the remote inside its arms without listening to
   the cancellation, so that closing a session may wait until the transport is lost.
7. `RemoteSweep.cfg`: the clean-up of a failed upload deletes targets that others created meanwhile.
8. `RemotePart.cfg`: two uploads to one target mix in one partial file.
9. A partial file stays when closing or renaming it fails.
10. The clean-up under the home looks at the ages once and empties directories that were used since.
11. A paste that waits in the queue when its session ends is dropped with it, and its picture stays.
12. A download ticket issued while a takeover clears the tickets keeps its slot until it expires.
13. The registry entry of a long transfer expires while it runs, and its cancellation reaches nobody.
14. `GitFeedLock.cfg`: a feed a closing socket still holds is handed to a new subscriber without a worker.
15. A rule whose start was abandoned runs unrecorded and may be edited and deleted.
16. `ConfigurationSecret.cfg`: the server deletes a secret before the references to it.
17. `WorkspaceLoss.cfg`: a page that could not load the layout, or a list read with it, stores its
    default layout over it.
18. `WorkspaceLoss.cfg`: a layout queued before a file block was opened throws away the block's
    acknowledged draft.
19. A file opened before the draft of its pane was restored replaces that draft unseen.
20. `GitConflicts.cfg`: the snapshot of a local repository reads MERGE_HEAD before the status; a merge
    that stops in between lets "stage all" mark its conflicts.
21. `GitConflicts.cfg`: a resolution of a local repository's conflict is written after its revision was
    compared, over an edit made since.
22. "Unstage all" during a merge ends the merge without a question.
23. Creating a remote file empties the file another program put under the name after the look.
24. A local rename replaces a file that came after the look.
25. A local save compares once with what was loaded, before it writes, and replaces a later change.
26. A save dialog that is cancelled leaves the approval of an earlier one that was not used.
27. A private key whose page hangs up while it is stored stays a draft and can be stored again.
28. The lock at the end of the unlock's time keeps the draft of a private key.
29. One credential more than the limit is stored, and the vault then refuses to be read as damaged.
30. A paste that made its session's expired directory anew and then fails takes the complete files of another
    paste with it.
31. A page that stores the layout it loaded is told so without a new revision, and a request of a page that is
    gone, which waited under that revision, then replaces what the page was told is stored.
32. `WorkspaceLoss.cfg`: once a layout threw a draft away its revisions begin again, and a write that waited
    since before may replace a newer draft.

Weaker observations are written into the properties rather than reported: a session closed
between the end of `client::connect` and the next transition is removed in the state Closing
(`EndsVisibly` excepts sessions the user closed), a transfer queued while the session ends is
dropped unreported (`AcceptedJobsEnd` excepts it), and a session may be hidden when the layout has
no room for another block (`SessionsShown` excepts `hidden`).

## 6. Not modelled, and why

* Cryptography, key derivation, SSH and SFTP protocols, terminal emulation, git's output: external;
  each appears as the outcomes it can have.
* Encoding, formatting, text, HTTP routing and status codes: no property is about them.
* In the modelled components: recovery-key unlocks and rate limits (Access); status, directory and
  connection events that travel as text (RetainedSession); the check of the newest page and the write of its keys as two steps (`Type` is one step);
  the files, git and network purposes, clipboard uploads and `forget_host_key` of SSH sessions;
  the listings of directories and the previews of files; the server's copies of pasted files, which are the handler's
  own, and the formatting of typed paths; the SOCKS5 handshake; names made unique by a merge; sockets of pages that were never admitted
  (`WorkspaceRuntime`).
* Of the Git operations: initialising, submodules, a detached HEAD, renames, several remotes, and the
  reads of diffs and histories. What git does is assumed as `GitRepository` states it.
* The SSH authentication methods keep no state between calls. `verification.rs` is arithmetic on
  instants; the access log drops and counts what its queue cannot take, and nothing depends on it.
* The mapped lines are a minor part of the repository's. Much of the rest is data transfer objects and
  their validation, parsers of git output, the desktop's commands (which call the same core), and the
  user interface: code without interleavings, where a model would repeat it line by line.

## 7. Plan

Done: Access and Workbench, VaultLifecycle, RecoverableScreens and ScreenWorker, RetainedSession,
SshSession, RemoteFiles, FileEntries, PickedPaths, TerminalStaging, CredentialRequests, GitOperations, Transfers, GitFeed, NetworkRules, Catalog and Configuration with its files,
WorkspaceRuntime.

Left, by importance:
1. The access log's queue and segments; verification budgets over discrete time.
