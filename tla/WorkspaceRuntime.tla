-------------------------- MODULE WorkspaceRuntime --------------------------
(***************************************************************************)
(* The workbench that outlives its pages: the layout of blocks, the drafts *)
(* of edited files, the retained sessions by block, and the page that      *)
(* reads and replaces them.                                                *)
(*   - The server keeps the layout in memory under a revision and writes   *)
(*     it to a file; a page replaces the layout it has seen (catalog.rs).  *)
(*     Loading it first gives every retained session a block               *)
(*     (workspace_recovery.rs).                                            *)
(*   - A draft has a revision of its own, and goes when a layout without   *)
(*     its block is stored (workspace_runtime.rs, catalog.rs).             *)
(*   - A session is started under the vault gate, once for each block      *)
(*     (local_socket.rs, socket.rs, retained_socket.rs).                   *)
(*   - The page loads the layout when it is mounted, stores its layouts    *)
(*     one after the other and asks for the revision after a pause         *)
(*     (src/src/server, src/src/workspace, src/src/files).                 *)
(* Access decides who has the login; here a login is a number, and every   *)
(* login mounts the workbench anew.  Only the page that has the login is   *)
(* modelled: of the others there remain the requests the server admitted   *)
(* and the sockets it has not yet answered.  A layout is the set of its    *)
(* blocks and the number of the edit that made it; the id of a block is    *)
(* the runtime key of its session.  A text is a number.                    *)
(***************************************************************************)
EXTENDS Naturals, Sequences, FiniteSets

CONSTANTS
  Blocks,       \* ids a page may draw for a new block
  Files,        \* those of them in which files are edited
  None,         \* no layout, no block, no revision
  MaxSessions,  \* retained sessions at once
  MaxBlocks,    \* blocks a layout may have for a recovery
  MaxDrafts,    \* drafts at once
  MaxQueue,     \* bound: layouts that wait to be stored
  MaxLate,      \* bound: layout requests, and draft requests, of gone pages
  Limits        \* bounds: what may fail and how often things happen together

Limit == [files: SUBSET Files, faults: SUBSET {"read", "write", "list", "reply"}, logins: Nat,
          pauses: Nat, restarts: Nat, edits: Nat, texts: Nat, openings: Nat]
ASSUME LimitsAssumption == Limits \subseteq Limit
ASSUME FilesAssumption == Files \subseteq Blocks
\* An id is drawn from finitely many.
ASSUME BlocksAssumption == IsFiniteSet(Blocks) /\ MaxBlocks \in Nat

VARIABLES
  file,      \* device/workspaces.json
  document,  \* Runtime.document
  revision,  \* workspace_revision
  drafts,    \* Runtime.panes
  sessions,  \* the runtime keys of the retained sessions
  openings,  \* the sockets that open a session
  login,     \* the owner the server admits, 0 for none
  page,      \* the page that has the login
  panes,     \* its file panes (useRetainedFilePreview, paneState.ts)
  call,      \* its layout request
  draftCall, \* its draft request for each file pane
  late,      \* admitted layout requests whose page no longer waits
  lateDraft, \* the same of drafts
  acked,     \* history: the edits of its own a page was told are stored
  count      \* bounds: what was drawn, issued, typed so far, and the limits;
             \* history: the files whose draft a layout has thrown away in this login

server == <<file, document, revision, drafts>>
requests == <<call, draftCall, late, lateDraft>>
workspaceVars == <<server, sessions, openings, login, page, panes, requests, acked, count>>

-----------------------------------------------------------------------------
(* Types and empty values. *)

\* `seen`: the edits it descends from; `blind`: one of them began on a page
\* whose load had failed.
Layout == [blocks: SUBSET Blocks, edit: Nat, seen: SUBSET Nat, blind: BOOLEAN]
ASSUME NoneAssumption == None \notin Layout
\* `rash`: typed before the pane had restored the draft of the server.
Text == [id: Nat, seen: SUBSET Nat, rash: BOOLEAN]
Draft == [revision: Nat, text: Text]
Opening == [block: Blocks, owner: Nat, step: {"waiting", "starting", "ready"},
            heard: BOOLEAN]
Queues == Seq(Layout)
Page == [phase: {"out", "active", "paused"}, hydrated: BOOLEAN, shown: Layout,
         hidden: SUBSET Blocks, closed: SUBSET Blocks, due: BOOLEAN, queue: Queues,
         revision: Nat, uncertain: BOOLEAN, since: Nat,
         closing: Blocks \cup {None}, step: {"list", "destroy", "remove"}]
Pane == [text: Text, last: Nat, restored: BOOLEAN, dirty: BOOLEAN,
         tried: BOOLEAN, revision: Nat \cup {None}]
Call == [kind: {"idle", "load", "ask", "save"}, done: BOOLEAN, ok: BOOLEAN,
         revision: Nat, doc: Layout]
DraftCall == [kind: {"idle", "restore", "ask", "write"}, done: BOOLEAN, ok: BOOLEAN,
              revision: Nat, text: Text]
Late == [kind: {"load", "ask", "save"}, revision: Nat, doc: Layout]
LateDraft == [file: Files, owner: Nat, revision: Nat, text: Text]
Count == [drawn: SUBSET Blocks, pruned: SUBSET Files, logins: Nat, pauses: Nat, restarts: Nat,
          edits: Nat, texts: Nat, openings: Nat, limit: Limit]
limit == count.limit

NewLayout == [blocks |-> {}, edit |-> 0, seen |-> {}, blind |-> FALSE]
NoText == [id |-> 0, seen |-> {}, rash |-> FALSE]
NoDraft == [revision |-> 0, text |-> NoText]
NoCall == [kind |-> "idle", done |-> FALSE, ok |-> FALSE, revision |-> 0, doc |-> NewLayout]
NoDraftCall == [kind |-> "idle", done |-> FALSE, ok |-> FALSE, revision |-> 0,
                text |-> NoText]
UnreadPane == [text |-> NoText, last |-> 0, restored |-> FALSE, dirty |-> FALSE,
               tried |-> FALSE, revision |-> None]
\* `since`: the edits made before it was mounted.
Mounted(phase, since) ==
  [phase |-> phase, hydrated |-> FALSE, shown |-> NewLayout, hidden |-> {},
   closed |-> {}, due |-> FALSE, queue |-> <<>>, revision |-> 0, uncertain |-> TRUE,
   since |-> since, closing |-> None, step |-> "list"]

WorkspaceTypeOK ==
  /\ file \in Layout \cup {None} /\ document \in Layout \cup {None}
  /\ revision \in Nat /\ drafts \in [Files -> Draft]
  /\ sessions \subseteq Blocks /\ openings \subseteq Opening
  /\ login \in Nat /\ page \in Page /\ panes \in [Files -> Pane]
  /\ call \in Call /\ draftCall \in [Files -> DraftCall]
  /\ late \subseteq Late /\ lateDraft \subseteq LateDraft
  /\ acked \subseteq Nat /\ count \in Count

WorkspaceInit ==
  /\ file = None /\ document = None /\ revision = 0
  /\ drafts = [f \in Files |-> NoDraft]
  /\ sessions = {} /\ openings = {} /\ login = 0
  /\ page = Mounted("out", 0) /\ panes = [f \in Files |-> UnreadPane]
  /\ call = NoCall /\ draftCall = [f \in Files |-> NoDraftCall]
  /\ late = {} /\ lateDraft = {} /\ acked = {}
  /\ \E l \in Limits :
       count = [drawn |-> {}, pruned |-> {}, logins |-> 0, pauses |-> 0, restarts |-> 0, edits |-> 0,
                texts |-> 0, openings |-> 0, limit |-> l]

-----------------------------------------------------------------------------
(* Logins and pauses.  Resume, login, takeover and logout take the vault   *)
(* gate (access_lifecycle.rs), which a starting session holds.             *)

GateFree == \A o \in openings : o.step # "starting"

\* The requests the page waits for and the server has not answered.
InFlight ==
  {[kind |-> k, revision |-> page.revision,
    doc |-> IF k = "save" THEN Head(page.queue) ELSE NewLayout] :
     k \in {call.kind} \ IF call.done THEN {call.kind} ELSE {"idle"}}
DraftsInFlight ==
  {[file |-> f, owner |-> login, revision |-> draftCall[f].revision, text |-> draftCall[f].text] :
     f \in {g \in Files : draftCall[g].kind = "write" /\ ~draftCall[g].done}}

\* The page no longer waits for them.  Some the server has admitted already;
\* the others it never sees.  A socket the server has not answered goes on.
Abandon ==
  /\ \E s \in SUBSET InFlight : late' = late \cup s
  /\ \E s \in SUBSET DraftsInFlight : lateDraft' = lateDraft \cup s
  /\ Cardinality(late') <= MaxLate /\ Cardinality(lateDraft') <= MaxLate
  /\ call' = NoCall /\ draftCall' = [f \in Files |-> NoDraftCall]
  /\ openings' = {[o EXCEPT !.heard = FALSE] : o \in {p \in openings : p.step # "ready"}}

\* A page is admitted: a login, a takeover or a refresh, each with an owner
\* of its own.  Its workbench is mounted anew.
Login ==
  /\ GateFree
  /\ count.logins < limit.logins
  /\ count' = [count EXCEPT !.logins = @ + 1, !.pruned = {}]
  /\ login' = count'.logins
  /\ page' = Mounted("active", count.edits) /\ panes' = [f \in Files |-> UnreadPane]
  /\ Abandon
  /\ UNCHANGED <<server, sessions, acked>>

\* Logging out ends the login; a tab that is closed leaves it as it is.
Leave ==
  /\ page.phase # "out"
  /\ login' = login \/ (login' = 0 /\ GateFree)
  /\ page' = Mounted("out", count.edits) /\ panes' = [f \in Files |-> UnreadPane]
  /\ Abandon
  /\ UNCHANGED <<server, sessions, acked, count>>

\* pauseData: every request is aborted, the layouts that wait fail at once,
\* the revisions of the drafts are forgotten, sockets without a session are
\* given up.  What is shown stays.
Pause ==
  /\ page.phase = "active"
  /\ count.pauses < limit.pauses
  /\ count' = [count EXCEPT !.pauses = @ + 1]
  /\ page' = [page EXCEPT !.phase = "paused", !.queue = <<>>, !.due = FALSE,
                          !.uncertain = TRUE, !.closing = None, !.step = "list"]
  /\ panes' = [f \in Files |-> [panes[f] EXCEPT !.revision = None, !.dirty = FALSE,
                                                  !.tried = FALSE]]
  /\ Abandon
  /\ UNCHANGED <<server, sessions, login, acked>>

\* resumeData: the effects run again.
Resume ==
  /\ page.phase = "paused"
  /\ page' = [page EXCEPT !.phase = "active", !.due = page.hydrated]
  /\ panes' = [f \in Files |-> [panes[f] EXCEPT
                 !.dirty = panes[f].restored /\ panes[f].text.id # panes[f].last]]
  /\ UNCHANGED <<server, sessions, openings, login, requests, acked, count>>

\* The process ends and starts again: only the file is left.
Restart ==
  /\ count.restarts < limit.restarts
  /\ count' = [count EXCEPT !.restarts = @ + 1]
  /\ document' = None /\ revision' = 0 /\ drafts' = [f \in Files |-> NoDraft]
  /\ sessions' = {} /\ openings' = {} /\ login' = 0
  /\ page' = Mounted("out", count.edits) /\ panes' = [f \in Files |-> UnreadPane]
  /\ call' = NoCall /\ draftCall' = [f \in Files |-> NoDraftCall]
  /\ late' = {} /\ lateDraft' = {}
  /\ UNCHANGED <<file, acked>>

-----------------------------------------------------------------------------
(* The layout on the server (catalog.rs).  A handler runs at once: of its  *)
(* possible outcomes one is taken.                                         *)

Smaller(a, b) == IF a < b THEN a ELSE b
Reply(ok, rev, doc) == [ok |-> ok, revision |-> rev, doc |-> doc]
Failed == Reply(FALSE, 0, NewLayout)
Outcome(stored, doc, rev, kept, answer) ==
  [file |-> stored, document |-> doc, revision |-> rev, drafts |-> kept, answer |-> answer]
Unchanged(answer) == Outcome(file, document, revision, drafts, answer)

\* recover: the sessions that get a block, as many as the layout has room for.
Recovered(doc) ==
  LET missing == sessions \ doc.blocks
      room == MaxBlocks - Smaller(MaxBlocks, Cardinality(doc.blocks))
  IN {add \in SUBSET missing : Cardinality(add) = Smaller(room, Cardinality(missing))}

\* load_workspace.  When the layout with the recovered blocks cannot be
\* written, it stays in memory under the old revision.
LoadWorkspace ==
  LET fresh == document = None
      first == IF ~fresh THEN document ELSE IF file # None THEN file ELSE NewLayout
      With(add) == [first EXCEPT !.blocks = @ \cup add]
      After(add) == IF add = {} THEN revision ELSE revision + 1
      loaded == {Outcome(IF fresh \/ add # {} THEN With(add) ELSE file, With(add), After(add),
                         drafts, Reply(TRUE, After(add), With(add))) : add \in Recovered(first)}
      unwritten == {Outcome(IF fresh THEN first ELSE file, With(add), revision, drafts, Failed) :
                      add \in Recovered(first) \ {{}}}
  IN loaded
     \cup (IF "write" \in limit.faults THEN unwritten ELSE {})
     \cup (IF fresh /\ limit.faults \cap {"read", "write"} # {} THEN {Unchanged(Failed)} ELSE {})

\* Layouts are compared by their content.
Same(a, b) == a # None /\ a.blocks = b.blocks /\ a.edit = b.edit
Pruned(doc) == [f \in Files |-> IF f \in doc.blocks THEN drafts[f] ELSE NoDraft]

\* Fault: the revision is not compared.
SaveUnchecked(expected, doc) ==
  {Outcome(doc, doc, revision + 1, Pruned(doc), Reply(TRUE, revision + 1, NewLayout))}

\* save_workspace
SaveWorkspace(expected, doc) ==
  IF expected # revision THEN {Unchanged(Failed)}
  ELSE IF document # None /\ Same(document, doc)
  THEN {Unchanged(Reply(TRUE, revision, NewLayout))}
  ELSE {Outcome(doc, doc, revision + 1, Pruned(doc), Reply(TRUE, revision + 1, NewLayout))}
       \cup IF "write" \in limit.faults THEN {Unchanged(Failed)} ELSE {}

Handle(kind, expected, doc) ==
  IF kind = "save" THEN SaveWorkspace(expected, doc) ELSE LoadWorkspace
Thrown(kept) == {f \in Files : drafts[f].revision # 0 /\ kept[f].revision = 0}
Put(o) ==
  /\ file' = o.file /\ document' = o.document
  /\ revision' = o.revision /\ drafts' = o.drafts
  /\ count' = [count EXCEPT !.pruned = @ \cup Thrown(o.drafts)]

\* A request whose page has gone.
LandLate ==
  \E r \in late : \E o \in Handle(r.kind, r.revision, r.doc) :
    /\ Put(o)
    /\ late' = late \ {r}
    /\ UNCHANGED <<sessions, openings, login, page, panes, call, draftCall, lateDraft, acked>>

-----------------------------------------------------------------------------
(* The layout on the page (useWorkspacePersistence.ts, workspaceSaveQueue, *)
(* server/services/workspaces.ts).                                         *)

LayoutRequest(kind) == [NoCall EXCEPT !.kind = kind]
Active == page.phase = "active" /\ page.hydrated
Elsewhere == <<server, sessions, openings, login, panes, draftCall, late, lateDraft>>

StartLoad ==
  /\ page.phase = "active" /\ ~page.hydrated /\ call.kind = "idle"
  /\ call' = LayoutRequest("load")
  /\ UNCHANGED <<Elsewhere, page, acked, count>>

LandCall ==
  /\ call.kind # "idle" /\ ~call.done
  /\ \E o \in Handle(call.kind, page.revision,
                     IF page.queue = <<>> THEN NewLayout ELSE Head(page.queue)) :
       /\ Put(o)
       /\ call' = [kind |-> call.kind, done |-> TRUE, ok |-> o.answer.ok,
                   revision |-> o.answer.revision, doc |-> o.answer.doc]
  /\ UNCHANGED <<sessions, openings, login, page, panes, draftCall, late, lateDraft, acked>>

\* The request or its answer is lost, and the page told so.
LoseCall ==
  /\ "reply" \in limit.faults
  /\ call.kind # "idle" /\ (call.done => call.ok)
  /\ call' = [LayoutRequest(call.kind) EXCEPT !.done = TRUE]
  /\ UNCHANGED <<Elsewhere, page, acked, count>>

Hydrate ==
  /\ call.kind = "load" /\ call.done /\ call.ok
  /\ page' = [page EXCEPT
       !.hydrated = TRUE, !.shown = call.doc, !.due = TRUE,
       !.hidden = IF Cardinality(call.doc.blocks) >= MaxBlocks
                  THEN sessions \ call.doc.blocks ELSE {},
       !.revision = call.revision, !.uncertain = FALSE]
  /\ call' = NoCall
  /\ UNCHANGED <<Elsewhere, acked, count>>

\* The layout or one of the lists read with it fails: the page keeps the
\* layout it was mounted with, which is stored like any other.
HydrateBlind ==
  /\ call.kind = "load" /\ call.done /\ (call.ok => "list" \in limit.faults)
  /\ count.edits < limit.edits
  /\ count' = [count EXCEPT !.edits = @ + 1]
  /\ page' = [page EXCEPT
       !.hydrated = TRUE, !.due = TRUE,
       !.shown = [blocks |-> {}, edit |-> count'.edits, seen |-> {}, blind |-> TRUE],
       !.revision = IF call.ok THEN call.revision ELSE @, !.uncertain = ~call.ok]
  /\ call' = NoCall
  /\ UNCHANGED <<Elsewhere, acked>>

\* flush: the layout as it is shown now is put in the queue.
Enqueue ==
  /\ Active /\ page.due /\ Len(page.queue) < MaxQueue
  /\ page' = [page EXCEPT !.due = FALSE, !.queue = Append(@, page.shown)]
  /\ UNCHANGED <<Elsewhere, call, acked, count>>

\* saveWorkspaces: after a pause the revision is read anew, whatever the
\* layout it belongs to.
StartSave ==
  /\ Active /\ page.queue # <<>> /\ call.kind = "idle"
  /\ call' = LayoutRequest(IF page.uncertain THEN "ask" ELSE "save")
  /\ UNCHANGED <<Elsewhere, page, acked, count>>

AskAnswered ==
  /\ call.kind = "ask" /\ call.done
  /\ \/ /\ call.ok
        /\ page' = [page EXCEPT !.revision = call.revision, !.uncertain = FALSE]
        /\ call' = LayoutRequest("save")
     \/ /\ ~call.ok
        /\ page' = [page EXCEPT !.queue = Tail(@)]
        /\ call' = NoCall
  /\ UNCHANGED <<Elsewhere, acked, count>>

\* Told so, the page need not store the edit again, if it is one of its own.
Own(edit) == edit > page.since

SaveAnswered ==
  /\ call.kind = "save" /\ call.done
  /\ page' = [page EXCEPT !.queue = Tail(@), !.revision = IF call.ok THEN call.revision ELSE @]
  /\ acked' = acked \cup IF call.ok /\ Own(Head(page.queue).edit)
                        THEN {Head(page.queue).edit} ELSE {}
  /\ call' = NoCall
  /\ UNCHANGED <<Elsewhere, count>>

\* A layout that descends from the one shown.
Edited(blocks) ==
  [blocks |-> blocks, edit |-> count.edits + 1,
   seen |-> page.shown.seen \cup {page.shown.edit}, blind |-> page.shown.blind]
CanEdit == Active /\ count.edits < limit.edits

AddBlock(b) ==
  /\ CanEdit /\ b \notin count.drawn
  /\ count' = [count EXCEPT !.edits = @ + 1, !.drawn = @ \cup {b}]
  /\ page' = [page EXCEPT !.shown = Edited(@.blocks \cup {b}), !.due = TRUE]
  /\ UNCHANGED <<Elsewhere, call, acked>>

\* Any other edit of the layout.
Rearrange ==
  /\ CanEdit
  /\ count' = [count EXCEPT !.edits = @ + 1]
  /\ page' = [page EXCEPT !.shown = Edited(@.blocks), !.due = TRUE]
  /\ UNCHANGED <<Elsewhere, call, acked>>

\* closeSessions: the session of the block is looked up and destroyed, then
\* the block removed.
BeginClose(b) ==
  /\ CanEdit /\ page.closing = None /\ b \in page.shown.blocks
  /\ page' = [page EXCEPT !.closing = b, !.step = "list"]
  /\ UNCHANGED <<Elsewhere, call, acked, count>>

ListForClose ==
  /\ page.closing # None /\ page.step = "list"
  /\ page' = [page EXCEPT !.step = IF page.closing \in sessions THEN "destroy" ELSE "remove"]
  /\ UNCHANGED <<Elsewhere, call, acked, count>>

DestroyForClose ==
  /\ page.closing # None /\ page.step = "destroy"
  /\ sessions' = sessions \ {page.closing}
  /\ page' = [page EXCEPT !.step = "remove"]
  /\ UNCHANGED <<server, openings, login, panes, requests, acked, count>>

RemoveBlock ==
  /\ CanEdit /\ page.closing # None /\ page.step = "remove"
  /\ count' = [count EXCEPT !.edits = @ + 1]
  /\ page' = [page EXCEPT !.shown = Edited(@.blocks \ {page.closing}), !.due = TRUE,
                          !.closed = @ \cup {page.closing}, !.closing = None, !.step = "list"]
  /\ panes' = [f \in Files |-> IF f = page.closing THEN UnreadPane ELSE panes[f]]
  /\ UNCHANGED <<server, sessions, openings, login, requests, acked>>

-----------------------------------------------------------------------------
(* Drafts (useRetainedFilePreview.ts, paneState.ts, workspace_runtime.rs). *)

DraftRequest(kind) == [NoDraftCall EXCEPT !.kind = kind]
Open(f) == Active /\ f \in page.shown.blocks
Beside == <<file, document, revision, sessions, openings, login, page, call, late, acked>>

\* Fault: the newest draft wins.
KeptNewest(f, owner, expected) == owner = login

\* save_pane.  The bound on the size of the drafts is that on their number.
Kept(f, owner, expected) ==
  /\ owner = login
  /\ expected = drafts[f].revision
  /\ expected = 0 => Cardinality({g \in Files : drafts[g].revision # 0}) < MaxDrafts
SavePane(f, owner, expected, text) ==
  IF Kept(f, owner, expected)
  THEN [drafts EXCEPT ![f] = [revision |-> expected + 1, text |-> text]]
  ELSE drafts

StartRestore(f) ==
  /\ Open(f) /\ ~panes[f].restored /\ ~panes[f].tried /\ draftCall[f].kind = "idle"
  /\ panes' = [panes EXCEPT ![f].tried = TRUE]
  /\ draftCall' = [draftCall EXCEPT ![f] = DraftRequest("restore")]
  /\ UNCHANGED <<Beside, drafts, lateDraft, count>>

LandDraft(f) ==
  LET c == draftCall[f] IN
  /\ c.kind # "idle" /\ ~c.done
  /\ \/ /\ c.kind # "write"
        /\ draftCall' = [draftCall EXCEPT ![f] =
             [kind |-> c.kind, done |-> TRUE, ok |-> TRUE, revision |-> drafts[f].revision,
              text |-> IF c.kind = "restore" THEN drafts[f].text ELSE c.text]]
        /\ UNCHANGED drafts
     \/ /\ c.kind = "write" /\ GateFree
        /\ drafts' = SavePane(f, login, c.revision, c.text)
        /\ draftCall' = [draftCall EXCEPT ![f] =
             [kind |-> "write", done |-> TRUE, ok |-> Kept(f, login, c.revision),
              revision |-> c.revision + 1, text |-> c.text]]
  /\ UNCHANGED <<Beside, panes, lateDraft, count>>

LoseDraft(f) ==
  /\ "reply" \in limit.faults
  /\ draftCall[f].kind # "idle" /\ (draftCall[f].done => draftCall[f].ok)
  /\ draftCall' = [draftCall EXCEPT ![f] = [DraftRequest(draftCall[f].kind) EXCEPT !.done = TRUE]]
  /\ UNCHANGED <<Beside, drafts, panes, lateDraft, count>>

LandLateDraft ==
  \E r \in lateDraft :
    /\ GateFree
    /\ drafts' = SavePane(r.file, r.owner, r.revision, r.text)
    /\ lateDraft' = lateDraft \ {r}
    /\ UNCHANGED <<Beside, panes, draftCall, count>>

\* The draft is shown unless the pane shows something by now.
Restored(f) ==
  LET c == draftCall[f]
      text == IF panes[f].text.id = 0 THEN c.text ELSE panes[f].text
  IN /\ c.kind = "restore" /\ c.done
     /\ draftCall' = [draftCall EXCEPT ![f] = NoDraftCall]
     /\ panes' = IF ~c.ok \/ ~Open(f) THEN panes
                 ELSE [panes EXCEPT ![f] =
                        [text |-> text, last |-> c.text.id, restored |-> TRUE, tried |-> TRUE,
                         dirty |-> text.id # c.text.id, revision |-> c.revision]]
     /\ UNCHANGED <<Beside, drafts, lateDraft, count>>

\* A file is opened, edited or left; before the draft is restored too.
EditText(f) ==
  /\ Open(f) /\ count.texts < limit.texts
  /\ count' = [count EXCEPT !.texts = @ + 1]
  /\ panes' = [panes EXCEPT
       ![f].text = [id |-> count'.texts, seen |-> @.seen \cup {@.id},
                    rash |-> @.rash \/ ~panes[f].restored],
       ![f].dirty = panes[f].restored]
  /\ UNCHANGED <<Beside, drafts, draftCall, lateDraft>>

\* savePaneState: one request at a time, the newest text next.  After a pause
\* the revision is read first, whatever the draft it belongs to.
StartWrite(f) ==
  /\ Open(f) /\ panes[f].dirty /\ draftCall[f].kind = "idle"
  /\ panes' = [panes EXCEPT ![f].dirty = FALSE]
  /\ draftCall' = [draftCall EXCEPT ![f] =
       IF panes[f].revision = None
       THEN [DraftRequest("ask") EXCEPT !.text = panes[f].text]
       ELSE [DraftRequest("write") EXCEPT !.text = panes[f].text, !.revision = panes[f].revision]]
  /\ UNCHANGED <<Beside, drafts, lateDraft, count>>

DraftAsked(f) ==
  LET c == draftCall[f] IN
  /\ c.kind = "ask" /\ c.done
  /\ panes' = IF c.ok /\ Open(f) THEN [panes EXCEPT ![f].revision = c.revision] ELSE panes
  /\ draftCall' = [draftCall EXCEPT ![f] =
       IF c.ok THEN [DraftRequest("write") EXCEPT !.text = c.text, !.revision = c.revision]
       ELSE NoDraftCall]
  /\ UNCHANGED <<Beside, drafts, lateDraft, count>>

DraftWritten(f) ==
  LET c == draftCall[f] IN
  /\ c.kind = "write" /\ c.done
  /\ panes' = IF c.ok /\ Open(f)
              THEN [panes EXCEPT ![f].revision = c.revision, ![f].last = c.text.id] ELSE panes
  /\ draftCall' = [draftCall EXCEPT ![f] = NoDraftCall]
  /\ UNCHANGED <<Beside, drafts, lateDraft, count>>

-----------------------------------------------------------------------------
(* Opening the session of a block (local_socket.rs, socket.rs).  A block   *)
(* whose session runs is attached instead: RetainedSession.                *)

Around == <<server, login, page, panes, requests, acked, count>>

StartOpen(b) ==
  /\ count.openings < limit.openings
  /\ count' = [count EXCEPT !.openings = @ + 1]
  /\ Active /\ b \in page.shown.blocks /\ b # page.closing
  /\ b \notin sessions /\ \A o \in openings : o.block = b => ~o.heard
  /\ openings' = openings \cup
       {[block |-> b, owner |-> login, step |-> "waiting", heard |-> TRUE]}
  /\ UNCHANGED <<server, login, page, panes, requests, acked, sessions>>

Move(o, next) == openings' = (openings \ {o}) \cup next

\* Fault: the login is not looked at again once the gate is free.
EnterUnproved(o) ==
  /\ o.step = "waiting" /\ GateFree
  /\ Move(o, IF o.block \in sessions \/ Cardinality(sessions) >= MaxSessions THEN {}
             ELSE {[o EXCEPT !.step = "starting"]})
  /\ UNCHANGED <<Around, sessions>>

\* The socket has the gate and the login still stands: it joins the session
\* of its block, is refused at the limit, or starts one and keeps the gate.
Enter(o) ==
  /\ o.step = "waiting" /\ GateFree
  /\ o.owner = login
  /\ Move(o, IF o.block \in sessions
             THEN (IF o.heard THEN {[o EXCEPT !.step = "ready"]} ELSE {})
             ELSE IF Cardinality(sessions) >= MaxSessions THEN {}
             ELSE {[o EXCEPT !.step = "starting"]})
  /\ UNCHANGED <<Around, sessions>>

\* The login is over or the terminal locked.
Refuse(o) ==
  /\ o.step = "waiting" /\ GateFree
  /\ o.owner # login \/ page.phase = "paused"
  /\ Move(o, {})
  /\ UNCHANGED <<Around, sessions>>

\* register
Started(o) ==
  /\ o.step = "starting"
  /\ sessions' = IF Cardinality(sessions) < MaxSessions THEN sessions \cup {o.block} ELSE sessions
  /\ Move(o, IF o.heard /\ Cardinality(sessions) < MaxSessions
             THEN {[o EXCEPT !.step = "ready"]} ELSE {})
  /\ UNCHANGED Around

NotStarted(o) ==
  /\ o.step = "starting"
  /\ Move(o, {})
  /\ UNCHANGED <<Around, sessions>>

\* The page is told.  If it has given the block up meanwhile it destroys the
\* session.
Opened(o) ==
  /\ o.step = "ready"
  /\ sessions' = IF o.block \in page.closed \cup {page.closing}
                 THEN sessions \ {o.block} ELSE sessions
  /\ Move(o, {})
  /\ UNCHANGED Around

-----------------------------------------------------------------------------
WorkspaceNext ==
  \/ Login \/ Leave \/ Pause \/ Resume \/ Restart
  \/ LandLate \/ StartLoad \/ LandCall \/ LoseCall \/ Hydrate \/ HydrateBlind
  \/ Enqueue \/ StartSave \/ AskAnswered \/ SaveAnswered
  \/ Rearrange \/ ListForClose \/ DestroyForClose \/ RemoveBlock
  \/ \E b \in Blocks : AddBlock(b) \/ BeginClose(b) \/ StartOpen(b)
  \/ \E f \in limit.files : \/ StartRestore(f) \/ LandDraft(f) \/ LoseDraft(f) \/ Restored(f)
                      \/ EditText(f) \/ StartWrite(f) \/ DraftAsked(f) \/ DraftWritten(f)
  \/ LandLateDraft
  \/ \E o \in openings : Enter(o) \/ Refuse(o) \/ Started(o) \/ NotStarted(o) \/ Opened(o)

WorkspaceSpec == WorkspaceInit /\ [][WorkspaceNext]_workspaceVars

-----------------------------------------------------------------------------
(* Properties. *)

\* A layout the page that made it was told is stored is replaced only by one
\* made from it, or from a later one, whatever requests of gone pages land when
\* (save_workspace and its revision, the question after a pause).  Layouts
\* of a page whose load failed are excepted: HydrateBlind.  A page that stores
\* what it loaded is told the same, but the revision stays, and with it the
\* requests that waited for it: only a page's own edits count.
LayoutsDescend ==
  [][/\ file # None /\ file'.edit # file.edit /\ file.edit \in acked
     => file'.blind \/ file.edit \in file'.seen]_workspaceVars

\* Without the exception.
NoBlindOverwrite ==
  [][/\ file # None /\ file'.edit # file.edit /\ file.edit \in acked
     => file.edit \in file'.seen]_workspaceVars

\* A draft is replaced only by a text typed after it was seen (save_pane and
\* its revision, the question after a pause), or by a text typed before the
\* pane had restored the draft.  Once a layout has thrown a draft away its
\* revisions start again, and a request that waits may find its own again.
Replaces(new, old) == new.rash \/ old.id \in new.seen \cup {new.id}
DraftsDescend ==
  [][\A f \in Files \ count.pruned :
       drafts[f].revision # 0 /\ drafts'[f].revision # 0 /\ drafts'[f] # drafts[f]
       => Replaces(drafts'[f].text, drafts[f].text)]_workspaceVars

\* Without the exception.
NoDraftOverwritten ==
  [][\A f \in Files :
       drafts[f].revision # 0 /\ drafts'[f].revision # 0 /\ drafts'[f] # drafts[f]
       => Replaces(drafts'[f].text, drafts[f].text)]_workspaceVars

\* A page that has loaded the layout shows every retained session, except of
\* the blocks it has closed itself: no session can start unseen behind a page
\* that was mounted later, since both wait for the gate and the session needs
\* the login (run of local_socket.rs and socket.rs, recover).
SessionsShown ==
  page.phase # "out" /\ page.hydrated /\ ~page.shown.blind
  => sessions \subseteq page.shown.blocks \cup page.closed \cup page.hidden

\* A draft whose block is shown is not thrown away by a layout.
DraftsOfShownStay ==
  [][\A f \in Files : drafts[f].revision # 0 /\ drafts'[f].revision = 0 /\ document' # None
       => ~(page.hydrated /\ f \in page.shown.blocks)]_workspaceVars

=============================================================================
