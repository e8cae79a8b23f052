--------------------------- MODULE TerminalStaging ---------------------------
(***************************************************************************)
(* Files and pictures pasted into a terminal of a remote host: they are    *)
(* copied into a private directory of the session (staging.rs) and their   *)
(* paths are typed.  A session keeps its directories in memory and removes *)
(* them when it ends; the ones under the user's home, which outlive a lost *)
(* connection, are removed after a day by whoever prepares one beside them.*)
(* Sessions here are of one account of one host, so that they share the    *)
(* home.  A paste is what one request stages; its roots are one unit, which*)
(* is in its directory as a part (a temporary file, or roots not complete) *)
(* or as a whole.                                                          *)
(***************************************************************************)
EXTENDS Naturals, FiniteSets

CONSTANTS
  Sessions,   \* terminal sessions, open at the start
  Pastes,     \* requests to paste, each run once
  NoDir,      \* the directory of a paste that has none
  MaxDays     \* bound: directories that ever expire

ASSUME StagingAssumption == MaxDays \in Nat /\ NoDir \notin Sessions \X {"tmp", "home"}

VARIABLES
  session,     \* the state of each session; "swept" while it removes its directories
  uploads,     \* SessionEntry.clipboard_uploads
  registered,  \* SessionEntry.clipboard_directories
  paste,       \* the requests and their tasks
  dir,         \* the directories on the host
  days,        \* directories that expired so far
  lapsed,      \* history: removed as expired
  atWork       \* history: running when their session read `registered` to end

stagingVars == <<session, uploads, registered, paste, dir, days, lapsed, atWork>>

-----------------------------------------------------------------------------
Dirs == Sessions \X {"tmp", "home"}
PastePhases ==
  {"idle", "read", "checked", "queued", "preferred", "fallback", "home", "sweeping", "scanning",
   "scanned", "writing", "landed", "undoing", "emptying", "closing", "over", "dropped"}
Running == PastePhases \ {"idle", "read", "checked", "queued", "over", "dropped"}
Outcomes == {"completed", "cancelled", "failed"}
Paste == [phase: PastePhases, session: Sessions, stopped: BOOLEAN,
          source: {"none", "there", "gone"}, known: SUBSET Dirs, dir: Dirs \cup {NoDir},
          created: BOOLEAN, todo: SUBSET Dirs, told: Outcomes \cup {"none"}, outcome: Outcomes]
Directory == [there: BOOLEAN, old: BOOLEAN, part: SUBSET Pastes, whole: SUBSET Pastes]

NoDirectory == [there |-> FALSE, old |-> FALSE, part |-> {}, whole |-> {}]
NewDirectory == [NoDirectory EXCEPT !.there = TRUE]

StagingTypeOK ==
  /\ session \in [Sessions -> {"connected", "closing", "swept", "gone"}]
  /\ uploads \in [Sessions -> SUBSET Pastes] /\ registered \in [Sessions -> SUBSET Dirs]
  /\ paste \in [Pastes -> Paste] /\ dir \in [Dirs -> Directory] /\ days \in Nat
  /\ lapsed \subseteq Pastes /\ atWork \subseteq Pastes

StagingInit ==
  /\ session = [s \in Sessions |-> "connected"]
  /\ uploads = [s \in Sessions |-> {}] /\ registered = [s \in Sessions |-> {}]
  /\ \E of \in [Pastes -> Sessions] : paste = [p \in Pastes |->
       [phase |-> "idle", session |-> of[p], stopped |-> FALSE, source |-> "none", known |-> {},
        dir |-> NoDir, created |-> FALSE, todo |-> {}, told |-> "none", outcome |-> "failed"]]
  /\ dir = [d \in Dirs |-> NoDirectory] /\ days = 0
  /\ lapsed = {} /\ atWork = {}

-----------------------------------------------------------------------------
(* Helpers. *)

Of(p) == paste[p].session
Channel(p) == session[Of(p)] # "gone"
GoOn(p, phase) == paste' = [paste EXCEPT ![p].phase = phase]
FinishUpload(p) == uploads' = [uploads EXCEPT ![Of(p)] = @ \ {p}]
Spooled(p) == IF paste[p].source = "there" THEN "gone" ELSE paste[p].source

\* cleanup_one_clipboard_directory: what staging may have made, then the
\* directory if nothing else is in it; entries made meanwhile would survive.
Emptied(d) == [dir EXCEPT ![d] = NoDirectory]
Within(d, p) == p \in dir[d].part \cup dir[d].whole

\* The paste leads nowhere: its task goes on with undoing what it did.
Undo(p, outcome) ==
  paste' = [paste EXCEPT ![p].phase = "undoing", ![p].outcome = outcome]
\* ... with the directory it made, if it did ...
Empty(p, outcome) ==
  paste' = [paste EXCEPT ![p].phase = IF paste[p].created THEN "emptying" ELSE "closing",
                         ![p].outcome = outcome]
\* ... or has nothing to undo on the host.
GiveUp(p) ==
  paste' = [paste EXCEPT ![p].phase = "closing", ![p].outcome = "failed"]

-----------------------------------------------------------------------------
(* The request. *)

\* The page of the server sends files; their copies there are the handler's,
\* which removes them whenever it ends.  None, or a failure, ends the request.
Upload(p) ==
  /\ paste[p].phase = "idle"
  /\ \E phase \in {"read", "over"} : GoOn(p, phase)
  /\ UNCHANGED <<session, uploads, registered, dir, days, lapsed, atWork>>

\* select_clipboard_payload_kind: files before text before a picture.
PayloadKind(files, text, picture) ==
  IF files THEN "files" ELSE IF text THEN "text" ELSE IF picture THEN "picture" ELSE "empty"

\* The desktop reads its clipboard: files are pasted from where they are, text
\* is typed as it is, a picture is spooled to a file first.
ReadClipboard(p) ==
  /\ paste[p].phase = "idle"
  /\ \E files, text, picture \in BOOLEAN :
       LET kind == PayloadKind(files, text, picture)
       IN \/ kind \in {"files", "picture"}
             /\ paste' = [paste EXCEPT ![p].phase = "read",
                             ![p].source = IF kind = "picture" THEN "there" ELSE "none"]
          \/ GoOn(p, "over")
  /\ UNCHANGED <<session, uploads, registered, dir, days, lapsed, atWork>>

\* Fault: a spooled picture is left behind.
RefuseKeeping(p) == paste' = [paste EXCEPT ![p].phase = "over"]

\* Not started: a spooled picture is removed.
Refuse(p) == paste' = [paste EXCEPT ![p].phase = "over", ![p].source = Spooled(p)]

\* start_terminal_staging asks the session and its uploads ...
Check(p) ==
  /\ paste[p].phase = "read"
  /\ IF session[Of(p)] = "connected" /\ uploads[Of(p)] = {}
     THEN GoOn(p, "checked")
     ELSE Refuse(p)
  /\ UNCHANGED <<session, uploads, registered, dir, days, lapsed, atWork>>

\* ... and registers the paste and queues it, or takes it back when it cannot.
RegisterUpload(p) ==
  /\ paste[p].phase = "checked"
  /\ \/ /\ Channel(p)
        /\ uploads' = [uploads EXCEPT ![Of(p)] = @ \cup {p}]
        /\ GoOn(p, "queued")
     \/ Refuse(p) /\ UNCHANGED uploads
  /\ UNCHANGED <<session, registered, dir, days, lapsed, atWork>>

\* The user stops it; the handler's page is gone, its check fails or its time
\* is over (RemoteTask::drop).  A paste that is not registered is not found.
Stop(p) ==
  /\ p \in uploads[Of(p)] /\ ~paste[p].stopped
  /\ paste' = [paste EXCEPT ![p].stopped = TRUE]
  /\ UNCHANGED <<session, uploads, registered, dir, days, lapsed, atWork>>

\* The session's loop opens a channel for it, or reports it as failed.
Take(p) ==
  /\ paste[p].phase = "queued" /\ session[Of(p)] = "connected"
  /\ \/ /\ paste' = [paste EXCEPT ![p].phase = "preferred", ![p].known = registered[Of(p)]]
        /\ UNCHANGED uploads
     \/ /\ paste' = [paste EXCEPT ![p].phase = "over", ![p].told = "failed",
                                  ![p].source = Spooled(p)]
        /\ FinishUpload(p)
  /\ UNCHANGED <<session, registered, dir, days, lapsed, atWork>>

-----------------------------------------------------------------------------
(* Its directory. *)

\* prepare_private_directory: one that is there must be the session's own.
Prepares(p, d) ==
  /\ dir[d].there => d \in paste[p].known
  /\ dir' = IF dir[d].there THEN dir ELSE [dir EXCEPT ![d] = NewDirectory]
  /\ paste' = [paste EXCEPT ![p].phase = "scanning", ![p].dir = d,
                            ![p].created = ~dir[d].there]

PreparePreferred(p) ==
  /\ paste[p].phase = "preferred" /\ Channel(p)
  /\ \/ Prepares(p, <<Of(p), "tmp">>)
     \/ GoOn(p, "fallback") /\ UNCHANGED dir
  /\ UNCHANGED <<session, uploads, registered, days, lapsed, atWork>>

\* .cache/qterm/clipboard is made where it is missing, or cannot be trusted ...
PrepareHome(p) ==
  /\ paste[p].phase = "fallback" /\ Channel(p)
  /\ GoOn(p, "home") \/ GiveUp(p)
  /\ UNCHANGED <<session, uploads, registered, dir, days, lapsed, atWork>>

\* ... and listed with the ages of what it has ...
ListExpired(p) ==
  /\ paste[p].phase = "home" /\ Channel(p)
  /\ paste' = [paste EXCEPT ![p].phase = "sweeping",
                 ![p].todo = {d \in Sessions \X {"home"} : dir[d].there /\ dir[d].old}]
  /\ UNCHANGED <<session, uploads, registered, dir, days, lapsed, atWork>>

\* ... the expired ones are emptied one by one, whoever's they are ...
SweepExpired(p) ==
  /\ paste[p].phase = "sweeping" /\ Channel(p)
  /\ \E d \in paste[p].todo :
       /\ dir' = Emptied(d)
       /\ lapsed' = lapsed \cup {q \in Pastes : Within(d, q)}
       /\ paste' = [paste EXCEPT ![p].todo = @ \ {d}]
  /\ UNCHANGED <<session, uploads, registered, days, atWork>>

\* ... and the session's own is prepared.
PrepareFallback(p) ==
  /\ paste[p].phase = "sweeping" /\ paste[p].todo = {} /\ Channel(p)
  /\ \/ Prepares(p, <<Of(p), "home">>)
     \/ GiveUp(p) /\ UNCHANGED dir
  /\ UNCHANGED <<session, uploads, registered, days, lapsed, atWork>>

-----------------------------------------------------------------------------
(* Its files. *)

\* scan_terminal_staging_entries: names are given, trees walked, links refused.
Scan(p) ==
  /\ paste[p].phase = "scanning" /\ Channel(p)
  /\ \/ GoOn(p, "scanned") /\ ~paste[p].stopped
     \/ paste[p].stopped /\ Empty(p, "cancelled")
     \/ Empty(p, "failed")
  /\ UNCHANGED <<session, uploads, registered, dir, days, lapsed, atWork>>

\* The roots are not there; the first temporary file or directory is created,
\* for which the staging directory must still be there.
StartWriting(p) ==
  LET d == paste[p].dir
  IN /\ paste[p].phase = "scanned" /\ Channel(p)
     /\ \/ /\ dir[d].there
           /\ dir' = [dir EXCEPT ![d].part = @ \cup {p}, ![d].old = FALSE]
           /\ GoOn(p, "writing")
        \/ Undo(p, "failed") /\ UNCHANGED dir
     /\ UNCHANGED <<session, uploads, registered, days, lapsed, atWork>>

\* The last of its files is complete and is moved to its name.
Land(p) ==
  LET d == paste[p].dir
  IN /\ paste[p].phase = "writing" /\ p \in dir[d].part /\ Channel(p)
     /\ dir' = [dir EXCEPT ![d].part = @ \ {p}, ![d].whole = @ \cup {p}]
     /\ paste' = [paste EXCEPT ![p].phase = "landed", ![p].outcome = "completed"]
     /\ UNCHANGED <<session, uploads, registered, days, lapsed, atWork>>

\* A cancellation heard between two chunks, or a failure: the temporary file and
\* the roots are removed, except the temporary file that could not be closed or moved.
Abort(p) ==
  /\ paste[p].phase = "writing" /\ Channel(p)
  /\ IF paste[p].stopped
     THEN \E outcome \in {"cancelled", "failed"} : Undo(p, outcome)
     ELSE Undo(p, "failed")
  /\ UNCHANGED <<session, uploads, registered, dir, days, lapsed, atWork>>

\* Fault: the directory is emptied whoever made it.
RemoveRootsAndDirectory(p) ==
  LET d == paste[p].dir
  IN /\ paste[p].phase = "undoing" /\ Channel(p)
     /\ dir' \in {dir, [dir EXCEPT ![d].part = @ \ {p}]}
     /\ GoOn(p, "emptying")
     /\ UNCHANGED <<session, uploads, registered, days, lapsed, atWork>>

RemoveRoots(p) ==
  LET d == paste[p].dir
  IN /\ paste[p].phase = "undoing" /\ Channel(p)
     /\ dir' \in {dir, [dir EXCEPT ![d].part = @ \ {p}]}
     /\ Empty(p, paste[p].outcome)
     /\ UNCHANGED <<session, uploads, registered, days, lapsed, atWork>>

\* The directory this paste made goes with it, and what another one put there:
\* it was registered, had expired, and was made again by this one.
EmptyOwn(p) ==
  LET d == paste[p].dir
  IN /\ paste[p].phase = "emptying" /\ Channel(p)
     /\ dir' = Emptied(d)
     /\ GoOn(p, "closing")
     /\ lapsed' = IF paste[p].created /\ d \in registered[Of(p)]
                  THEN lapsed \cup {q \in Pastes : Within(d, q)} ELSE lapsed
     /\ UNCHANGED <<session, uploads, registered, days, atWork>>

\* The connection is gone: every operation fails, the clean-up too.
LoseChannel(p) ==
  /\ paste[p].phase \in Running \ {"landed", "closing"} /\ ~Channel(p)
  /\ GiveUp(p)
  /\ UNCHANGED <<session, uploads, registered, dir, days, lapsed, atWork>>

\* The spooled picture is removed, the outcome told ...
Tell(p) ==
  /\ paste[p].phase \in {"landed", "closing"} /\ paste[p].told = "none"
  /\ paste' = [paste EXCEPT ![p].told = paste[p].outcome, ![p].source = Spooled(p)]
  /\ UNCHANGED <<session, uploads, registered, dir, days, lapsed, atWork>>

\* ... the directory of a completed paste registered, the upload finished.
End(p) ==
  /\ paste[p].phase \in {"landed", "closing"} /\ paste[p].told # "none"
  /\ registered' = IF paste[p].phase = "landed"
                   THEN [registered EXCEPT ![Of(p)] = @ \cup {paste[p].dir}] ELSE registered
  /\ FinishUpload(p)
  /\ GoOn(p, "over")
  /\ UNCHANGED <<session, dir, days, lapsed, atWork>>

-----------------------------------------------------------------------------
(* The session. *)

\* begin_close cancels the uploads; a shell that ends only ends the loop.
Close(s) ==
  /\ session[s] = "connected"
  /\ session' = [session EXCEPT ![s] = "closing"]
  /\ \/ /\ paste' = [p \in Pastes |-> IF p \in uploads[s]
                       THEN [paste[p] EXCEPT !.stopped = TRUE] ELSE paste[p]]
        /\ uploads' = [uploads EXCEPT ![s] = {}]
     \/ UNCHANGED <<paste, uploads>>
  /\ UNCHANGED <<registered, dir, days, lapsed, atWork>>

\* The end of run_terminal_session: the directories known now are emptied ...
SweepRegistered(s) ==
  /\ session[s] = "closing"
  /\ session' = [session EXCEPT ![s] = "swept"]
  /\ atWork' = atWork \cup {p \in Pastes : Of(p) = s /\ paste[p].phase \in Running}
  /\ dir' = [d \in Dirs |-> IF d \in registered[s] THEN NoDirectory ELSE dir[d]]
  /\ UNCHANGED <<uploads, registered, paste, days, lapsed>>

\* ... and the connection is shut, also for tasks still at work; what waits in
\* the control queue is dropped.  A transport may be lost at any time.
Disconnect(s) ==
  /\ session[s] # "gone"
  /\ session' = [session EXCEPT ![s] = "gone"]
  /\ atWork' = IF session[s] = "swept" THEN atWork
               ELSE atWork \cup {p \in Pastes : Of(p) = s}
  /\ paste' = [p \in Pastes |-> IF Of(p) = s /\ paste[p].phase = "queued"
                 THEN [paste[p] EXCEPT !.phase = "dropped"] ELSE paste[p]]
  /\ UNCHANGED <<uploads, registered, dir, days, lapsed>>

\* A day without a change; a paste takes less.
Expire(d) ==
  /\ dir[d].there /\ ~dir[d].old /\ days < MaxDays
  /\ \A p \in Pastes : paste[p].phase \in Running => paste[p].dir # d
  /\ dir' = [dir EXCEPT ![d].old = TRUE]
  /\ days' = days + 1
  /\ UNCHANGED <<session, uploads, registered, paste, lapsed, atWork>>

StagingNext ==
  \/ \E p \in Pastes :
       \/ Upload(p) \/ ReadClipboard(p) \/ Check(p) \/ RegisterUpload(p) \/ Stop(p) \/ Take(p)
       \/ PreparePreferred(p) \/ PrepareHome(p) \/ ListExpired(p) \/ SweepExpired(p)
       \/ PrepareFallback(p) \/ Scan(p) \/ StartWriting(p) \/ Land(p) \/ Abort(p)
       \/ RemoveRoots(p) \/ EmptyOwn(p)
       \/ LoseChannel(p) \/ Tell(p) \/ End(p)
  \/ \E s \in Sessions : Close(s) \/ SweepRegistered(s) \/ Disconnect(s)
  \/ \E d \in Dirs : Expire(d)

StagingSpec == StagingInit /\ [][StagingNext]_stagingVars

-----------------------------------------------------------------------------
(* A path that was typed leads to the whole file for as long as the       *)
(* session is connected: a paste that fails or is stopped later, on the    *)
(* same or on another session, takes nothing with it.  What is removed as  *)
(* expired is excepted, the sweep does not ask whose it is; and what lies  *)
(* in a directory that had expired and was made anew by a paste that then  *)
(* failed, which empties it whoever has stored something there since.      *)
TypedPathsLead ==
  \A p \in Pastes :
    paste[p].told = "completed" /\ session[Of(p)] = "connected" /\ p \notin lapsed
      => p \in dir[paste[p].dir].whole

(* QB-20260829-remote-cli-image-paste REQ-007: a session that ends in      *)
(* order leaves nothing on the host, and no picture stays spooled here     *)
(* when its paste is over.  Pastes at work when the session read its       *)
(* directories are excepted: their own clean-up races with the disconnect. *)
NothingStays ==
  /\ \A p \in Pastes : paste[p].phase = "over" => paste[p].source # "there"
  /\ \A p \in Pastes : session[Of(p)] = "gone" /\ p \notin atWork
       => \A d \in Dirs : ~Within(d, p)
=============================================================================
