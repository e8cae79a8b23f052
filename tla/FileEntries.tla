----------------------------- MODULE FileEntries -----------------------------
(***************************************************************************)
(* The entries of one directory, and the jobs of the file windows on them: *)
(* create, copy, rename, delete and save in a local directory              *)
(* (application/file_service.rs), create, rename and delete over SFTP      *)
(* (transfer/files.rs), and the downloads into a local directory           *)
(* (transfer/upload.rs).  A request comes from the desktop application     *)
(* (src-tauri commands/files.rs) or from a page of the server (files.rs,   *)
(* local_files.rs); nothing keeps two jobs apart, and other programs put   *)
(* entries beside theirs.                                                  *)
(* A thing is a file or a folder under one of the names, or a file in such *)
(* a folder; it is a number, the larger the later it was made.  RemoteFiles*)
(* has the jobs that write a remote file in several steps.                 *)
(***************************************************************************)
EXTENDS Naturals, FiniteSets, Functions

CONSTANTS
  FileJobs,   \* jobs, each run once
  Entries,     \* names in the directory
  MaxThings    \* bound: things ever made

ASSUME EntriesAssumption == MaxThings \in Nat /\ MaxThings >= 2 /\ Cardinality(Entries) >= 2

VARIABLES
  side,     \* "local" or "remote": where the directory is
  client,   \* "desktop" or "server": what the requests come through
  session,  \* the session of a remote directory: "connected" or "closed"
  top,      \* the thing under each name, 0 for none
  inside,   \* the files of the folder under each name
  folders,  \* the things that are folders
  partial,  \* the file under the fixed partial name beside each name, 0 for none
  made,     \* the number of things made so far
  work      \* the jobs

directory == <<top, inside, folders, partial, made>>
entryVars == <<side, client, session, directory, work>>

-----------------------------------------------------------------------------
Thing == 1..MaxThings
LocalKinds == {"create", "createFolder", "copy", "rename", "delete", "save"}
RemoteKinds == {"create", "createFolder", "rename", "delete"}
Downloads == {"download", "downloadFolder"}
Ended == {"done", "failed", "refused", "lost"}
Steps == {"asked", "editing", "queued", "open", "ready", "copying", "scanned", "emptied",
          "writing", "filling"} \cup Ended
Work == [kind: LocalKinds \cup Downloads, name: Entries, source: Entries,
         step: Steps, own: 0..MaxThings,
         saw: SUBSET Thing,    \* what its last look found under the name
         may: SUBSET Thing]    \* what it was asked to remove or replace

\* Everything that can be found in the directory.
Things == ((Range(top) \ {0}) \cup UNION Range(inside))
Under(n) == (IF top[n] = 0 THEN {} ELSE {top[n]}) \cup inside[n]
IsFolder(n) == top[n] \in folders
IsFile(n) == top[n] # 0 /\ ~IsFolder(n)
Room == made < MaxThings
New == made + 1

EntryTypeOK ==
  /\ side \in {"local", "remote"} /\ client \in {"desktop", "server"}
  /\ session \in {"connected", "closed"}
  /\ top \in [Entries -> 0..MaxThings] /\ inside \in [Entries -> SUBSET Thing]
  /\ folders \subseteq Thing /\ partial \in [Entries -> 0..MaxThings]
  /\ made \in 0..MaxThings /\ work \in [FileJobs -> Work]

EntryInit ==
  /\ side \in {"local", "remote"} /\ client \in {"desktop", "server"}
  /\ session = "connected"
  /\ \E first \in Entries, folder \in BOOLEAN :
       /\ top = [n \in Entries |-> IF n = first THEN 1 ELSE 0]
       /\ folders = IF folder THEN {1} ELSE {}
       /\ inside = [n \in Entries |-> IF folder /\ n = first THEN {2} ELSE {}]
       /\ made = IF folder THEN 2 ELSE 1
  /\ partial = [n \in Entries |-> 0]
  /\ LET kinds == IF side = "remote" THEN RemoteKinds
                  ELSE IF client = "desktop" THEN LocalKinds \cup Downloads
                  ELSE LocalKinds
     IN work \in [FileJobs -> {w \in [kind: kinds, name: Entries, source: Entries,
                                       step: {"asked"}, own: {0}, saw: {{}}, may: {{}}] :
                                  w.source # w.name}]

-----------------------------------------------------------------------------
(* Helpers. *)

Doing(j, kind, step) == work[j].kind = kind /\ work[j].step = step
Reached(j, s) == side = s /\ work[j].step = "open"
Become(j, step) == work' = [work EXCEPT ![j].step = step]
BecomeMaking(j, step) == work' = [work EXCEPT ![j].step = step, ![j].own = New]
BecomeSeeing(j, step) == work' = [work EXCEPT ![j].step = step, ![j].saw = Under(work[j].name)]
Same == UNCHANGED <<side, client, session>>
Still == UNCHANGED <<side, client, session, directory>>

\* A new file or folder under the name `n`.
Put(n, folder) ==
  /\ top' = [top EXCEPT ![n] = New]
  /\ inside' = [inside EXCEPT ![n] = {}]
  /\ folders' = IF folder THEN folders \cup {New} ELSE folders
  /\ made' = New
\* Nothing is under the name `n`.
Clear(n) ==
  /\ top' = [top EXCEPT ![n] = 0]
  /\ inside' = [inside EXCEPT ![n] = {}]
  /\ UNCHANGED <<folders, made>>
\* What is under `m` is found under `n`, in the place of a file that was there.
MoveTo(m, n) ==
  /\ top' = [top EXCEPT ![n] = top[m], ![m] = 0]
  /\ inside' = [inside EXCEPT ![n] = inside[m], ![m] = {}]
  /\ UNCHANGED <<folders, made>>

-----------------------------------------------------------------------------
(* How a request reaches the directory. *)

\* A save starts from a text that was read before (read_local).
ReadText(j) ==
  /\ Doing(j, "save", "asked")
  /\ \/ /\ IsFile(work[j].name)
        /\ work' = [work EXCEPT ![j].step = "editing", ![j].may = {top[work[j].name]}]
     \/ Become(j, "failed")
  /\ Still

Asking(j) == work[j].kind \notin Downloads
             /\ work[j].step = IF work[j].kind = "save" THEN "editing" ELSE "asked"

\* SshSessionManager::mutate_entry: the session must be connected and its
\* queue have room.
Enqueue(j) ==
  \/ session = "connected" /\ Become(j, "queued")
  \/ Become(j, "refused")

\* files_write_text, files_copy_entry ... files_delete_entry of the desktop,
\* for a session or for the machine.
AskDesktop(j) ==
  /\ client = "desktop" /\ Asking(j)
  /\ IF side = "remote" THEN Enqueue(j) ELSE \E step \in {"open", "refused"} : Become(j, step)
  /\ Still

\* The same of the server: the session must be the asker's.
AskServer(j) ==
  /\ client = "server" /\ side = "remote" /\ Asking(j)
  /\ Enqueue(j)
  /\ Still

\* ... and for the server's own machine: the path must be absolute.
AskServerLocal(j) ==
  /\ client = "server" /\ side = "local" /\ Asking(j)
  /\ \E step \in {"open", "refused"} : Become(j, step)
  /\ Still

\* run_files_session takes the request and opens a channel for it.
OpenChannel(j) ==
  /\ work[j].step = "queued" /\ session = "connected"
  /\ \E step \in {"open", "failed"} : Become(j, step)
  /\ Still

\* The session ends: what waits is dropped with its answer, and what is at
\* work stops where it is.
EndSession ==
  /\ side = "remote" /\ session = "connected"
  /\ session' = "closed"
  /\ work' = [j \in FileJobs |->
       IF work[j].step \in Ended \cup {"asked"} THEN work[j]
       ELSE [work[j] EXCEPT !.step = IF @ = "queued" THEN "failed" ELSE "lost"]]
  /\ UNCHANGED <<side, client, directory>>

-----------------------------------------------------------------------------
(* create *)

\* create_local_entry: create_new and create_dir make nothing where there is
\* something already.
CreateLocal(j) ==
  /\ Reached(j, "local") /\ work[j].kind \in {"create", "createFolder"}
  /\ \/ /\ top[work[j].name] = 0 /\ Room
        /\ Put(work[j].name, work[j].kind = "createFolder")
        /\ BecomeMaking(j, "done")
     \/ Become(j, "failed") /\ UNCHANGED <<top, inside, folders, made>>
  /\ Same /\ UNCHANGED partial

\* create_remote_entry: try_exists first,
LookCreate(j) ==
  /\ Reached(j, "remote") /\ work[j].kind \in {"create", "createFolder"}
  /\ BecomeSeeing(j, IF top[work[j].name] = 0 THEN "ready" ELSE "failed")
  /\ Still

\* ... then create_dir, which makes nothing where there is something,
CreateRemoteFolder(j) ==
  /\ Doing(j, "createFolder", "ready")
  /\ \/ /\ top[work[j].name] = 0 /\ Room
        /\ Put(work[j].name, TRUE)
        /\ BecomeMaking(j, "done")
     \/ Become(j, "failed") /\ UNCHANGED <<top, inside, folders, made>>
  /\ Same /\ UNCHANGED partial

\* ... or create, which opens the file that came meanwhile and empties it.
CreateRemoteFile(j) ==
  /\ side = "remote" /\ Doing(j, "create", "ready")
  /\ \/ /\ ~IsFolder(work[j].name) /\ Room
        /\ Put(work[j].name, FALSE)
        /\ BecomeMaking(j, "done")
     \/ Become(j, "failed") /\ UNCHANGED <<top, inside, folders, made>>
  /\ Same /\ UNCHANGED partial

-----------------------------------------------------------------------------
(* copy_local_file *)

\* The source must be a file; the target is created where nothing is.
CopyOpen(j) ==
  /\ Reached(j, "local") /\ work[j].kind = "copy"
  /\ \/ /\ IsFile(work[j].source) /\ top[work[j].name] = 0 /\ Room
        /\ Put(work[j].name, FALSE)
        /\ BecomeMaking(j, "copying")
     \/ Become(j, "failed") /\ UNCHANGED <<top, inside, folders, made>>
  /\ Same /\ UNCHANGED partial

CopyEnd(j) ==
  /\ Doing(j, "copy", "copying")
  /\ Become(j, "done")
  /\ Still

\* A copy that fails removes the file under the target's name.
CopyFails(j) ==
  /\ Doing(j, "copy", "copying")
  /\ IF IsFile(work[j].name) THEN Clear(work[j].name)
     ELSE UNCHANGED <<top, inside, folders, made>>
  /\ Become(j, "failed")
  /\ Same /\ UNCHANGED partial

-----------------------------------------------------------------------------
(* rename *)

\* Fault: the target is not looked for.
RenameUnchecked(j) ==
  /\ Reached(j, "local") /\ work[j].kind = "rename"
  /\ BecomeSeeing(j, IF top[work[j].source] # 0 THEN "ready" ELSE "failed")
  /\ Still

\* rename_local_entry: the source is there and the target is not,
LookRename(j) ==
  /\ Reached(j, "local") /\ work[j].kind = "rename"
  /\ BecomeSeeing(j, IF top[work[j].source] # 0 /\ top[work[j].name] = 0
                     THEN "ready" ELSE "failed")
  /\ Still

\* ... then the file system renames: a file in the place of a file, a folder
\* in the place of an empty folder.
RenameLocal(j) ==
  /\ side = "local" /\ Doing(j, "rename", "ready")
  /\ LET m == work[j].source
         n == work[j].name
     IN \/ /\ top[m] # 0
           /\ \/ top[n] = 0
              \/ IsFile(m) /\ IsFile(n)
              \/ IsFolder(m) /\ IsFolder(n) /\ inside[n] = {}
           /\ MoveTo(m, n)
           /\ Become(j, "done")
        \/ Become(j, "failed") /\ UNCHANGED <<top, inside, folders, made>>
  /\ Same /\ UNCHANGED partial

\* rename_remote_entry: only the target is looked for,
LookRenameRemote(j) ==
  /\ Reached(j, "remote") /\ work[j].kind = "rename"
  /\ BecomeSeeing(j, IF top[work[j].name] = 0 THEN "ready" ELSE "failed")
  /\ Still

\* ... and SSH_FXP_RENAME puts nothing in the place of something.
RenameRemote(j) ==
  /\ side = "remote" /\ Doing(j, "rename", "ready")
  /\ \/ /\ top[work[j].source] # 0 /\ top[work[j].name] = 0
        /\ MoveTo(work[j].source, work[j].name)
        /\ Become(j, "done")
     \/ Become(j, "failed") /\ UNCHANGED <<top, inside, folders, made>>
  /\ Same /\ UNCHANGED partial

-----------------------------------------------------------------------------
(* delete *)

\* The metadata of the entry, and of a folder everything in it
\* (validate_local_tree; the listing of delete_remote_entry).
LookDelete(j) ==
  /\ work[j].kind = "delete" /\ (Reached(j, "local") \/ Reached(j, "remote"))
  /\ \/ /\ top[work[j].name] # 0
        /\ work' = [work EXCEPT ![j].step = IF IsFolder(work[j].name) THEN "scanned" ELSE "ready",
                                ![j].saw = Under(work[j].name),
                                ![j].may = Under(work[j].name)]
     \/ Become(j, "failed")
  /\ Still

\* remove_file, on either side: whichever file has the name by now.
RemoveFile(j) ==
  /\ Doing(j, "delete", "ready")
  /\ \/ /\ IsFile(work[j].name)
        /\ Clear(work[j].name)
        /\ Become(j, "done")
     \/ Become(j, "failed") /\ UNCHANGED <<top, inside, folders, made>>
  /\ Same /\ UNCHANGED partial

\* delete_local_entry: remove_dir_all, with what came into the folder since.
RemoveTree(j) ==
  /\ side = "local" /\ Doing(j, "delete", "scanned")
  /\ \/ /\ IsFolder(work[j].name)
        /\ Clear(work[j].name)
        /\ Become(j, "done")
     \/ \E gone \in SUBSET inside[work[j].name] :
          /\ inside' = [inside EXCEPT ![work[j].name] = @ \ gone]
          /\ Become(j, "failed")
          /\ UNCHANGED <<top, folders, made>>
  /\ Same /\ UNCHANGED partial

\* delete_remote_entry: the files that were listed go one by one, and the
\* first that cannot be removed ends the job.
RemoveListed(j) ==
  /\ side = "remote" /\ Doing(j, "delete", "scanned")
  /\ \E gone \in SUBSET (inside[work[j].name] \cap work[j].saw) :
       /\ inside' = [inside EXCEPT ![work[j].name] = @ \ gone]
       /\ Become(j, IF gone = work[j].saw \ folders THEN "emptied" ELSE "failed")
  /\ Same /\ UNCHANGED <<top, folders, partial, made>>

\* ... then the folder, which must be empty.
RemoveFolder(j) ==
  /\ Doing(j, "delete", "emptied")
  /\ \/ /\ IsFolder(work[j].name) /\ inside[work[j].name] = {}
        /\ Clear(work[j].name)
        /\ Become(j, "done")
     \/ Become(j, "failed") /\ UNCHANGED <<top, inside, folders, made>>
  /\ Same /\ UNCHANGED partial

-----------------------------------------------------------------------------
(* write_local_text *)

\* The text is read again and compared with what was loaded.
LookSave(j) ==
  /\ Reached(j, "local") /\ work[j].kind = "save"
  /\ BecomeSeeing(j, IF Under(work[j].name) = work[j].may THEN "ready" ELSE "failed")
  /\ Still

\* AtomicWriteFile: the new file takes the name, whatever file has it now.
CommitSave(j) ==
  /\ Doing(j, "save", "ready")
  /\ \/ /\ ~IsFolder(work[j].name) /\ Room
        /\ Put(work[j].name, FALSE)
        /\ BecomeMaking(j, "done")
     \/ Become(j, "failed") /\ UNCHANGED <<top, inside, folders, made>>
  /\ Same /\ UNCHANGED partial

-----------------------------------------------------------------------------
(* download_file, to a path of the save dialog (PickedPaths). *)

\* The dialog asked about the file that has the name.
Confirm(j) ==
  /\ work[j].kind \in Downloads /\ work[j].step = "asked"
  /\ work' = [work EXCEPT ![j].step = "open", ![j].saw = Under(work[j].name),
                          ![j].may = IF work[j].kind = "download" THEN Under(work[j].name) ELSE {}]
  /\ Still

\* File::create empties the partial file that may be there.
CreatePartial(j) ==
  /\ Doing(j, "download", "open")
  /\ \/ /\ partial[work[j].name] = 0 /\ Room
        /\ partial' = [partial EXCEPT ![work[j].name] = New]
        /\ made' = New
        /\ Become(j, "writing")
     \/ /\ partial[work[j].name] # 0
        /\ Become(j, "writing") /\ UNCHANGED <<partial, made>>
     \/ Become(j, "failed") /\ UNCHANGED <<partial, made>>
  /\ Same /\ UNCHANGED <<top, inside, folders>>

\* The last bytes are flushed and the partial file takes the name.
PlacePartial(j) ==
  /\ Doing(j, "download", "writing")
  /\ partial[work[j].name] # 0 /\ ~IsFolder(work[j].name)
  /\ top' = [top EXCEPT ![work[j].name] = partial[work[j].name]]
  /\ partial' = [partial EXCEPT ![work[j].name] = 0]
  /\ Become(j, "done")
  /\ Same /\ UNCHANGED <<inside, folders, made>>

\* A copy that fails or is stopped removes it; a failing flush or rename does not.
DropPartial(j) ==
  /\ Doing(j, "download", "writing")
  /\ \/ partial' = [partial EXCEPT ![work[j].name] = 0]
     \/ UNCHANGED partial
  /\ Become(j, "failed")
  /\ Same /\ UNCHANGED <<top, inside, folders, made>>

-----------------------------------------------------------------------------
(* download_directory *)

\* try_exists, the scan of the remote folder, which may fail or be stopped.
LookFolder(j) ==
  /\ Doing(j, "downloadFolder", "open")
  /\ \/ BecomeSeeing(j, IF top[work[j].name] = 0 THEN "ready" ELSE "failed")
     \/ Become(j, "failed")
  /\ Still

\* create_dir makes nothing where there is something.
MakeFolder(j) ==
  /\ Doing(j, "downloadFolder", "ready")
  /\ \/ /\ top[work[j].name] = 0 /\ Room
        /\ Put(work[j].name, TRUE)
        /\ BecomeMaking(j, "filling")
     \/ Become(j, "failed") /\ UNCHANGED <<top, inside, folders, made>>
  /\ Same /\ UNCHANGED partial

\* A file gets its name when it is complete.
FillFolder(j) ==
  /\ Doing(j, "downloadFolder", "filling")
  /\ IsFolder(work[j].name) /\ Room
  /\ inside' = [inside EXCEPT ![work[j].name] = @ \cup {New}]
  /\ made' = New
  /\ Become(j, "done")
  /\ Same /\ UNCHANGED <<top, folders, partial>>

\* Whatever fails or is stopped: remove_dir_all of the folder with the name.
ClearFolder(j) ==
  /\ Doing(j, "downloadFolder", "filling")
  /\ IF IsFolder(work[j].name) THEN Clear(work[j].name)
     ELSE UNCHANGED <<top, inside, folders, made>>
  /\ Become(j, "failed")
  /\ Same /\ UNCHANGED partial

-----------------------------------------------------------------------------
\* Another program puts a file in the directory or in one of its folders.
OtherPuts ==
  /\ Room
  /\ \E n \in Entries :
       \/ top[n] = 0 /\ Put(n, FALSE)
       \/ /\ IsFolder(n)
          /\ inside' = [inside EXCEPT ![n] = @ \cup {New}]
          /\ made' = New /\ UNCHANGED <<top, folders>>
  /\ Same /\ UNCHANGED <<partial, work>>

EntryNext ==
  \/ \E j \in FileJobs :
       \/ ReadText(j) \/ AskDesktop(j) \/ AskServer(j) \/ AskServerLocal(j) \/ OpenChannel(j)
       \/ CreateLocal(j) \/ LookCreate(j) \/ CreateRemoteFolder(j) \/ CreateRemoteFile(j)
       \/ CopyOpen(j) \/ CopyEnd(j) \/ CopyFails(j)
       \/ LookRename(j) \/ RenameLocal(j) \/ LookRenameRemote(j) \/ RenameRemote(j)
       \/ LookDelete(j) \/ RemoveFile(j) \/ RemoveTree(j) \/ RemoveListed(j) \/ RemoveFolder(j)
       \/ LookSave(j) \/ CommitSave(j)
       \/ Confirm(j) \/ CreatePartial(j) \/ PlacePartial(j) \/ DropPartial(j)
       \/ LookFolder(j) \/ MakeFolder(j) \/ FillFolder(j) \/ ClearFolder(j)
  \/ EndSession \/ OtherPuts

EntrySpec == EntryInit /\ [][EntryNext]_entryVars

-----------------------------------------------------------------------------
\* Jobs that act by name after their last look: what came under the name since
\* may be lost.  Jobs that look and act in one step are not among them,
\* nor is a remote deletion as far as the files of a folder go.
ActsLate(w, t) ==
  \/ w.kind \in {"save", "download", "downloadFolder"}
  \/ w.kind = "copy" /\ w.step = "copying"
  \/ w.kind = "delete" /\ (side = "local" \/ t \in Range(top))
  \/ w.kind = "create" /\ side = "remote"
  \/ w.kind = "rename" /\ side = "local"

(* Nothing is lost that no job was asked to remove or replace: not what    *)
(* was under a job's name when it looked, and what came since only through *)
(* the jobs that act on a name after the look; a file that came into a     *)
(* folder while it is deleted on the host survives, and so does what came  *)
(* under a name that a new local entry, a new folder or a remote rename    *)
(* was meant for.                                                          *)
OnlyAskedIsLost ==
  [][\A t \in Things \ Things' : \E j \in FileJobs :
       /\ work'[j] # work[j]
       /\ \/ t \in work[j].may
          \/ t \notin work[j].saw /\ ActsLate(work[j], t)]_entryVars
=============================================================================
