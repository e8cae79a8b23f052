----------------------------- MODULE RemoteFiles -----------------------------
(***************************************************************************)
(* Jobs that write one file of a remote host over SFTP, each on a channel  *)
(* of its own and none aware of the others (ssh/client/transfer):          *)
(*   - "upload"  one file (upload_file), through a temporary file whose    *)
(*               name is the target's plus a fixed suffix;                 *)
(*   - "entries" a selection (upload_entries), through a temporary file of *)
(*               its own; a failure deletes the roots it was to create;    *)
(*   - "copy"    of a file beside it (copy_remote_file);                   *)
(*   - "save"    of an edited text (write_remote_text_file): the target is *)
(*               compared with the edited revision, moved aside, replaced. *)
(* The directory is the target's name, the fixed name of the partial file  *)
(* and the private names of each job; a name leads to a file, and an open  *)
(* handle keeps leading to its file when the name is moved.  A file is     *)
(* Chunks writes long; each chunk remembers whose it is, so a file is      *)
(* whole when all its chunks are of one author.                            *)
(* A name is moved only where there is none (SSH_FXP_RENAME).              *)
(***************************************************************************)
EXTENDS Naturals, FiniteSets

CONSTANTS
  Jobs,     \* SFTP jobs, each run once
  Kinds,    \* what a job may be: a subset of AllKinds
  Old,      \* the file that may be there at the start
  Other,    \* a file another program of the host writes
  None,     \* no file, no author
  Chunks    \* bound: writes a file takes

AllKinds == {"upload", "entries", "copy", "save"}
ASSUME JobsAssumption == Kinds \subseteq AllKinds /\ Chunks \in Nat \ {0}
ASSUME NamesAssumption == Old # Other /\ None \notin Jobs \cup {Old, Other}
                          /\ {Old, Other} \cap Jobs = {}

VARIABLES
  target,   \* the file the target's name leads to
  part,     \* the file `<target>.terminal-demo.part` leads to
  temp,     \* ... and the private temporary name of each job
  backup,   \* ... and the private backup name of each save
  data,     \* the content of each file
  job,      \* the jobs
  raced,    \* history: saves whose target changed between last check and rename
  swept     \* history: a selection's clean-up removed a file it did not create

names == <<target, part, temp, backup>>
vars == <<target, part, temp, backup, data, job, raced, swept>>

-----------------------------------------------------------------------------
Files == Jobs \cup {Old, Other}
Content == [1..Chunks -> Files \cup {None}]
Phases == {"idle", "editing", "checked", "writing", "written", "fresh", "moved",
           "placed", "done", "failed", "cancelled"}
Job == [kind: Kinds, phase: Phases, file: Files \cup {None}, chunk: 0..Chunks,
        base: Content]

Blank == [k \in 1..Chunks |-> None]
WholeOf(a) == [k \in 1..Chunks |-> a]
IsWhole(f) == f # None /\ \E a \in Files : data[f] = WholeOf(a)

TypeOK ==
  /\ target \in Files \cup {None} /\ part \in Files \cup {None}
  /\ temp \in [Jobs -> Files \cup {None}] /\ backup \in [Jobs -> Files \cup {None}]
  /\ data \in [Files -> Content]
  /\ job \in [Jobs -> Job]
  /\ raced \subseteq Jobs /\ swept \in BOOLEAN

Init ==
  /\ target \in {Old, None} /\ part = None
  /\ temp = [j \in Jobs |-> None] /\ backup = [j \in Jobs |-> None]
  /\ data = [f \in Files |-> IF f \in Jobs THEN Blank ELSE WholeOf(f)]
  /\ \E kind \in [Jobs -> Kinds] :
       job = [j \in Jobs |-> [kind |-> kind[j], phase |-> "idle", file |-> None,
                              chunk |-> 0, base |-> Blank]]
  /\ raced = {} /\ swept = FALSE

-----------------------------------------------------------------------------
(* Helpers. *)

Is(j, kind, phase) == job[j].kind = kind /\ job[j].phase = phase
Goto(j, phase) == job' = [job EXCEPT ![j].phase = phase]

\* The target now reads `text`: a save about to rename it has not seen that.
Retarget(text) ==
  raced' = raced \cup {j \in Jobs : Is(j, "save", "fresh") /\ job[j].base # text}

\* sftp.create: CREATE | TRUNCATE | WRITE opens what is there, emptied.
Opened(j, f) == IF f = None THEN j ELSE f

-----------------------------------------------------------------------------
(* Putting a new file: upload_file, upload_entries, copy_remote_file. *)

Puts == {"upload", "entries", "copy"}

\* try_exists: a target that is there fails the job before it did anything.
CheckAbsent(j) ==
  /\ job[j].kind \in Puts /\ job[j].phase = "idle"
  /\ Goto(j, IF target = None THEN "checked" ELSE "failed")
  /\ UNCHANGED <<names, data, raced, swept>>

\* upload_file creates `<target>.terminal-demo.part`.
CreatePart(j) ==
  /\ Is(j, "upload", "checked")
  /\ LET f == Opened(j, part)
     IN /\ part' = f
        /\ data' = [data EXCEPT ![f] = Blank]
        /\ job' = [job EXCEPT ![j].phase = "writing", ![j].file = f]
  /\ UNCHANGED <<target, temp, backup, raced, swept>>

\* The others create a temporary file of a random name.
CreateTemp(j) ==
  /\ job[j].kind # "upload" /\ job[j].phase = "checked"
  /\ temp' = [temp EXCEPT ![j] = j]
  /\ job' = [job EXCEPT ![j].phase = "writing", ![j].file = j]
  /\ UNCHANGED <<target, part, backup, data, raced, swept>>

\* Fault: the copy ends one chunk late.
WriteChunkPast(j) ==
  /\ job[j].phase = "writing"
  /\ LET k == job[j].chunk + 1
     IN /\ data' = [data EXCEPT ![job[j].file][k] = j]
        /\ job' = [job EXCEPT ![j].chunk = k,
                              ![j].phase = IF k > Chunks THEN "written" ELSE @]
  /\ UNCHANGED <<names, raced, swept>>

\* copy_with_progress: one chunk, at the job's own offset, into whatever
\* file its handle leads to; the last one closes the file.
WriteChunk(j) ==
  /\ job[j].phase = "writing"
  /\ LET k == job[j].chunk + 1
         after == [data EXCEPT ![job[j].file][k] = j]
     IN /\ data' = after
        /\ job' = [job EXCEPT ![j].chunk = k,
                              ![j].phase = IF k = Chunks THEN "written" ELSE @]
        /\ IF job[j].file = target THEN Retarget(after[target]) ELSE UNCHANGED raced
  /\ UNCHANGED <<names, swept>>

\* Fault: a file gets its name while it is being written.
PublishInPlace(j) ==
  /\ job[j].kind \in {"entries", "copy"} /\ job[j].phase = "writing"
  /\ target = None
  /\ target' = temp[j] /\ temp' = [temp EXCEPT ![j] = None]
  /\ Retarget(data[temp[j]])
  /\ Goto(j, "done")
  /\ UNCHANGED <<part, backup, data, swept>>

\* rename(temporary, target), which fails when the target is there by now.
PublishPart(j) ==
  /\ Is(j, "upload", "written")
  /\ part # None /\ target = None
  /\ target' = part /\ part' = None
  /\ Retarget(data[part])
  /\ Goto(j, "done")
  /\ UNCHANGED <<temp, backup, data, swept>>

PublishTemp(j) ==
  /\ job[j].kind \in {"entries", "copy"} /\ job[j].phase = "written"
  /\ target = None
  /\ target' = temp[j] /\ temp' = [temp EXCEPT ![j] = None]
  /\ Retarget(data[temp[j]])
  /\ Goto(j, "done")
  /\ UNCHANGED <<part, backup, data, swept>>

-----------------------------------------------------------------------------
(* How a put ends otherwise: `how` is "failed" or "cancelled". *)

\* The name of the file being written is removed.
DropPart(j) ==
  /\ Is(j, "upload", "writing")
  /\ part' = None
  /\ \E how \in {"failed", "cancelled"} : Goto(j, how)
  /\ UNCHANGED <<target, temp, backup, data, raced, swept>>

\* A failing close or rename returns without removing it.
KeepPart(j) ==
  /\ Is(j, "upload", "written")
  /\ Goto(j, "failed")
  /\ UNCHANGED <<names, data, raced, swept>>

DropTemp(j) ==
  /\ job[j].kind = "copy" /\ job[j].phase \in {"writing", "written"}
  /\ temp' = [temp EXCEPT ![j] = None]
  /\ Goto(j, "failed")
  /\ UNCHANGED <<target, part, backup, data, raced, swept>>

\* upload_entries: whatever fails once the roots were found absent, every
\* root is deleted.  The temporary file goes too while it is being copied.
DeleteRoots(j) ==
  /\ job[j].kind = "entries" /\ job[j].phase \in {"checked", "writing", "written"}
  /\ temp' = IF job[j].phase = "writing" THEN [temp EXCEPT ![j] = None] ELSE temp
  /\ target' = None
  /\ Retarget(Blank)
  /\ swept' = (swept \/ target # None)
  /\ \E how \in (IF job[j].phase = "writing" THEN {"failed", "cancelled"}
                 ELSE {"failed"}) : Goto(j, how)
  /\ UNCHANGED <<part, backup, data>>

\* Creating the temporary file of the others fails.
CreateFails(j) ==
  /\ job[j].kind # "entries" /\ job[j].phase = "checked"
  /\ Goto(j, "failed")
  /\ UNCHANGED <<names, data, raced, swept>>

-----------------------------------------------------------------------------
(* Saving a text: write_remote_text_file. *)

\* The editor loads the text and its revision.
Load(j) ==
  /\ Is(j, "save", "idle")
  /\ target # None
  /\ job' = [job EXCEPT ![j].phase = "editing", ![j].base = data[target]]
  /\ UNCHANGED <<names, data, raced, swept>>

Matches(j) == target # None /\ data[target] = job[j].base
\* The first comparison; a conflict or a missing file ends the save.
Compare(j) ==
  /\ Is(j, "save", "editing")
  /\ Goto(j, IF Matches(j) THEN "checked" ELSE "failed")
  /\ UNCHANGED <<names, data, raced, swept>>

\* Fault: the text is compared once, before the new one is written.
CompareOnce(j) ==
  /\ Is(j, "save", "written")
  /\ Goto(j, "fresh")
  /\ UNCHANGED <<names, data, raced, swept>>

\* The second comparison, once the new text is in the temporary file.
CompareAgain(j) ==
  /\ Is(j, "save", "written")
  /\ IF Matches(j)
     THEN Goto(j, "fresh") /\ UNCHANGED temp
     ELSE Goto(j, "failed") /\ temp' = [temp EXCEPT ![j] = None]
  /\ UNCHANGED <<target, part, backup, data, raced, swept>>

\* rename(target, backup)
MoveAside(j) ==
  /\ Is(j, "save", "fresh")
  /\ target # None
  /\ backup' = [backup EXCEPT ![j] = target] /\ target' = None
  /\ Goto(j, "moved")
  /\ UNCHANGED <<part, temp, data, raced, swept>>

\* rename(temporary, target)
Replace(j) ==
  /\ Is(j, "save", "moved")
  /\ target = None
  /\ target' = temp[j] /\ temp' = [temp EXCEPT ![j] = None]
  /\ Retarget(data[temp[j]])
  /\ Goto(j, "placed")
  /\ UNCHANGED <<part, backup, data, swept>>

\* The backup is removed, the text is read back.
Finish(j) ==
  /\ Is(j, "save", "placed")
  /\ backup' = [backup EXCEPT ![j] = None]
  /\ Goto(j, "done")
  /\ UNCHANGED <<target, part, temp, data, raced, swept>>

\* A failure before the target was touched removes the temporary file.
AbandonSave(j) ==
  /\ job[j].kind = "save" /\ job[j].phase \in {"writing", "written", "fresh"}
  /\ temp' = [temp EXCEPT ![j] = None]
  /\ Goto(j, "failed")
  /\ UNCHANGED <<target, part, backup, data, raced, swept>>

\* Fault: the backup is removed without putting it back.
DiscardBackup(j) ==
  /\ Is(j, "save", "moved")
  /\ temp' = [temp EXCEPT ![j] = None] /\ backup' = [backup EXCEPT ![j] = None]
  /\ Goto(j, "failed")
  /\ UNCHANGED <<target, part, data, raced, swept>>

\* The new text cannot be put in place: rename(backup, target), whose own
\* failure is ignored, and the temporary file goes.
PutBack(j) ==
  /\ Is(j, "save", "moved")
  /\ IF target = None
     THEN /\ target' = backup[j] /\ backup' = [backup EXCEPT ![j] = None]
          /\ Retarget(data[backup[j]])
     ELSE UNCHANGED <<target, backup, raced>>
  /\ temp' = [temp EXCEPT ![j] = None]
  /\ Goto(j, "failed")
  /\ UNCHANGED <<part, data, swept>>

-----------------------------------------------------------------------------
(* The connection of a job is lost: nothing it would still do happens. *)
Lose(j) ==
  /\ job[j].phase \notin {"idle", "done", "failed", "cancelled"}
  /\ Goto(j, "failed")
  /\ UNCHANGED <<names, data, raced, swept>>

\* Another program creates the target, or rewrites it in place.
OtherCreates ==
  /\ target = None
  /\ target' = Other
  /\ \A j \in Jobs : backup[j] # Other
  /\ Retarget(data[Other])
  /\ UNCHANGED <<part, temp, backup, data, job, swept>>

OtherEdits ==
  /\ target # None
  /\ data' = [data EXCEPT ![target] = WholeOf(Other)]
  /\ Retarget(WholeOf(Other))
  /\ UNCHANGED <<names, job, swept>>

Next ==
  \/ \E j \in Jobs :
       \/ CheckAbsent(j) \/ CreatePart(j) \/ CreateTemp(j) \/ WriteChunk(j)
       \/ PublishPart(j) \/ PublishTemp(j)
       \/ DropPart(j) \/ KeepPart(j) \/ DropTemp(j) \/ DeleteRoots(j) \/ CreateFails(j)
       \/ Load(j) \/ Compare(j) \/ CompareAgain(j) \/ MoveAside(j) \/ Replace(j)
       \/ Finish(j) \/ AbandonSave(j) \/ PutBack(j) \/ Lose(j)
  \/ OtherCreates \/ OtherEdits

Spec == Init /\ [][Next]_vars

-----------------------------------------------------------------------------
\* Two plain uploads to one target share the partial file (see UploadIsWhole).
PartShared == \E i, j \in Jobs : i # j /\ job[i].kind = "upload" /\ job[j].kind = "upload"

(* Whoever opens the target finds a whole file, whatever jobs are writing, *)
(* failing or cut off at that moment: a file gets its name only when all   *)
(* of it is written, and no job still holds a handle to it.                *)
TargetIsWhole == PartShared \/ target = None \/ IsWhole(target)

(* A save never loses the file: once the target stood, a whole file can be *)
(* found under its name or under a backup, even when the connection ends   *)
(* between the two renames, or someone takes the name in between, unless   *)
(* the clean-up of a selection deleted it.                                 *)
NothingLost ==
  \/ PartShared \/ swept
  \/ \A j \in Jobs : job[j].kind = "save" /\ job[j].phase # "idle" =>
       \E f \in {target} \cup {backup[i] : i \in Jobs} : f # None /\ IsWhole(f)

(* What a save discards is the text its editor had loaded: a change made   *)
(* by anyone since then is noticed, unless it falls between the comparison *)
(* just before the rename and the rename.                                  *)
DiscardsOnlySeen ==
  \A j \in Jobs :
    Is(j, "save", "placed") => PartShared \/ j \in raced \/ data[backup[j]] = job[j].base

(* docs/security-model.md:40: an upload does not overwrite a remote file.  *)
(* An upload never takes the name away from a file it did not create.      *)
UploadSparesOthers == ~swept

(* docs/troubleshooting.md:38 and security-model.md:40: a partial file is  *)
(* renamed when it is complete.  A plain upload that completed put its own *)
(* whole file in place, not a mix with another's.                          *)
UploadIsWhole == target = None \/ IsWhole(target)
=============================================================================
