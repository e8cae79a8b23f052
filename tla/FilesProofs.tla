----------------------------- MODULE FilesProofs -----------------------------
(***************************************************************************)
(* Files: one name that any number of jobs write (RemoteFiles), the        *)
(* entries of a directory that jobs change (FileEntries), the local paths  *)
(* a user picked (PickedPaths), and the files of a git repository          *)
(* (GitOperations), for any jobs, names, logs, operations and bounds.      *)
(*                                                                         *)
(* RemoteFiles: the jobs know nothing of each other, so the inductive      *)
(* invariant is about ownership: every private name leads to its job's own *)
(* file, a file is written only while no name anyone looks under leads to  *)
(* it, and a file is given such a name when it is whole.  On top of it,    *)
(* no file is found under two names (Apart), a save that freed the         *)
(* target's name holds a file under its backup (Kept), and a save that     *)
(* compared twice still knows the text it is about to discard (Compared).  *)
(* Two plain uploads share one partial file; for them only the types and   *)
(* the offsets are invariant.                                              *)
(*                                                                         *)
(* FileEntries: a job about to act has seen nothing under its name, or     *)
(* what it may remove (AllLooked).                                         *)
(*                                                                         *)
(* GitOperations: a repository is Grounded when the past of each commit is *)
(* closed, what tracks or is origin has been shared, and what was made     *)
(* here is on a branch or shared.  Every git command leaves it so, and     *)
(* says which files of the worktree it Spares; what is read and when plays *)
(* no part in it.                                                          *)
(***************************************************************************)
EXTENDS RemoteFiles, FileEntries, PickedPaths, GitOperations, FiniteSetTheorems, SequenceTheorems, TLAPS

JobStep(j) ==
  \/ CheckAbsent(j) \/ CreatePart(j) \/ CreateTemp(j) \/ WriteChunk(j)
  \/ PublishPart(j) \/ PublishTemp(j)
  \/ DropPart(j) \/ KeepPart(j) \/ DropTemp(j) \/ DeleteRoots(j) \/ CreateFails(j)
  \/ Load(j) \/ Compare(j) \/ CompareAgain(j) \/ MoveAside(j) \/ Replace(j)
  \/ Finish(j) \/ AbandonSave(j) \/ PutBack(j) \/ Lose(j)

\* Before a job has a file of its own, while it has, and once it put it in place.
Early == {"idle", "editing", "checked"}
Opening == {"writing", "written", "fresh", "moved"}
Late == {"placed", "done", "failed"}

\* The files a user can find: under the target's name or a backup's.
Named(f) == f = target \/ \E i \in Jobs : backup[i] = f

\* Where a job is in its file.
Offsets ==
  \A j \in Jobs :
    /\ job[j].phase \in Early => job[j].chunk = 0
    /\ job[j].phase = "writing" => job[j].chunk < Chunks /\ job[j].file \in Files

Shape == TypeOK /\ Offsets

\* Temporary and partial names lead to the file of their own job.
OwnFiles ==
  /\ part # None => part \in Jobs /\ job[part].kind = "upload"
  /\ \A j \in Jobs :
       /\ temp[j] \in {None, j}
       /\ job[j].phase \in Opening =>
            /\ job[j].file = j
            /\ job[j].kind = "upload" => part = j
            /\ job[j].kind # "upload" => temp[j] = j

\* What a job has written of it.
OwnData ==
  \A j \in Jobs :
    /\ job[j].phase = "writing" => \A k \in 1..job[j].chunk : data[j][k] = j
    /\ job[j].phase \in {"written", "fresh", "moved"} => data[j] = WholeOf(j)

\* A file that can be found is whole, and no job writes it any more.
NamedWhole ==
  /\ \A j \in Jobs : Named(j) => job[j].phase \in Late
  /\ \A f \in Files : f \in {Old, Other} \/ Named(f) => IsWhole(f)

Own == OwnFiles /\ OwnData /\ NamedWhole

\* No file is found under two names.
Apart ==
  \A i \in Jobs : backup[i] # None =>
    backup[i] # target /\ \A k \in Jobs \ {i} : backup[k] # backup[i]

\* While the target's name is free, a save that stopped between its renames, or
\* was stopped there, holds a file that nothing removes any more.
Kept ==
  \/ swept \/ target # None
  \/ \A j \in Jobs : job[j].kind = "save" => job[j].phase = "idle"
  \/ \E i \in Jobs : backup[i] # None /\ job[i].phase \in {"moved", "failed"}

\* What a save that compared twice still knows of the text it is replacing.
Compared ==
  \A j \in Jobs : job[j].kind = "save" =>
    /\ job[j].phase = "fresh" => j \in raced \/ target = None \/ data[target] = job[j].base
    /\ job[j].phase \in {"moved", "placed"} =>
         backup[j] # None /\ (j \in raced \/ data[backup[j]] = job[j].base)

FileInv == Shape /\ (PartShared \/ (Own /\ Apart /\ Kept /\ Compared))

LEMMA ShapeInit == Init => Shape
<1> SUFFICES ASSUME Init PROVE Shape
  OBVIOUS
<1> USE JobsAssumption, NamesAssumption
<1>1. PICK kind \in [Jobs -> Kinds] :
        job = [j \in Jobs |-> [kind |-> kind[j], phase |-> "idle", file |-> None,
                               chunk |-> 0, base |-> Blank]]
  BY DEF Init
<1>2. Blank \in Content /\ \A f \in Files : WholeOf(f) \in Content
  BY DEF Blank, WholeOf, Content
<1>3. data \in [Files -> Content]
  BY <1>2 DEF Init, Files
<1>4. job \in [Jobs -> Job]
  BY <1>1, <1>2 DEF Job, Phases
<1>5. Offsets
  BY <1>1 DEF Offsets, Early
<1> QED
  BY <1>3, <1>4, <1>5 DEF Init, Shape, TypeOK, Files

\* A job goes on, and nothing else of it changes.
LEMMA GotoTypes ==
  ASSUME TypeOK, NEW j \in Jobs, NEW p \in Phases, Goto(j, p)
  PROVE  /\ job' \in [Jobs -> Job]
         /\ job'[j].phase = p
         /\ job'[j].kind = job[j].kind /\ job'[j].file = job[j].file
         /\ job'[j].chunk = job[j].chunk /\ job'[j].base = job[j].base
         /\ \A i \in Jobs \ {j} : job'[i] = job[i]
BY DEF TypeOK, Goto, Job

LEMMA RetargetTypes ==
  ASSUME TypeOK, NEW text, Retarget(text)
  PROVE  raced' \subseteq Jobs
BY DEF TypeOK, Retarget

JobAt(r, k, p) == [r EXCEPT !.chunk = k, !.phase = p]

LEMMA AtTypes ==
  ASSUME NEW r \in Job, NEW k \in 0..Chunks, NEW p \in Phases
  PROVE  /\ JobAt(r, k, p) \in Job /\ JobAt(r, k, p).phase = p /\ JobAt(r, k, p).chunk = k
         /\ JobAt(r, k, p).kind = r.kind /\ JobAt(r, k, p).file = r.file
         /\ JobAt(r, k, p).base = r.base
BY DEF Job, JobAt

\* A chunk is written where its file is, and stays one of its author's.
LEMMA WriteTypes ==
  ASSUME Shape, NEW j \in Jobs, WriteChunk(j)
  PROVE  /\ job[j].file \in Files /\ job[j].chunk + 1 \in 1..Chunks
         /\ data' \in [Files -> Content]
         /\ \A f \in Files \ {job[j].file} : data'[f] = data[f]
         /\ \A k \in 1..Chunks :
              data'[job[j].file][k] = IF k = job[j].chunk + 1 THEN j ELSE data[job[j].file][k]
         /\ job' \in [Jobs -> Job]
         /\ job'[j].phase = IF job[j].chunk + 1 = Chunks THEN "written" ELSE "writing"
         /\ job'[j].chunk = job[j].chunk + 1
         /\ job'[j].kind = job[j].kind /\ job'[j].file = job[j].file
         /\ job'[j].base = job[j].base
         /\ \A i \in Jobs \ {j} : job'[i] = job[i]
<1> USE JobsAssumption
<1>1. job[j].file \in Files /\ job[j].chunk \in Nat /\ job[j].chunk + 1 \in 1..Chunks
  BY DEF Shape, TypeOK, Offsets, WriteChunk, Job
<1>2. data[job[j].file] \in Content
  BY <1>1 DEF Shape, TypeOK
<1>3. data' = [data EXCEPT ![job[j].file] = [data[job[j].file] EXCEPT ![job[j].chunk + 1] = j]]
  BY DEF WriteChunk
<1>4. [data[job[j].file] EXCEPT ![job[j].chunk + 1] = j] \in Content
  BY <1>1, <1>2 DEF Content, Files
<1>5. data' \in [Files -> Content] /\ \A f \in Files \ {job[j].file} : data'[f] = data[f]
  BY <1>1, <1>3, <1>4 DEF Shape, TypeOK
<1>6. data'[job[j].file] = [data[job[j].file] EXCEPT ![job[j].chunk + 1] = j]
  BY <1>1, <1>3 DEF Shape, TypeOK
<1>7. \A k \in 1..Chunks :
        data'[job[j].file][k] = IF k = job[j].chunk + 1 THEN j ELSE data[job[j].file][k]
  BY <1>2, <1>6 DEF Content
<1>8. job \in [Jobs -> Job] /\ job[j] \in Job /\ job[j].phase = "writing"
  BY DEF Shape, TypeOK, WriteChunk
<1> DEFINE k == job[j].chunk + 1
           p == IF k = Chunks THEN "written" ELSE job[j].phase
           now == JobAt(job[j], k, p)
<1>9. k \in 0..Chunks /\ p \in Phases /\ p = IF k = Chunks THEN "written" ELSE "writing"
  BY <1>1, <1>8 DEF Phases
<1>10. job' = [job EXCEPT ![j] = now]
  BY DEF WriteChunk, JobAt
<1> HIDE DEF k, p
<1>11. /\ now \in Job /\ now.phase = p /\ now.chunk = k
       /\ now.kind = job[j].kind /\ now.file = job[j].file /\ now.base = job[j].base
  BY <1>8, <1>9, AtTypes
<1> HIDE DEF now
<1>12. job' \in [Jobs -> Job] /\ job'[j] = now /\ \A i \in Jobs \ {j} : job'[i] = job[i]
  BY <1>8, <1>10, <1>11
<1>13. /\ job'[j].phase = IF job[j].chunk + 1 = Chunks THEN "written" ELSE "writing"
       /\ job'[j].chunk = job[j].chunk + 1
  BY <1>9, <1>11, <1>12 DEF k
<1>14. /\ job'[j].kind = job[j].kind /\ job'[j].file = job[j].file
       /\ job'[j].base = job[j].base
  BY <1>11, <1>12
<1> QED
  BY <1>1, <1>5, <1>7, <1>12, <1>13, <1>14

\* ... and with the other fields a step may set.
OnFile(r, p, f) == [r EXCEPT !.phase = p, !.file = f]
OnText(r, p, text) == [r EXCEPT !.phase = p, !.base = text]

LEMMA OnFileTypes ==
  ASSUME NEW r \in Job, NEW f \in Files, NEW p \in Phases
  PROVE  /\ OnFile(r, p, f) \in Job
         /\ OnFile(r, p, f).phase = p /\ OnFile(r, p, f).file = f
         /\ OnFile(r, p, f).kind = r.kind /\ OnFile(r, p, f).chunk = r.chunk
BY DEF Job, OnFile

LEMMA OnTextTypes ==
  ASSUME NEW r \in Job, NEW text \in Content, NEW p \in Phases
  PROVE  /\ OnText(r, p, text) \in Job
         /\ OnText(r, p, text).phase = p /\ OnText(r, p, text).base = text
         /\ OnText(r, p, text).kind = r.kind /\ OnText(r, p, text).chunk = r.chunk
BY DEF Job, OnText

LEMMA TextTypes ==
  ASSUME TypeOK
  PROVE  /\ Blank \in Content
         /\ \A f \in Files : WholeOf(f) \in Content /\ data[f] \in Content
BY DEF TypeOK, Blank, WholeOf, Content

LEMMA ShapeStep ==
  ASSUME Shape, NEW j \in Jobs, JobStep(j)
  PROVE  Shape' /\ \A i \in Jobs : job'[i].kind = job[i].kind
<1> USE DEF Shape, Early
<1>1. CASE CheckAbsent(j)
  <2>1. job[j].phase = "idle" /\ Goto(j, IF target = None THEN "checked" ELSE "failed")
    BY <1>1 DEF CheckAbsent
  <2> QED
    BY <1>1, <2>1, GotoTypes DEF CheckAbsent, TypeOK, Offsets, Phases, names
<1>2. CASE CreatePart(j)
  <2> DEFINE f == Opened(j, part)
             now == OnFile(job[j], "writing", f)
  <2>1. f \in Files
    BY DEF TypeOK, Opened, Files
  <2>2. job[j].phase = "checked" /\ job[j].chunk = 0
    BY <1>2 DEF CreatePart, Is, Offsets
  <2>3. job' = [job EXCEPT ![j] = now] /\ part' = f /\ data' = [data EXCEPT ![f] = Blank]
    BY <1>2 DEF CreatePart, OnFile
  <2> HIDE DEF f
  <2>4. /\ now \in Job /\ now.phase = "writing" /\ now.file = f
        /\ now.kind = job[j].kind /\ now.chunk = job[j].chunk
    BY <2>1, OnFileTypes DEF TypeOK, Phases
  <2> HIDE DEF now
  <2>5. job' \in [Jobs -> Job] /\ job'[j] = now /\ \A i \in Jobs \ {j} : job'[i] = job[i]
    BY <2>3, <2>4 DEF TypeOK
  <2>6. data' \in [Files -> Content]
    BY <2>1, <2>3, TextTypes DEF TypeOK
  <2>7. Offsets'
    BY <2>1, <2>2, <2>4, <2>5, JobsAssumption DEF Offsets
  <2>8. TypeOK'
    BY <1>2, <2>1, <2>3, <2>5, <2>6 DEF CreatePart, TypeOK
  <2> QED
    BY <2>4, <2>5, <2>7, <2>8
<1>3. CASE CreateTemp(j)
  <2> DEFINE now == OnFile(job[j], "writing", j)
  <2>1. j \in Files /\ job[j].phase = "checked" /\ job[j].chunk = 0
    BY <1>3 DEF CreateTemp, Offsets, Files
  <2>2. job' = [job EXCEPT ![j] = now] /\ temp' = [temp EXCEPT ![j] = j]
    BY <1>3 DEF CreateTemp, OnFile
  <2>3. /\ now \in Job /\ now.phase = "writing" /\ now.file = j
        /\ now.kind = job[j].kind /\ now.chunk = job[j].chunk
    <3>1. job[j] \in Job /\ "writing" \in Phases
      BY DEF TypeOK, Phases
    <3> QED
      BY <2>1, <3>1, OnFileTypes
  <2> HIDE DEF now
  <2>4. job' \in [Jobs -> Job] /\ job'[j] = now /\ \A i \in Jobs \ {j} : job'[i] = job[i]
    BY <2>2, <2>3 DEF TypeOK
  <2>5. Offsets'
    BY <2>1, <2>3, <2>4, JobsAssumption DEF Offsets
  <2>6. TypeOK'
    BY <1>3, <2>1, <2>2, <2>4 DEF CreateTemp, TypeOK
  <2> QED
    BY <2>3, <2>4, <2>5, <2>6
<1>4. CASE WriteChunk(j)
  <2>1. Offsets' /\ \A i \in Jobs : job'[i].kind = job[i].kind
    BY <1>4, WriteTypes, JobsAssumption DEF Offsets
  <2>2. job' \in [Jobs -> Job] /\ data' \in [Files -> Content]
    BY <1>4, WriteTypes
  <2>3. raced' \subseteq Jobs
    BY <1>4, RetargetTypes DEF WriteChunk, TypeOK
  <2> QED
    BY <1>4, <2>1, <2>2, <2>3 DEF WriteChunk, TypeOK, names
<1>5. CASE Load(j)
  <2> DEFINE now == OnText(job[j], "editing", data[target])
  <2>1. job[j].phase = "idle" /\ job[j].chunk = 0 /\ target \in Files
    BY <1>5 DEF Load, Is, Offsets, TypeOK
  <2>2. job' = [job EXCEPT ![j] = now]
    BY <1>5 DEF Load, OnText
  <2>3. /\ now \in Job /\ now.phase = "editing"
        /\ now.kind = job[j].kind /\ now.chunk = job[j].chunk
    <3>1. job[j] \in Job /\ "editing" \in Phases /\ data[target] \in Content
      BY <2>1, TextTypes DEF TypeOK, Phases
    <3> QED
      BY <3>1, OnTextTypes
  <2> HIDE DEF now
  <2>4. job' \in [Jobs -> Job] /\ job'[j] = now /\ \A i \in Jobs \ {j} : job'[i] = job[i]
    BY <2>2, <2>3 DEF TypeOK
  <2>5. Offsets'
    BY <2>1, <2>3, <2>4 DEF Offsets
  <2>6. TypeOK'
    BY <1>5, <2>4 DEF Load, TypeOK, names
  <2> QED
    BY <2>3, <2>4, <2>5, <2>6
<1>6. CASE PublishPart(j) \/ PublishTemp(j) \/ Replace(j)
  <2>1. \E p \in {"done", "placed"} : Goto(j, p)
    BY <1>6 DEF PublishPart, PublishTemp, Replace
  <2>2. raced' \subseteq Jobs
    BY <1>6, RetargetTypes DEF PublishPart, PublishTemp, Replace
  <2>3. /\ target' \in Files \cup {None} /\ part' \in Files \cup {None}
        /\ temp' \in [Jobs -> Files \cup {None}]
    BY <1>6 DEF PublishPart, PublishTemp, Replace, TypeOK
  <2>4. UNCHANGED <<backup, data, swept>>
    BY <1>6 DEF PublishPart, PublishTemp, Replace
  <2> QED
    BY <2>1, <2>2, <2>3, <2>4, GotoTypes DEF TypeOK, Offsets, Phases
<1>7. CASE DropPart(j) \/ KeepPart(j) \/ DropTemp(j) \/ CreateFails(j) \/ Lose(j)
  <2>1. \E p \in {"failed", "cancelled"} : Goto(j, p)
    BY <1>7 DEF DropPart, KeepPart, DropTemp, CreateFails, Lose
  <2>2. part' \in Files \cup {None} /\ temp' \in [Jobs -> Files \cup {None}]
    BY <1>7 DEF DropPart, KeepPart, DropTemp, CreateFails, Lose, TypeOK, names
  <2>3. UNCHANGED <<target, backup, data, raced, swept>>
    BY <1>7 DEF DropPart, KeepPart, DropTemp, CreateFails, Lose, names
  <2> QED
    BY <2>1, <2>2, <2>3, GotoTypes DEF TypeOK, Offsets, Phases
<1>8. CASE DeleteRoots(j)
  <2>1. \E p \in {"failed", "cancelled"} : Goto(j, p)
    BY <1>8 DEF DeleteRoots
  <2>2. temp' \in [Jobs -> Files \cup {None}] /\ target' = None /\ swept' \in BOOLEAN
    BY <1>8 DEF DeleteRoots, TypeOK
  <2>3. raced' \subseteq Jobs
    BY <1>8, RetargetTypes DEF DeleteRoots
  <2>4. UNCHANGED <<part, backup, data>>
    BY <1>8 DEF DeleteRoots
  <2> QED
    BY <2>1, <2>2, <2>3, <2>4, GotoTypes DEF TypeOK, Offsets, Phases
<1>9. CASE Compare(j) \/ CompareAgain(j)
  <2>1. /\ \E p \in {"checked", "fresh", "failed"} : Goto(j, p)
        /\ job'[j].phase = "checked" => job[j].phase \in Early
    BY <1>9, GotoTypes DEF Compare, CompareAgain, Is, Phases
  <2>2. temp' \in [Jobs -> Files \cup {None}]
    BY <1>9 DEF Compare, CompareAgain, TypeOK, names
  <2>3. UNCHANGED <<target, part, backup, data, raced, swept>>
    BY <1>9 DEF Compare, CompareAgain, names
  <2> QED
    BY <2>1, <2>2, <2>3, GotoTypes DEF TypeOK, Offsets, Phases
<1>10. CASE MoveAside(j) \/ Finish(j) \/ AbandonSave(j)
  <2>1. \E p \in {"moved", "done", "failed"} : Goto(j, p)
    BY <1>10 DEF MoveAside, Finish, AbandonSave
  <2>2. /\ target' \in Files \cup {None}
        /\ temp' \in [Jobs -> Files \cup {None}] /\ backup' \in [Jobs -> Files \cup {None}]
    BY <1>10 DEF MoveAside, Finish, AbandonSave, TypeOK
  <2>3. UNCHANGED <<part, data, raced, swept>>
    BY <1>10 DEF MoveAside, Finish, AbandonSave
  <2> QED
    BY <2>1, <2>2, <2>3, GotoTypes DEF TypeOK, Offsets, Phases
<1>11. CASE PutBack(j)
  <2>1. Goto(j, "failed")
    BY <1>11 DEF PutBack
  <2>2. /\ target' \in Files \cup {None}
        /\ temp' \in [Jobs -> Files \cup {None}] /\ backup' \in [Jobs -> Files \cup {None}]
    BY <1>11 DEF PutBack, TypeOK
  <2>3. raced' \subseteq Jobs
    BY <1>11, RetargetTypes DEF PutBack, TypeOK
  <2>4. UNCHANGED <<part, data, swept>>
    BY <1>11 DEF PutBack
  <2> QED
    BY <2>1, <2>2, <2>3, <2>4, GotoTypes DEF TypeOK, Offsets, Phases
<1> QED
  BY <1>1, <1>2, <1>3, <1>4, <1>5, <1>6, <1>7, <1>8, <1>9, <1>10, <1>11 DEF JobStep

LEMMA ShapeOther ==
  ASSUME Shape, OtherCreates \/ OtherEdits
  PROVE  Shape' /\ job' = job
<1>1. CASE OtherCreates
  BY <1>1, RetargetTypes DEF OtherCreates, Shape, TypeOK, Offsets, Files
<1>2. CASE OtherEdits
  <2>1. data' \in [Files -> Content]
    BY <1>2, TextTypes DEF OtherEdits, Shape, TypeOK, Files
  <2> QED
    BY <1>2, <2>1, RetargetTypes DEF OtherEdits, Shape, TypeOK, Offsets, names
<1> QED
  BY <1>1, <1>2

-----------------------------------------------------------------------------
(* Whose files are whose. *)

LEMMA OwnInit == Init => Own
<1> SUFFICES ASSUME Init PROVE Own
  OBVIOUS
<1> USE NamesAssumption
<1>1. PICK kind \in [Jobs -> Kinds] :
        job = [j \in Jobs |-> [kind |-> kind[j], phase |-> "idle", file |-> None,
                               chunk |-> 0, base |-> Blank]]
  BY DEF Init
<1>2. OwnFiles /\ OwnData
  BY <1>1 DEF Init, OwnFiles, OwnData, Opening
<1>3. \A j \in Jobs : ~Named(j)
  BY DEF Init, Named
<1>4. IsWhole(Old) /\ IsWhole(Other)
  BY DEF Init, IsWhole, Files
<1> QED
  BY <1>2, <1>3, <1>4 DEF NamedWhole, Own, Files

\* A step that writes nothing and gives no name to another file keeps them.
LEMMA OwnKept ==
  ASSUME Own, NEW j \in Jobs, data' = data,
         \A i \in Jobs \ {j} : job'[i] = job[i] /\ temp'[i] = temp[i],
         job'[j].kind = job[j].kind, job'[j].file = job[j].file,
         \A f \in Files : Named(f)' => Named(f),
         temp'[j] \in {temp[j], None},
         part' = part \/ (job[j].kind = "upload" /\ part' = None),
         job[j].phase \in Late => job'[j].phase \in Late,
         job'[j].phase # "writing",
         job'[j].phase \in Opening =>
           job[j].phase \in Opening \ {"writing"} /\ temp' = temp /\ part' = part,
         ~PartShared
  PROVE  Own'
<1>1. OwnFiles'
  <2>1. part' # None => part' \in Jobs /\ job'[part'].kind = "upload"
    BY DEF Own, OwnFiles
  <2>2. \A i \in Jobs \ {j} : job[i].phase \in Opening /\ job[i].kind = "upload" => part' = i
    BY DEF Own, OwnFiles, PartShared
  <2>3. ASSUME NEW i \in Jobs
        PROVE  /\ temp'[i] \in {None, i}
               /\ job'[i].phase \in Opening =>
                    /\ job'[i].file = i
                    /\ job'[i].kind = "upload" => part' = i
                    /\ job'[i].kind # "upload" => temp'[i] = i
    BY <2>2, <2>3 DEF Own, OwnFiles
  <2> QED
    BY <2>1, <2>3 DEF OwnFiles
<1>2. OwnData'
  <2>1. \A i \in Jobs : WholeOf(i)' = WholeOf(i)
    BY DEF WholeOf
  <2>2. ASSUME NEW i \in Jobs
        PROVE  /\ job'[i].phase = "writing" => \A k \in 1..job'[i].chunk : data'[i][k] = i
               /\ job'[i].phase \in {"written", "fresh", "moved"} => data'[i] = WholeOf(i)
    BY <2>2 DEF Own, OwnData, Opening
  <2> QED
    BY <2>1, <2>2 DEF OwnData
<1>3. NamedWhole'
  <2>1. \A i \in Jobs : Named(i)' => job'[i].phase \in Late
    BY DEF Own, NamedWhole, Files
  <2>2. \A f \in Files : IsWhole(f)' <=> IsWhole(f)
    BY DEF IsWhole, WholeOf
  <2> QED
    BY <2>1, <2>2 DEF Own, NamedWhole
<1> QED
  BY <1>1, <1>2, <1>3 DEF Own

\* A step that puts the finished file of a job in place.
LEMMA OwnPlaced ==
  ASSUME Shape, Own, NEW j \in Jobs, NEW p \in Late, Goto(j, p), ~PartShared,
         job[j].phase \in {"written", "fresh", "moved"}, data' = data, backup' = backup,
         target' = j,
         IF job[j].kind = "upload"
         THEN part' = None /\ temp' = temp
         ELSE part' = part /\ temp' = [temp EXCEPT ![j] = None]
  PROVE  Own'
<1>1. /\ \A i \in Jobs \ {j} : job'[i] = job[i] /\ temp'[i] = temp[i]
      /\ job'[j].phase = p /\ job'[j].kind = job[j].kind /\ temp'[j] \in {temp[j], None}
  <2>1. p \in Phases
    BY DEF Late, Phases
  <2>2. \A i \in Jobs \ {j} : temp'[i] = temp[i]
    BY DEF Shape, TypeOK
  <2>3. temp'[j] \in {temp[j], None}
    BY DEF Shape, TypeOK
  <2> QED
    BY <2>1, <2>2, <2>3, GotoTypes DEF Shape
<1>2. OwnFiles'
  <2>1. part' # None => part' \in Jobs /\ job'[part'].kind = "upload"
    BY <1>1 DEF Own, OwnFiles
  <2>2. \A i \in Jobs \ {j} : job[i].phase \in Opening /\ job[i].kind = "upload" => part' = i
    BY DEF Own, OwnFiles, PartShared
  <2>3. ASSUME NEW i \in Jobs
        PROVE  /\ temp'[i] \in {None, i}
               /\ job'[i].phase \in Opening =>
                    /\ job'[i].file = i
                    /\ job'[i].kind = "upload" => part' = i
                    /\ job'[i].kind # "upload" => temp'[i] = i
    BY <1>1, <2>2, <2>3 DEF Own, OwnFiles, Opening, Late
  <2> QED
    BY <2>1, <2>3 DEF OwnFiles
<1>3. OwnData'
  <2>1. \A i \in Jobs : WholeOf(i)' = WholeOf(i)
    BY DEF WholeOf
  <2> QED
    BY <1>1, <2>1 DEF Own, OwnData, Late
<1>4. NamedWhole'
  <2>1. \A f \in Files : Named(f)' => Named(f) \/ f = j
    BY DEF Named
  <2>2. \A f \in Files : IsWhole(f)' <=> IsWhole(f)
    BY DEF IsWhole, WholeOf
  <2>3. IsWhole(j)
    BY NamesAssumption DEF Own, OwnData, IsWhole, Files
  <2>4. \A i \in Jobs : Named(i)' => job'[i].phase \in Late
    BY <1>1, <2>1 DEF Own, NamedWhole, Files
  <2> QED
    BY <2>1, <2>2, <2>3, <2>4 DEF Own, NamedWhole
<1> QED
  BY <1>2, <1>3, <1>4 DEF Own

\* A step that opens the file of a job.
LEMMA OwnOpened ==
  ASSUME Shape, Own, NEW j \in Jobs, ~PartShared, CreatePart(j) \/ CreateTemp(j)
  PROVE  Own'
<1> USE NamesAssumption
<1>1. /\ \A i \in Jobs \ {j} : job'[i] = job[i] /\ temp'[i] = temp[i] /\ data'[i] = data[i]
      /\ job'[j].phase = "writing" /\ job'[j].kind = job[j].kind /\ job'[j].file = j
      /\ job'[j].chunk = 0
      /\ IF job[j].kind = "upload" THEN part' = j /\ temp' = temp
                                   ELSE temp'[j] = j /\ part' = part
      /\ UNCHANGED <<target, backup>>
      /\ data'[Old] = data[Old] /\ data'[Other] = data[Other]
      /\ job[j].phase = "checked"
  <2>1. CASE CreatePart(j)
    <3>1. Opened(j, part) = j
      BY <2>1 DEF Opened, CreatePart, Is, Own, OwnFiles, PartShared
    <3>2. /\ part' = j /\ data' = [data EXCEPT ![j] = Blank]
          /\ job' = [job EXCEPT ![j] = OnFile(job[j], "writing", j)]
          /\ UNCHANGED <<target, temp, backup>> /\ job[j].phase = "checked"
          /\ job[j].kind = "upload"
      BY <2>1, <3>1 DEF CreatePart, OnFile, Is
    <3>3. OnFile(job[j], "writing", j).phase = "writing"
          /\ OnFile(job[j], "writing", j).kind = job[j].kind
          /\ OnFile(job[j], "writing", j).file = j
          /\ OnFile(job[j], "writing", j).chunk = job[j].chunk
      <4>1. job[j] \in Job /\ "writing" \in Phases /\ j \in Files
        BY DEF Shape, TypeOK, Phases, Files
      <4> QED
        BY <4>1, OnFileTypes
    <3>4. job'[j] = OnFile(job[j], "writing", j) /\ \A i \in Jobs \ {j} : job'[i] = job[i]
      BY <3>2 DEF Shape, TypeOK
    <3>5. job[j].chunk = 0
      BY <3>2 DEF Shape, Offsets, Early
    <3>6. \A f \in Files \ {j} : data'[f] = data[f]
      BY <3>2 DEF Shape, TypeOK
    <3> QED
      BY <3>2, <3>3, <3>4, <3>5, <3>6 DEF Files
  <2>2. CASE CreateTemp(j)
    <3>2. /\ temp' = [temp EXCEPT ![j] = j]
          /\ job' = [job EXCEPT ![j] = OnFile(job[j], "writing", j)]
          /\ UNCHANGED <<target, part, backup, data>> /\ job[j].phase = "checked"
          /\ job[j].kind # "upload"
      BY <2>2 DEF CreateTemp, OnFile
    <3>3. OnFile(job[j], "writing", j).phase = "writing"
          /\ OnFile(job[j], "writing", j).kind = job[j].kind
          /\ OnFile(job[j], "writing", j).file = j
          /\ OnFile(job[j], "writing", j).chunk = job[j].chunk
      <4>1. job[j] \in Job /\ "writing" \in Phases /\ j \in Files
        BY DEF Shape, TypeOK, Phases, Files
      <4> QED
        BY <4>1, OnFileTypes
    <3>4. job'[j] = OnFile(job[j], "writing", j) /\ \A i \in Jobs \ {j} : job'[i] = job[i]
      BY <3>2 DEF Shape, TypeOK
    <3>5. job[j].chunk = 0
      BY <3>2 DEF Shape, Offsets, Early
    <3>6. temp'[j] = j /\ \A i \in Jobs \ {j} : temp'[i] = temp[i]
      BY <3>2 DEF Shape, TypeOK
    <3> QED
      BY <3>2, <3>3, <3>4, <3>5, <3>6
  <2> QED
    BY <2>1, <2>2
<1>2. OwnFiles'
  BY <1>1 DEF Own, OwnFiles, Opening, PartShared
<1>3. OwnData'
  <2>1. \A i \in Jobs : WholeOf(i)' = WholeOf(i)
    BY DEF WholeOf
  <2>2. ASSUME NEW i \in Jobs
        PROVE  /\ job'[i].phase = "writing" => \A k \in 1..job'[i].chunk : data'[i][k] = i
               /\ job'[i].phase \in {"written", "fresh", "moved"} => data'[i] = WholeOf(i)
    BY <1>1, <2>2 DEF Own, OwnData
  <2> QED
    BY <2>1, <2>2 DEF OwnData
<1>4. NamedWhole'
  <2>1. \A f \in Files : Named(f)' <=> Named(f)
    BY <1>1 DEF Named
  <2>2. ~Named(j)
    BY <1>1 DEF Own, NamedWhole, Late
  <2>3. \A f \in Files \ {j} : IsWhole(f)' <=> IsWhole(f)
    <3>1. \A f \in Files \ {j} : data'[f] = data[f]
      BY <1>1 DEF Files
    <3> QED
      BY <3>1 DEF IsWhole, WholeOf
  <2>4. \A i \in Jobs : Named(i)' => job'[i].phase \in Late
    BY <1>1, <2>1, <2>2 DEF Own, NamedWhole, Files
  <2>5. ASSUME NEW f \in Files, f \in {Old, Other} \/ Named(f)'
        PROVE  IsWhole(f)'
    <3>1. f # j /\ (f \in {Old, Other} \/ Named(f))
      BY <2>1, <2>2, <2>5
    <3> QED
      BY <2>3, <3>1 DEF Own, NamedWhole
  <2> QED
    BY <2>4, <2>5 DEF NamedWhole
<1> QED
  BY <1>2, <1>3, <1>4 DEF Own

\* A chunk is written into the job's own file, which nobody can find yet.
LEMMA OwnWritten ==
  ASSUME Shape, Own, NEW j \in Jobs, ~PartShared, WriteChunk(j)
  PROVE  Own' /\ job[j].file = j /\ ~Named(j)
<1> USE NamesAssumption, JobsAssumption
<1>1. job[j].phase = "writing" /\ job[j].file = j /\ ~Named(j) /\ UNCHANGED names
  BY DEF WriteChunk, Own, OwnFiles, NamedWhole, Opening, Late
<1>2. /\ \A i \in Jobs \ {j} : job'[i] = job[i]
      /\ \A f \in Files \ {j} : data'[f] = data[f]
      /\ job'[j].kind = job[j].kind /\ job'[j].file = j /\ job'[j].chunk = job[j].chunk + 1
      /\ job'[j].phase = IF job[j].chunk + 1 = Chunks THEN "written" ELSE "writing"
      /\ \A k \in 1..Chunks : data'[j][k] = IF k = job[j].chunk + 1 THEN j ELSE data[j][k]
      /\ job[j].chunk \in Nat /\ job[j].chunk + 1 \in 1..Chunks
      /\ data' \in [Files -> Content]
  BY <1>1, WriteTypes DEF Shape, TypeOK, Job
<1>3. OwnFiles'
  BY <1>1, <1>2 DEF Own, OwnFiles, Opening, names
<1>4. OwnData'
  <2>1. \A i \in Jobs : WholeOf(i)' = WholeOf(i)
    BY DEF WholeOf
  <2>2. \A k \in 1..(job[j].chunk + 1) : data'[j][k] = j
    BY <1>1, <1>2 DEF Own, OwnData
  <2>3. job[j].chunk + 1 = Chunks => data'[j] = WholeOf(j)
    BY <1>2, <2>2 DEF WholeOf, Content, Files
  <2>4. ASSUME NEW i \in Jobs
        PROVE  /\ job'[i].phase = "writing" => \A k \in 1..job'[i].chunk : data'[i][k] = i
               /\ job'[i].phase \in {"written", "fresh", "moved"} => data'[i] = WholeOf(i)
    <3>1. CASE i = j
      BY <1>2, <2>2, <2>3, <3>1
    <3>2. CASE i # j
      BY <1>2, <3>2 DEF Own, OwnData, Files
    <3> QED
      BY <3>1, <3>2
  <2> QED
    BY <2>1, <2>4 DEF OwnData
<1>5. NamedWhole'
  <2>1. \A f \in Files : Named(f)' <=> Named(f)
    BY <1>1 DEF Named, names
  <2>2. \A f \in Files \ {j} : IsWhole(f)' <=> IsWhole(f)
    BY <1>2, ZenonT(60) DEF IsWhole, WholeOf
  <2> QED
    BY <1>1, <1>2, <2>1, <2>2 DEF Own, NamedWhole, Files
<1> QED
  BY <1>1, <1>3, <1>4, <1>5 DEF Own

LEMMA OwnStep ==
  ASSUME Shape, Own, NEW j \in Jobs, ~PartShared, JobStep(j)
  PROVE  Own'
<1> USE DEF Opening, Late
<1>1. CASE CreatePart(j) \/ CreateTemp(j)
  BY <1>1, OwnOpened
<1>2. CASE WriteChunk(j)
  BY <1>2, OwnWritten
<1>3. CASE PublishPart(j)
  <2>1. part = j
    BY <1>3 DEF PublishPart, Is, Own, OwnFiles
  <2> QED
    BY <1>3, <2>1, OwnPlaced DEF PublishPart, Is
<1>4. CASE PublishTemp(j) \/ Replace(j)
  <2>1. temp[j] = j
    BY <1>4 DEF PublishTemp, Replace, Is, Own, OwnFiles
  <2> QED
    BY <1>4, <2>1, OwnPlaced DEF PublishTemp, Replace, Is
<1>5. CASE CheckAbsent(j) \/ KeepPart(j) \/ CreateFails(j) \/ Lose(j) \/ Compare(j)
  <2>1. /\ UNCHANGED <<names, data>>
        /\ \/ job[j].phase \in {"idle", "editing"} /\ Goto(j, "checked")
           \/ Goto(j, "failed")
    BY <1>5 DEF CheckAbsent, KeepPart, CreateFails, Lose, Compare, Is
  <2>2. \A f \in Files : Named(f)' => Named(f)
    BY <2>1 DEF Named, names
  <2> QED
    BY <2>1, <2>2, GotoTypes, OwnKept DEF Shape, names, Phases
<1>6. CASE Load(j)
  <2>1. /\ UNCHANGED <<names, data>> /\ job[j].phase = "idle"
        /\ job' = [job EXCEPT ![j] = OnText(job[j], "editing", data[target])]
    BY <1>6 DEF Load, OnText, Is
  <2>2. job[j] \in Job /\ data[target] \in Content /\ "editing" \in Phases
    BY <1>6, TextTypes DEF Load, Shape, TypeOK, Phases
  <2>3. /\ job'[j] = OnText(job[j], "editing", data[target])
        /\ \A i \in Jobs \ {j} : job'[i] = job[i]
    BY <2>1 DEF Shape, TypeOK
  <2>4. job'[j].phase = "editing" /\ job'[j].kind = job[j].kind /\ job'[j].file = job[j].file
    BY <2>2, <2>3 DEF OnText, Job
  <2>5. \A f \in Files : Named(f)' => Named(f)
    BY <2>1 DEF Named, names
  <2> QED
    BY <2>1, <2>3, <2>4, <2>5, OwnKept DEF names
<1>7. CASE DropPart(j) \/ DropTemp(j) \/ AbandonSave(j) \/ CompareAgain(j)
  <2>1. /\ UNCHANGED <<target, backup, data>>
        /\ \/ job[j].phase = "written" /\ Goto(j, "fresh") /\ UNCHANGED <<temp, part>>
           \/ /\ \E p \in {"failed", "cancelled"} : Goto(j, p)
              /\ \/ temp' = [temp EXCEPT ![j] = None] /\ UNCHANGED part
                 \/ job[j].kind = "upload" /\ part' = None /\ UNCHANGED temp
        /\ job[j].phase \in Opening
    BY <1>7 DEF DropPart, DropTemp, AbandonSave, CompareAgain, Is
  <2>2. \A f \in Files : Named(f)' => Named(f)
    BY <2>1 DEF Named
  <2>3. temp'[j] \in {temp[j], None} /\ \A i \in Jobs \ {j} : temp'[i] = temp[i]
    BY <2>1 DEF Shape, TypeOK
  <2> QED
    BY <2>1, <2>2, <2>3, GotoTypes, OwnKept DEF Shape, Phases
<1>8. CASE DeleteRoots(j)
  <2>1. /\ UNCHANGED <<part, backup, data>> /\ target' = None
        /\ \E p \in {"failed", "cancelled"} : Goto(j, p)
        /\ temp' \in {temp, [temp EXCEPT ![j] = None]}
        /\ job[j].phase \in {"checked", "writing", "written"}
    BY <1>8 DEF DeleteRoots
  <2>2. \A f \in Files : Named(f)' => Named(f)
    BY <2>1, NamesAssumption DEF Named, Files
  <2>3. temp'[j] \in {temp[j], None} /\ \A i \in Jobs \ {j} : temp'[i] = temp[i]
    BY <2>1 DEF Shape, TypeOK
  <2> QED
    BY <2>1, <2>2, <2>3, GotoTypes, OwnKept DEF Shape, Phases
<1>9. CASE MoveAside(j) \/ Finish(j)
  <2>1. /\ UNCHANGED <<part, temp, data>>
        /\ \/ job[j].phase = "fresh" /\ Goto(j, "moved")
           \/ Goto(j, "done")
    BY <1>9 DEF MoveAside, Finish, Is
  <2>2. \A f \in Files : Named(f)' => Named(f)
    BY <1>9, NamesAssumption DEF MoveAside, Finish, Named, Files, Shape, TypeOK
  <2> QED
    BY <2>1, <2>2, GotoTypes, OwnKept DEF Shape, Phases
<1>10. CASE PutBack(j)
  <2>1. /\ UNCHANGED <<part, data>> /\ Goto(j, "failed")
        /\ temp' = [temp EXCEPT ![j] = None] /\ job[j].phase = "moved"
    BY <1>10 DEF PutBack, Is
  <2>2. \A f \in Files : Named(f)' => Named(f)
    BY <1>10, NamesAssumption DEF PutBack, Named, Files, Shape, TypeOK
  <2>3. temp'[j] \in {temp[j], None} /\ \A i \in Jobs \ {j} : temp'[i] = temp[i]
    BY <2>1 DEF Shape, TypeOK
  <2> QED
    BY <2>1, <2>2, <2>3, GotoTypes, OwnKept DEF Shape, Phases
<1> QED
  BY <1>1, <1>2, <1>3, <1>4, <1>5, <1>6, <1>7, <1>8, <1>9, <1>10 DEF JobStep

LEMMA OwnOther ==
  ASSUME Shape, Own, OtherCreates \/ OtherEdits
  PROVE  Own'
<1> USE NamesAssumption
<1>1. job' = job /\ UNCHANGED <<part, temp, backup>>
  BY DEF OtherCreates, OtherEdits, names
<1>2. OwnFiles'
  BY <1>1 DEF Own, OwnFiles
<1>3. \A i \in Jobs : WholeOf(i)' = WholeOf(i)
  BY DEF WholeOf
<1>4. CASE OtherCreates
  <2>1. target' = Other /\ data' = data
    BY <1>4 DEF OtherCreates
  <2>2. OwnData'
    BY <1>1, <1>3, <2>1 DEF Own, OwnData
  <2>3. \A f \in Files : IsWhole(f)' <=> IsWhole(f)
    BY <2>1 DEF IsWhole, WholeOf
  <2>4. \A f \in Files : Named(f)' => Named(f) \/ f = Other
    BY <1>1, <2>1 DEF Named
  <2>5. NamedWhole'
    BY <1>1, <2>3, <2>4 DEF Own, NamedWhole, Files
  <2> QED
    BY <1>2, <2>2, <2>5 DEF Own
<1>5. CASE OtherEdits
  <2>1. target \in Files /\ data' = [data EXCEPT ![target] = WholeOf(Other)] /\ target' = target
    BY <1>5 DEF OtherEdits, Shape, TypeOK, names
  <2>2. /\ data'[target] = WholeOf(Other)
        /\ \A f \in Files \ {target} : data'[f] = data[f]
    BY <2>1 DEF Shape, TypeOK
  <2>3. \A f \in Files : IsWhole(f) => IsWhole(f)'
    BY <2>2, ZenonT(60) DEF IsWhole, WholeOf, Files
  <2>4. IsWhole(target)'
    BY <2>1, <2>2 DEF IsWhole, WholeOf, Files
  <2>5. \A f \in Files : Named(f)' <=> Named(f)
    BY <1>1, <2>1 DEF Named
  <2>6. NamedWhole'
    BY <1>1, <2>3, <2>5 DEF Own, NamedWhole, Files
  <2>7. Named(target)
    BY DEF Named
  <2>8. OwnData'
    <3>1. \A i \in Jobs : job[i].phase \in Opening => i # target
      BY <2>7 DEF Own, NamedWhole, Late, Opening
    <3> QED
      BY <1>1, <1>3, <2>2, <3>1 DEF Own, OwnData, Opening, Files
  <2> QED
    BY <1>2, <2>6, <2>8 DEF Own
<1> QED
  BY <1>4, <1>5

-----------------------------------------------------------------------------
(* What a step does to the files that can be found. *)

LEMMA RetargetSeen ==
  ASSUME Shape, NEW text, Retarget(text)
  PROVE  /\ raced \subseteq raced'
         /\ \A i \in Jobs : job[i].kind = "save" /\ job[i].phase = "fresh"
              => i \in raced' \/ job[i].base = text
BY DEF Retarget, Is

\* Only the text under the target's name may change, and not unseen.
LEMMA StepEffect ==
  ASSUME Shape, Own, NEW j \in Jobs, ~PartShared, JobStep(j)
  PROVE  /\ \A i \in Jobs \ {j} : job'[i] = job[i] /\ backup'[i] = backup[i]
         /\ job'[j].kind = job[j].kind
         /\ raced \subseteq raced'
         /\ target' = None \/ target' = target \/ Retarget(data'[target'])
         /\ \A f \in Files : Named(f) => data'[f] = data[f]
         /\ job[j].phase # "idle" => job'[j].base = job[j].base
<1> USE DEF Opening, Late
<1>1. CASE CreatePart(j) \/ CreateTemp(j)
  <2>1. /\ UNCHANGED <<target, backup, raced>> /\ job[j].phase = "checked"
        /\ job' = [job EXCEPT ![j] = OnFile(job[j], "writing", job'[j].file)]
        /\ data' = data \/ (job[j].kind = "upload" /\ data' = [data EXCEPT ![j] = Blank])
    <3>1. CASE CreatePart(j)
      <4>1. Opened(j, part) = j
        BY <3>1 DEF Opened, CreatePart, Is, Own, OwnFiles, PartShared
      <4>2. job'[j].file = j
        BY <3>1, <4>1 DEF CreatePart, Shape, TypeOK, Job
      <4> QED
        BY <3>1, <4>1, <4>2 DEF CreatePart, OnFile, Is
    <3>2. CASE CreateTemp(j)
      <4>1. job'[j].file = j
        BY <3>2 DEF CreateTemp, Shape, TypeOK, Job
      <4> QED
        BY <3>2, <4>1 DEF CreateTemp, OnFile
    <3> QED
      BY <1>1, <3>1, <3>2
  <2>2. /\ \A i \in Jobs \ {j} : job'[i] = job[i]
        /\ job'[j] = OnFile(job[j], "writing", job'[j].file)
    BY <2>1 DEF Shape, TypeOK
  <2>3. job'[j].kind = job[j].kind /\ job'[j].base = job[j].base
    BY <2>2 DEF OnFile, Shape, TypeOK, Job
  <2>4. \A f \in Files : Named(f) => data'[f] = data[f]
    BY <2>1 DEF Own, NamedWhole, Shape, TypeOK
  <2> QED
    BY <2>1, <2>2, <2>3, <2>4
<1>2. CASE WriteChunk(j)
  <2>1. UNCHANGED names /\ (UNCHANGED raced \/ raced \subseteq raced')
    BY <1>2, RetargetSeen DEF WriteChunk
  <2> QED
    BY <1>2, <2>1, WriteTypes, OwnWritten DEF names
<1>3. CASE Load(j)
  <2>1. /\ UNCHANGED <<names, data, raced>> /\ job[j].phase = "idle"
        /\ job' = [job EXCEPT ![j] = OnText(job[j], "editing", data[target])]
    BY <1>3 DEF Load, OnText, Is
  <2>2. /\ job'[j] = OnText(job[j], "editing", data[target])
        /\ \A i \in Jobs \ {j} : job'[i] = job[i]
    BY <2>1 DEF Shape, TypeOK
  <2>3. job'[j].kind = job[j].kind
    BY <2>2 DEF OnText, Shape, TypeOK, Job
  <2> QED
    BY <2>1, <2>2, <2>3 DEF names
<1>4. CASE ~(CreatePart(j) \/ CreateTemp(j) \/ WriteChunk(j) \/ Load(j))
  <2>1. data' = data /\ \E p \in Phases : Goto(j, p)
    BY <1>4 DEF JobStep, CheckAbsent, PublishPart, PublishTemp, DropPart, KeepPart, DropTemp,
                DeleteRoots, CreateFails, Compare, CompareAgain, MoveAside, Replace, Finish,
                AbandonSave, PutBack, Lose, Phases
  <2>2. \A i \in Jobs \ {j} : backup'[i] = backup[i]
    BY <1>4 DEF JobStep, CheckAbsent, PublishPart, PublishTemp, DropPart, KeepPart, DropTemp,
                DeleteRoots, CreateFails, Compare, CompareAgain, MoveAside, Replace, Finish,
                AbandonSave, PutBack, Lose, names, Shape, TypeOK
  <2>3. \/ UNCHANGED raced /\ target' \in {target, None}
        \/ \E text : Retarget(text) /\ (target' = None \/ text = data[target'])
    <3>1. CASE PublishPart(j) \/ PublishTemp(j) \/ Replace(j)
      BY <3>1 DEF PublishPart, PublishTemp, Replace
    <3>2. CASE DeleteRoots(j)
      BY <3>2 DEF DeleteRoots
    <3>3. CASE PutBack(j)
      BY <3>3 DEF PutBack
    <3>4. CASE ~(PublishPart(j) \/ PublishTemp(j) \/ Replace(j) \/ DeleteRoots(j) \/ PutBack(j))
      BY <1>4, <3>4 DEF JobStep, CheckAbsent, DropPart, KeepPart, DropTemp, CreateFails, Compare,
                        CompareAgain, MoveAside, Finish, AbandonSave, Lose, names
    <3> QED
      BY <3>1, <3>2, <3>3, <3>4
  <2>4. raced \subseteq raced' /\ (target' = None \/ target' = target \/ Retarget(data'[target']))
    BY <2>1, <2>3, RetargetSeen
  <2> QED
    BY <2>1, <2>2, <2>4, GotoTypes DEF Shape
<1> QED
  BY <1>1, <1>2, <1>3, <1>4

\* How a step moves files between the names.
LEMMA NamesStep ==
  ASSUME Shape, Own, NEW j \in Jobs, ~PartShared, JobStep(j)
  PROVE  \/ /\ UNCHANGED backup
            /\ \/ UNCHANGED target
               \/ target' = None /\ swept' = (swept \/ target # None)
               \/ target' = j /\ ~Named(j) /\ target = None
         \/ /\ job[j].kind = "save" /\ job[j].phase = "fresh" /\ Goto(j, "moved")
            /\ target # None /\ target' = None /\ backup' = [backup EXCEPT ![j] = target]
         \/ /\ job[j].kind = "save" /\ job[j].phase = "placed" /\ Goto(j, "done")
            /\ UNCHANGED target /\ backup' = [backup EXCEPT ![j] = None]
         \/ /\ job[j].kind = "save" /\ job[j].phase = "moved" /\ Goto(j, "failed")
            /\ target = None /\ target' = backup[j] /\ backup' = [backup EXCEPT ![j] = None]
<1> USE DEF Opening, Late
<1>1. CASE PublishPart(j)
  <2>1. part = j /\ ~Named(j)
    BY <1>1 DEF PublishPart, Is, Own, OwnFiles, NamedWhole
  <2> QED
    BY <1>1, <2>1 DEF PublishPart
<1>2. CASE PublishTemp(j) \/ Replace(j)
  <2>1. temp[j] = j /\ ~Named(j)
    BY <1>2 DEF PublishTemp, Replace, Is, Own, OwnFiles, NamedWhole
  <2> QED
    BY <1>2, <2>1 DEF PublishTemp, Replace
<1>3. CASE MoveAside(j) \/ Finish(j) \/ PutBack(j) \/ DeleteRoots(j)
  BY <1>3 DEF MoveAside, Finish, PutBack, DeleteRoots, Is
<1>4. CASE ~(\/ PublishPart(j) \/ PublishTemp(j) \/ Replace(j)
             \/ MoveAside(j) \/ Finish(j) \/ PutBack(j) \/ DeleteRoots(j))
  BY <1>4 DEF JobStep, CheckAbsent, CreatePart, CreateTemp, WriteChunk, DropPart, KeepPart,
              DropTemp, CreateFails, Load, Compare, CompareAgain, AbandonSave, Lose, names
<1> QED
  BY <1>1, <1>2, <1>3, <1>4

LEMMA ApartStep ==
  ASSUME Shape, Own, Apart, NEW j \in Jobs, ~PartShared, JobStep(j)
  PROVE  Apart'
<1> USE NamesAssumption DEF Shape, TypeOK
<1>1. CASE UNCHANGED backup /\ (target' \in {target, None} \/ (target' = j /\ ~Named(j)))
  BY <1>1 DEF Apart, Named
<1>2. CASE target # None /\ target' = None /\ backup' = [backup EXCEPT ![j] = target]
  BY <1>2 DEF Apart
<1>3. CASE UNCHANGED target /\ backup' = [backup EXCEPT ![j] = None]
  BY <1>3 DEF Apart
<1>4. CASE target' = backup[j] /\ backup' = [backup EXCEPT ![j] = None]
  BY <1>4 DEF Apart
<1> QED
  BY <1>1, <1>2, <1>3, <1>4, NamesStep

LEMMA KeptStep ==
  ASSUME Shape, Own, Compared, Kept, NEW j \in Jobs, ~PartShared, JobStep(j)
  PROVE  Kept'
<1> USE NamesAssumption DEF Shape, TypeOK
<1> SUFFICES ASSUME ~swept', target' = None,
                    ~ \A i \in Jobs : job'[i].kind = "save" => job'[i].phase = "idle"
             PROVE  \E i \in Jobs : backup'[i] # None /\ job'[i].phase \in {"moved", "failed"}
  BY DEF Kept
<1>1. swept => swept'
  BY DEF JobStep, CheckAbsent, CreatePart, CreateTemp, WriteChunk, PublishPart, PublishTemp,
         DropPart, KeepPart, DropTemp, DeleteRoots, CreateFails, Load, Compare, CompareAgain,
         MoveAside, Replace, Finish, AbandonSave, PutBack, Lose
<1>2. CASE target # None
  <2>1. /\ backup' = [backup EXCEPT ![j] = target] /\ Goto(j, "moved")
    BY <1>1, <1>2, NamesStep
  <2> QED
    BY <1>2, <2>1, GotoTypes DEF Phases
<1>3. CASE target = None
  <2>1. \E i \in Jobs : job[i].kind = "save" /\ job[i].phase # "idle"
    <3>1. PICK i \in Jobs : job'[i].kind = "save" /\ job'[i].phase # "idle"
      OBVIOUS
    <3>2. i # j => job[i].kind = "save" /\ job[i].phase # "idle"
      BY <3>1, StepEffect
    <3>3. ASSUME i = j PROVE job[j].kind = "save" /\ job[j].phase # "idle"
      BY <1>3, <3>1, <3>3, StepEffect
         DEF JobStep, CheckAbsent, CreatePart, CreateTemp, WriteChunk, PublishPart, PublishTemp,
             DropPart, KeepPart, DropTemp, DeleteRoots, CreateFails, Load, Compare, CompareAgain,
             MoveAside, Replace, Finish, AbandonSave, PutBack, Lose, Is, Puts
    <3> QED
      BY <3>2, <3>3
  <2>2. PICK i \in Jobs : backup[i] # None /\ job[i].phase \in {"moved", "failed"}
    BY <1>1, <1>3, <2>1 DEF Kept
  <2>3. CASE i # j
    BY <2>2, <2>3, StepEffect
  <2>4. CASE i = j
    <3>1. Replace(j) \/ PutBack(j) \/ Lose(j)
      BY <2>2, <2>4 DEF JobStep, CheckAbsent, CreatePart, CreateTemp, WriteChunk, PublishPart,
          PublishTemp, DropPart, KeepPart, DropTemp, DeleteRoots, CreateFails, Load, Compare,
          CompareAgain, MoveAside, Finish, AbandonSave, Lose, Is
    <3>2. ~Replace(j)
      BY NamesStep DEF Replace, Is, Own, OwnFiles, Opening, Files
    <3>3. ~PutBack(j)
      BY <1>3, <2>2, <2>4 DEF PutBack
    <3> QED
      BY <2>2, <2>4, <3>1, <3>2, <3>3, GotoTypes DEF Lose, names, Phases
  <2> QED
    BY <2>3, <2>4
<1> QED
  BY <1>2, <1>3

\* The steps that a save may take.
LEMMA StepsOfSaves ==
  ASSUME NEW j \in Jobs, JobStep(j), job[j].kind = "save"
  PROVE  \/ CreateTemp(j) \/ WriteChunk(j) \/ CreateFails(j) \/ Load(j) \/ Compare(j)
         \/ CompareAgain(j) \/ MoveAside(j) \/ Replace(j) \/ Finish(j) \/ AbandonSave(j)
         \/ PutBack(j) \/ Lose(j)
BY DEF JobStep, CheckAbsent, CreatePart, PublishPart, PublishTemp, DropPart, KeepPart, DropTemp,
       DeleteRoots, Is, Puts

LEMMA ComparedStep ==
  ASSUME Shape, Own, Apart, Compared, NEW j \in Jobs, ~PartShared, JobStep(j)
  PROVE  Compared'
<1> USE NamesAssumption
<1>1. ASSUME NEW i \in Jobs \ {j}, job[i].kind = "save"
      PROVE  /\ job[i].phase = "fresh" =>
                  i \in raced' \/ target' = None \/ data'[target'] = job[i].base
             /\ job[i].phase \in {"moved", "placed"} =>
                  backup'[i] # None /\ (i \in raced' \/ data'[backup'[i]] = job[i].base)
  <2>1. ASSUME job[i].phase = "fresh"
        PROVE  i \in raced' \/ target' = None \/ data'[target'] = job[i].base
    <3>1. CASE target' = target
      <4>1. i \in raced \/ target = None \/ data[target] = job[i].base
        BY <1>1, <2>1 DEF Compared
      <4>2. target # None => data'[target] = data[target]
        BY StepEffect DEF Named, Shape, TypeOK
      <4> QED
        BY <3>1, <4>1, <4>2, StepEffect
    <3>2. CASE Retarget(data'[target'])
      BY <1>1, <2>1, <3>2, RetargetSeen
    <3> QED
      BY <3>1, <3>2, StepEffect
  <2>2. ASSUME job[i].phase \in {"moved", "placed"}
        PROVE  backup'[i] # None /\ (i \in raced' \/ data'[backup'[i]] = job[i].base)
    <3>1. backup[i] # None /\ (i \in raced \/ data[backup[i]] = job[i].base)
      BY <1>1, <2>2 DEF Compared
    <3>2. data'[backup[i]] = data[backup[i]]
      BY <3>1, StepEffect DEF Named, Shape, TypeOK
    <3> QED
      BY <3>1, <3>2, StepEffect
  <2> QED
    BY <2>1, <2>2
<1>2. ASSUME job[j].kind = "save", job'[j].phase = "fresh"
      PROVE  j \in raced' \/ target' = None \/ data'[target'] = job'[j].base
  <2>1. CompareAgain(j)
    <3>1. /\ \A p \in Phases : Goto(j, p) => job'[j].phase = p
          /\ WriteChunk(j) => job'[j].phase \in {"writing", "written"}
          /\ CreateTemp(j) => job'[j].phase = "writing"
          /\ Load(j) => job'[j].phase = "editing"
      BY GotoTypes, WriteTypes DEF CreateTemp, Load, Shape, TypeOK, Job
    <3>2. /\ {"checked", "failed", "moved", "placed", "done"} \subseteq Phases
          /\ job'[j].phase = "fresh"
      BY <1>2 DEF Phases
    <3> QED
      BY <1>2, <3>1, <3>2, StepsOfSaves
         DEF CreateFails, Compare, MoveAside, Replace, Finish, AbandonSave, PutBack, Lose
  <2> QED
    BY <1>2, <2>1, StepEffect, GotoTypes DEF CompareAgain, Matches, Shape, Phases
<1>3. ASSUME job[j].kind = "save", job'[j].phase \in {"moved", "placed"}
      PROVE  backup'[j] # None /\ (j \in raced' \/ data'[backup'[j]] = job'[j].base)
  <2>1. MoveAside(j) \/ Replace(j)
    <3>1. /\ \A p \in Phases : Goto(j, p) => job'[j].phase = p
          /\ WriteChunk(j) => job'[j].phase \in {"writing", "written"}
          /\ CreateTemp(j) => job'[j].phase = "writing"
          /\ Load(j) => job'[j].phase = "editing"
      BY GotoTypes, WriteTypes DEF CreateTemp, Load, Shape, TypeOK, Job
    <3>2. /\ {"checked", "failed", "fresh", "done"} \subseteq Phases
          /\ job'[j].phase \in {"moved", "placed"}
      BY <1>3 DEF Phases
    <3> QED
      BY <1>3, <3>1, <3>2, StepsOfSaves
         DEF CreateFails, Compare, CompareAgain, Finish, AbandonSave, PutBack, Lose
  <2>2. CASE MoveAside(j)
    <3>1. j \in raced \/ data[target] = job[j].base
      BY <1>3, <2>2 DEF Compared, MoveAside, Is
    <3> QED
      BY <2>2, <3>1, StepEffect DEF MoveAside, Is, Shape, TypeOK
  <2>3. CASE Replace(j)
    <3>1. backup[j] # None /\ (j \in raced \/ data[backup[j]] = job[j].base)
      BY <1>3, <2>3 DEF Compared, Replace, Is
    <3> QED
      BY <2>3, <3>1, StepEffect DEF Replace, Is
  <2> QED
    BY <2>1, <2>2, <2>3
<1>4. ASSUME NEW i \in Jobs, job'[i].kind = "save"
      PROVE  /\ job'[i].phase = "fresh" =>
                  i \in raced' \/ target' = None \/ data'[target'] = job'[i].base
             /\ job'[i].phase \in {"moved", "placed"} =>
                  backup'[i] # None /\ (i \in raced' \/ data'[backup'[i]] = job'[i].base)
  BY <1>1, <1>2, <1>3, <1>4, StepEffect
<1> QED
  BY <1>4 DEF Compared

LEMMA OtherStep ==
  ASSUME Shape, Own, Apart, Kept, Compared, OtherCreates \/ OtherEdits
  PROVE  Apart' /\ Kept' /\ Compared'
<1> USE NamesAssumption
<1>1. job' = job /\ UNCHANGED <<backup, swept>>
  BY DEF OtherCreates, OtherEdits, names
<1>2. CASE OtherCreates
  <2>1. target' = Other /\ data' = data /\ target = None /\ \A j \in Jobs : backup[j] # Other
    BY <1>2 DEF OtherCreates
  <2>2. Apart' /\ Kept'
    BY <1>1, <2>1 DEF Apart, Kept
  <2>3. Compared'
    BY <1>1, <1>2, <2>1, RetargetSeen DEF Compared, OtherCreates
  <2> QED
    BY <2>2, <2>3
<1>3. CASE OtherEdits
  <2>1. target' = target /\ target \in Files /\ data' = [data EXCEPT ![target] = WholeOf(Other)]
    BY <1>3 DEF OtherEdits, names, Shape, TypeOK
  <2>2. Apart' /\ Kept'
    BY <1>1, <2>1 DEF Apart, Kept
  <2>3. data'[target] = WholeOf(Other) /\ \A f \in Files \ {target} : data'[f] = data[f]
    BY <2>1 DEF Shape, TypeOK
  <2>4. /\ raced \subseteq raced'
        /\ \A i \in Jobs : job[i].kind = "save" /\ job[i].phase = "fresh"
              => i \in raced' \/ job[i].base = WholeOf(Other)
    BY <1>3, RetargetSeen DEF OtherEdits
  <2>5. ASSUME NEW i \in Jobs, job[i].kind = "save", job[i].phase \in {"moved", "placed"}
        PROVE  backup'[i] # None /\ (i \in raced' \/ data'[backup'[i]] = job'[i].base)
    <3>1. backup[i] # None /\ (i \in raced \/ data[backup[i]] = job[i].base)
      BY <2>5 DEF Compared
    <3>2. backup[i] \in Files \ {target}
      BY <3>1 DEF Apart, Shape, TypeOK
    <3> QED
      BY <1>1, <2>3, <2>4, <3>1, <3>2
  <2>6. Compared'
    BY <1>1, <2>1, <2>3, <2>4, <2>5 DEF Compared
  <2> QED
    BY <2>2, <2>6
<1> QED
  BY <1>2, <1>3

-----------------------------------------------------------------------------
(* The theorems. *)

LEMMA FileInit == Init => FileInv
<1> SUFFICES ASSUME Init PROVE FileInv
  OBVIOUS
<1>1. Apart /\ Kept /\ Compared
  BY DEF Init, Apart, Kept, Compared
<1> QED
  BY <1>1, ShapeInit, OwnInit DEF FileInv

LEMMA FileNext == FileInv /\ [Next]_vars => FileInv'
<1> SUFFICES ASSUME FileInv, [Next]_vars PROVE FileInv'
  OBVIOUS
<1>1. CASE UNCHANGED vars
  <2>1. Shape' /\ (PartShared' <=> PartShared)
    BY <1>1 DEF vars, names, FileInv, Shape, TypeOK, Offsets, PartShared
  <2>2. OwnFiles' <=> OwnFiles
    BY <1>1 DEF vars, names, OwnFiles
  <2>3. OwnData' <=> OwnData
    BY <1>1 DEF vars, names, OwnData, WholeOf
  <2>4. NamedWhole' <=> NamedWhole
    BY <1>1 DEF vars, names, NamedWhole, Named, IsWhole, WholeOf
  <2>5. (Apart' <=> Apart) /\ (Kept' <=> Kept) /\ (Compared' <=> Compared)
    BY <1>1 DEF vars, names, Apart, Kept, Compared
  <2> QED
    BY <2>1, <2>2, <2>3, <2>4, <2>5 DEF FileInv, Own
<1>2. ASSUME NEW j \in Jobs, JobStep(j) PROVE FileInv'
  <2>1. Shape' /\ (PartShared' <=> PartShared)
    BY <1>2, ShapeStep DEF FileInv, PartShared
  <2> QED
    BY <1>2, <2>1, OwnStep, ApartStep, KeptStep, ComparedStep DEF FileInv
<1>3. CASE OtherCreates \/ OtherEdits
  <2>1. Shape' /\ (PartShared' <=> PartShared)
    BY <1>3, ShapeOther DEF FileInv, PartShared
  <2> QED
    BY <1>3, <2>1, OwnOther, OtherStep DEF FileInv
<1> QED
  BY <1>1, <1>2, <1>3 DEF Next, JobStep

LEMMA FileSafety == Spec => []FileInv
BY FileInit, FileNext, PTL DEF Spec

(* Whatever the number of jobs, their kinds and the length of a file, every *)
(* variable keeps its type: no write falls outside its file.                *)
THEOREM FileTypes == Spec => []TypeOK
<1>1. FileInv => TypeOK
  BY DEF FileInv, Shape
<1> QED
  BY <1>1, FileSafety, PTL

(* Whoever opens the target finds a whole file: a job puts a file in place  *)
(* only when it has written all of it, and never writes it afterwards.      *)
THEOREM TargetStaysWhole == Spec => []TargetIsWhole
<1>1. FileInv => TargetIsWhole
  BY DEF FileInv, Shape, TypeOK, Own, NamedWhole, Named, TargetIsWhole
<1> QED
  BY <1>1, FileSafety, PTL

(* A save never loses the file, whichever jobs fail or are cut off and in   *)
(* whichever step, unless a selection's clean-up deletes it.                *)
THEOREM SavesLoseNothing == Spec => []NothingLost
<1>1. ASSUME FileInv, ~PartShared, ~swept, NEW j \in Jobs,
             job[j].kind = "save", job[j].phase # "idle"
      PROVE  \E f \in {target} \cup {backup[i] : i \in Jobs} : f # None /\ IsWhole(f)
  <2>1. PICK f \in {target} \cup {backup[i] : i \in Jobs} : f # None
    BY <1>1 DEF FileInv, Kept
  <2>2. f \in Files /\ Named(f)
    BY <1>1, <2>1 DEF FileInv, Shape, TypeOK, Named
  <2>3. IsWhole(f)
    BY <1>1, <2>2 DEF FileInv, Own, NamedWhole
  <2> QED
    BY <2>1, <2>3
<1>2. FileInv => NothingLost
  BY <1>1 DEF NothingLost
<1> QED
  BY <1>2, FileSafety, PTL

(* What a save discards is the text its editor had loaded, unless someone   *)
(* changes it between the last comparison and the rename.                   *)
THEOREM SavesDiscardSeen == Spec => []DiscardsOnlySeen
<1>1. FileInv => DiscardsOnlySeen
  BY DEF FileInv, Compared, DiscardsOnlySeen, Is
<1> QED
  BY <1>1, FileSafety, PTL

-----------------------------------------------------------------------------
(* The paths a user picked (PickedPaths). *)

Entry == [act: Acts, paths: SUBSET LocalPaths]

\* The log `later` is the log `l` and the entry e.
Longer(l, later, e) ==
  /\ Len(l) \in Nat /\ Len(later) = Len(l) + 1
  /\ \A k \in 1..Len(l) : later[k] = l[k]
  /\ later[Len(l) + 1] = e

\* The answer `pick` with these paths is in the log l, with none of `acts` since.
Since(l, pick, paths, acts) ==
  \E k \in 1..Len(l) :
    /\ l[k] = [act |-> pick, paths |-> paths]
    /\ \A m \in (k + 1)..Len(l) : l[m].act \notin acts

\* Follows and Count, of any log.
FollowsIn(l, i, pick, acts) ==
  \E k \in 1..(i - 1) :
    /\ l[k] = [act |-> pick, paths |-> l[i].paths]
    /\ \A m \in (k + 1)..(i - 1) : l[m].act \notin acts
CountIn(l, i, e) == Cardinality({k \in 1..i : l[k] = e})
Download(paths) == [act |-> "download", paths |-> paths]
PickSave(paths) == [act |-> "pickSave", paths |-> paths]

SelectionActs == {"openSelection", "pickSelection", "trySelection", "uploadSelection"}
EntryAsPicked(l, i) ==
  /\ l[i].act = "upload" => FollowsIn(l, i, "pickFile", {"pickFile"})
  /\ l[i].act = "uploadSelection" => FollowsIn(l, i, "pickSelection", SelectionActs)
  /\ l[i].act = "uploadDropped" => FollowsIn(l, i, "drop", {"drop", "uploadDropped"})
  /\ l[i].act = "download" =>
       CountIn(l, i, Download(l[i].paths)) <= CountIn(l, i, PickSave(l[i].paths))

\* What is approved was answered, and not used up since.
Approved ==
  /\ uploadPath # NoPath => Since(log, "pickFile", {uploadPath}, {"pickFile"})
  /\ selectedPaths # {} => Since(log, "pickSelection", selectedPaths, SelectionActs)
  /\ droppedPaths # {} => Since(log, "drop", droppedPaths, {"drop", "uploadDropped"})

\* A path has been chosen as often as written, and more often if it is approved.
Single(q, approved) == \E p \in approved : q = {p}
Chosen(l, approved) ==
  \A q \in SUBSET LocalPaths :
    CountIn(l, Len(l), Download(q)) + (IF Single(q, approved) THEN 1 ELSE 0)
      <= CountIn(l, Len(l), PickSave(q))

PickInv == PickTypeOK /\ Approved /\ Chosen(log, downloadPaths)
           /\ \A i \in 1..Len(log) : EntryAsPicked(log, i)

-----------------------------------------------------------------------------
(* Lemmas about logs. *)

LEMMA SinceKept ==
  ASSUME NEW l, NEW later, NEW e, Longer(l, later, e),
         NEW pick, NEW paths, NEW acts, Since(l, pick, paths, acts), e.act \notin acts
  PROVE  Since(later, pick, paths, acts)
<1>1. /\ Len(l) \in Nat /\ Len(later) = Len(l) + 1
      /\ \A k \in 1..Len(l) : later[k] = l[k]
      /\ later[Len(l) + 1] = e
  BY DEF Longer
<1>2. PICK k \in 1..Len(l) :
        /\ l[k] = [act |-> pick, paths |-> paths]
        /\ \A m \in (k + 1)..Len(l) : l[m].act \notin acts
  BY DEF Since
<1>3. ASSUME NEW m \in (k + 1)..(Len(l) + 1) PROVE later[m].act \notin acts
  <2>1. CASE m = Len(l) + 1
    BY <1>1, <2>1
  <2>2. CASE m # Len(l) + 1
    BY <1>1, <1>2, <1>3, <2>2
  <2> QED
    BY <2>1, <2>2
<1>4. k \in 1..(Len(l) + 1) /\ later[k] = l[k]
  BY <1>1
<1> QED
  BY <1>1, <1>2, <1>3, <1>4 DEF Since

LEMMA SinceNow ==
  ASSUME NEW l, NEW later, NEW pick, NEW paths, NEW acts,
         Longer(l, later, [act |-> pick, paths |-> paths])
  PROVE  Since(later, pick, paths, acts)
BY DEF Since, Longer

LEMMA CountTypes ==
  ASSUME NEW l, NEW i \in Nat, NEW e
  PROVE  CountIn(l, i, e) \in Nat
<1>1. IsFiniteSet(1..i)
  BY FS_Interval
<1>2. IsFiniteSet({k \in 1..i : l[k] = e})
  BY <1>1, FS_Subset
<1> QED
  BY <1>2, FS_CardinalityType DEF CountIn

LEMMA CountLonger ==
  ASSUME NEW l, NEW later, NEW e, Longer(l, later, e), NEW c
  PROVE  /\ \A i \in 1..Len(l) : CountIn(later, i, c) = CountIn(l, i, c)
         /\ e = c => CountIn(later, Len(later), c) = CountIn(l, Len(l), c) + 1
         /\ e # c => CountIn(later, Len(later), c) = CountIn(l, Len(l), c)
<1> DEFINE n == Len(l)
           before == {k \in 1..n : l[k] = c}
           after == {k \in 1..(n + 1) : later[k] = c}
<1>1. n \in Nat /\ Len(later) = n + 1 /\ (\A k \in 1..n : later[k] = l[k]) /\ later[n + 1] = e
  BY DEF Longer
<1> HIDE DEF n
<1>2. ASSUME NEW i \in 1..n PROVE CountIn(later, i, c) = CountIn(l, i, c)
  <2>1. \A k \in 1..i : later[k] = l[k]
    BY <1>1
  <2>2. {k \in 1..i : later[k] = c} = {k \in 1..i : l[k] = c}
    BY <2>1
  <2> QED
    BY <2>2 DEF CountIn
<1>3. IsFiniteSet(before) /\ Cardinality(before) \in Nat
  <2>1. IsFiniteSet(1..n)
    BY <1>1, FS_Interval
  <2> QED
    BY <2>1, FS_Subset, FS_CardinalityType
<1>4. 1..(n + 1) = (1..n) \cup {n + 1} /\ n + 1 \notin 1..n
  BY <1>1
<1>5. CountIn(l, n, c) = Cardinality(before) /\ CountIn(later, n + 1, c) = Cardinality(after)
  BY DEF CountIn
<1>6. ASSUME e = c PROVE CountIn(later, n + 1, c) = CountIn(l, n, c) + 1
  <2>1. after = before \cup {n + 1} /\ n + 1 \notin before
    BY <1>1, <1>4, <1>6
  <2>2. Cardinality(after) = Cardinality(before) + 1
    BY <1>3, <2>1, FS_AddElement
  <2> QED
    BY <1>5, <2>2
<1>7. ASSUME e # c PROVE CountIn(later, n + 1, c) = CountIn(l, n, c)
  <2>1. after = before
    BY <1>1, <1>4, <1>7
  <2> QED
    BY <1>5, <2>1
<1> QED
  BY <1>1, <1>2, <1>6, <1>7 DEF n

\* The entries that were sent as picked stay so, and one more is if it follows
\* its answer.
LEMMA SentLonger ==
  ASSUME NEW l, NEW later, NEW act, NEW paths,
         Longer(l, later, [act |-> act, paths |-> paths]),
         \A i \in 1..Len(l) : EntryAsPicked(l, i),
         act = "upload" => Since(l, "pickFile", paths, {"pickFile"}),
         act = "uploadSelection" => Since(l, "pickSelection", paths, SelectionActs),
         act = "uploadDropped" => Since(l, "drop", paths, {"drop", "uploadDropped"}),
         act = "download" => CountIn(l, Len(l), Download(paths)) + 1
                               <= CountIn(l, Len(l), PickSave(paths))
  PROVE  \A i \in 1..Len(later) : EntryAsPicked(later, i)
<1> DEFINE n == Len(l)
<1>1. /\ n \in Nat /\ Len(later) = n + 1 /\ (\A k \in 1..n : later[k] = l[k])
      /\ later[n + 1] = [act |-> act, paths |-> paths]
  BY DEF Longer
<1> HIDE DEF n
<1>2. ASSUME NEW i \in 1..n PROVE EntryAsPicked(later, i)
  <2>1. \A k \in 1..i : later[k] = l[k]
    BY <1>1
  <2>2. ASSUME NEW pick, NEW acts, FollowsIn(l, i, pick, acts)
        PROVE  FollowsIn(later, i, pick, acts)
    <3>1. PICK k \in 1..(i - 1) :
            /\ l[k] = [act |-> pick, paths |-> l[i].paths]
            /\ \A m \in (k + 1)..(i - 1) : l[m].act \notin acts
      BY <2>2 DEF FollowsIn
    <3>2. k \in 1..i /\ i \in 1..i /\ \A m \in (k + 1)..(i - 1) : m \in 1..i
      BY <1>1, <3>1
    <3> QED
      BY <2>1, <3>1, <3>2 DEF FollowsIn
  <2>3. later[i] = l[i] /\ \A c : CountIn(later, i, c) = CountIn(l, i, c)
    <3>1. later[i] = l[i]
      BY <1>1
    <3>2. \A c : CountIn(later, i, c) = CountIn(l, i, c)
      BY CountLonger DEF n
    <3> QED
      BY <3>1, <3>2
  <2>4. EntryAsPicked(l, i)
    BY DEF n
  <2> QED
    BY <2>2, <2>3, <2>4 DEF EntryAsPicked
<1>3. EntryAsPicked(later, n + 1)
  <2>1. ASSUME NEW pick, NEW acts, Since(l, pick, paths, acts)
        PROVE  FollowsIn(later, n + 1, pick, acts)
    <3>1. PICK k \in 1..n :
            /\ l[k] = [act |-> pick, paths |-> paths]
            /\ \A m \in (k + 1)..n : l[m].act \notin acts
      BY <2>1 DEF Since, n
    <3>2. (n + 1) - 1 = n /\ \A m \in (k + 1)..n : m \in 1..n
      BY <1>1, <3>1
    <3>3. later[n + 1].paths = paths /\ later[k] = l[k]
      BY <1>1
    <3> QED
      BY <1>1, <3>1, <3>2, <3>3 DEF FollowsIn
  <2>2. ASSUME act = "download"
        PROVE  CountIn(later, n + 1, Download(paths)) <= CountIn(later, n + 1, PickSave(paths))
    <3>1. Longer(l, later, Download(paths)) /\ Download(paths) # PickSave(paths)
      BY <2>2 DEF Download, PickSave
    <3>2. /\ CountIn(later, n + 1, Download(paths)) = CountIn(l, n, Download(paths)) + 1
          /\ CountIn(later, n + 1, PickSave(paths)) = CountIn(l, n, PickSave(paths))
      BY <1>1, <3>1, CountLonger DEF n
    <3>3. CountIn(l, n, Download(paths)) \in Nat /\ CountIn(l, n, PickSave(paths)) \in Nat
      BY <1>1, CountTypes
    <3>4. CountIn(l, n, Download(paths)) + 1 <= CountIn(l, n, PickSave(paths))
      BY <2>2 DEF n
    <3> QED
      BY <3>2, <3>3, <3>4
  <2> QED
    BY <1>1, <2>1, <2>2 DEF EntryAsPicked
<1> QED
  BY <1>1, <1>2, <1>3

-----------------------------------------------------------------------------
(* The approvals. *)

LEMMA PickInitial == PickInit => PickInv
<1> SUFFICES ASSUME PickInit PROVE PickInv
  OBVIOUS
<1>1. PickTypeOK
  BY PathsAssumption DEF PickInit, PickTypeOK
<1>2. Len(log) = 0 /\ Approved
  BY DEF PickInit, Approved
<1>3. ASSUME NEW q \in SUBSET LocalPaths
      PROVE /\ CountIn(log, 0, Download(q)) = 0 /\ CountIn(log, 0, PickSave(q)) = 0
            /\ ~Single(q, downloadPaths)
  BY FS_EmptySet DEF PickInit, CountIn, Single
<1>4. Chosen(log, downloadPaths)
  BY <1>2, <1>3 DEF Chosen
<1> QED
  BY <1>1, <1>2, <1>4 DEF PickInv

LEMMA NotedLonger ==
  ASSUME PickTypeOK, NEW act \in Acts, NEW paths \in SUBSET LocalPaths, Noted(act, paths)
  PROVE  /\ Longer(log, log', [act |-> act, paths |-> paths])
         /\ log' \in Seq([act: Acts, paths: SUBSET LocalPaths]) /\ Len(log') <= MaxLog
<1>1. log \in Seq(Entry) /\ Len(log) < MaxLog /\ log' = Append(log, [act |-> act, paths |-> paths])
  BY DEF PickTypeOK, Noted, Entry
<1>2. [act |-> act, paths |-> paths] \in Entry
  BY DEF Entry
<1> QED
  BY <1>1, <1>2, PathsAssumption DEF Longer, Entry

\* What a step that notes something leaves of the approvals.
LEMMA ApprovalsKept ==
  ASSUME PickInv, NEW act \in Acts, NEW paths \in SUBSET LocalPaths, Noted(act, paths)
  PROVE  /\ uploadPath # NoPath /\ act # "pickFile"
              => Since(log', "pickFile", {uploadPath}, {"pickFile"})
         /\ selectedPaths # {} /\ act \notin SelectionActs
              => Since(log', "pickSelection", selectedPaths, SelectionActs)
         /\ droppedPaths # {} /\ act \notin {"drop", "uploadDropped"}
              => Since(log', "drop", droppedPaths, {"drop", "uploadDropped"})
<1> DEFINE e == [act |-> act, paths |-> paths]
<1>1. Longer(log, log', e) /\ e.act = act
  BY NotedLonger DEF PickInv
<1> HIDE DEF e
<1>2. uploadPath # NoPath /\ act # "pickFile"
        => Since(log', "pickFile", {uploadPath}, {"pickFile"})
  BY <1>1, SinceKept DEF PickInv, Approved
<1>3. selectedPaths # {} /\ act \notin SelectionActs
        => Since(log', "pickSelection", selectedPaths, SelectionActs)
  BY <1>1, SinceKept DEF PickInv, Approved
<1>4. droppedPaths # {} /\ act \notin {"drop", "uploadDropped"}
        => Since(log', "drop", droppedPaths, {"drop", "uploadDropped"})
  BY <1>1, SinceKept DEF PickInv, Approved
<1> QED
  BY <1>2, <1>3, <1>4

LEMMA ChosenKept ==
  ASSUME PickInv, NEW act \in Acts, NEW paths \in SUBSET LocalPaths, Noted(act, paths)
  PROVE  /\ act \notin {"download", "pickSave"} => Chosen(log', downloadPaths)
         /\ \A path \in LocalPaths : act = "pickSave" /\ paths = {path}
              => Chosen(log', downloadPaths \cup {path})
         /\ \A path \in downloadPaths : act = "download" /\ paths = {path}
              => Chosen(log', downloadPaths \ {path})
<1> DEFINE D(q) == CountIn(log, Len(log), Download(q))
           S(q) == CountIn(log, Len(log), PickSave(q))
           Dn(q) == CountIn(log', Len(log'), Download(q))
           Sn(q) == CountIn(log', Len(log'), PickSave(q))
           e == [act |-> act, paths |-> paths]
<1>1. Longer(log, log', e)
  BY NotedLonger DEF PickInv
<1>2. \A q : /\ e = Download(q) <=> act = "download" /\ paths = q
             /\ e = PickSave(q) <=> act = "pickSave" /\ paths = q
  BY DEF Download, PickSave
<1> HIDE DEF e
<1>3. ASSUME NEW q \in SUBSET LocalPaths
      PROVE  /\ D(q) \in Nat /\ S(q) \in Nat
             /\ D(q) + (IF Single(q, downloadPaths) THEN 1 ELSE 0) <= S(q)
             /\ act = "download" /\ paths = q => Dn(q) = D(q) + 1
             /\ ~(act = "download" /\ paths = q) => Dn(q) = D(q)
             /\ act = "pickSave" /\ paths = q => Sn(q) = S(q) + 1
             /\ ~(act = "pickSave" /\ paths = q) => Sn(q) = S(q)
  <2>1. Len(log) \in Nat
    BY <1>1 DEF Longer
  <2>2. D(q) \in Nat /\ S(q) \in Nat
    BY <2>1, CountTypes
  <2>3. D(q) + (IF Single(q, downloadPaths) THEN 1 ELSE 0) <= S(q)
    BY DEF PickInv, Chosen
  <2>4. /\ e = Download(q) => Dn(q) = D(q) + 1
        /\ e # Download(q) => Dn(q) = D(q)
        /\ e = PickSave(q) => Sn(q) = S(q) + 1
        /\ e # PickSave(q) => Sn(q) = S(q)
    BY <1>1, CountLonger
  <2> QED
    BY <1>2, <2>2, <2>3, <2>4
<1>4. \A approved : Chosen(log', approved) <=>
        \A q \in SUBSET LocalPaths : Dn(q) + (IF Single(q, approved) THEN 1 ELSE 0) <= Sn(q)
  BY DEF Chosen
<1> HIDE DEF D, S, Dn, Sn
<1>5. act \notin {"download", "pickSave"} => Chosen(log', downloadPaths)
  BY <1>3, <1>4
<1>6. ASSUME NEW path \in LocalPaths, act = "pickSave", paths = {path}
      PROVE  Chosen(log', downloadPaths \cup {path})
  <2>1. ASSUME NEW q \in SUBSET LocalPaths
        PROVE  Dn(q) + (IF Single(q, downloadPaths \cup {path}) THEN 1 ELSE 0) <= Sn(q)
    <3>1. CASE paths = q
      <4>1. Dn(q) = D(q) /\ Sn(q) = S(q) + 1 /\ D(q) \in Nat /\ S(q) \in Nat /\ D(q) <= S(q)
        BY <1>3, <1>6, <3>1
      <4> QED
        BY <4>1
    <3>2. CASE paths # q
      <4>1. Single(q, downloadPaths \cup {path}) => Single(q, downloadPaths)
        BY <1>6, <3>2 DEF Single
      <4>2. Dn(q) = D(q) /\ Sn(q) = S(q) /\ D(q) \in Nat /\ S(q) \in Nat
            /\ D(q) + (IF Single(q, downloadPaths) THEN 1 ELSE 0) <= S(q)
        BY <1>3, <1>6, <3>2
      <4> QED
        BY <4>1, <4>2
    <3> QED
      BY <3>1, <3>2
  <2> QED
    BY <1>4, <2>1
<1>7. ASSUME NEW path \in downloadPaths, act = "download", paths = {path}
      PROVE  Chosen(log', downloadPaths \ {path})
  <2>1. ASSUME NEW q \in SUBSET LocalPaths
        PROVE  Dn(q) + (IF Single(q, downloadPaths \ {path}) THEN 1 ELSE 0) <= Sn(q)
    <3>1. D(q) \in Nat /\ S(q) \in Nat /\ Sn(q) = S(q)
          /\ D(q) + (IF Single(q, downloadPaths) THEN 1 ELSE 0) <= S(q)
      BY <1>3, <1>7
    <3>2. CASE paths = q
      <4>1. ~Single(q, downloadPaths \ {path}) /\ Single(q, downloadPaths)
        BY <1>7, <3>2 DEF Single
      <4>2. Dn(q) = D(q) + 1
        BY <1>3, <1>7, <3>2
      <4> QED
        BY <3>1, <4>1, <4>2
    <3>3. CASE paths # q
      <4>1. Single(q, downloadPaths \ {path}) => Single(q, downloadPaths)
        BY DEF Single
      <4>2. Dn(q) = D(q)
        BY <1>3, <3>3
      <4> QED
        BY <3>1, <4>1, <4>2
    <3> QED
      BY <3>2, <3>3
  <2> QED
    BY <1>4, <2>1
<1> QED
  BY <1>5, <1>6, <1>7

\* A step that notes what may be noted keeps the log as picked.
LEMMA SentKept ==
  ASSUME PickInv, NEW act \in Acts, NEW paths \in SUBSET LocalPaths, Noted(act, paths),
         act = "upload" => Since(log, "pickFile", paths, {"pickFile"}),
         act = "uploadSelection" => Since(log, "pickSelection", paths, SelectionActs),
         act = "uploadDropped" => Since(log, "drop", paths, {"drop", "uploadDropped"}),
         act = "download" => \E path \in downloadPaths : paths = {path}
  PROVE  \A i \in 1..Len(log') : EntryAsPicked(log', i)
<1>1. Longer(log, log', [act |-> act, paths |-> paths])
  BY NotedLonger DEF PickInv
<1>2. act = "download" => CountIn(log, Len(log), Download(paths)) + 1
                            <= CountIn(log, Len(log), PickSave(paths))
  BY DEF PickInv, PickTypeOK, Chosen, Single
<1> QED
  BY <1>1, <1>2, SentLonger DEF PickInv

\* A step that notes an entry, and changes the approvals as the entry says.
LEMMA PickNoted ==
  ASSUME PickInv, NEW act \in Acts, NEW paths \in SUBSET LocalPaths, Noted(act, paths),
         dialogs' \in 0..2,
         uploadPath' \in LocalPaths \cup {NoPath}, selectedPaths' \subseteq LocalPaths,
         downloadPaths' \subseteq LocalPaths, droppedPaths' \subseteq LocalPaths,
         uploadPath' # NoPath =>
           \/ uploadPath' = uploadPath /\ act # "pickFile"
           \/ act = "pickFile" /\ paths = {uploadPath'},
         selectedPaths' # {} =>
           \/ selectedPaths' = selectedPaths /\ act \notin SelectionActs
           \/ act = "pickSelection" /\ paths = selectedPaths',
         droppedPaths' # {} =>
           \/ droppedPaths' = droppedPaths /\ act \notin {"drop", "uploadDropped"}
           \/ act = "drop" /\ paths = droppedPaths',
         \/ downloadPaths' = downloadPaths /\ act \notin {"download", "pickSave"}
         \/ \E path \in LocalPaths : /\ act = "pickSave" /\ paths = {path}
                                     /\ downloadPaths' = downloadPaths \cup {path}
         \/ \E path \in downloadPaths : /\ act = "download" /\ paths = {path}
                                        /\ downloadPaths' = downloadPaths \ {path},
         act = "upload" => Since(log, "pickFile", paths, {"pickFile"}),
         act = "uploadSelection" => Since(log, "pickSelection", paths, SelectionActs),
         act = "uploadDropped" => Since(log, "drop", paths, {"drop", "uploadDropped"})
  PROVE  PickInv'
<1>1. Longer(log, log', [act |-> act, paths |-> paths])
      /\ log' \in Seq([act: Acts, paths: SUBSET LocalPaths]) /\ Len(log') <= MaxLog
  BY NotedLonger DEF PickInv
<1>2. PickTypeOK'
  BY <1>1 DEF PickTypeOK
<1>3. /\ uploadPath' # NoPath => Since(log', "pickFile", {uploadPath'}, {"pickFile"})
      /\ selectedPaths' # {} => Since(log', "pickSelection", selectedPaths', SelectionActs)
      /\ droppedPaths' # {} => Since(log', "drop", droppedPaths', {"drop", "uploadDropped"})
  <2>1. \A acts : Since(log', act, paths, acts)
    BY <1>1, SinceNow
  <2> QED
    BY <2>1, ApprovalsKept
<1>4. Chosen(log', downloadPaths')
  BY ChosenKept
<1>5. \A i \in 1..Len(log') : EntryAsPicked(log', i)
  BY SentKept
<1> QED
  BY <1>2, <1>3, <1>4, <1>5 DEF PickInv, Approved

LEMMA PickStep == PickInv /\ [PickNext]_pickVars => PickInv'
<1> SUFFICES ASSUME PickInv, [PickNext]_pickVars PROVE PickInv'
  OBVIOUS
<1>0. CASE UNCHANGED <<approvals, log>> /\ dialogs' \in 0..2
  BY <1>0 DEF approvals, PickInv, PickTypeOK, Approved
<1>1. CASE OpenSelection
  <2>1. Noted("openSelection", {}) /\ "openSelection" \in Acts \cap SelectionActs
        /\ {} \in SUBSET LocalPaths
    BY <1>1 DEF OpenSelection, Acts, SelectionActs
  <2>2. dialogs' \in 0..2
    BY <1>1 DEF OpenSelection, PickInv, PickTypeOK
  <2> QED
    BY <1>1, <2>1, <2>2, PickNoted DEF OpenSelection, PickInv, PickTypeOK
<1>2. CASE AnswerSelection
  <2>1. dialogs' \in 0..2
    BY <1>2 DEF AnswerSelection, PickInv, PickTypeOK
  <2>2. ASSUME NEW paths \in Selections, selectedPaths' = paths, Noted("pickSelection", paths)
        PROVE  PickInv'
    <3>1. "pickSelection" \in Acts /\ paths \in SUBSET LocalPaths
      BY DEF Acts, Selections
    <3> QED
      BY <1>2, <2>1, <2>2, <3>1, PickNoted DEF AnswerSelection, PickInv, PickTypeOK
  <2> QED
    BY <1>0, <1>2, <2>1, <2>2 DEF AnswerSelection, approvals
<1>3. CASE AnswerFile
  <2>1. PICK path \in LocalPaths \cup {NoPath} :
          uploadPath' = path /\ Noted("pickFile", {path} \ {NoPath})
    BY <1>3 DEF AnswerFile
  <2>2. "pickFile" \in Acts \ SelectionActs /\ {path} \ {NoPath} \in SUBSET LocalPaths
        /\ (path # NoPath => {path} \ {NoPath} = {path})
    BY DEF Acts, SelectionActs
  <2> QED
    BY <1>3, <2>1, <2>2, PickNoted DEF AnswerFile, PickInv, PickTypeOK
<1>4. CASE AnswerSave \/ AnswerSaveFolder
  <2>1. PICK path \in LocalPaths :
          downloadPaths' = downloadPaths \cup {path} /\ Noted("pickSave", {path})
    BY <1>4 DEF AnswerSave, AnswerSaveFolder
  <2>2. UNCHANGED <<uploadPath, selectedPaths, droppedPaths, dialogs>>
    BY <1>4 DEF AnswerSave, AnswerSaveFolder
  <2>3. "pickSave" \in Acts \ SelectionActs /\ {path} \in SUBSET LocalPaths
    BY DEF Acts, SelectionActs
  <2> QED
    BY <2>1, <2>2, <2>3, PickNoted DEF PickInv, PickTypeOK
<1>5. CASE Drop
  <2>1. PICK paths \in Selections : droppedPaths' = paths /\ Noted("drop", paths)
    BY <1>5 DEF Drop
  <2>2. "drop" \in Acts \ SelectionActs /\ paths \in SUBSET LocalPaths
    BY DEF Acts, SelectionActs, Selections
  <2> QED
    BY <1>5, <2>1, <2>2, PickNoted DEF Drop, PickInv, PickTypeOK
<1>6. CASE UploadPicked
  <2>1. PICK path \in LocalPaths : uploadPath = path /\ Noted("upload", {path})
    BY <1>6 DEF UploadPicked
  <2>2. "upload" \in Acts \ SelectionActs /\ {path} \in SUBSET LocalPaths
    BY DEF Acts, SelectionActs
  <2>3. Since(log, "pickFile", {path}, {"pickFile"})
    BY <2>1, PathsAssumption DEF PickInv, Approved
  <2> QED
    BY <1>6, <2>1, <2>2, <2>3, PickNoted DEF UploadPicked, approvals, PickInv, PickTypeOK
<1>7. CASE UploadSelected
  <2>1. PICK paths \in Selections :
          Noted(IF selectedPaths = paths THEN "uploadSelection" ELSE "trySelection", paths)
    BY <1>7 DEF UploadSelected
  <2> DEFINE act == IF selectedPaths = paths THEN "uploadSelection" ELSE "trySelection"
  <2>2. act \in Acts \cap SelectionActs /\ paths \in SUBSET LocalPaths
        /\ act \in {"uploadSelection", "trySelection"}
    BY DEF Acts, SelectionActs, Selections
  <2>3. act = "uploadSelection" => Since(log, "pickSelection", paths, SelectionActs)
    <3>1. act = "uploadSelection" => selectedPaths = paths /\ paths # {}
      BY DEF Selections
    <3> QED
      BY <3>1 DEF PickInv, Approved
  <2>4. Noted(act, paths)
    BY <2>1
  <2> HIDE DEF act
  <2> QED
    BY <1>7, <2>2, <2>3, <2>4, PickNoted DEF UploadSelected, PickInv, PickTypeOK
<1>8. CASE UploadDropped
  <2>1. /\ "uploadDropped" \in Acts \ SelectionActs /\ droppedPaths \in SUBSET LocalPaths
        /\ Noted("uploadDropped", droppedPaths) /\ droppedPaths' = {}
    BY <1>8 DEF Acts, SelectionActs, UploadDropped, PickInv, PickTypeOK
  <2>2. Since(log, "drop", droppedPaths, {"drop", "uploadDropped"})
    BY <1>8 DEF UploadDropped, PickInv, Approved
  <2> QED
    BY <1>8, <2>1, <2>2, PickNoted DEF UploadDropped, PickInv, PickTypeOK
<1>9. CASE DownloadPicked
  <2>1. PICK path \in downloadPaths :
          downloadPaths' = downloadPaths \ {path} /\ Noted("download", {path})
    BY <1>9 DEF DownloadPicked
  <2>2. "download" \in Acts \ SelectionActs /\ {path} \in SUBSET LocalPaths
    BY DEF Acts, SelectionActs, PickInv, PickTypeOK
  <2> QED
    BY <1>9, <2>1, <2>2, PickNoted DEF DownloadPicked, PickInv, PickTypeOK
<1>10. CASE UNCHANGED pickVars
  BY <1>0, <1>10 DEF pickVars, approvals, PickInv, PickTypeOK
<1> QED
  BY <1>1, <1>2, <1>3, <1>4, <1>5, <1>6, <1>7, <1>8, <1>9, <1>10 DEF PickNext

(* For any paths and any length of the log: what the page had sent or      *)
(* written is what the user had picked, not used up since, and no path was *)
(* written more often than it was chosen.                                  *)
THEOREM PagesSendWhatWasPicked == PickSpec => []SentAsPicked
<1>1. PickInv => SentAsPicked
  BY DEF PickInv, SentAsPicked, EntryAsPicked, SelectionActs, FollowsIn, CountIn, Download, PickSave,
         Follows, Count
<1> QED
  BY <1>1, PickInitial, PickStep, PTL DEF PickSpec

-----------------------------------------------------------------------------
(* The entries of a directory.                                             *)

\* Only folders have files in them.
Contained == \A n \in Entries : inside[n] # {} => IsFolder(n)

\* What a job that is about to act has seen: nothing, where it found nothing
\* or did not look; otherwise just what it may remove or replace.
Looked(w) ==
  /\ w.source # w.name
  /\ w.kind = "copy" => w.saw = {}
  /\ w.kind \in {"create", "createFolder", "rename", "downloadFolder"} /\ w.step \in {"ready", "filling"}
       => w.saw = {}
  /\ w.kind = "save" /\ w.step = "ready" => w.saw = w.may
  /\ w.kind = "delete" /\ w.step \in {"ready", "scanned", "emptied"} => w.saw = w.may
  /\ w.kind = "download" /\ w.step \in {"open", "writing"} => w.saw = w.may
  /\ w.kind \in Downloads => w.step # "queued"
AllLooked == \A j \in FileJobs : Looked(work[j])

EntryInv == EntryTypeOK /\ Contained /\ AllLooked

LEMMA EntryInitial == EntryInit => EntryInv
<1> SUFFICES ASSUME EntryInit PROVE EntryInv
  OBVIOUS
<1>1. PICK first \in Entries, folder \in BOOLEAN :
        /\ top = [n \in Entries |-> IF n = first THEN 1 ELSE 0]
        /\ folders = IF folder THEN {1} ELSE {}
        /\ inside = [n \in Entries |-> IF folder /\ n = first THEN {2} ELSE {}]
        /\ made = IF folder THEN 2 ELSE 1
  BY DEF EntryInit
<1>2. 1 \in Thing /\ 2 \in Thing
  BY EntriesAssumption DEF Thing
<1>3. /\ top \in [Entries -> 0..MaxThings] /\ inside \in [Entries -> SUBSET Thing]
      /\ folders \subseteq Thing /\ made \in 0..MaxThings
  BY <1>1, <1>2, EntriesAssumption DEF Thing
<1>4. Contained
  BY <1>1 DEF Contained, IsFolder
<1>5. ASSUME NEW j \in FileJobs
      PROVE  work[j] \in Work /\ Looked(work[j])
  <2>1. PICK kinds \in {RemoteKinds, LocalKinds, LocalKinds \cup Downloads} :
          work \in [FileJobs -> {w \in [kind: kinds, name: Entries, source: Entries,
                                        step: {"asked"}, own: {0}, saw: {{}}, may: {{}}] :
                                   w.source # w.name}]
    BY DEF EntryInit
  <2>2. /\ work[j] \in [kind: kinds, name: Entries, source: Entries,
                        step: {"asked"}, own: {0}, saw: {{}}, may: {{}}]
        /\ work[j].source # work[j].name
    BY <2>1
  <2>3. kinds \subseteq LocalKinds \cup Downloads
    BY DEF RemoteKinds, LocalKinds
  <2>4. work[j] \in Work
    BY <2>2, <2>3, EntriesAssumption DEF Work, Steps, Thing
  <2>5. Looked(work[j])
    BY <2>2 DEF Looked
  <2> QED BY <2>4, <2>5
<1>6. work \in [FileJobs -> Work]
  <2>1. \E S : work \in [FileJobs -> S]
    BY DEF EntryInit
  <2> QED BY <1>5, <2>1
<1>7. partial \in [Entries -> 0..MaxThings] /\ side \in {"local", "remote"}
      /\ client \in {"desktop", "server"} /\ session \in {"connected", "closed"}
  BY EntriesAssumption DEF EntryInit
<1> QED BY <1>3, <1>4, <1>5, <1>6, <1>7 DEF EntryInv, EntryTypeOK, AllLooked

-----------------------------------------------------------------------------
(* What a step does to a job. *)

\* Only the job j is another one now; it is of the same kind and name.
Turns(j, step, saw, may) ==
  /\ work'[j].step = step /\ work'[j].saw = saw /\ work'[j].may = may
  /\ work'[j].kind = work[j].kind /\ work'[j].name = work[j].name
  /\ work'[j].source = work[j].source
  /\ \A i \in FileJobs : i # j => work'[i] = work[i]

LEMMA TurnsTo ==
  ASSUME EntryTypeOK, NEW j \in FileJobs, NEW q, work' = [work EXCEPT ![j] = q], q \in Work,
         q.kind = work[j].kind, q.name = work[j].name, q.source = work[j].source
  PROVE  work' \in [FileJobs -> Work] /\ Turns(j, q.step, q.saw, q.may)
<1>1. work \in [FileJobs -> Work]
  BY DEF EntryTypeOK
<1>2. work'[j] = q
  BY <1>1
<1> QED BY <1>1, <1>2 DEF Turns

LEMMA Becomes ==
  ASSUME EntryTypeOK, NEW j \in FileJobs, NEW step \in Steps, Become(j, step)
  PROVE  work' \in [FileJobs -> Work] /\ Turns(j, step, work[j].saw, work[j].may)
<1>1. PICK q : q = [work[j] EXCEPT !.step = step]
  OBVIOUS
<1>2. work[j] \in Work
  BY DEF EntryTypeOK
<1>3. /\ q \in Work /\ q.kind = work[j].kind /\ q.name = work[j].name /\ q.source = work[j].source
      /\ q.step = step /\ q.saw = work[j].saw /\ q.may = work[j].may
  BY <1>1, <1>2 DEF Work
<1>4. work' = [work EXCEPT ![j] = q]
  BY <1>1 DEF Become
<1> QED BY <1>3, <1>4, TurnsTo

LEMMA BecomesMaking ==
  ASSUME EntryTypeOK, NEW j \in FileJobs, NEW step \in Steps, Room, BecomeMaking(j, step)
  PROVE  work' \in [FileJobs -> Work] /\ Turns(j, step, work[j].saw, work[j].may)
<1>1. PICK q : q = [work[j] EXCEPT !.step = step, !.own = New]
  OBVIOUS
<1>2. work[j] \in Work /\ New \in 0..MaxThings
  BY EntriesAssumption DEF EntryTypeOK, Room, New
<1>3. /\ q \in Work /\ q.kind = work[j].kind /\ q.name = work[j].name /\ q.source = work[j].source
      /\ q.step = step /\ q.saw = work[j].saw /\ q.may = work[j].may
  BY <1>1, <1>2 DEF Work
<1>4. work' = [work EXCEPT ![j] = q]
  BY <1>1 DEF BecomeMaking
<1> QED BY <1>3, <1>4, TurnsTo

LEMMA UnderTyped ==
  ASSUME EntryTypeOK, NEW n \in Entries
  PROVE  Under(n) \subseteq Thing /\ inside[n] \subseteq Thing /\ top[n] \in 0..MaxThings
BY EntriesAssumption DEF EntryTypeOK, Under, Thing

LEMMA BecomesSeeing ==
  ASSUME EntryTypeOK, NEW j \in FileJobs, NEW step \in Steps,
         NEW may \in SUBSET Thing,
         \/ BecomeSeeing(j, step) /\ may = work[j].may
         \/ work' = [work EXCEPT ![j].step = step, ![j].saw = Under(work[j].name), ![j].may = may]
  PROVE  work' \in [FileJobs -> Work] /\ Turns(j, step, Under(work[j].name), may)
<1>1. PICK q : /\ \/ q = [work[j] EXCEPT !.step = step, !.saw = Under(work[j].name)] /\ may = work[j].may
                  \/ q = [work[j] EXCEPT !.step = step, !.saw = Under(work[j].name), !.may = may]
               /\ work' = [work EXCEPT ![j] = q]
  BY DEF BecomeSeeing
<1>2. work[j] \in Work /\ Under(work[j].name) \in SUBSET Thing
  BY UnderTyped DEF EntryTypeOK, Work
<1>3. /\ q \in Work /\ q.kind = work[j].kind /\ q.name = work[j].name /\ q.source = work[j].source
      /\ q.step = step /\ q.saw = Under(work[j].name) /\ q.may = may
  BY <1>1, <1>2 DEF Work
<1>4. work' = [work EXCEPT ![j] = q]
  BY <1>1
<1>5. work' \in [FileJobs -> Work] /\ Turns(j, q.step, q.saw, q.may)
  <2> HIDE DEF BecomeSeeing
  <2> QED BY <1>3, <1>4, TurnsTo
<1> QED BY <1>3, <1>5

LEMMA ReadSteps ==
  ASSUME EntryTypeOK, NEW j \in FileJobs, ReadText(j)
  PROVE  /\ work' \in [FileJobs -> Work]
         /\ \/ Turns(j, "failed", work[j].saw, work[j].may)
            \/ Turns(j, "editing", work[j].saw, {top[work[j].name]})
<1>1. CASE Become(j, "failed")
  BY <1>1, Becomes DEF Steps, Ended
<1>2. CASE IsFile(work[j].name)
           /\ work' = [work EXCEPT ![j].step = "editing", ![j].may = {top[work[j].name]}]
  <2>1. PICK q : q = [work[j] EXCEPT !.step = "editing", !.may = {top[work[j].name]}]
    OBVIOUS
  <2>2. work[j] \in Work /\ {top[work[j].name]} \in SUBSET Thing
    BY <1>2, UnderTyped DEF EntryTypeOK, Work, IsFile, Thing
  <2>3. /\ q \in Work /\ q.kind = work[j].kind /\ q.name = work[j].name /\ q.source = work[j].source
        /\ q.step = "editing" /\ q.saw = work[j].saw /\ q.may = {top[work[j].name]}
    BY <2>1, <2>2 DEF Work, Steps
  <2>4. work' = [work EXCEPT ![j] = q]
    BY <1>2, <2>1
  <2> QED BY <2>3, <2>4, TurnsTo
<1> QED BY <1>1, <1>2 DEF ReadText

-----------------------------------------------------------------------------
(* What the jobs know stays true. *)

EntryStep(j) ==
  \/ ReadText(j) \/ AskDesktop(j) \/ AskServer(j) \/ AskServerLocal(j) \/ OpenChannel(j)
  \/ CreateLocal(j) \/ LookCreate(j) \/ CreateRemoteFolder(j) \/ CreateRemoteFile(j)
  \/ CopyOpen(j) \/ CopyEnd(j) \/ CopyFails(j)
  \/ LookRename(j) \/ RenameLocal(j) \/ LookRenameRemote(j) \/ RenameRemote(j)
  \/ LookDelete(j) \/ RemoveFile(j) \/ RemoveTree(j) \/ RemoveListed(j) \/ RemoveFolder(j)
  \/ LookSave(j) \/ CommitSave(j)
  \/ Confirm(j) \/ CreatePartial(j) \/ PlacePartial(j) \/ DropPartial(j)
  \/ LookFolder(j) \/ MakeFolder(j) \/ FillFolder(j) \/ ClearFolder(j)

\* Steps after which nothing is asked of what was seen.
Loose == Ended \cup {"asked", "editing", "copying"}

\* The job goes on with what it knew, or with what it has just seen.
GoesOn(j) ==
  \/ \E step \in Loose : Become(j, step) \/ (Room /\ BecomeMaking(j, step))
  \/ \E step \in {"queued", "open"} : work[j].kind \notin Downloads /\ Become(j, step)
  \/ work[j].kind = "downloadFolder" /\ work[j].step = "ready" /\ Room /\ BecomeMaking(j, "filling")
  \/ work[j].kind = "delete" /\ work[j].step = "scanned" /\ Become(j, "emptied")
  \/ work[j].kind = "download" /\ work[j].step = "open" /\ Become(j, "writing")
Sees(j) ==
  \/ work[j].kind # "copy" /\ BecomeSeeing(j, "failed")
  \/ /\ work[j].kind \in {"create", "createFolder", "rename", "downloadFolder"}
     /\ top[work[j].name] = 0 /\ BecomeSeeing(j, "ready")
  \/ /\ work[j].kind = "save" /\ Under(work[j].name) = work[j].may
     /\ BecomeSeeing(j, "ready")
Notes(j) ==
  \/ /\ work[j].kind = "delete"
     /\ \E step \in {"scanned", "ready"} :
          work' = [work EXCEPT ![j].step = step, ![j].saw = Under(work[j].name),
                               ![j].may = Under(work[j].name)]
  \/ /\ work[j].kind \in Downloads
     /\ work' = [work EXCEPT ![j].step = "open", ![j].saw = Under(work[j].name),
                             ![j].may = IF work[j].kind = "download" THEN Under(work[j].name) ELSE {}]

LEMMA KindsOfTurns ==
  ASSUME EntryInv, NEW j \in FileJobs, EntryStep(j)
  PROVE  ReadText(j) \/ GoesOn(j) \/ Sees(j) \/ Notes(j)
<1> USE DEF GoesOn, Sees, Notes, Loose, Ended, EntryInv, AllLooked, Looked
<1>1. CASE AskDesktop(j) \/ AskServer(j) \/ AskServerLocal(j) \/ OpenChannel(j)
  BY <1>1 DEF AskDesktop, AskServer, AskServerLocal, OpenChannel, Asking, Enqueue
<1>2. CASE CreateLocal(j) \/ CreateRemoteFolder(j) \/ CreateRemoteFile(j)
           \/ CopyOpen(j) \/ CopyEnd(j) \/ CopyFails(j)
  BY <1>2 DEF CreateLocal, CreateRemoteFolder, CreateRemoteFile, CopyOpen, CopyEnd, CopyFails
<1>3. CASE LookCreate(j) \/ LookRename(j) \/ LookRenameRemote(j) \/ LookSave(j) \/ LookFolder(j)
  BY <1>3 DEF LookCreate, LookRename, LookRenameRemote, LookSave, LookFolder, Reached, Doing
<1>4. CASE RenameLocal(j) \/ RenameRemote(j) \/ RemoveFile(j) \/ RemoveTree(j) \/ RemoveFolder(j)
           \/ CommitSave(j) \/ RemoveListed(j)
  BY <1>4 DEF RenameLocal, RenameRemote, RemoveFile, RemoveTree, RemoveFolder, CommitSave, RemoveListed,
              Doing
<1>5. CASE LookDelete(j) \/ Confirm(j)
  BY <1>5 DEF LookDelete, Confirm
<1>6. CASE CreatePartial(j) \/ PlacePartial(j) \/ DropPartial(j)
           \/ MakeFolder(j) \/ FillFolder(j) \/ ClearFolder(j)
  BY <1>6 DEF CreatePartial, PlacePartial, DropPartial, MakeFolder, FillFolder, ClearFolder, Doing
<1> QED BY <1>1, <1>2, <1>3, <1>4, <1>5, <1>6 DEF EntryStep

LEMMA LookedStays ==
  ASSUME EntryInv, NEW j \in FileJobs, EntryStep(j)
  PROVE  /\ work' \in [FileJobs -> Work] /\ AllLooked'
         /\ \A i \in FileJobs : i # j => work'[i] = work[i]
<1> USE DEF EntryInv
<1>0. /\ Looked(work[j]) /\ work[j] \in Work /\ work[j].name \in Entries
      /\ work[j].saw \in SUBSET Thing /\ work[j].may \in SUBSET Thing
      /\ Under(work[j].name) \in SUBSET Thing
  BY UnderTyped DEF AllLooked, EntryTypeOK, Work
<1>1. ASSUME NEW step, NEW saw, NEW may, Turns(j, step, saw, may),
             work[j].kind = "copy" => saw = {},
             work[j].kind \in {"create", "createFolder", "rename", "downloadFolder"}
               /\ step \in {"ready", "filling"} => saw = {},
             work[j].kind = "save" /\ step = "ready" => saw = may,
             work[j].kind = "delete" /\ step \in {"ready", "scanned", "emptied"} => saw = may,
             work[j].kind = "download" /\ step \in {"open", "writing"} => saw = may,
             work[j].kind \in Downloads => step # "queued"
      PROVE  AllLooked' /\ \A i \in FileJobs : i # j => work'[i] = work[i]
  BY <1>0, <1>1 DEF Turns, AllLooked, Looked
<1>2. CASE ReadText(j)
  <2>1. work[j].kind = "save"
    BY <1>2 DEF ReadText, Doing
  <2> QED BY <1>1, <1>2, <2>1, ReadSteps DEF Downloads
<1>3. CASE GoesOn(j)
  <2>1. ASSUME NEW step \in Steps, Turns(j, step, work[j].saw, work[j].may),
               step \in Loose \/ (step \in {"queued", "open"} /\ work[j].kind \notin Downloads)
        PROVE  AllLooked' /\ \A i \in FileJobs : i # j => work'[i] = work[i]
    BY <1>0, <1>1, <2>1 DEF Looked, Loose, Ended, Downloads
  <2>2. CASE \E step \in Loose : Become(j, step) \/ (Room /\ BecomeMaking(j, step))
    BY <2>1, <2>2, Becomes, BecomesMaking DEF Loose, Steps
  <2>3. CASE \E step \in {"queued", "open"} : work[j].kind \notin Downloads /\ Become(j, step)
    BY <2>1, <2>3, Becomes DEF Steps
  <2>4. CASE /\ work[j].kind = "downloadFolder" /\ work[j].step = "ready"
             /\ Room /\ BecomeMaking(j, "filling")
    BY <1>0, <1>1, <2>4, BecomesMaking DEF Looked, Steps
  <2>5. CASE work[j].kind = "delete" /\ work[j].step = "scanned" /\ Become(j, "emptied")
    BY <1>0, <1>1, <2>5, Becomes DEF Looked, Steps
  <2>6. CASE work[j].kind = "download" /\ work[j].step = "open" /\ Become(j, "writing")
    BY <1>0, <1>1, <2>6, Becomes DEF Looked, Steps
  <2> QED BY <1>3, <2>2, <2>3, <2>4, <2>5, <2>6 DEF GoesOn
<1>4. CASE Sees(j)
  <2>1. ASSUME top[work[j].name] = 0
        PROVE  Under(work[j].name) = {}
    BY <1>0, <2>1, EntriesAssumption DEF Contained, IsFolder, Under, EntryTypeOK, Thing
  <2>2. ASSUME NEW step \in {"failed", "ready"}, BecomeSeeing(j, step)
        PROVE  work' \in [FileJobs -> Work] /\ Turns(j, step, Under(work[j].name), work[j].may)
    BY <1>0, <2>2, BecomesSeeing DEF Steps, Ended
  <2>3. CASE work[j].kind # "copy" /\ BecomeSeeing(j, "failed")
    BY <1>1, <2>2, <2>3 DEF Downloads
  <2>4. CASE /\ work[j].kind \in {"create", "createFolder", "rename", "downloadFolder"}
             /\ top[work[j].name] = 0 /\ BecomeSeeing(j, "ready")
    BY <1>1, <2>1, <2>2, <2>4 DEF Downloads
  <2>5. CASE /\ work[j].kind = "save" /\ Under(work[j].name) = work[j].may
             /\ BecomeSeeing(j, "ready")
    BY <1>1, <2>2, <2>5 DEF Downloads
  <2> QED BY <1>4, <2>3, <2>4, <2>5 DEF Sees
<1>5. CASE Notes(j)
  <2>1. ASSUME NEW step \in {"scanned", "ready", "open"}, NEW may \in SUBSET Thing,
               work' = [work EXCEPT ![j].step = step, ![j].saw = Under(work[j].name), ![j].may = may]
        PROVE  work' \in [FileJobs -> Work] /\ Turns(j, step, Under(work[j].name), may)
    BY <2>1, BecomesSeeing DEF Steps
  <2>2. CASE work[j].kind = "delete"
    <3>1. PICK step \in {"scanned", "ready", "open"} :
            work' = [work EXCEPT ![j].step = step, ![j].saw = Under(work[j].name),
                                 ![j].may = Under(work[j].name)]
      BY <1>5, <2>2 DEF Notes, Downloads
    <3>2. Turns(j, step, Under(work[j].name), Under(work[j].name)) /\ work' \in [FileJobs -> Work]
      BY <1>0, <2>1, <3>1
    <3> QED BY <1>1, <2>2, <3>2 DEF Downloads
  <2>3. CASE work[j].kind \in Downloads
    <3>1. PICK may \in SUBSET Thing :
            /\ work' = [work EXCEPT ![j].step = "open", ![j].saw = Under(work[j].name), ![j].may = may]
            /\ work[j].kind = "download" => may = Under(work[j].name)
      BY <1>0, <1>5, <2>3 DEF Notes, Downloads
    <3> QED BY <1>1, <2>1, <2>3, <3>1 DEF Downloads
  <2> QED BY <1>5, <2>2, <2>3 DEF Notes
<1> QED BY <1>2, <1>3, <1>4, <1>5, KindsOfTurns

-----------------------------------------------------------------------------
(* What a step does to the directory. *)

DirectoryOK ==
  /\ top \in [Entries -> 0..MaxThings] /\ inside \in [Entries -> SUBSET Thing]
  /\ folders \subseteq Thing /\ partial \in [Entries -> 0..MaxThings]
  /\ made \in 0..MaxThings /\ Contained

LEMMA ThingsUnder ==
  ASSUME NEW f \in [Entries -> 0..MaxThings], NEW g \in [Entries -> SUBSET Thing], NEW t
  PROVE  t \in ((Range(f) \ {0}) \cup UNION Range(g))
           <=> \E n \in Entries : (t = f[n] /\ t # 0) \/ t \in g[n]
BY DEF Range

LEMMA KeptUnder ==
  ASSUME DirectoryOK, DirectoryOK', NEW G,
         \A n \in Entries : top[n] \in G \/ top[n] = 0 \/ \E m \in Entries : top'[m] = top[n],
         \A n \in Entries : \A t \in inside[n] : t \in G \/ \E m \in Entries : t \in inside'[m]
  PROVE  Things \ Things' \subseteq G
<1> SUFFICES ASSUME NEW t \in Things, t \notin Things' PROVE t \in G
  OBVIOUS
<1>1. PICK n \in Entries : (t = top[n] /\ t # 0) \/ t \in inside[n]
  BY ThingsUnder DEF DirectoryOK, Things
<1>2. ~ \E m \in Entries : (t = top'[m] /\ t # 0) \/ t \in inside'[m]
  BY ThingsUnder DEF DirectoryOK, Things
<1> QED BY <1>1, <1>2

LEMMA DirectoryTyped ==
  ASSUME DirectoryOK, NEW n \in Entries
  PROVE  /\ Under(n) \subseteq Thing /\ inside[n] \subseteq Thing /\ top[n] \in 0..MaxThings
         /\ ~IsFolder(n) => inside[n] = {}
         /\ top[n] = 0 => ~IsFolder(n)
         /\ top[n] # 0 => top[n] \in Under(n)
         /\ inside[n] \subseteq Under(n)
BY EntriesAssumption DEF DirectoryOK, Under, Thing, Contained, IsFolder

LEMMA PutsThing ==
  ASSUME DirectoryOK, Room, NEW n \in Entries, NEW folder \in BOOLEAN, ~IsFolder(n),
         Put(n, folder), UNCHANGED partial
  PROVE  DirectoryOK' /\ Things \ Things' \subseteq {top[n]} \ {0}
<1>1. New \in Thing /\ New \in 0..MaxThings /\ New # 0
  BY EntriesAssumption DEF DirectoryOK, Room, New, Thing
<1>2. /\ top' \in [Entries -> 0..MaxThings] /\ inside' \in [Entries -> SUBSET Thing]
      /\ folders' \subseteq Thing /\ made' \in 0..MaxThings
      /\ \A m \in Entries \ {n} : top'[m] = top[m] /\ inside'[m] = inside[m]
      /\ top'[n] = New /\ inside'[n] = {} /\ folders \subseteq folders'
  BY <1>1 DEF DirectoryOK, Put
<1>3. DirectoryOK'
  BY <1>2 DEF DirectoryOK, Contained, IsFolder
<1>4. inside[n] = {}
  BY DirectoryTyped
<1> QED BY <1>2, <1>3, <1>4, KeptUnder

LEMMA Clears ==
  ASSUME DirectoryOK, NEW n \in Entries, Clear(n), UNCHANGED partial
  PROVE  DirectoryOK' /\ Things \ Things' \subseteq Under(n)
<1>1. 0 \in 0..MaxThings
  BY EntriesAssumption
<1>2. /\ top' \in [Entries -> 0..MaxThings] /\ inside' \in [Entries -> SUBSET Thing]
      /\ folders' = folders /\ made' = made
      /\ \A m \in Entries \ {n} : top'[m] = top[m] /\ inside'[m] = inside[m]
      /\ top'[n] = 0 /\ inside'[n] = {}
  BY <1>1 DEF DirectoryOK, Clear
<1>3. DirectoryOK'
  BY <1>2 DEF DirectoryOK, Contained, IsFolder
<1>4. top[n] = 0 \/ top[n] \in Under(n)
  BY DirectoryTyped
<1>5. inside[n] \subseteq Under(n)
  BY DirectoryTyped
<1> QED BY <1>2, <1>3, <1>4, <1>5, KeptUnder

LEMMA Moves ==
  ASSUME DirectoryOK, NEW m \in Entries, NEW n \in Entries, m # n, MoveTo(m, n), UNCHANGED partial
  PROVE  DirectoryOK' /\ Things \ Things' \subseteq Under(n)
<1>1. 0 \in 0..MaxThings
  BY EntriesAssumption
<1>2. /\ top' \in [Entries -> 0..MaxThings] /\ inside' \in [Entries -> SUBSET Thing]
      /\ folders' = folders /\ made' = made
      /\ \A k \in Entries \ {m, n} : top'[k] = top[k] /\ inside'[k] = inside[k]
      /\ top'[m] = 0 /\ inside'[m] = {} /\ top'[n] = top[m] /\ inside'[n] = inside[m]
  BY <1>1 DEF DirectoryOK, MoveTo
<1>3. DirectoryOK'
  BY <1>2 DEF DirectoryOK, Contained, IsFolder
<1>4. top[n] = 0 \/ top[n] \in Under(n)
  BY DirectoryTyped
<1>5. inside[n] \subseteq Under(n)
  BY DirectoryTyped
<1> QED BY <1>2, <1>3, <1>4, <1>5, KeptUnder

LEMMA Trims ==
  ASSUME DirectoryOK, NEW n \in Entries, NEW gone \in SUBSET inside[n],
         inside' = [inside EXCEPT ![n] = @ \ gone], UNCHANGED <<top, folders, partial, made>>
  PROVE  DirectoryOK' /\ Things \ Things' \subseteq gone
<1>1. /\ inside' \in [Entries -> SUBSET Thing] /\ inside'[n] = inside[n] \ gone
      /\ \A m \in Entries \ {n} : inside'[m] = inside[m]
  BY DEF DirectoryOK
<1>2. DirectoryOK'
  BY <1>1 DEF DirectoryOK, Contained, IsFolder
<1> QED BY <1>1, <1>2, KeptUnder

LEMMA Fills ==
  ASSUME DirectoryOK, Room, NEW n \in Entries, IsFolder(n),
         inside' = [inside EXCEPT ![n] = @ \cup {New}], made' = New, UNCHANGED <<top, folders, partial>>
  PROVE  DirectoryOK' /\ Things \ Things' \subseteq {}
<1>1. New \in Thing /\ New \in 0..MaxThings
  BY EntriesAssumption DEF DirectoryOK, Room, New, Thing
<1>2. /\ inside' \in [Entries -> SUBSET Thing] /\ inside'[n] = inside[n] \cup {New}
      /\ \A m \in Entries \ {n} : inside'[m] = inside[m]
  BY <1>1 DEF DirectoryOK
<1>3. DirectoryOK'
  BY <1>1, <1>2 DEF DirectoryOK, Contained, IsFolder
<1> QED BY <1>2, <1>3, KeptUnder

LEMMA Places ==
  ASSUME DirectoryOK, NEW n \in Entries, ~IsFolder(n), top' = [top EXCEPT ![n] = partial[n]],
         partial' = [partial EXCEPT ![n] = 0], UNCHANGED <<inside, folders, made>>
  PROVE  DirectoryOK' /\ Things \ Things' \subseteq {top[n]} \ {0}
<1>1. /\ top' \in [Entries -> 0..MaxThings] /\ partial' \in [Entries -> 0..MaxThings]
      /\ \A m \in Entries \ {n} : top'[m] = top[m]
  BY EntriesAssumption DEF DirectoryOK
<1>2. DirectoryOK'
  <2>1. inside[n] = {}
    BY DirectoryTyped
  <2> QED BY <1>1, <2>1 DEF DirectoryOK, Contained, IsFolder
<1> QED BY <1>1, <1>2, KeptUnder

\* A partial file is none of the things.
LEMMA Rests ==
  ASSUME DirectoryOK, partial' \in [Entries -> 0..MaxThings], made' \in 0..MaxThings,
         UNCHANGED <<top, inside, folders>>
  PROVE  DirectoryOK' /\ Things \ Things' \subseteq {}
BY DEF DirectoryOK, Contained, IsFolder, Things

-----------------------------------------------------------------------------
(* What is lost was asked for. *)

\* The job j may lose t.
MayLose(j, t) == t \in work[j].may \/ (t \notin work[j].saw /\ ActsLate(work[j], t))

LEMMA TopIsFound ==
  ASSUME DirectoryOK, NEW n \in Entries
  PROVE  top[n] \in Range(top)
BY DEF DirectoryOK, Range

LEMMA StepsMove ==
  ASSUME EntryTypeOK, NEW j \in FileJobs, EntryStep(j)
  PROVE  work'[j] # work[j]
<1>1. work[j] \in Work /\ work \in [FileJobs -> Work]
  BY DEF EntryTypeOK
<1>2. ASSUME NEW step, Become(j, step) \/ BecomeMaking(j, step) \/ BecomeSeeing(j, step),
             work[j].step # step
      PROVE  work'[j] # work[j]
  BY <1>1, <1>2 DEF Become, BecomeMaking, BecomeSeeing, Work
<1>3. CASE ReadText(j) \/ LookDelete(j) \/ Confirm(j)
  <2>1. ASSUME NEW step, NEW may, work[j].step # step,
               \/ work' = [work EXCEPT ![j].step = step, ![j].may = may]
               \/ work' = [work EXCEPT ![j].step = step, ![j].saw = Under(work[j].name), ![j].may = may]
        PROVE  work'[j] # work[j]
    BY <1>1, <2>1 DEF Work
  <2>2. CASE ReadText(j)
    BY <1>2, <2>1, <2>2 DEF ReadText, Doing
  <2>3. CASE LookDelete(j)
    <3>1. work[j].step = "open"
      BY <2>3 DEF LookDelete, Reached
    <3>2. \/ Become(j, "failed")
          \/ \E step \in {"scanned", "ready"} :
               work' = [work EXCEPT ![j].step = step, ![j].saw = Under(work[j].name),
                                    ![j].may = Under(work[j].name)]
      BY <2>3 DEF LookDelete
    <3> QED BY <1>2, <2>1, <3>1, <3>2
  <2>4. CASE Confirm(j)
    <3>1. PICK may : work' = [work EXCEPT ![j].step = "open", ![j].saw = Under(work[j].name),
                                          ![j].may = may]
      BY <2>4 DEF Confirm
    <3> QED BY <2>1, <2>4, <3>1 DEF Confirm
  <2> QED BY <1>3, <2>2, <2>3, <2>4
<1>4. CASE AskDesktop(j) \/ AskServer(j) \/ AskServerLocal(j) \/ OpenChannel(j)
  BY <1>2, <1>4 DEF AskDesktop, AskServer, AskServerLocal, OpenChannel, Asking, Enqueue
<1>5. CASE CreateLocal(j) \/ LookCreate(j) \/ CreateRemoteFolder(j) \/ CreateRemoteFile(j)
           \/ CopyOpen(j) \/ CopyEnd(j) \/ CopyFails(j)
  BY <1>2, <1>5 DEF CreateLocal, LookCreate, CreateRemoteFolder, CreateRemoteFile, CopyOpen, CopyEnd,
                    CopyFails, Doing, Reached
<1>6. CASE LookRename(j) \/ RenameLocal(j) \/ LookRenameRemote(j) \/ RenameRemote(j)
           \/ RemoveFile(j) \/ RemoveTree(j) \/ RemoveListed(j) \/ RemoveFolder(j)
  BY <1>2, <1>6 DEF LookRename, RenameLocal, LookRenameRemote, RenameRemote, RemoveFile, RemoveTree,
                    RemoveListed, RemoveFolder, Doing, Reached
<1>7. CASE LookSave(j) \/ CommitSave(j) \/ CreatePartial(j) \/ PlacePartial(j) \/ DropPartial(j)
           \/ LookFolder(j) \/ MakeFolder(j) \/ FillFolder(j) \/ ClearFolder(j)
  BY <1>2, <1>7 DEF LookSave, CommitSave, CreatePartial, PlacePartial, DropPartial, LookFolder,
                    MakeFolder, FillFolder, ClearFolder, Doing, Reached
<1> QED BY <1>3, <1>4, <1>5, <1>6, <1>7 DEF EntryStep

LEMMA EntryEffects ==
  ASSUME EntryInv, NEW j \in FileJobs, EntryStep(j)
  PROVE  DirectoryOK' /\ \A t \in Things \ Things' : MayLose(j, t)
<1> DEFINE n == work[j].name
<1> DEFINE m == work[j].source
<1>0. /\ DirectoryOK /\ Looked(work[j]) /\ n \in Entries /\ m \in Entries /\ m # n
  BY DEF EntryInv, EntryTypeOK, DirectoryOK, AllLooked, Looked, Work
<1>2. CASE UNCHANGED directory
  BY <1>0, <1>2, Rests DEF directory, DirectoryOK
<1>3. CASE ReadText(j) \/ AskDesktop(j) \/ AskServer(j) \/ AskServerLocal(j) \/ OpenChannel(j)
           \/ LookCreate(j) \/ LookRename(j) \/ LookRenameRemote(j) \/ LookDelete(j) \/ LookSave(j)
           \/ LookFolder(j) \/ CopyEnd(j) \/ Confirm(j)
  BY <1>2, <1>3 DEF ReadText, AskDesktop, AskServer, AskServerLocal, OpenChannel, LookCreate, LookRename,
                    LookRenameRemote, LookDelete, LookSave, LookFolder, CopyEnd, Confirm, Still
<1>4. ASSUME NEW folder \in BOOLEAN, Room, top[n] = 0, Put(n, folder), UNCHANGED partial
      PROVE  DirectoryOK' /\ \A t \in Things \ Things' : MayLose(j, t)
  BY <1>0, <1>4, PutsThing, DirectoryTyped
<1>5. CASE CreateLocal(j) \/ CreateRemoteFolder(j) \/ CopyOpen(j) \/ MakeFolder(j)
  BY <1>2, <1>4, <1>5 DEF CreateLocal, CreateRemoteFolder, CopyOpen, MakeFolder, directory
<1>6. ASSUME Room, ~IsFolder(n), Put(n, FALSE), UNCHANGED partial,
             \/ Doing(j, "create", "ready") /\ side = "remote"
             \/ Doing(j, "save", "ready")
      PROVE  DirectoryOK' /\ \A t \in Things \ Things' : MayLose(j, t)
  <2>1. DirectoryOK' /\ Things \ Things' \subseteq {top[n]} \ {0}
    BY <1>0, <1>6, PutsThing
  <2>2. ASSUME NEW t PROVE MayLose(j, t)
    BY <1>0, <1>6 DEF Looked, MayLose, ActsLate, Doing
  <2> QED BY <2>1, <2>2
<1>7. CASE CreateRemoteFile(j) \/ CommitSave(j)
  BY <1>2, <1>6, <1>7 DEF CreateRemoteFile, CommitSave, directory
<1>8. CASE CopyFails(j) \/ ClearFolder(j)
  <2>1. CASE Clear(n) /\ UNCHANGED partial
    <3>1. DirectoryOK' /\ Things \ Things' \subseteq Under(n)
      BY <1>0, <2>1, Clears
    <3>2. ASSUME NEW t PROVE MayLose(j, t)
      BY <1>0, <1>8 DEF Looked, MayLose, ActsLate, Doing, CopyFails, ClearFolder
    <3> QED BY <3>1, <3>2
  <2> QED BY <1>2, <1>8, <2>1 DEF CopyFails, ClearFolder, directory
<1>9. CASE RenameLocal(j)
  <2>1. CASE MoveTo(m, n) /\ UNCHANGED partial
    <3>1. DirectoryOK' /\ Things \ Things' \subseteq Under(n)
      BY <1>0, <2>1, Moves
    <3>2. ASSUME NEW t PROVE MayLose(j, t)
      BY <1>0, <1>9 DEF Looked, MayLose, ActsLate, Doing, RenameLocal
    <3> QED BY <3>1, <3>2
  <2> QED BY <1>2, <1>9, <2>1 DEF RenameLocal, directory
<1>10. CASE RenameRemote(j)
  <2>1. CASE top[n] = 0 /\ MoveTo(m, n) /\ UNCHANGED partial
    <3>1. DirectoryOK' /\ Things \ Things' \subseteq Under(n)
      BY <1>0, <2>1, Moves
    <3>2. inside[n] = {}
      BY <1>0, <2>1, DirectoryTyped
    <3>3. Under(n) = {}
      BY <2>1, <3>2 DEF Under
    <3> QED BY <3>1, <3>3
  <2> QED BY <1>2, <1>10, <2>1 DEF RenameRemote, directory
<1>11. CASE RemoveFile(j)
  <2>1. CASE Doing(j, "delete", "ready") /\ IsFile(n) /\ Clear(n) /\ UNCHANGED partial
    <3>1. DirectoryOK' /\ Things \ Things' \subseteq Under(n)
      BY <1>0, <2>1, Clears
    <3>2. Under(n) \subseteq {top[n]}
      BY <1>0, <2>1, DirectoryTyped DEF Under, IsFile
    <3>3. MayLose(j, top[n])
      BY <1>0, <2>1, TopIsFound DEF Looked, MayLose, ActsLate, Doing
    <3> QED BY <3>1, <3>2, <3>3
  <2> QED BY <1>2, <1>11, <2>1 DEF RemoveFile, directory
<1>12. CASE RemoveTree(j)
  <2>1. ASSUME NEW t PROVE MayLose(j, t)
    BY <1>0, <1>12 DEF Looked, MayLose, ActsLate, Doing, RemoveTree
  <2>2. CASE Clear(n) /\ UNCHANGED partial
    BY <1>0, <2>1, <2>2, Clears
  <2>3. CASE \E gone \in SUBSET inside[n] :
               /\ inside' = [inside EXCEPT ![n] = @ \ gone] /\ UNCHANGED <<top, folders, partial, made>>
    BY <1>0, <2>1, <2>3, Trims
  <2> QED BY <1>12, <2>2, <2>3 DEF RemoveTree
<1>13. CASE RemoveListed(j)
  <2>1. PICK gone \in SUBSET (inside[n] \cap work[j].saw) :
               /\ inside' = [inside EXCEPT ![n] = @ \ gone] /\ UNCHANGED <<top, folders, partial, made>>
    BY <1>13 DEF RemoveListed
  <2>2. DirectoryOK' /\ Things \ Things' \subseteq gone
    BY <1>0, <2>1, Trims
  <2>3. gone \subseteq work[j].may
    BY <1>0, <1>13, <2>1 DEF Looked, RemoveListed, Doing
  <2> QED BY <2>2, <2>3 DEF MayLose
<1>14. CASE RemoveFolder(j)
  <2>1. CASE Doing(j, "delete", "emptied") /\ inside[n] = {} /\ Clear(n) /\ UNCHANGED partial
    <3>1. DirectoryOK' /\ Things \ Things' \subseteq Under(n)
      BY <1>0, <2>1, Clears
    <3>2. Under(n) \subseteq {top[n]}
      BY <2>1 DEF Under
    <3>3. MayLose(j, top[n])
      BY <1>0, <2>1, TopIsFound DEF Looked, MayLose, ActsLate, Doing
    <3> QED BY <3>1, <3>2, <3>3
  <2> QED BY <1>2, <1>14, <2>1 DEF RemoveFolder, directory
<1>15. CASE CreatePartial(j)
  <2>1. Room => New \in 0..MaxThings
    BY <1>0, EntriesAssumption DEF DirectoryOK, Room, New
  <2>2. partial' \in [Entries -> 0..MaxThings] /\ made' \in 0..MaxThings /\ UNCHANGED <<top, inside, folders>>
    BY <1>0, <1>15, <2>1 DEF CreatePartial, DirectoryOK
  <2> QED BY <1>0, <2>2, Rests
<1>16. CASE PlacePartial(j)
  <2>1. DirectoryOK' /\ Things \ Things' \subseteq {top[n]} \ {0}
    BY <1>0, <1>16, Places DEF PlacePartial
  <2>2. ASSUME NEW t PROVE MayLose(j, t)
    BY <1>0, <1>16 DEF Looked, MayLose, ActsLate, Doing, PlacePartial
  <2> QED BY <2>1, <2>2
<1>17. CASE DropPartial(j)
  <2>1. partial' \in [Entries -> 0..MaxThings] /\ made' \in 0..MaxThings /\ UNCHANGED <<top, inside, folders>>
    BY <1>0, <1>17, EntriesAssumption DEF DropPartial, DirectoryOK
  <2> QED BY <1>0, <2>1, Rests
<1>18. CASE FillFolder(j)
  BY <1>0, <1>18, Fills DEF FillFolder
<1> QED BY <1>3, <1>5, <1>7, <1>8, <1>9, <1>10, <1>11, <1>12, <1>13, <1>14, <1>15, <1>16, <1>17, <1>18
        DEF EntryStep

LEMMA OthersPut ==
  ASSUME EntryInv, OtherPuts
  PROVE  EntryInv' /\ Things \ Things' \subseteq {}
<1>0. DirectoryOK
  BY DEF EntryInv, EntryTypeOK, DirectoryOK
<1>1. DirectoryOK' /\ Things \ Things' \subseteq {}
  <2>1. PICK n \in Entries :
          \/ top[n] = 0 /\ Put(n, FALSE)
          \/ /\ IsFolder(n)
             /\ inside' = [inside EXCEPT ![n] = @ \cup {New}]
             /\ made' = New /\ UNCHANGED <<top, folders>>
    BY DEF OtherPuts
  <2>2. Room /\ UNCHANGED partial
    BY DEF OtherPuts
  <2>3. CASE top[n] = 0 /\ Put(n, FALSE)
    BY <1>0, <2>2, <2>3, PutsThing, DirectoryTyped
  <2>4. CASE /\ IsFolder(n)
             /\ inside' = [inside EXCEPT ![n] = @ \cup {New}]
             /\ made' = New /\ UNCHANGED <<top, folders>>
    BY <1>0, <2>2, <2>4, Fills
  <2> QED BY <2>1, <2>3, <2>4
<1>2. UNCHANGED <<side, client, session, work>>
  BY DEF OtherPuts, Same
<1> QED BY <1>1, <1>2 DEF EntryInv, EntryTypeOK, DirectoryOK, AllLooked, Looked

LEMMA SessionEnds ==
  ASSUME EntryInv, EndSession
  PROVE  EntryInv' /\ UNCHANGED directory
<1>1. UNCHANGED <<side, client, directory>> /\ session' \in {"connected", "closed"}
  BY DEF EndSession
<1>2. ASSUME NEW j \in FileJobs
      PROVE  work'[j] \in Work /\ Looked(work'[j])
  <2>1. work[j] \in Work /\ Looked(work[j])
    BY DEF EntryInv, EntryTypeOK, AllLooked
  <2>2. \/ work'[j] = work[j]
        \/ \E step \in {"failed", "lost"} : work'[j] = [work[j] EXCEPT !.step = step]
    BY DEF EndSession
  <2>3. CASE \E step \in {"failed", "lost"} : work'[j] = [work[j] EXCEPT !.step = step]
    BY <2>1, <2>3 DEF Work, Steps, Ended, Looked
  <2> QED BY <2>1, <2>2, <2>3
<1>3. work' \in [FileJobs -> Work]
  <2>1. work' = [j \in FileJobs |-> work'[j]]
    BY DEF EndSession
  <2> QED BY <1>2, <2>1
<1> QED BY <1>1, <1>2, <1>3 DEF EntryInv, EntryTypeOK, AllLooked, Contained, IsFolder, directory

LEMMA EntryInvariant == EntrySpec => []EntryInv
<1>1. ASSUME EntryInv, [EntryNext]_entryVars
      PROVE  EntryInv'
  <2>1. ASSUME NEW j \in FileJobs, EntryStep(j)
        PROVE  EntryInv'
    <3>1. UNCHANGED <<side, client, session>>
      BY <2>1 DEF EntryStep, ReadText, AskDesktop, AskServer, AskServerLocal, OpenChannel,
           CreateLocal, LookCreate, CreateRemoteFolder, CreateRemoteFile, CopyOpen, CopyEnd, CopyFails,
           LookRename, RenameLocal, LookRenameRemote, RenameRemote, LookDelete, RemoveFile, RemoveTree,
           RemoveListed, RemoveFolder, LookSave, CommitSave, Confirm, CreatePartial, PlacePartial,
           DropPartial, LookFolder, MakeFolder, FillFolder, ClearFolder, Same, Still
    <3>2. work' \in [FileJobs -> Work] /\ AllLooked'
      BY <1>1, <2>1, LookedStays
    <3>3. DirectoryOK'
      BY <1>1, <2>1, EntryEffects
    <3> QED BY <1>1, <3>1, <3>2, <3>3 DEF EntryInv, EntryTypeOK, DirectoryOK
  <2>2. CASE EndSession
    BY <1>1, <2>2, SessionEnds
  <2>3. CASE OtherPuts
    BY <1>1, <2>3, OthersPut
  <2>4. CASE UNCHANGED entryVars
    BY <1>1, <2>4 DEF EntryInv, EntryTypeOK, AllLooked, Looked, Contained, IsFolder, entryVars, directory
  <2> QED BY <1>1, <2>1, <2>2, <2>3, <2>4 DEF EntryNext, EntryStep
<1> QED BY <1>1, EntryInitial, PTL DEF EntrySpec

\* No entry of the directory is lost that no job was asked to remove or
\* replace, except what came under the name of a job that acts on a name after
\* its last look.
THEOREM OnlyAskedEntriesAreLost == EntrySpec => OnlyAskedIsLost
<1> DEFINE Asked == \A t \in Things \ Things' : \E j \in FileJobs :
                      /\ work'[j] # work[j]
                      /\ \/ t \in work[j].may
                         \/ t \notin work[j].saw /\ ActsLate(work[j], t)
<1>1. ASSUME EntryInv, [EntryNext]_entryVars
      PROVE  [Asked]_entryVars
  <2>1. ASSUME NEW j \in FileJobs, EntryStep(j)
        PROVE  Asked
    <3>1. \A t \in Things \ Things' : MayLose(j, t)
      BY <1>1, <2>1, EntryEffects
    <3>2. work'[j] # work[j]
      BY <1>1, <2>1, StepsMove DEF EntryInv
    <3> QED BY <3>1, <3>2 DEF MayLose
  <2>2. CASE EndSession
    <3>1. Things' = Things
      BY <1>1, <2>2, SessionEnds DEF Things, directory
    <3> QED BY <3>1
  <2>3. CASE OtherPuts
    BY <1>1, <2>3, OthersPut
  <2> QED BY <1>1, <2>1, <2>2, <2>3 DEF EntryNext, EntryStep
<1> QED BY <1>1, EntryInvariant, PTL DEF EntrySpec, OnlyAskedIsLost

-----------------------------------------------------------------------------
(* The repository and its commits (GitOperations).                         *)

Ids(r) == 0..Len(r.commits)

\* Every commit has its past, and the past of everything in it.
PastsClosed(r) ==
  \A c \in 1..Len(r.commits) :
    /\ c \in Past(r, c) /\ Past(r, c) \subseteq 1..c
    /\ \A d \in Past(r, c) : Past(r, d) \subseteq Past(r, c)

Held(r) == r.shared \cup UNION {Past(r, r.branch[b]) : b \in Branches}
Survives(r) == \A c \in 1..Len(r.commits) : r.commits[c].ours => c \in Held(r)

Grounded(r) ==
  /\ r \in Repository
  /\ r.mergeHead \in Ids(r)
  /\ \A b \in Branches : r.branch[b] \in Ids(r) /\ r.tracking[b] \in Ids(r) /\ r.origin[b] \in Ids(r)
  /\ PastsClosed(r)
  /\ \A b \in Branches : Past(r, r.tracking[b]) \subseteq r.shared /\ Past(r, r.origin[b]) \subseteq r.shared
  /\ Survives(r)

LEMMA FieldTypes ==
  ASSUME NEW r \in Repository
  PROVE  /\ r.commits \in Seq([tree: [Paths -> Nat], past: SUBSET Nat, ours: BOOLEAN])
         /\ r.branch \in [Branches -> Nat] /\ r.head \in Branches
         /\ r.upstream \in [Branches -> Branches \cup {NoBranch}]
         /\ r.tracking \in [Branches -> Nat] /\ r.origin \in [Branches -> Nat]
         /\ r.index \in [Paths -> Nat] /\ r.unmerged \in SUBSET Paths /\ r.work \in [Paths -> Nat]
         /\ r.mergeHead \in Nat /\ r.lock \in BOOLEAN /\ r.merges \in Nat /\ r.shared \in SUBSET Nat
BY DEF Repository

LEMMA TreeTypes ==
  ASSUME NEW r \in Repository, NEW c \in Ids(r)
  PROVE  Tree(r, c) \in [Paths -> Nat] /\ Past(r, c) \in SUBSET Nat
<1>1. CASE c = 0
  BY <1>1 DEF Tree, Past, Empty
<1>2. CASE c # 0
  <2>1. r.commits \in Seq([tree: [Paths -> Nat], past: SUBSET Nat, ours: BOOLEAN])
    BY FieldTypes
  <2>2. c \in 1..Len(r.commits)
    BY <1>2, <2>1 DEF Ids
  <2> DEFINE Record == [tree: [Paths -> Nat], past: SUBSET Nat, ours: BOOLEAN]
  <2>3. r.commits[c] \in Record
    <3> HIDE DEF Record
    <3> QED BY <2>1, <2>2, ElementOfSeq DEF Record
  <2> QED BY <1>2, <2>3 DEF Tree, Past
<1> QED BY <1>1, <1>2

\* Both trees and pasts are of the commits alone.
LEMMA SameCommits ==
  ASSUME NEW r, NEW q, q.commits = r.commits
  PROVE  /\ \A c : Tree(q, c) = Tree(r, c) /\ Past(q, c) = Past(r, c)
         /\ Ids(q) = Ids(r)
         /\ PastsClosed(q) <=> PastsClosed(r)
BY DEF Tree, Past, Ids, PastsClosed

\* A repository whose commits are the same keeps to all of it when its names do,
\* and when what a branch no longer holds is held by another one or was shared.
LEMMA NamesMove ==
  ASSUME NEW r, Grounded(r), NEW q \in Repository, q.commits = r.commits,
         q.mergeHead \in Ids(r),
         \A b \in Branches : q.branch[b] \in Ids(r) /\ q.tracking[b] \in Ids(r) /\ q.origin[b] \in Ids(r),
         r.shared \subseteq q.shared,
         \A b \in Branches : /\ Past(r, q.tracking[b]) \subseteq q.shared
                             /\ Past(r, q.origin[b]) \subseteq q.shared,
         \A b \in Branches : \A c \in Past(r, r.branch[b]) :
            c \in q.shared \/ \E a \in Branches : c \in Past(r, q.branch[a])
  PROVE  Grounded(q)
<1>1. \A c : Past(q, c) = Past(r, c)
  BY SameCommits
<1>2. Ids(q) = Ids(r) /\ PastsClosed(q)
  BY SameCommits DEF Grounded
<1>3. Survives(q)
  <2> SUFFICES ASSUME NEW c \in 1..Len(q.commits), q.commits[c].ours
               PROVE  c \in Held(q)
    BY DEF Survives
  <2>1. c \in Held(r)
    BY DEF Survives, Grounded
  <2>2. c \in r.shared \/ \E b \in Branches : c \in Past(r, r.branch[b])
    BY <2>1 DEF Held
  <2>3. c \in q.shared \/ \E a \in Branches : c \in Past(r, q.branch[a])
    BY <2>2
  <2> QED BY <1>1, <2>3 DEF Held
<1> QED BY <1>1, <1>2, <1>3 DEF Grounded

\* Nothing but the worktree, the index and the state of a merge is another.
LEMMA FilesMove ==
  ASSUME NEW r, Grounded(r), NEW q \in Repository, q.commits = r.commits,
         q.branch = r.branch, q.tracking = r.tracking, q.origin = r.origin, q.shared = r.shared,
         q.mergeHead \in Ids(r)
  PROVE  Grounded(q)
<1>1. \A b \in Branches : /\ Past(r, q.tracking[b]) \subseteq q.shared
                          /\ Past(r, q.origin[b]) \subseteq q.shared
  BY DEF Grounded
<1>2. \A b \in Branches : q.branch[b] \in Ids(r) /\ q.tracking[b] \in Ids(r) /\ q.origin[b] \in Ids(r)
  BY DEF Grounded
<1>3. \A b \in Branches : \A c \in Past(r, r.branch[b]) : \E a \in Branches : c \in Past(r, q.branch[a])
  OBVIOUS
<1> QED BY <1>1, <1>2, <1>3, NamesMove

-----------------------------------------------------------------------------
(* The commands on the worktree and the index.                             *)

LEMMA HeadTree ==
  ASSUME NEW r, Grounded(r)
  PROVE  /\ Current(r) \in Ids(r) /\ Tree(r, Current(r)) \in [Paths -> Nat]
         /\ r \in Repository /\ r.index \in [Paths -> Nat] /\ r.work \in [Paths -> Nat]
         /\ r.unmerged \in SUBSET Paths /\ r.mergeHead \in Ids(r)
         /\ Tree(r, r.mergeHead) \in [Paths -> Nat]
<1>1. r \in Repository /\ r.mergeHead \in Ids(r)
  BY DEF Grounded
<1>2. Current(r) \in Ids(r)
  BY <1>1, FieldTypes DEF Grounded, Current
<1> QED BY <1>1, <1>2, FieldTypes, TreeTypes

LEMMA IndexMoves ==
  ASSUME NEW r, Grounded(r), NEW f \in [Paths -> Nat], NEW u \in SUBSET Paths,
         NEW q, q = [r EXCEPT !.index = f, !.unmerged = u]
  PROVE  Grounded(q) /\ q.work = r.work
<1>1. r \in Repository
  BY HeadTree
<1>2. /\ q.commits = r.commits /\ q.branch = r.branch /\ q.tracking = r.tracking
      /\ q.origin = r.origin /\ q.shared = r.shared /\ q.mergeHead = r.mergeHead /\ q.work = r.work
  BY <1>1 DEF Repository
<1>3. q \in Repository
  BY <1>1 DEF Repository
<1> QED BY <1>2, <1>3, FilesMove, HeadTree

LEMMA WorkMoves ==
  ASSUME NEW r, Grounded(r), NEW g \in [Paths -> Nat], NEW q, q = [r EXCEPT !.work = g]
  PROVE  Grounded(q) /\ q.work = g
<1>1. r \in Repository
  BY HeadTree
<1>2. /\ q.commits = r.commits /\ q.branch = r.branch /\ q.tracking = r.tracking
      /\ q.origin = r.origin /\ q.shared = r.shared /\ q.mergeHead = r.mergeHead /\ q.work = g
  BY <1>1 DEF Repository
<1>3. q \in Repository
  BY <1>1 DEF Repository
<1> QED BY <1>2, <1>3, FilesMove, HeadTree

LEMMA LockMoves ==
  ASSUME NEW r, Grounded(r), NEW lock \in BOOLEAN, NEW q, q = [r EXCEPT !.lock = lock]
  PROVE  Grounded(q) /\ q.work = r.work
<1>1. r \in Repository
  BY HeadTree
<1>2. /\ q.commits = r.commits /\ q.branch = r.branch /\ q.tracking = r.tracking
      /\ q.origin = r.origin /\ q.shared = r.shared /\ q.mergeHead = r.mergeHead /\ q.work = r.work
  BY <1>1 DEF Repository
<1>3. q \in Repository
  BY <1>1 DEF Repository
<1> QED BY <1>2, <1>3, FilesMove, HeadTree

LEMMA MergeEnds ==
  ASSUME NEW r, Grounded(r), NEW q, q = [r EXCEPT !.mergeHead = 0]
  PROVE  Grounded(q) /\ q.work = r.work
<1>1. r \in Repository /\ 0 \in Ids(r)
  BY HeadTree, FieldTypes DEF Ids
<1>2. /\ q.commits = r.commits /\ q.branch = r.branch /\ q.tracking = r.tracking
      /\ q.origin = r.origin /\ q.shared = r.shared /\ q.mergeHead = 0 /\ q.work = r.work
  BY <1>1 DEF Repository
<1>3. q \in Repository
  BY <1>1 DEF Repository
<1> QED BY <1>1, <1>2, <1>3, FilesMove

LEMMA StagingGrounded ==
  ASSUME NEW r, Grounded(r), NEW ps \in SUBSET Paths
  PROVE  /\ Grounded(Add(r, ps)) /\ Add(r, ps).work = r.work
         /\ Grounded(Reset(r, ps)) /\ Reset(r, ps).work = r.work
         /\ Grounded(Uncache(r, ps)) /\ Uncache(r, ps).work = r.work
<1>1. Grounded(Add(r, ps)) /\ Add(r, ps).work = r.work
  <2>1. PICK f : f = [p \in Paths |-> IF p \in ps THEN r.work[p] ELSE r.index[p]]
    OBVIOUS
  <2>2. f \in [Paths -> Nat]
    BY <2>1, HeadTree
  <2>3. PICK u : u = r.unmerged \ ps
    OBVIOUS
  <2>4. PICK q : q = Add(r, ps)
    OBVIOUS
  <2>5. q = [r EXCEPT !.index = f, !.unmerged = u]
    BY <2>1, <2>3, <2>4 DEF Add
  <2>6. u \in SUBSET Paths
    BY <2>3, HeadTree
  <2>7. Grounded(q) /\ q.work = r.work
    BY <2>2, <2>5, <2>6, IndexMoves, ZenonT(60)
  <2> QED BY <2>4, <2>7
<1>2. Grounded(Reset(r, ps)) /\ Reset(r, ps).work = r.work
  <2>1. PICK f : f = [p \in Paths |-> IF p \in ps THEN Tree(r, Current(r))[p] ELSE r.index[p]]
    OBVIOUS
  <2>2. f \in [Paths -> Nat]
    BY <2>1, HeadTree
  <2>3. PICK u : u = r.unmerged \ ps
    OBVIOUS
  <2>4. PICK q : q = Reset(r, ps)
    OBVIOUS
  <2>5. q = [r EXCEPT !.index = f, !.unmerged = u]
    BY <2>1, <2>3, <2>4 DEF Reset
  <2>6. u \in SUBSET Paths
    BY <2>3, HeadTree
  <2>7. Grounded(q) /\ q.work = r.work
    BY <2>2, <2>5, <2>6, IndexMoves, ZenonT(60)
  <2> QED BY <2>4, <2>7
<1>3. Grounded(Uncache(r, ps)) /\ Uncache(r, ps).work = r.work
  <2>1. PICK f : f = [p \in Paths |-> IF p \in ps THEN 0 ELSE r.index[p]]
    OBVIOUS
  <2>2. f \in [Paths -> Nat]
    BY <2>1, HeadTree
  <2>3. PICK u : u = r.unmerged \ ps
    OBVIOUS
  <2>4. PICK q : q = Uncache(r, ps)
    OBVIOUS
  <2>5. q = [r EXCEPT !.index = f, !.unmerged = u]
    BY <2>1, <2>3, <2>4 DEF Uncache
  <2>6. u \in SUBSET Paths
    BY <2>3, HeadTree
  <2>7. Grounded(q) /\ q.work = r.work
    BY <2>2, <2>5, <2>6, IndexMoves, ZenonT(60)
  <2> QED BY <2>4, <2>7
<1> QED BY <1>1, <1>2, <1>3

LEMMA UnstagingGrounded ==
  ASSUME NEW r, Grounded(r)
  PROVE  Grounded(ResetAll(r)) /\ ResetAll(r).work = r.work
BY StagingGrounded, MergeEnds DEF ResetAll

LEMMA WritesGrounded ==
  ASSUME NEW r, Grounded(r), NEW p \in Paths, NEW n \in Nat
  PROVE  Grounded([r EXCEPT !.work[p] = n])
<1>1. PICK g : g = [r.work EXCEPT ![p] = n]
  OBVIOUS
<1>2. g \in [Paths -> Nat]
  BY <1>1, HeadTree
<1> QED BY <1>1, <1>2, WorkMoves

LEMMA RemoveGrounded ==
  ASSUME NEW r, Grounded(r), NEW p \in Paths
  PROVE  Grounded(Remove(r, p)) /\ \A o \in Paths \ {p} : Remove(r, p).work[o] = r.work[o]
<1>1. PICK q : q = Uncache(r, {p})
  OBVIOUS
<1>2. Grounded(q) /\ q.work = r.work
  BY <1>1, StagingGrounded
<1>3. PICK g : g = [q.work EXCEPT ![p] = 0]
  OBVIOUS
<1>4. g \in [Paths -> Nat] /\ \A o \in Paths \ {p} : g[o] = r.work[o]
  BY <1>2, <1>3, HeadTree
<1>5. Remove(r, p) = [q EXCEPT !.work = g]
  BY <1>1, <1>3 DEF Remove
<1> QED BY <1>2, <1>4, <1>5, WorkMoves

LEMMA RestoreGrounded ==
  ASSUME NEW r, Grounded(r), NEW ps
  PROVE  /\ Grounded(Restore(r, ps)) /\ Grounded(Clean(r, ps))
         /\ \A p \in Paths \ ps : Restore(r, ps).work[p] = r.work[p] /\ Clean(r, ps).work[p] = r.work[p]
<1>1. PICK g : g = [p \in Paths |-> IF p \in ps THEN r.index[p] ELSE r.work[p]]
  OBVIOUS
<1>2. g \in [Paths -> Nat] /\ \A p \in Paths \ ps : g[p] = r.work[p]
  BY <1>1, HeadTree
<1>3. Restore(r, ps) = [r EXCEPT !.work = g]
  BY <1>1 DEF Restore
<1>4. PICK h : h = [p \in Paths |-> IF p \in ps /\ r.index[p] = 0 /\ p \notin r.unmerged
                                  THEN 0 ELSE r.work[p]]
  OBVIOUS
<1>5. h \in [Paths -> Nat] /\ \A p \in Paths \ ps : h[p] = r.work[p]
  BY <1>4, HeadTree
<1>6. Clean(r, ps) = [r EXCEPT !.work = h]
  BY <1>4 DEF Clean
<1> QED BY <1>2, <1>3, <1>5, <1>6, WorkMoves

LEMMA TakeGrounded ==
  ASSUME NEW r, Grounded(r), NEW p \in Paths, NEW way
  PROVE  Grounded(Take(r, p, way)) /\ \A o \in Paths \ {p} : Take(r, p, way).work[o] = r.work[o]
<1>1. PICK g : g = [r.work EXCEPT ![p] = IF p \in r.unmerged THEN Side(r, p, way) ELSE r.index[p]]
  OBVIOUS
<1>2. Side(r, p, way) \in Nat /\ r.index[p] \in Nat
  BY HeadTree DEF Side
<1>3. g \in [Paths -> Nat] /\ \A o \in Paths \ {p} : g[o] = r.work[o]
  BY <1>1, <1>2, HeadTree
<1>4. Take(r, p, way) = [r EXCEPT !.work = g]
  BY <1>1 DEF Take
<1> QED BY <1>3, <1>4, WorkMoves

LEMMA AbortGrounded ==
  ASSUME NEW r, Grounded(r)
  PROVE  Grounded(Abort(r))
<1>1. PICK q : q = Abort(r)
  OBVIOUS
<1>2. PICK f, g : /\ q = [r EXCEPT !.mergeHead = 0, !.unmerged = {}, !.index = f, !.work = g]
                  /\ f \in [Paths -> Nat] /\ g \in [Paths -> Nat]
  <2>1. PICK g : g = [p \in Paths |-> IF p \in Touched(r) THEN Tree(r, Current(r))[p] ELSE r.work[p]]
    OBVIOUS
  <2>2. g \in [Paths -> Nat]
    BY <2>1, HeadTree
  <2> QED BY <1>1, <2>1, <2>2, HeadTree DEF Abort
<1>3. r \in Repository /\ 0 \in Ids(r)
  BY HeadTree, FieldTypes DEF Ids
<1>4. /\ q.commits = r.commits /\ q.branch = r.branch /\ q.tracking = r.tracking
      /\ q.origin = r.origin /\ q.shared = r.shared /\ q.mergeHead = 0
  BY <1>2, <1>3 DEF Repository
<1>5. q \in Repository
  BY <1>2, <1>3 DEF Repository
<1> QED BY <1>1, <1>3, <1>4, <1>5, FilesMove

-----------------------------------------------------------------------------
(* The commands on the branches.                                           *)

LEMMA PastTypes ==
  ASSUME NEW r, Grounded(r), NEW c \in Ids(r)
  PROVE  /\ Past(r, c) \subseteq 1..Len(r.commits) /\ Len(r.commits) \in Nat
         /\ c # 0 => c \in Past(r, c) /\ \A d \in Past(r, c) : d <= c
         /\ \A d \in Past(r, c) : Past(r, d) \subseteq Past(r, c)
<1>1. Len(r.commits) \in Nat
  BY HeadTree, FieldTypes, LenProperties
<1>2. CASE c = 0
  BY <1>1, <1>2 DEF Past
<1>3. CASE c # 0
  <2>1. c \in 1..Len(r.commits)
    BY <1>1, <1>3 DEF Ids
  <2>2. /\ c \in Past(r, c) /\ Past(r, c) \subseteq 1..c
        /\ \A d \in Past(r, c) : Past(r, d) \subseteq Past(r, c)
    BY <2>1 DEF Grounded, PastsClosed
  <2> QED BY <1>1, <2>1, <2>2
<1> QED BY <1>2, <1>3

LEMMA BranchMoves ==
  ASSUME NEW r, Grounded(r), NEW B \in [Branches -> Nat], NEW q, q = [r EXCEPT !.branch = B],
         \A b \in Branches : B[b] \in Ids(r),
         \A b \in Branches : \A c \in Past(r, r.branch[b]) :
            c \in r.shared \/ \E a \in Branches : c \in Past(r, B[a])
  PROVE  Grounded(q) /\ q.work = r.work
<1>1. r \in Repository
  BY HeadTree
<1>2. /\ q.commits = r.commits /\ q.branch = B /\ q.tracking = r.tracking
      /\ q.origin = r.origin /\ q.shared = r.shared /\ q.mergeHead = r.mergeHead /\ q.work = r.work
  BY <1>1 DEF Repository
<1>3. q \in Repository
  BY <1>1 DEF Repository
<1>4. \A b \in Branches : /\ r.tracking[b] \in Ids(r) /\ r.origin[b] \in Ids(r)
                          /\ Past(r, r.tracking[b]) \subseteq r.shared
                          /\ Past(r, r.origin[b]) \subseteq r.shared
  BY DEF Grounded
<1> QED BY <1>2, <1>3, <1>4, NamesMove, HeadTree

\* A branch that led nowhere, or to what is before its new commit.
LEMMA BranchSet ==
  ASSUME NEW r, Grounded(r), NEW b \in Branches, NEW c \in Ids(r),
         NEW q, q = [r EXCEPT !.branch[b] = c],
         r.branch[b] \in Past(r, c) \cup {0} \/ Past(r, r.branch[b]) \subseteq r.shared
         \/ \E a \in Branches \ {b} : r.branch[b] \in Past(r, r.branch[a])
  PROVE  Grounded(q) /\ q.work = r.work
<1>1. PICK B : B = [r.branch EXCEPT ![b] = c]
  OBVIOUS
<1>2. q = [r EXCEPT !.branch = B]
  BY <1>1
<1>3. r.branch \in [Branches -> Nat] /\ c \in Nat /\ \A a \in Branches : r.branch[a] \in Ids(r)
  BY HeadTree, FieldTypes, PastTypes DEF Ids, Grounded
<1>4. /\ B \in [Branches -> Nat] /\ B[b] = c
      /\ \A a \in Branches \ {b} : B[a] = r.branch[a]
  BY <1>1, <1>3
<1>5. \A a \in Branches : B[a] \in Ids(r)
  BY <1>3, <1>4
<1>6. ASSUME NEW a \in Branches, NEW d \in Past(r, r.branch[a])
      PROVE  d \in r.shared \/ \E e \in Branches : d \in Past(r, B[e])
  <2>1. CASE a # b
    BY <1>4, <1>6, <2>1
  <2>2. CASE a = b
    <3>1. CASE r.branch[b] \in Past(r, c) \cup {0}
      <4>1. d \in Past(r, c)
        <5>1. r.branch[b] = 0 => Past(r, r.branch[b]) = {}
          BY DEF Past
        <5> QED BY <1>6, <2>2, <3>1, <5>1, PastTypes
      <4> QED BY <1>4, <4>1
    <3>2. CASE Past(r, r.branch[b]) \subseteq r.shared
      BY <1>6, <2>2, <3>2
    <3>3. CASE \E e \in Branches \ {b} : r.branch[b] \in Past(r, r.branch[e])
      <4>1. PICK e \in Branches \ {b} : r.branch[b] \in Past(r, r.branch[e])
        BY <3>3
      <4>2. d \in Past(r, r.branch[e])
        BY <1>3, <1>6, <2>2, <4>1, PastTypes
      <4> QED BY <1>4, <4>1, <4>2
    <3> QED BY <3>1, <3>2, <3>3
  <2> QED BY <2>1, <2>2
<1> QED BY <1>2, <1>4, <1>5, <1>6, BranchMoves

LEMMA HeadMoves ==
  ASSUME NEW r, Grounded(r), NEW b \in Branches, NEW q, q = [r EXCEPT !.head = b]
  PROVE  Grounded(q) /\ q.work = r.work /\ q.branch = r.branch /\ q.commits = r.commits
         /\ q.tracking = r.tracking
<1>1. r \in Repository
  BY HeadTree
<1>2. /\ q.commits = r.commits /\ q.branch = r.branch /\ q.tracking = r.tracking
      /\ q.origin = r.origin /\ q.shared = r.shared /\ q.mergeHead = r.mergeHead /\ q.work = r.work
  BY <1>1 DEF Repository
<1>3. q \in Repository
  BY <1>1 DEF Repository
<1> QED BY <1>2, <1>3, FilesMove, HeadTree

LEMMA UpstreamMoves ==
  ASSUME NEW r, Grounded(r), NEW b \in Branches, NEW to \in Branches \cup {NoBranch},
         NEW q, q = [r EXCEPT !.upstream[b] = to]
  PROVE  Grounded(q) /\ q.work = r.work
<1>1. r \in Repository
  BY HeadTree
<1>0. PICK U : U = [r.upstream EXCEPT ![b] = to]
  OBVIOUS
<1>4. q = [r EXCEPT !.upstream = U] /\ U \in [Branches -> Branches \cup {NoBranch}]
  BY <1>0, <1>1, FieldTypes
<1>2. /\ q.commits = r.commits /\ q.branch = r.branch /\ q.tracking = r.tracking
      /\ q.origin = r.origin /\ q.shared = r.shared /\ q.mergeHead = r.mergeHead /\ q.work = r.work
  BY <1>1, <1>4 DEF Repository
<1>3. q \in Repository
  BY <1>1, <1>4 DEF Repository
<1> QED BY <1>2, <1>3, FilesMove, HeadTree

LEMMA TrackingMoves ==
  ASSUME NEW r, Grounded(r), NEW T \in [Branches -> Nat], NEW q, q = [r EXCEPT !.tracking = T],
         \A b \in Branches : T[b] \in Ids(r) /\ Past(r, T[b]) \subseteq r.shared
  PROVE  Grounded(q) /\ q.work = r.work /\ q.branch = r.branch /\ q.commits = r.commits
         /\ q.head = r.head /\ q.lock = r.lock /\ q.mergeHead = r.mergeHead
         /\ q.unmerged = r.unmerged /\ q.index = r.index
<1>1. r \in Repository
  BY HeadTree
<1>2. /\ q.commits = r.commits /\ q.branch = r.branch /\ q.tracking = T
      /\ q.origin = r.origin /\ q.shared = r.shared /\ q.mergeHead = r.mergeHead /\ q.work = r.work
      /\ q.head = r.head /\ q.lock = r.lock /\ q.unmerged = r.unmerged /\ q.index = r.index
  BY <1>1 DEF Repository
<1>3. q \in Repository
  BY <1>1 DEF Repository
<1>4. \A b \in Branches : /\ r.branch[b] \in Ids(r) /\ r.origin[b] \in Ids(r)
                          /\ Past(r, r.origin[b]) \subseteq r.shared
  BY DEF Grounded
<1>5. Grounded(q)
  BY <1>2, <1>3, <1>4, NamesMove, HeadTree
<1> QED BY <1>2, <1>5

LEMMA FetchGrounded ==
  ASSUME NEW r, Grounded(r)
  PROVE  Grounded(Fetch(r)) /\ Fetch(r).work = r.work
<1>1. r.origin \in [Branches -> Nat]
  BY HeadTree, FieldTypes
<1>2. PICK q : q = Fetch(r)
  OBVIOUS
<1>3. \A b \in Branches : r.origin[b] \in Ids(r) /\ Past(r, r.origin[b]) \subseteq r.shared
  BY DEF Grounded
<1> QED BY <1>1, <1>2, <1>3, TrackingMoves DEF Fetch

\* Origin has what a branch leads to, and so everything before it.
LEMMA OriginMoves ==
  ASSUME NEW r, Grounded(r), NEW q, q \in Repository, NEW c \in Ids(r),
         q.commits = r.commits, q.branch = r.branch, q.mergeHead = r.mergeHead,
         q.shared = r.shared \cup Past(r, c),
         \A b \in Branches : q.origin[b] \in {r.origin[b], c} /\ q.tracking[b] \in {r.tracking[b], c}
  PROVE  Grounded(q)
<1>1. \A b \in Branches : /\ r.branch[b] \in Ids(r) /\ q.origin[b] \in Ids(r) /\ q.tracking[b] \in Ids(r)
                          /\ Past(r, q.origin[b]) \subseteq q.shared
                          /\ Past(r, q.tracking[b]) \subseteq q.shared
  BY DEF Grounded
<1> QED BY <1>1, NamesMove, HeadTree

LEMMA PushGrounded ==
  ASSUME NEW r, Grounded(r), NEW b \in Branches, NEW t \in Branches
  PROVE  /\ Grounded(Push(r, b, t)) /\ Push(r, b, t).work = r.work
         /\ LET q == [r EXCEPT !.origin = Push(r, b, t).origin, !.shared = Push(r, b, t).shared]
            IN Grounded(q) /\ q.work = r.work
<1>1. /\ r \in Repository /\ r.origin \in [Branches -> Nat] /\ r.tracking \in [Branches -> Nat]
      /\ r.branch[b] \in Nat /\ r.branch[b] \in Ids(r) /\ r.shared \in SUBSET Nat
  BY HeadTree, FieldTypes DEF Grounded
<1>2. PICK O, T, S : /\ O = [r.origin EXCEPT ![t] = r.branch[b]]
                     /\ T = [r.tracking EXCEPT ![t] = r.branch[b]]
                     /\ S = r.shared \cup Past(r, r.branch[b])
  OBVIOUS
<1>3. /\ O \in [Branches -> Nat] /\ T \in [Branches -> Nat] /\ S \in SUBSET Nat
      /\ \A a \in Branches : O[a] \in {r.origin[a], r.branch[b]} /\ T[a] \in {r.tracking[a], r.branch[b]}
  BY <1>1, <1>2, TreeTypes
<1>4. PICK q : q = Push(r, b, t)
  OBVIOUS
<1>5. q = [r EXCEPT !.origin = O, !.tracking = T, !.shared = S]
  BY <1>2, <1>4 DEF Push
<1>6. /\ q.commits = r.commits /\ q.branch = r.branch /\ q.tracking = T
      /\ q.origin = O /\ q.shared = S /\ q.mergeHead = r.mergeHead /\ q.work = r.work
  BY <1>1, <1>5 DEF Repository
<1>7. q \in Repository
  BY <1>1, <1>3, <1>5 DEF Repository
<1>8. Grounded(q)
  BY <1>1, <1>2, <1>3, <1>6, <1>7, OriginMoves
<1>9. PICK k : k = [r EXCEPT !.origin = O, !.shared = S]
  OBVIOUS
<1>10. /\ k.commits = r.commits /\ k.branch = r.branch /\ k.tracking = r.tracking
       /\ k.origin = O /\ k.shared = S /\ k.mergeHead = r.mergeHead /\ k.work = r.work
  BY <1>1, <1>9 DEF Repository
<1>11. k \in Repository
  BY <1>1, <1>3, <1>9 DEF Repository
<1>12. Grounded(k)
  BY <1>1, <1>2, <1>3, <1>10, <1>11, OriginMoves
<1>13. q.origin = O /\ q.shared = S /\ q.work = r.work
  BY <1>6
<1> QED BY <1>4, <1>8, <1>9, <1>10, <1>12, <1>13

\* Nothing that is in the worktree alone is overwritten.
Spares(r, g) == \A p \in Paths : g[p] # r.work[p] => r.work[p] \in {0, r.index[p]}

LEMMA GoMoves ==
  ASSUME NEW r, Grounded(r), NEW c \in Ids(r), NEW q, q = Go(r, c)
  PROVE  /\ Grounded(q) /\ q.branch = r.branch /\ q.tracking = r.tracking /\ q.commits = r.commits
         /\ q.head = r.head /\ q.shared = r.shared /\ q.upstream = r.upstream
         /\ CanGo(r, c) \/ c = Current(r) => Spares(r, q.work)
<1>1. /\ r \in Repository /\ r.index \in [Paths -> Nat] /\ r.work \in [Paths -> Nat]
      /\ Tree(r, c) \in [Paths -> Nat]
  BY HeadTree, TreeTypes
<1>2. PICK f : f = [p \in Paths |-> IF Differs(r, c, p) THEN Tree(r, c)[p] ELSE r.index[p]]
  OBVIOUS
<1>3. PICK g : g = [p \in Paths |-> IF Differs(r, c, p) /\ r.index[p] # Tree(r, c)[p]
                                   THEN Tree(r, c)[p] ELSE r.work[p]]
  OBVIOUS
<1>4. f \in [Paths -> Nat] /\ g \in [Paths -> Nat]
  BY <1>1, <1>2, <1>3
<1>5. q = [r EXCEPT !.index = f, !.work = g]
  BY <1>2, <1>3 DEF Go
<1>6. /\ q.commits = r.commits /\ q.branch = r.branch /\ q.tracking = r.tracking
      /\ q.origin = r.origin /\ q.shared = r.shared /\ q.mergeHead = r.mergeHead /\ q.work = g
      /\ q.head = r.head /\ q.upstream = r.upstream
  BY <1>1, <1>5 DEF Repository
<1>7. q \in Repository
  BY <1>1, <1>4, <1>5 DEF Repository
<1>8. Grounded(q)
  BY <1>6, <1>7, FilesMove, HeadTree
<1>9. ASSUME CanGo(r, c) \/ c = Current(r)
      PROVE  Spares(r, g)
  BY <1>3, <1>9 DEF Spares, CanGo, Differs
<1> QED BY <1>6, <1>8, <1>9

LEMMA SwitchGrounded ==
  ASSUME NEW r, Grounded(r), NEW b \in Branches, CanSwitch(r, b)
  PROVE  Grounded(Switch(r, b)) /\ Spares(r, Switch(r, b).work)
<1>1. /\ r.branch[b] \in Ids(r) /\ r.tracking[b] \in Ids(r)
      /\ Past(r, 0) = {}
  BY DEF Grounded, Past
<1>2. CASE r.branch[b] # 0
  <2>1. PICK q : q = Go(r, r.branch[b])
    OBVIOUS
  <2>2. Grounded(q) /\ Spares(r, q.work)
    BY <1>1, <1>2, <2>1, GoMoves DEF CanSwitch
  <2>3. Switch(r, b) = [q EXCEPT !.head = b]
    BY <1>2, <2>1 DEF Switch
  <2> QED BY <2>2, <2>3, HeadMoves
<1>3. CASE r.branch[b] = 0
  <2>1. PICK q : q = Go(r, r.tracking[b])
    OBVIOUS
  <2>2. Grounded(q) /\ Spares(r, q.work) /\ q.branch = r.branch /\ q.commits = r.commits
    BY <1>1, <1>3, <2>1, GoMoves DEF CanSwitch
  <2>3. PICK q2 : q2 = [q EXCEPT !.head = b]
    OBVIOUS
  <2>4. Grounded(q2) /\ q2.work = q.work /\ q2.branch = r.branch /\ q2.commits = r.commits
    BY <2>2, <2>3, HeadMoves
  <2>5. PICK c : c = r.tracking[b]
    OBVIOUS
  <2>6. PICK q3 : q3 = [q2 EXCEPT !.branch[b] = c]
    OBVIOUS
  <2>7. c \in Ids(q2) /\ q2.branch[b] = 0
    BY <1>1, <1>3, <2>4, <2>5, SameCommits
  <2>8. Grounded(q3) /\ q3.work = q.work
    BY <2>4, <2>6, <2>7, BranchSet
  <2>9. Switch(r, b) = [q3 EXCEPT !.upstream[b] = b]
    BY <1>3, <2>1, <2>3, <2>5, <2>6 DEF Switch
  <2> QED BY <2>2, <2>8, <2>9, UpstreamMoves
<1> QED BY <1>2, <1>3

LEMMA CreateGrounded ==
  ASSUME NEW r, Grounded(r), NEW b \in Branches, NEW c \in Ids(r), CanCreate(r, b, c)
  PROVE  Grounded(Create(r, b, c)) /\ Spares(r, Create(r, b, c).work)
<1>1. PICK q : q = Go(r, c)
  OBVIOUS
<1>2. Grounded(q) /\ Spares(r, q.work) /\ q.branch = r.branch /\ q.commits = r.commits
  BY <1>1, GoMoves DEF CanCreate
<1>3. PICK q2 : q2 = [q EXCEPT !.head = b]
  OBVIOUS
<1>4. Grounded(q2) /\ q2.work = q.work /\ q2.branch = r.branch /\ q2.commits = r.commits
  BY <1>2, <1>3, HeadMoves
<1>5. PICK q3 : q3 = [q2 EXCEPT !.branch[b] = c]
  OBVIOUS
<1>6. c \in Ids(q2) /\ q2.branch[b] = 0
  BY <1>4, SameCommits DEF CanCreate
<1>7. Grounded(q3) /\ q3.work = q.work
  BY <1>4, <1>5, <1>6, BranchSet
<1>8. Create(r, b, c) = q3
  BY <1>1, <1>3, <1>5 DEF Create
<1> QED BY <1>2, <1>7, <1>8

LEMMA DeleteGrounded ==
  ASSUME NEW r, Grounded(r), NEW b \in Branches, CanDelete(r, b)
  PROVE  Grounded(Delete(r, b)) /\ Delete(r, b).work = r.work
<1>1. PICK q : q = [r EXCEPT !.branch[b] = 0]
  OBVIOUS
<1>2. 0 \in Ids(r) /\ r \in Repository
  BY HeadTree, PastTypes DEF Ids
<1>3. \/ Past(r, r.branch[b]) \subseteq r.shared
      \/ \E a \in Branches \ {b} : r.branch[b] \in Past(r, r.branch[a])
  <2>1. CASE r.upstream[b] # NoBranch /\ r.tracking[r.upstream[b]] # 0
    <3>1. PICK a \in Branches : a = r.upstream[b]
      BY <1>2, <2>1, FieldTypes
    <3>2. r.branch[b] \in Past(r, r.tracking[a])
      BY <2>1, <3>1 DEF CanDelete, Base
    <3>3. r.tracking[a] \in Ids(r) /\ Past(r, r.tracking[a]) \subseteq r.shared
      BY DEF Grounded
    <3> QED BY <3>2, <3>3, PastTypes
  <2>2. CASE ~(r.upstream[b] # NoBranch /\ r.tracking[r.upstream[b]] # 0)
    <3>1. r.branch[b] \in Past(r, r.branch[r.head]) /\ b # r.head
      BY <2>2 DEF CanDelete, Base, Current
    <3>2. r.head \in Branches
      BY <1>2, FieldTypes
    <3> QED BY <3>1, <3>2
  <2> QED BY <2>1, <2>2
<1>4. Grounded(q) /\ q.work = r.work
  <2>1. PICK c \in Ids(r) : c = 0
    BY <1>2
  <2>2. q = [r EXCEPT !.branch[b] = c]
    BY <1>1, <2>1
  <2> QED BY <1>3, <2>2, BranchSet
<1>5. Delete(r, b) = [q EXCEPT !.upstream[b] = NoBranch]
  BY <1>1 DEF Delete
<1> QED BY <1>4, <1>5, UpstreamMoves

LEMMA RenameGrounded ==
  ASSUME NEW r, Grounded(r), NEW b \in Branches, NEW to \in Branches, CanRename(r, b, to)
  PROVE  Grounded(Rename(r, b, to)) /\ Rename(r, b, to).work = r.work
<1>1. /\ r \in Repository /\ r.head \in Branches /\ 0 \in Ids(r)
      /\ r.branch \in [Branches -> Nat] /\ r.upstream \in [Branches -> Branches \cup {NoBranch}]
      /\ b # to /\ r.branch[b] \in Ids(r) /\ r.branch[b] # 0 /\ r.branch[to] = 0
  BY HeadTree, FieldTypes, PastTypes DEF CanRename, Grounded, Ids
<1>2. PICK c \in Ids(r) : c = r.branch[b]
  BY <1>1
<1>3. PICK q : q = [r EXCEPT !.branch[to] = c]
  OBVIOUS
<1>4. Grounded(q) /\ q.work = r.work
  BY <1>1, <1>3, BranchSet
<1>5. /\ q.branch = [r.branch EXCEPT ![to] = c] /\ q.commits = r.commits
      /\ q.upstream = r.upstream /\ q.head = r.head
  BY <1>1, <1>3 DEF Repository
<1>6. q.branch[b] = c /\ q.branch[to] = c /\ 0 \in Ids(q) /\ c \in Ids(q)
  BY <1>1, <1>2, <1>5, SameCommits
<1>7. PICK z, q2 : z = 0 /\ q2 = [q EXCEPT !.branch[b] = z]
  OBVIOUS
<1>8. Grounded(q2) /\ q2.work = r.work
  <2>1. c \in Past(q, c)
    BY <1>1, <1>2, <1>4, <1>6, PastTypes
  <2>2. \E a \in Branches \ {b} : q.branch[b] \in Past(q, q.branch[a])
    BY <1>1, <1>6, <2>1
  <2> QED BY <1>4, <1>6, <1>7, <2>2, BranchSet
<1>9. q2.upstream = r.upstream /\ q2.head = r.head
  BY <1>4, <1>5, <1>7, HeadTree DEF Repository
<1>10. PICK up, q3 : up = r.upstream[b] /\ q3 = [q2 EXCEPT !.upstream[to] = up]
  OBVIOUS
<1>11. Grounded(q3) /\ q3.work = r.work
  BY <1>1, <1>8, <1>10, UpstreamMoves
<1>12. PICK q4 : q4 = [q3 EXCEPT !.upstream[b] = NoBranch]
  OBVIOUS
<1>13. Grounded(q4) /\ q4.work = r.work
  BY <1>11, <1>12, UpstreamMoves
<1>14. q4.head = r.head
  BY <1>8, <1>9, <1>10, <1>12, HeadTree DEF Repository
<1>15. PICK h \in Branches : h = IF r.head = b THEN to ELSE r.head
  BY <1>1
<1>16. PICK q5 : q5 = [q4 EXCEPT !.head = h]
  OBVIOUS
<1>17. Grounded(q5) /\ q5.work = r.work
  BY <1>13, <1>16, HeadMoves
<1>18. Rename(r, b, to) = q5
  BY <1>2, <1>3, <1>7, <1>10, <1>12, <1>14, <1>15, <1>16 DEF Rename
<1> QED BY <1>17, <1>18

LEMMA PullGrounded ==
  ASSUME NEW r, Grounded(r), NEW t \in Branches, CanPull(r, t)
  PROVE  Grounded(Pull(r, t)) /\ Spares(r, Pull(r, t).work)
<1>1. /\ r \in Repository /\ r.head \in Branches
      /\ r.tracking \in [Branches -> Nat] /\ r.origin[t] \in Nat
      /\ r.origin[t] \in Ids(r) /\ Past(r, r.origin[t]) \subseteq r.shared
      /\ \A b \in Branches : r.tracking[b] \in Ids(r) /\ Past(r, r.tracking[b]) \subseteq r.shared
  BY HeadTree, FieldTypes DEF Grounded
<1>2. PICK c \in Ids(r) : c = r.origin[t]
  BY <1>1
<1>3. PICK T : T = [r.tracking EXCEPT ![t] = c]
  OBVIOUS
<1>4. T \in [Branches -> Nat] /\ \A b \in Branches : T[b] \in Ids(r) /\ Past(r, T[b]) \subseteq r.shared
  BY <1>1, <1>2, <1>3
<1>5. PICK q : q = [r EXCEPT !.tracking = T]
  OBVIOUS
<1>6. /\ Grounded(q) /\ q.work = r.work /\ q.branch = r.branch /\ q.commits = r.commits
      /\ q.head = r.head /\ q.lock = r.lock /\ q.mergeHead = r.mergeHead
      /\ q.unmerged = r.unmerged /\ q.index = r.index
  BY <1>4, <1>5, TrackingMoves
<1>7. q = [r EXCEPT !.tracking[t] = r.origin[t]]
  BY <1>2, <1>3, <1>5
<1>8. CASE c \in Past(r, Current(r))
  <2>1. Pull(r, t) = q
    BY <1>2, <1>7, <1>8 DEF Pull
  <2> QED BY <1>6, <2>1 DEF Spares
<1>9. CASE c \notin Past(r, Current(r))
  <2>1. Current(r) \in Past(r, c) \cup {0} /\ CanGo(r, c)
    BY <1>2, <1>9 DEF CanPull
  <2>2. CanGo(q, c) /\ c \in Ids(q) /\ Current(q) = Current(r) /\ Past(q, c) = Past(r, c)
    <3>1. /\ \A d : Tree(q, d) = Tree(r, d) /\ Past(q, d) = Past(r, d)
          /\ c \in Ids(q) /\ Current(q) = Current(r)
      BY <1>6, SameCommits DEF Current
    <3>2. \A p \in Paths : Differs(q, c, p) <=> Differs(r, c, p)
      BY <3>1 DEF Differs
    <3> QED BY <1>6, <2>1, <3>1, <3>2 DEF CanGo, Merging
  <2>3. PICK q2 : q2 = Go(q, c)
    OBVIOUS
  <2>4. /\ Grounded(q2) /\ q2.branch = r.branch /\ q2.commits = r.commits /\ Spares(q, q2.work)
        /\ q2.head = r.head
    BY <1>6, <2>2, <2>3, GoMoves
  <2>5. PICK q3, h : q3 = [q2 EXCEPT !.branch[h] = c] /\ h = r.head
    OBVIOUS
  <2>6. q2.branch[h] \in Past(q2, c) \cup {0} /\ c \in Ids(q2)
    BY <2>1, <2>4, <2>5, SameCommits DEF Current
  <2>7. Grounded(q3) /\ q3.work = q2.work
    BY <1>1, <2>4, <2>5, <2>6, BranchSet
  <2>8. Pull(r, t) = q3
    BY <1>2, <1>7, <1>9, <2>3, <2>5 DEF Pull
  <2>9. Spares(r, q3.work)
    BY <1>6, <2>4, <2>7 DEF Spares
  <2> QED BY <2>7, <2>8, <2>9
<1> QED BY <1>8, <1>9

-----------------------------------------------------------------------------
(* The commands that make commits.                                         *)

Record == [tree: [Paths -> Nat], past: SUBSET Nat, ours: BOOLEAN]

LEMMA CommitTypes ==
  ASSUME NEW r, r \in Repository, NEW e \in Record
  PROVE  /\ Append(r.commits, e) \in Seq(Record) /\ Len(r.commits) \in Nat
         /\ Len(Append(r.commits, e)) = Len(r.commits) + 1
         /\ \A c \in 1..Len(r.commits) : Append(r.commits, e)[c] = r.commits[c]
         /\ Append(r.commits, e)[Len(r.commits) + 1] = e
<1>1. r.commits \in Seq(Record)
  BY FieldTypes DEF Record
<1> QED BY <1>1, AppendProperties, LenProperties

\* q is r with one commit more, e, that has the number id and whose past is X.
OneMore(r, q, e, id, X) ==
  /\ Grounded(r) /\ q \in Repository /\ e \in Record
  /\ q.commits = Append(r.commits, e) /\ id = Len(r.commits) + 1
  /\ e.past = {id} \cup X /\ X \subseteq 1..Len(r.commits)
  /\ \A d \in X : Past(r, d) \subseteq X
  /\ q.mergeHead \in Ids(r) /\ r.shared \subseteq q.shared
  /\ \A b \in Branches :
       /\ q.tracking[b] = r.tracking[b]
       /\ q.origin[b] = r.origin[b] \/ (q.origin[b] = id /\ e.past \subseteq q.shared)
       /\ q.branch[b] = r.branch[b] \/ (q.branch[b] = id /\ Past(r, r.branch[b]) \subseteq X)
  /\ e.ours => \E b \in Branches : q.branch[b] = id

LEMMA CommitsMove ==
  ASSUME NEW r, NEW q, NEW e, NEW id, NEW X, OneMore(r, q, e, id, X)
  PROVE  Grounded(q)
<1>0. /\ Grounded(r) /\ q \in Repository /\ e \in Record
      /\ q.commits = Append(r.commits, e) /\ id = Len(r.commits) + 1
      /\ e.past = {id} \cup X /\ X \subseteq 1..Len(r.commits)
      /\ \A d \in X : Past(r, d) \subseteq X
      /\ q.mergeHead \in Ids(r) /\ r.shared \subseteq q.shared
      /\ e.ours => \E b \in Branches : q.branch[b] = id
  BY DEF OneMore
<1>10. \A b \in Branches :
       /\ q.tracking[b] = r.tracking[b]
       /\ q.origin[b] = r.origin[b] \/ (q.origin[b] = id /\ e.past \subseteq q.shared)
       /\ q.branch[b] = r.branch[b] \/ (q.branch[b] = id /\ Past(r, r.branch[b]) \subseteq X)
  BY DEF OneMore
<1> HIDE DEF OneMore
<1>1. /\ Len(r.commits) \in Nat /\ Len(q.commits) = id /\ id \in Nat /\ id # 0
      /\ \A c \in 1..Len(r.commits) : q.commits[c] = r.commits[c]
      /\ q.commits[id] = e /\ r \in Repository
  BY <1>0, CommitTypes, HeadTree
<1>2. Ids(q) = Ids(r) \cup {id} /\ 1..Len(q.commits) = 1..Len(r.commits) \cup {id}
  BY <1>0, <1>1 DEF Ids
<1>3. \A c \in Ids(r) : Past(q, c) = Past(r, c)
  BY <1>1 DEF Past, Ids
<1>4. Past(q, id) = {id} \cup X
  BY <1>0, <1>1 DEF Past
<1>5. 1..Len(r.commits) \subseteq Ids(r)
  BY <1>0, <1>1 DEF Ids
<1>6. \A b \in Branches : /\ r.branch[b] \in Ids(r) /\ r.origin[b] \in Ids(r) /\ r.tracking[b] \in Ids(r)
                          /\ Past(r, r.tracking[b]) \subseteq r.shared
                          /\ Past(r, r.origin[b]) \subseteq r.shared
  BY <1>0 DEF Grounded
<1>7. PastsClosed(q)
  <2>1. ASSUME NEW c \in 1..Len(r.commits)
        PROVE  /\ c \in Past(q, c) /\ Past(q, c) \subseteq 1..c
               /\ \A d \in Past(q, c) : Past(q, d) \subseteq Past(q, c)
    <3>1. /\ c \in Past(r, c) /\ Past(r, c) \subseteq 1..c
          /\ \A d \in Past(r, c) : Past(r, d) \subseteq Past(r, c)
      BY <1>0 DEF Grounded, PastsClosed
    <3>2. \A d \in Past(r, c) : d \in Ids(r)
      BY <1>1, <3>1 DEF Ids
    <3> QED BY <1>3, <1>5, <3>1, <3>2
  <2>2. /\ id \in Past(q, id) /\ Past(q, id) \subseteq 1..id
        /\ \A d \in Past(q, id) : Past(q, d) \subseteq Past(q, id)
    <3>1. Past(q, id) \subseteq 1..id
      BY <1>0, <1>1, <1>2, <1>4
    <3>2. \A d \in X : Past(q, d) \subseteq X
      BY <1>0, <1>3, <1>5
    <3> QED BY <1>4, <3>1, <3>2
  <2> QED BY <1>2, <2>1, <2>2 DEF PastsClosed
<1>8. Survives(q)
  <2> SUFFICES ASSUME NEW c \in 1..Len(q.commits), q.commits[c].ours
               PROVE  c \in Held(q)
    BY DEF Survives
  <2>1. CASE c = id
    BY <1>0, <1>1, <1>4, <2>1 DEF Held
  <2>2. CASE c \in 1..Len(r.commits)
    <3>1. c \in Held(r)
      BY <1>0, <1>1, <2>2 DEF Survives, Grounded
    <3>2. c \in r.shared \/ \E b \in Branches : c \in Past(r, r.branch[b])
      BY <3>1 DEF Held
    <3>3. ASSUME NEW b \in Branches, c \in Past(r, r.branch[b])
          PROVE  c \in Past(q, q.branch[b])
      BY <1>3, <1>4, <1>6, <1>10, <3>3
    <3> QED BY <1>0, <3>2, <3>3 DEF Held
  <2> QED BY <1>2, <2>1, <2>2
<1>9. \A b \in Branches : /\ q.branch[b] \in Ids(q) /\ q.tracking[b] \in Ids(q) /\ q.origin[b] \in Ids(q)
                          /\ Past(q, q.tracking[b]) \subseteq q.shared
                          /\ Past(q, q.origin[b]) \subseteq q.shared
  BY <1>0, <1>2, <1>3, <1>4, <1>6, <1>10
<1> QED BY <1>0, <1>2, <1>7, <1>8, <1>9 DEF Grounded

LEMMA CommittedGrounded ==
  ASSUME NEW r, Grounded(r), NEW tree \in [Paths -> Nat], NEW other \in Ids(r)
  PROVE  Grounded(Committed(r, tree, other)) /\ Committed(r, tree, other).work = r.work
<1>1. /\ r \in Repository /\ r.head \in Branches /\ r.branch \in [Branches -> Nat]
      /\ Current(r) \in Ids(r) /\ 0 \in Ids(r) /\ Len(r.commits) \in Nat
  BY HeadTree, FieldTypes, PastTypes DEF Ids
<1>2. PICK id, X : id = Len(r.commits) + 1 /\ X = Past(r, Current(r)) \cup Past(r, other)
  OBVIOUS
<1>3. X \subseteq 1..Len(r.commits) /\ \A d \in X : Past(r, d) \subseteq X
  BY <1>1, <1>2, PastTypes
<1>4. PICK e : e = [tree |-> tree, ours |-> TRUE, past |-> {id} \cup Past(r, Current(r)) \cup Past(r, other)]
  OBVIOUS
<1>5. e \in Record /\ e.past = {id} \cup X
  BY <1>1, <1>2, <1>3, <1>4 DEF Record
<1>6. PICK C, B : C = Append(r.commits, e) /\ B = [r.branch EXCEPT ![r.head] = id]
  OBVIOUS
<1>7. C \in Seq(Record) /\ B \in [Branches -> Nat]
  BY <1>1, <1>2, <1>5, <1>6, CommitTypes
<1>8. PICK q : q = Committed(r, tree, other)
  OBVIOUS
<1>9. q = [r EXCEPT !.commits = C, !.branch = B, !.index = tree, !.mergeHead = 0]
  BY <1>2, <1>4, <1>6, <1>8 DEF Committed
<1>10. /\ q.commits = C /\ q.branch = B /\ q.tracking = r.tracking
       /\ q.origin = r.origin /\ q.shared = r.shared /\ q.mergeHead = 0 /\ q.work = r.work
  BY <1>1, <1>9 DEF Repository
<1>11. q \in Repository
  BY <1>1, <1>7, <1>9 DEF Repository, Record
<1>12. /\ \A b \in Branches :
            q.branch[b] = r.branch[b] \/ (q.branch[b] = id /\ Past(r, r.branch[b]) \subseteq X)
       /\ q.branch[r.head] = id
  BY <1>1, <1>2, <1>6, <1>10 DEF Current
<1>13. Grounded(q)
  <2>1. q.commits = Append(r.commits, e) /\ q.mergeHead \in Ids(r) /\ r.shared \subseteq q.shared
    BY <1>1, <1>6, <1>10
  <2>2. \A b \in Branches :
          /\ q.tracking[b] = r.tracking[b]
          /\ q.origin[b] = r.origin[b] \/ (q.origin[b] = id /\ e.past \subseteq q.shared)
          /\ q.branch[b] = r.branch[b] \/ (q.branch[b] = id /\ Past(r, r.branch[b]) \subseteq X)
    BY <1>10, <1>12
  <2>3. \E b \in Branches : q.branch[b] = id
    BY <1>1, <1>12
  <2>4. e \in Record /\ e.past = {id} \cup X
    BY <1>5
  <2>5. id = Len(r.commits) + 1
    BY <1>2
  <2>6. OneMore(r, q, e, id, X)
    BY <1>3, <1>11, <2>1, <2>2, <2>3, <2>4, <2>5 DEF OneMore
  <2> QED BY <2>6, CommitsMove
<1> QED BY <1>8, <1>10, <1>13

LEMMA OthersCommit ==
  ASSUME NEW r, Grounded(r), NEW b \in Branches, NEW c \in Past(r, r.origin[b]),
         NEW id, id = Len(r.commits) + 1,
         NEW e \in Record, ~e.ours, e.past = Past(r, c) \cup {id}
  PROVE  Grounded([r EXCEPT !.commits = Append(@, e), !.origin[b] = id, !.shared = @ \cup {id}])
<1>1. /\ r \in Repository /\ r.origin \in [Branches -> Nat] /\ r.origin[b] \in Ids(r)
      /\ 0 \in Ids(r) /\ Len(r.commits) \in Nat /\ r.mergeHead \in Ids(r)
      /\ r.shared \in SUBSET Nat /\ Past(r, r.origin[b]) \subseteq r.shared
  BY HeadTree, FieldTypes, PastTypes DEF Ids, Grounded
<1>2. PICK X : X = Past(r, c)
  OBVIOUS
<1>3. c \in Ids(r) /\ X \subseteq r.shared
  BY <1>1, <1>2, PastTypes DEF Ids
<1>4. X \subseteq 1..Len(r.commits) /\ \A d \in X : Past(r, d) \subseteq X
  BY <1>2, <1>3, PastTypes
<1>6. e \in Record /\ e.past = {id} \cup X /\ ~e.ours
  BY <1>2
<1>7. PICK C, O, S : C = Append(r.commits, e) /\ O = [r.origin EXCEPT ![b] = id] /\ S = r.shared \cup {id}
  OBVIOUS
<1>8. C \in Seq(Record) /\ O \in [Branches -> Nat] /\ S \in SUBSET Nat
  BY <1>1, <1>6, <1>7, CommitTypes
<1>9. PICK q : q = [r EXCEPT !.commits = C, !.origin = O, !.shared = S]
  OBVIOUS
<1>10. /\ q.commits = C /\ q.branch = r.branch /\ q.tracking = r.tracking
       /\ q.origin = O /\ q.shared = S /\ q.mergeHead = r.mergeHead
  BY <1>1, <1>9 DEF Repository
<1>11. q \in Repository
  BY <1>1, <1>8, <1>9 DEF Repository, Record
<1>12. /\ \A a \in Branches : O[a] = r.origin[a] \/ (O[a] = id /\ e.past \subseteq S)
       /\ r.shared \subseteq S
  BY <1>1, <1>3, <1>6, <1>7
<1>13. Grounded(q)
  <2>1. q.commits = Append(r.commits, e) /\ q.mergeHead \in Ids(r) /\ r.shared \subseteq q.shared
    BY <1>1, <1>7, <1>10, <1>12
  <2>2. \A a \in Branches :
          /\ q.tracking[a] = r.tracking[a]
          /\ q.origin[a] = r.origin[a] \/ (q.origin[a] = id /\ e.past \subseteq q.shared)
          /\ q.branch[a] = r.branch[a] \/ (q.branch[a] = id /\ Past(r, r.branch[a]) \subseteq X)
    BY <1>10, <1>12
  <2>3. e.ours => \E a \in Branches : q.branch[a] = id
    BY <1>6
  <2>4. e \in Record /\ e.past = {id} \cup X
    BY <1>6
  <2>5. OneMore(r, q, e, id, X)
    BY <1>4, <1>11, <2>1, <2>2, <2>3, <2>4 DEF OneMore
  <2> QED BY <2>5, CommitsMove
<1> QED BY <1>7, <1>9, <1>13

-----------------------------------------------------------------------------
(* Merges.                                                                 *)

\* Of some numbers up to n one is the greatest: the one with the fewest above it.
LEMMA Greatest ==
  ASSUME NEW n \in Nat, NEW S \in SUBSET (1..n), S # {}
  PROVE  \E x \in S : \A y \in S : y <= x
<1>1. PICK T : T = {{y \in S : y > x} : x \in S}
  OBVIOUS
<1>2. IsFiniteSet(S)
  <2>1. 1 \in Int /\ n \in Int
    OBVIOUS
  <2>2. IsFiniteSet(1..n)
    BY <2>1, FS_Interval
  <2> QED BY <2>2, FS_Subset
<1>3. T \subseteq FiniteSubsetsOf(S)
  BY <1>1, <1>2, FS_FiniteSubsetsOfFinite
<1>4. T # {}
  BY <1>1
<1>5. PICK U \in T : \A W \in T : <<W, U>> \notin StrictSubsetOrdering(S)
  <2>1. IsWellFoundedOn(StrictSubsetOrdering(S), FiniteSubsetsOf(S))
    BY FS_StrictSubsetOrderingWellFounded
  <2> QED BY <1>3, <1>4, <2>1, WFMin
<1>6. PICK x \in S : U = {y \in S : y > x}
  BY <1>1
<1>7. ASSUME NEW y \in S, y > x
      PROVE  FALSE
  <2>1. PICK V \in T : V = {z \in S : z > y}
    BY <1>1
  <2>2. V \in SUBSET S /\ U \in SUBSET S /\ V \subseteq U /\ y \in U /\ y \notin V
    <3>1. \A z \in S : z > y => z > x
      <4>1. x \in Int /\ y \in Int /\ \A z \in S : z \in Int
        OBVIOUS
      <4> QED BY <1>7, <4>1
    <3>2. y \in Int
      OBVIOUS
    <3>3. ~(y > y)
      BY <3>2
    <3> QED BY <1>6, <1>7, <2>1, <3>1, <3>3
  <2>3. <<V, U>> \in StrictSubsetOrdering(S)
    BY <2>2 DEF StrictSubsetOrdering
  <2> QED BY <1>5, <2>3
<1>8. \A y \in S : y \in Int /\ x \in Int
  OBVIOUS
<1> QED BY <1>7, <1>8

LEMMA CommonTypes ==
  ASSUME NEW r, Grounded(r), NEW c \in Ids(r)
  PROVE  Common(r, c) \in Ids(r)
<1>1. Current(r) \in Ids(r) /\ Len(r.commits) \in Nat
  BY HeadTree, PastTypes
<1>2. PICK both : both = Past(r, Current(r)) \cap Past(r, c)
  OBVIOUS
<1>3. both \in SUBSET (1..Len(r.commits))
  BY <1>1, <1>2, PastTypes
<1>4. CASE both = {}
  BY <1>1, <1>2, <1>4 DEF Common, Ids
<1>5. CASE both # {}
  <2>1. \E x \in both : \A y \in both : y <= x
    BY <1>1, <1>3, <1>5, Greatest
  <2>2. (CHOOSE x \in both : \A y \in both : y <= x) \in both
    BY <2>1
  <2>3. Common(r, c) \in both
    BY <1>2, <1>5, <2>2 DEF Common
  <2>4. 1..Len(r.commits) \subseteq 0..Len(r.commits)
    BY <1>1
  <2> QED BY <1>3, <2>3, <2>4 DEF Ids
<1> QED BY <1>4, <1>5

\* The common commit of a branch and of what has all of it is the branch's own.
LEMMA CommonAhead ==
  ASSUME NEW r, Grounded(r), NEW c \in Ids(r), Current(r) \in Past(r, c) \cup {0}
  PROVE  Common(r, c) = Current(r)
<1>1. Current(r) \in Ids(r) /\ Len(r.commits) \in Nat
  BY HeadTree, PastTypes
<1>2. PICK cur, both : cur = Current(r) /\ both = Past(r, cur) \cap Past(r, c)
  OBVIOUS
<1>3. CASE cur = 0
  <2>1. both = {}
    BY <1>2, <1>3 DEF Past
  <2> QED BY <1>2, <1>3, <2>1 DEF Common
<1>4. CASE cur # 0
  <2>1. both = Past(r, cur) /\ cur \in both /\ \A y \in both : y <= cur
    BY <1>1, <1>2, <1>4, PastTypes
  <2>2. both \in SUBSET Nat
    BY <1>1, <1>2, PastTypes
  <2>3. (CHOOSE x \in both : \A y \in both : y <= x) = cur
    <3>1. PICK z : z = CHOOSE x \in both : \A y \in both : y <= x
      OBVIOUS
    <3>2. z \in both /\ \A y \in both : y <= z
      BY <2>1, <3>1
    <3> QED BY <2>1, <2>2, <3>1, <3>2
  <2> QED BY <1>2, <2>1, <2>3 DEF Common
<1> QED BY <1>2, <1>3, <1>4

LEMMA MergedTypes ==
  ASSUME NEW r, Grounded(r), NEW c \in Ids(r)
  PROVE  /\ [p \in Paths |-> Merged(r, c, p)] \in [Paths -> Nat]
         /\ Conflicts(r, c) \in SUBSET Paths
<1>1. /\ Tree(r, Common(r, c)) \in [Paths -> Nat] /\ Tree(r, Current(r)) \in [Paths -> Nat]
      /\ Tree(r, c) \in [Paths -> Nat]
  BY CommonTypes, HeadTree, TreeTypes
<1>2. \A p \in Paths : Merged(r, c, p) \in Nat
  BY <1>1 DEF Merged, Marked
<1> QED BY <1>2 DEF Conflicts

LEMMA MergeGrounded ==
  ASSUME NEW r, Grounded(r), NEW c \in Ids(r), c # 0
  PROVE  /\ Grounded(Merge(r, c))
         /\ CanMerge(r, c) => Spares(r, Merge(r, c).work)
<1>0. /\ r \in Repository /\ r.head \in Branches /\ Current(r) \in Ids(r)
      /\ r.index \in [Paths -> Nat] /\ r.work \in [Paths -> Nat] /\ r.merges \in Nat /\ c \in Nat
  BY HeadTree, FieldTypes, PastTypes DEF Ids
<1>1. CASE c \in Past(r, Current(r))
  BY <1>1 DEF Merge, Spares
<1>2. CASE c \notin Past(r, Current(r)) /\ Current(r) \in Past(r, c) \cup {0}
  <2>1. PICK q : q = Go(r, c)
    OBVIOUS
  <2>2. /\ Grounded(q) /\ q.branch = r.branch /\ q.commits = r.commits /\ q.head = r.head
        /\ CanGo(r, c) => Spares(r, q.work)
    BY <2>1, GoMoves
  <2>3. PICK q2, h : q2 = [q EXCEPT !.branch[h] = c] /\ h = r.head
    OBVIOUS
  <2>4. q.branch[h] \in Past(q, c) \cup {0} /\ c \in Ids(q)
    BY <1>2, <2>2, <2>3, SameCommits DEF Current
  <2>5. Grounded(q2) /\ q2.work = q.work
    BY <1>0, <2>2, <2>3, <2>4, BranchSet
  <2>6. Merge(r, c) = q2
    BY <1>2, <2>1, <2>3 DEF Merge
  <2>7. ASSUME r.index = Tree(r, Current(r)),
               \A p \in Paths : Merged(r, c, p) # r.index[p] \/ p \in Conflicts(r, c)
                               => r.work[p] \in {r.index[p], 0}
        PROVE  Spares(r, q.work)
    <3>1. Common(r, c) = Current(r)
      BY <1>2, CommonAhead
    <3>2. \A p \in Paths : Differs(r, c, p) => Merged(r, c, p) # r.index[p]
      BY <2>7, <3>1 DEF Differs, Merged
    <3>3. q.work = [p \in Paths |-> IF Differs(r, c, p) /\ r.index[p] # Tree(r, c)[p]
                                   THEN Tree(r, c)[p] ELSE r.work[p]]
      BY <1>0, <2>1 DEF Go, Repository
    <3> QED BY <2>7, <3>2, <3>3 DEF Spares
  <2>8. CanMerge(r, c) => Spares(r, q.work)
    BY <1>2, <2>2, <2>7 DEF CanMerge
  <2> QED BY <2>5, <2>6, <2>8
<1>3. CASE c \notin Past(r, Current(r)) /\ Current(r) \notin Past(r, c) \cup {0}
  <2>1. PICK result, conflicts : /\ result = [p \in Paths |-> Merged(r, c, p)]
                                /\ conflicts = Conflicts(r, c)
    OBVIOUS
  <2>2. result \in [Paths -> Nat] /\ conflicts \in SUBSET Paths
    BY <2>1, MergedTypes
  <2>3. PICK g : g = [p \in Paths |-> IF result[p] # r.index[p] \/ p \in conflicts
                                     THEN result[p] ELSE r.work[p]]
    OBVIOUS
  <2>4. g \in [Paths -> Nat] /\ (CanMerge(r, c) => Spares(r, g))
    BY <1>0, <1>3, <2>1, <2>2, <2>3 DEF CanMerge, Spares
  <2>5. PICK there : there = [r EXCEPT !.work = g]
    OBVIOUS
  <2>6. Grounded(there) /\ there.work = g
    BY <2>4, <2>5, WorkMoves
  <2>7. /\ there.commits = r.commits /\ there.branch = r.branch /\ there.tracking = r.tracking
        /\ there.origin = r.origin /\ there.shared = r.shared /\ there.merges = r.merges
    BY <1>0, <2>5 DEF Repository
  <2>8. c \in Ids(there)
    BY <2>7, SameCommits
  <2>9. CASE conflicts = {}
    <3>1. Merge(r, c) = Committed(there, result, c)
      BY <1>3, <2>1, <2>3, <2>5, <2>9 DEF Merge
    <3>2. Grounded(Committed(there, result, c)) /\ Committed(there, result, c).work = g
      BY <2>2, <2>6, <2>8, CommittedGrounded
    <3> QED BY <2>4, <3>1, <3>2
  <2>10. CASE conflicts # {}
    <3>1. PICK f : f = [p \in Paths |-> IF p \in conflicts THEN 0 ELSE result[p]]
      OBVIOUS
    <3>2. f \in [Paths -> Nat]
      BY <2>2, <3>1
    <3>3. PICK q, m : q = [there EXCEPT !.mergeHead = c, !.unmerged = conflicts, !.merges = m, !.index = f]
                      /\ m = there.merges + 1
      OBVIOUS
    <3>4. Merge(r, c) = q
      BY <1>3, <2>1, <2>3, <2>5, <2>10, <3>1, <3>3 DEF Merge
    <3>5. m \in Nat /\ there \in Repository
      BY <1>0, <2>6, <2>7, <3>3, HeadTree
    <3>6. q \in Repository
      BY <1>0, <2>2, <3>2, <3>3, <3>5 DEF Repository
    <3>7. /\ q.commits = there.commits /\ q.branch = there.branch /\ q.tracking = there.tracking
          /\ q.origin = there.origin /\ q.shared = there.shared /\ q.mergeHead = c /\ q.work = there.work
      BY <3>3, <3>5 DEF Repository
    <3>8. Grounded(q)
      BY <2>6, <2>8, <3>6, <3>7, FilesMove
    <3> QED BY <2>4, <2>6, <3>4, <3>7, <3>8
  <2> QED BY <2>9, <2>10
<1> QED BY <1>1, <1>2, <1>3

LEMMA ContinueGrounded ==
  ASSUME NEW r, Grounded(r)
  PROVE  /\ Grounded(Continue(r)) /\ Continue(r).work = r.work
BY HeadTree, CommittedGrounded DEF Continue

-----------------------------------------------------------------------------
(* The repositories at the start.                                          *)

LEMMA InStepGrounded == Grounded(InStep)
<1>1. PICK r : r = InStep
  OBVIOUS
<1>2. PICK e, e1 : e = [tree |-> [p \in Paths |-> 2], past |-> {1}, ours |-> FALSE] /\ e1 = <<e>>
  OBVIOUS
<1>3. e \in Record /\ e.past = {1} /\ ~e.ours
  BY <1>2 DEF Record
<1>4. e1 \in Seq(Record) /\ Len(e1) = 1 /\ e1[1] = e
  BY <1>2, <1>3
<1>5. /\ r.commits = e1 /\ r.head = Main /\ r.mergeHead = 0 /\ r.lock = FALSE /\ r.merges = 0
      /\ r.branch = [b \in Branches |-> IF b = Main THEN 1 ELSE 0]
      /\ r.upstream = [b \in Branches |-> IF b = Main THEN Main ELSE NoBranch]
      /\ r.tracking = [b \in Branches |-> IF b = Main THEN 1 ELSE 0]
      /\ r.origin = [b \in Branches |-> IF b = Main THEN 1 ELSE 0]
      /\ r.index = [p \in Paths |-> 2] /\ r.unmerged = {} /\ r.work = [p \in Paths |-> 2]
      /\ r.shared = {1}
      /\ r = [commits |-> r.commits, branch |-> r.branch, head |-> r.head, upstream |-> r.upstream,
              tracking |-> r.tracking, origin |-> r.origin, index |-> r.index, unmerged |-> r.unmerged,
              work |-> r.work, mergeHead |-> r.mergeHead, lock |-> r.lock, merges |-> r.merges,
              shared |-> r.shared]
  BY <1>1, <1>2 DEF InStep
<1>6. r \in Repository
  <2>1. r.branch \in [Branches -> Nat] /\ r.tracking \in [Branches -> Nat] /\ r.origin \in [Branches -> Nat]
    BY <1>5
  <2>2. r.head \in Branches /\ r.upstream \in [Branches -> Branches \cup {NoBranch}]
    BY <1>5 DEF Branches
  <2>3. /\ r.index \in [Paths -> Nat] /\ r.unmerged \in SUBSET Paths /\ r.work \in [Paths -> Nat]
        /\ r.mergeHead \in Nat /\ r.merges \in Nat /\ r.shared \in SUBSET Nat
    BY <1>5
  <2>5. r.lock \in BOOLEAN
    BY <1>1 DEF InStep
  <2>4. r.commits \in Seq(Record)
    BY <1>4, <1>5
  <2> QED BY <1>5, <2>1, <2>2, <2>3, <2>4, <2>5 DEF Repository, Record
<1>7. Past(r, 0) = {} /\ Past(r, 1) = {1} /\ Ids(r) = 0..1
  <2>1. r.commits[1] = e /\ Len(r.commits) = 1
    BY <1>4, <1>5
  <2> QED BY <1>3, <2>1 DEF Past, Ids
<1>8. PastsClosed(r) /\ Survives(r)
  <2>1. Len(r.commits) = 1 /\ r.shared = {1}
    BY <1>4, <1>5
  <2>2. PastsClosed(r)
    BY <1>7, <2>1 DEF PastsClosed
  <2>3. Survives(r)
    BY <2>1 DEF Survives, Held
  <2> QED BY <2>2, <2>3
<1>9. \A b \in Branches : /\ r.branch[b] \in {0, 1} /\ r.tracking[b] \in {0, 1} /\ r.origin[b] \in {0, 1}
  BY <1>5
<1> QED BY <1>1, <1>5, <1>6, <1>7, <1>8, <1>9 DEF Grounded

LEMMA UnbornGrounded == Grounded(Unborn)
<1>1. PICK r, q : r = InStep /\ q = Unborn
  OBVIOUS
<1>2. PICK z, n : z = [b \in Branches |-> 0] /\ n = [b \in Branches |-> NoBranch]
  OBVIOUS
<1>3. q = [r EXCEPT !.commits = <<>>, !.branch = z, !.tracking = z, !.upstream = n, !.origin = z,
                   !.index = Empty, !.shared = {}]
  BY <1>1, <1>2 DEF Unborn
<1>4. r \in Repository /\ r.mergeHead = 0
  BY <1>1, InStepGrounded DEF Grounded, InStep
<1>5. z \in [Branches -> Nat] /\ n \in [Branches -> Branches \cup {NoBranch}] /\ Empty \in [Paths -> Nat]
  BY <1>2 DEF Empty
<1>6. /\ q.commits = <<>> /\ q.branch = z /\ q.tracking = z /\ q.origin = z /\ q.shared = {}
      /\ q.mergeHead = 0
  BY <1>3, <1>4 DEF Repository
<1>7. q \in Repository
  <2> DEFINE C == Seq(Record)
  <2>1. <<>> \in C
    OBVIOUS
  <2> HIDE DEF C
  <2> QED BY <1>3, <1>4, <1>5, <2>1 DEF Repository, C, Record
<1>8. Past(q, 0) = {} /\ 0 \in Ids(q) /\ Len(q.commits) = 0
  BY <1>6 DEF Past, Ids
<1>9. PastsClosed(q) /\ Survives(q)
  BY <1>8 DEF PastsClosed, Survives
<1>10. \A b \in Branches : z[b] = 0
  BY <1>2
<1> QED BY <1>1, <1>6, <1>7, <1>8, <1>9, <1>10 DEF Grounded

LEMMA DivergedGrounded ==
  ASSUME NEW n \in Nat
  PROVE  /\ Grounded(Diverged(n)) /\ 3 \in Ids(Diverged(n))
<1>1. PICK r, q : r = InStep /\ q = Diverged(n)
  OBVIOUS
<1>2. PICK e, f, g : /\ e = [tree |-> [p \in Paths |-> 2], past |-> {1}, ours |-> FALSE]
                     /\ f = [tree |-> [p \in Paths |-> 3], past |-> {1, 2}, ours |-> TRUE]
                     /\ g = [tree |-> [p \in Paths |-> n], past |-> {1, 3}, ours |-> FALSE]
  OBVIOUS
<1>3. /\ e \in Record /\ f \in Record /\ g \in Record
      /\ e.past = {1} /\ f.past = {1, 2} /\ g.past = {1, 3} /\ ~e.ours /\ ~g.ours
  BY <1>2 DEF Record
<1>4. PICK C, B, U, T, O, F, G :
        /\ C = <<e>> \o <<f, g>>
        /\ B = [b \in Branches |-> IF b = Main THEN 2 ELSE 3]
        /\ U = [b \in Branches |-> b]
        /\ T = [r.tracking EXCEPT ![Topic] = 3] /\ O = [r.origin EXCEPT ![Topic] = 3]
        /\ F = [p \in Paths |-> 3] /\ G = {1, 3}
  OBVIOUS
<1>5. C \in Seq(Record) /\ Len(C) = 3 /\ C[1] = e /\ C[2] = f /\ C[3] = g
  BY <1>3, <1>4
<1>6. /\ r \in Repository /\ r.mergeHead = 0 /\ r.commits = <<e>>
      /\ r.tracking = [b \in Branches |-> IF b = Main THEN 1 ELSE 0]
      /\ r.origin = [b \in Branches |-> IF b = Main THEN 1 ELSE 0]
  BY <1>1, <1>2, InStepGrounded DEF Grounded, InStep
<1>7. /\ B \in [Branches -> Nat] /\ U \in [Branches -> Branches \cup {NoBranch}]
      /\ T \in [Branches -> Nat] /\ O \in [Branches -> Nat] /\ F \in [Paths -> Nat] /\ G \in SUBSET Nat
      /\ \A b \in Branches : B[b] \in {2, 3} /\ T[b] \in {0, 1, 3} /\ O[b] \in {0, 1, 3}
      /\ Main \in Branches /\ B[Main] = 2
  BY <1>4, <1>6 DEF Branches
<1>8. q = [r EXCEPT !.commits = C, !.branch = B, !.upstream = U, !.tracking = T, !.origin = O,
                   !.shared = G, !.index = F, !.work = F]
  <2>1. q = [r EXCEPT !.commits = @ \o <<f, g>>, !.branch = B, !.upstream = U,
                     !.tracking[Topic] = 3, !.origin[Topic] = 3, !.shared = {1, 3},
                     !.index = F, !.work = F]
    BY <1>1, <1>2, <1>4 DEF Diverged
  <2>2. r.commits \o <<f, g>> = C
    BY <1>4, <1>6
  <2> QED BY <1>4, <2>1, <2>2
<1>9. /\ q.commits = C /\ q.branch = B /\ q.tracking = T /\ q.origin = O /\ q.shared = G
      /\ q.mergeHead = 0
  BY <1>6, <1>8 DEF Repository
<1>10. q \in Repository
  BY <1>5, <1>6, <1>7, <1>8 DEF Repository, Record
<1>11. Past(q, 0) = {} /\ Past(q, 1) = {1} /\ Past(q, 2) = {1, 2} /\ Past(q, 3) = {1, 3} /\ Ids(q) = 0..3
  <2>2. q.commits[1] = e /\ q.commits[2] = f /\ q.commits[3] = g /\ Len(q.commits) = 3
    BY <1>5, <1>9
  <2>3. f.past = {1, 2} /\ g.past = {1, 3} /\ e.past = {1}
    BY <1>3
  <2> QED BY <2>2, <2>3 DEF Past, Ids
<1>12. 1..Len(q.commits) = {1, 2, 3} /\ Ids(q) = {0, 1, 2, 3}
  <2>1. Len(q.commits) = 3
    BY <1>5, <1>9
  <2> QED BY <1>11, <2>1
<1>13. PastsClosed(q)
  BY <1>11, <1>12 DEF PastsClosed
<1>14. Survives(q)
  <2>1. 2 \in Held(q)
    BY <1>4, <1>7, <1>9, <1>11 DEF Held
  <2> QED BY <1>3, <1>4, <1>5, <1>9, <1>12, <2>1 DEF Survives
<1> QED BY <1>1, <1>4, <1>7, <1>9, <1>10, <1>11, <1>12, <1>13, <1>14 DEF Grounded

-----------------------------------------------------------------------------
(* The operations.                                                         *)

GitSteps == Reads \cup Writes
OpOK(q) == q \in Op /\ q.at \in Ids(repo)
GitInv == RepositoryOK /\ Grounded(repo) /\ \A o \in Slots : OpOK(op[o])

LEMMA OpTypes ==
  ASSUME NEW q \in Op
  PROVE  /\ q.todo \in Seq(GitSteps) /\ q.paths \in SUBSET Paths /\ q.ref \in Refs /\ q.to \in Branches
         /\ q.at \in Nat /\ q.text \in Nat /\ q.merging \in BOOLEAN
         /\ q.changes \in SUBSET Change /\ q.seen \in Nat
BY DEF Op, GitSteps

LEMMA DoTypes ==
  ASSUME NEW steps \in Seq(GitSteps)
  PROVE  /\ Do(steps) \in Op /\ Do(steps).at = 0 /\ Do(steps).todo = steps
<1>1. <<"local", Main>> \in Refs /\ Main \in Branches
  BY DEF Refs, Branches
<1> QED BY <1>1 DEF Do, Op, GitSteps

LEMMA IdleTypes == Idle \in Op /\ Idle.at = 0
<1>1. <<>> \in Seq(GitSteps)
  OBVIOUS
<1> QED BY <1>1, DoTypes DEF Idle

LEMMA AfterTypes ==
  ASSUME NEW q \in Op, q.todo # <<>>
  PROVE  After(q) \in Op /\ After(q).at \in {0, q.at}
<1>1. PICK t : t = Tail(q.todo)
  OBVIOUS
<1>2. t \in Seq(GitSteps)
  BY <1>1, OpTypes, HeadTailProperties
<1>3. PICK n : n = [q EXCEPT !.todo = t]
  OBVIOUS
<1>4. n \in Op /\ n.at = q.at
  BY <1>2, <1>3 DEF Op, GitSteps
<1>5. After(q) = Idle \/ After(q) = n
  BY <1>1, <1>3 DEF After
<1> QED BY <1>4, <1>5, IdleTypes

\* One operation is another one now, or idle; the repository has no commit less.
LEMMA OpsMove ==
  ASSUME GitInv, NEW o \in Slots, NEW q, q \in Op, q.at \in {0, op[o].at}, op' = [op EXCEPT ![o] = q],
         Len(repo.commits) <= Len(repo'.commits), Len(repo'.commits) \in Nat
  PROVE  op' \in [Slots -> Op] /\ \A i \in Slots : OpOK(op[i])'
<1>1. op \in [Slots -> Op] /\ Len(repo.commits) \in Nat
  BY PastTypes, HeadTree DEF GitInv, RepositoryOK
<1>2. op' \in [Slots -> Op]
  BY <1>1
<1>3. \A i \in Slots : op'[i].at = 0 \/ op'[i].at \in Ids(repo)
  BY <1>1 DEF GitInv, OpOK
<1>4. \A n : n \in Ids(repo) => n \in Ids(repo')
  BY <1>1 DEF Ids
<1>5. 0 \in Ids(repo')
  BY DEF Ids
<1> QED BY <1>2, <1>3, <1>4, <1>5 DEF OpOK

LEMMA StepsTyped ==
  ASSUME NEW a \in GitSteps
  PROVE  /\ <<a>> \in Seq(GitSteps)
         /\ \A b \in GitSteps : /\ <<a, b>> \in Seq(GitSteps)
              /\ \A c \in GitSteps : /\ <<a, b, c>> \in Seq(GitSteps)
                   /\ \A d \in GitSteps : /\ <<a, b, c, d>> \in Seq(GitSteps)
                        /\ \A e \in GitSteps : <<a, b, c, d, e>> \in Seq(GitSteps)
OBVIOUS

LEMMA RequestTypes ==
  ASSUME GitInv, NEW request \in Requests
  PROVE  request \in Op /\ request.at \in Ids(repo)
<1>0. 0 \in Ids(repo) /\ Len(repo.commits) \in Nat /\ repo.work \in [Paths -> Nat] /\ host \in {"local", "remote"}
  BY PastTypes, HeadTree DEF GitInv, Ids, RepositoryOK
<1>1. ASSUME NEW steps \in Seq(GitSteps), request = Do(steps)
      PROVE  request \in Op /\ request.at \in Ids(repo)
  BY <1>0, <1>1, DoTypes
<1>2. ASSUME NEW steps \in Seq(GitSteps), NEW ps \in SUBSET Paths, request = [Do(steps) EXCEPT !.paths = ps]
      PROVE  request \in Op /\ request.at \in Ids(repo)
  BY <1>0, <1>2, DoTypes, SMTT(60) DEF Op
<1>3. ASSUME NEW steps \in Seq(GitSteps), NEW ps \in SUBSET Paths, NEW n \in Nat,
             request = [Do(steps) EXCEPT !.paths = ps, !.text = n]
      PROVE  request \in Op /\ request.at \in Ids(repo)
  BY <1>0, <1>3, DoTypes DEF Op
<1>4. ASSUME NEW steps \in Seq(GitSteps), NEW b \in Branches, NEW ref \in Refs,
             request \in {[Do(steps) EXCEPT !.to = b], [Do(steps) EXCEPT !.ref = ref],
                          [Do(steps) EXCEPT !.to = b, !.ref = ref],
                          [Do(steps) EXCEPT !.ref = ref, !.to = b]}
      PROVE  request \in Op /\ request.at \in Ids(repo)
  BY <1>0, <1>4, DoTypes, ZenonT(60) DEF Op
<1>5. ASSUME NEW steps \in Seq(GitSteps), NEW b \in Branches, NEW c \in Ids(repo),
             request = [Do(steps) EXCEPT !.to = b, !.at = c]
      PROVE  request \in Op /\ request.at \in Ids(repo)
  <2>1. c \in Nat
    BY <1>0 DEF Ids
  <2> QED BY <1>5, <2>1, DoTypes DEF Op
<1>6. /\ {"merging", "status", "head", "source", "branch", "upstream", "current", "tracking",
            "conflict", "present", "revision"} \subseteq GitSteps
      /\ {"add", "addAll", "reset", "uncache", "resetAll", "uncacheAll", "checkout", "clean",
          "commit", "ours", "theirs", "remove", "write"} \subseteq GitSteps
      /\ {"create", "createFrom", "createAt", "rename", "delete", "switch", "track", "fetch",
          "pull", "push", "publish", "merge", "continue", "abort"} \subseteq GitSteps
  BY DEF GitSteps, Reads, Writes
<1> HIDE DEF GitSteps
<1>7. /\ Snapshot \in Seq(GitSteps)
      /\ \A s \in GitSteps : Append(Snapshot, s) \in Seq(GitSteps)
      /\ Snapshot \o <<"source", "merge">> \in Seq(GitSteps)
  <2>1. Snapshot \in Seq(GitSteps) /\ <<"source", "merge">> \in Seq(GitSteps)
    BY <1>6, StepsTyped DEF Snapshot
  <2> QED BY <2>1, AppendProperties, ConcatProperties
<1>8. ASSUME request \in {StageAll, UnstageAll, Commit, Fetches, Pulls, ContinueMerge, AbortMerge} \cup Pushes
      PROVE  request \in Op /\ request.at \in Ids(repo)
  <2>1. PICK steps \in Seq(GitSteps) : request = Do(steps)
    BY <1>6, <1>7, <1>8, StepsTyped
       DEF StageAll, UnstageAll, Commit, Fetches, Pulls, ContinueMerge, AbortMerge, Pushes
  <2> QED BY <1>1, <2>1
<1>9. ASSUME NEW ps \in (SUBSET Paths) \ {{}}, request \in {Stage(ps), Unstage(ps), Discard(ps)}
      PROVE  request \in Op /\ request.at \in Ids(repo)
  <2>1. PICK steps \in Seq(GitSteps) : request = [Do(steps) EXCEPT !.paths = ps]
    BY <1>6, <1>9, StepsTyped DEF Stage, Unstage, Discard
  <2> QED BY <1>2, <2>1
<1>10. ASSUME NEW p \in Paths,
              request \in {SaveText(p), UseSide(p, "ours"), UseSide(p, "theirs"), DeleteResult(p),
                           MarkResolved(p)}
       PROVE  request \in Op /\ request.at \in Ids(repo)
  <2>1. CASE request = SaveText(p)
    <3>1. PICK steps \in Seq(GitSteps) :
            request = [Do(steps) EXCEPT !.paths = {p}, !.text = repo.work[p]]
      BY <1>6, <2>1, StepsTyped DEF SaveText
    <3> QED BY <1>0, <1>3, <3>1
  <2>2. CASE request # SaveText(p)
    <3>1. PICK steps \in Seq(GitSteps) : request = [Do(steps) EXCEPT !.paths = {p}]
      BY <1>6, <1>10, <2>2, StepsTyped DEF UseSide, DeleteResult, MarkResolved
    <3> QED BY <1>2, <3>1
  <2> QED BY <2>1, <2>2
<1>11. ASSUME NEW b \in Branches, NEW ref \in Refs, NEW to \in Branches,
              request \in {CreateBranch(b), DeleteBranch(b), SwitchBranch(b), TrackRemoteBranch(b),
                           CreateBranchFrom(b, ref), RenameBranch(b, to), MergeBranch(ref)}
       PROVE  request \in Op /\ request.at \in Ids(repo)
  <2>1. <<"local", b>> \in Refs /\ <<"remote", b>> \in Refs
    BY DEF Refs
  <2>2. PICK steps \in Seq(GitSteps) : \E a \in Branches : \E s \in Refs :
          request \in {[Do(steps) EXCEPT !.to = a], [Do(steps) EXCEPT !.ref = s],
                       [Do(steps) EXCEPT !.to = a, !.ref = s],
                       [Do(steps) EXCEPT !.ref = s, !.to = a]}
    <3>1. ASSUME NEW steps \in Seq(GitSteps), NEW a \in Branches, NEW s \in Refs,
                 request \in {[Do(steps) EXCEPT !.to = a], [Do(steps) EXCEPT !.ref = s],
                              [Do(steps) EXCEPT !.to = a, !.ref = s],
                              [Do(steps) EXCEPT !.ref = s, !.to = a]}
          PROVE  \E y \in Seq(GitSteps) : \E k \in Branches : \E h \in Refs :
                   request \in {[Do(y) EXCEPT !.to = k], [Do(y) EXCEPT !.ref = h],
                                [Do(y) EXCEPT !.to = k, !.ref = h],
                                [Do(y) EXCEPT !.ref = h, !.to = k]}
      BY <3>1
    <3>2. CASE request = CreateBranch(b)
      BY <1>6, <3>1, <3>2, StepsTyped DEF CreateBranch
    <3>3. CASE request = DeleteBranch(b)
      BY <1>6, <2>1, <3>1, <3>3, StepsTyped DEF DeleteBranch
    <3>4. CASE request = SwitchBranch(b)
      BY <1>6, <3>1, <3>4, StepsTyped DEF SwitchBranch
    <3>5. CASE request = TrackRemoteBranch(b)
      BY <1>6, <2>1, <3>1, <3>5, StepsTyped DEF TrackRemoteBranch
    <3>6. CASE request = CreateBranchFrom(b, ref)
      BY <1>6, <3>1, <3>6, StepsTyped DEF CreateBranchFrom
    <3>7. CASE request = RenameBranch(b, to)
      BY <1>6, <2>1, <3>1, <3>7, StepsTyped DEF RenameBranch
    <3>8. CASE request = MergeBranch(ref)
      BY <1>7, <3>1, <3>8 DEF MergeBranch
    <3> QED BY <1>11, <3>2, <3>3, <3>4, <3>5, <3>6, <3>7, <3>8
  <2> QED BY <1>4, <2>2
<1>12. ASSUME NEW b \in Branches, NEW c \in 1..Len(repo.commits), request = CreateBranchFromCommit(b, c)
       PROVE  request \in Op /\ request.at \in Ids(repo)
  <2>1. <<"createAt">> \in Seq(GitSteps) /\ c \in Ids(repo)
    BY <1>0, <1>6, StepsTyped DEF Ids
  <2> QED BY <1>5, <1>12, <2>1 DEF CreateBranchFromCommit
<1>13. Main \in Branches /\ <<"local", Main>> \in Refs
  BY DEF Branches, Refs
<1>14. \/ request \in {StageAll, UnstageAll, Commit, Fetches, Pulls, ContinueMerge, AbortMerge} \cup Pushes
       \/ \E ps \in (SUBSET Paths) \ {{}} : request \in {Stage(ps), Unstage(ps), Discard(ps)}
       \/ \E p \in Paths : request \in {SaveText(p), UseSide(p, "ours"), UseSide(p, "theirs"),
                                        DeleteResult(p), MarkResolved(p)}
       \/ \E b \in Branches : request \in {CreateBranch(b), DeleteBranch(b), SwitchBranch(b),
                                           TrackRemoteBranch(b)}
       \/ \E b \in Branches, ref \in Refs : request = CreateBranchFrom(b, ref)
       \/ \E b \in Branches, c \in 1..Len(repo.commits) : request = CreateBranchFromCommit(b, c)
       \/ \E b \in Branches, to \in Branches : request = RenameBranch(b, to)
       \/ \E ref \in Refs : request = MergeBranch(ref)
  <2> DEFINE
    A == {StageAll, UnstageAll, Commit, Fetches, Pulls, ContinueMerge, AbortMerge} \cup Pushes
    B == UNION {{Stage(ps), Unstage(ps), Discard(ps)} : ps \in (SUBSET Paths) \ {{}}}
    C == UNION {{SaveText(p), UseSide(p, "ours"), UseSide(p, "theirs"), DeleteResult(p),
         MarkResolved(p)} : p \in Paths}
    D == UNION {{CreateBranch(b), DeleteBranch(b), SwitchBranch(b), TrackRemoteBranch(b)}
         : b \in Branches}
    E == {CreateBranchFrom(b, ref) : b \in Branches, ref \in Refs}
    F == {CreateBranchFromCommit(b, c) : b \in Branches, c \in 1..Len(repo.commits)}
    G == {RenameBranch(b, to) : b \in Branches, to \in Branches}
    H == {MergeBranch(ref) : ref \in Refs}
  <2>2. Requests = A \cup B \cup C \cup D \cup E \cup F \cup G \cup H
    BY DEF Requests
  <2>3. CASE request \in A
    BY <2>3
  <2>4. CASE request \in B
    BY <2>4
  <2>5. CASE request \in C
    BY <2>5
  <2>6. CASE request \in D
    BY <2>6
  <2>7. CASE request \in E
    BY <2>7
  <2>8. CASE request \in F
    BY <2>8
  <2>9. CASE request \in G
    BY <2>9
  <2>10. CASE request \in H
    BY <2>10
  <2> HIDE DEF A, B, C, D, E, F, G, H
  <2> QED BY <2>2, <2>3, <2>4, <2>5, <2>6, <2>7, <2>8, <2>9, <2>10
<1> QED
  <2>1. ASSUME NEW b \in Branches,
               request \in {CreateBranch(b), DeleteBranch(b), SwitchBranch(b), TrackRemoteBranch(b)}
        PROVE  request \in Op /\ request.at \in Ids(repo)
    BY <1>11, <1>13, <2>1
  <2>2. ASSUME NEW b \in Branches, NEW ref \in Refs, request = CreateBranchFrom(b, ref)
        PROVE  request \in Op /\ request.at \in Ids(repo)
    BY <1>11, <1>13, <2>2
  <2>3. ASSUME NEW b \in Branches, NEW to \in Branches, request = RenameBranch(b, to)
        PROVE  request \in Op /\ request.at \in Ids(repo)
    BY <1>11, <1>13, <2>3
  <2>4. ASSUME NEW ref \in Refs, request = MergeBranch(ref)
        PROVE  request \in Op /\ request.at \in Ids(repo)
    BY <1>11, <1>13, <2>4
  <2> QED BY <1>8, <1>9, <1>10, <1>12, <1>14, <2>1, <2>2, <2>3, <2>4, Zenon

\* Only a commit or a merge adds to the commits, and nothing takes one away.
LEMMA CommitsKept ==
  ASSUME NEW r, r \in Repository
  PROVE  /\ \A ps : Add(r, ps).commits = r.commits
         /\ \A ps : Reset(r, ps).commits = r.commits
         /\ \A ps : Uncache(r, ps).commits = r.commits
         /\ \A ps : Restore(r, ps).commits = r.commits
         /\ \A ps : Clean(r, ps).commits = r.commits
         /\ ResetAll(r).commits = r.commits /\ Abort(r).commits = r.commits
         /\ \A p : Remove(r, p).commits = r.commits
         /\ \A p, way : Take(r, p, way).commits = r.commits
         /\ \A b : Switch(r, b).commits = r.commits
         /\ \A b : Delete(r, b).commits = r.commits
         /\ \A b : Pull(r, b).commits = r.commits
         /\ \A b, c : Create(r, b, c).commits = r.commits
         /\ \A b, to : Rename(r, b, to).commits = r.commits
         /\ \A b, to : Push(r, b, to).commits = r.commits
         /\ Fetch(r).commits = r.commits
<1>1. \A ps : /\ Add(r, ps).commits = r.commits /\ Reset(r, ps).commits = r.commits
              /\ Uncache(r, ps).commits = r.commits /\ Restore(r, ps).commits = r.commits
              /\ Clean(r, ps).commits = r.commits
  BY DEF Repository, Add, Reset, Uncache, Restore, Clean
<1>2. ResetAll(r).commits = r.commits
  BY DEF Repository, ResetAll, Reset
<1>3. Abort(r).commits = r.commits
  BY DEF Repository, Abort
<1>4. \A p : Remove(r, p).commits = r.commits /\ \A way : Take(r, p, way).commits = r.commits
  BY DEF Repository, Remove, Uncache, Take
<1>6. \A b : Switch(r, b).commits = r.commits
  BY DEF Repository, Switch, Go
<1>7. \A b : Delete(r, b).commits = r.commits
  BY DEF Repository, Delete
<1>8. \A b : Pull(r, b).commits = r.commits
  BY DEF Repository, Pull, Go
<1>9. \A b : \A c : Create(r, b, c).commits = r.commits
  BY DEF Repository, Create, Go
<1>10. \A b : \A c : Rename(r, b, c).commits = r.commits /\ Push(r, b, c).commits = r.commits
  BY DEF Repository, Rename, Push
<1>11. Fetch(r).commits = r.commits
  BY DEF Repository, Fetch
<1> QED BY <1>1, <1>2, <1>3, <1>4, <1>6, <1>7, <1>8, <1>9, <1>10, <1>11

LEMMA CommitsGrow ==
  ASSUME NEW r, r \in Repository, NEW tree, NEW other
  PROVE  Len(r.commits) \in Nat /\ Len(Committed(r, tree, other).commits) = Len(r.commits) + 1
<1>1. PICK q : q = Committed(r, tree, other)
  OBVIOUS
<1>2. PICK e : q.commits = Append(r.commits, e)
  BY <1>1 DEF Committed, Repository
<1>3. r.commits \in Seq(Record)
  BY FieldTypes DEF Record
<1> QED BY <1>1, <1>2, <1>3, LenProperties

LEMMA MergesGrow ==
  ASSUME NEW r, r \in Repository, NEW c
  PROVE  Len(r.commits) \in Nat /\ Len(Merge(r, c).commits) \in {Len(r.commits), Len(r.commits) + 1}
<1>1. r.commits \in Seq(Record)
  BY FieldTypes DEF Record
<1>2. PICK q : q = Merge(r, c)
  OBVIOUS
<1>3. PICK result, g, there :
        /\ result = [p \in Paths |-> Merged(r, c, p)]
        /\ g = [p \in Paths |-> IF result[p] # r.index[p] \/ p \in Conflicts(r, c)
                                THEN result[p] ELSE r.work[p]]
        /\ there = [r EXCEPT !.work = g]
  OBVIOUS
<1>4. there.commits = r.commits
  BY <1>3 DEF Repository
<1>5. \/ q = r \/ q = [Go(r, c) EXCEPT !.branch[r.head] = c]
      \/ q = Committed(there, result, c)
      \/ q = [there EXCEPT !.mergeHead = c, !.unmerged = Conflicts(r, c), !.merges = @ + 1,
                !.index = [p \in Paths |-> IF p \in Conflicts(r, c) THEN 0 ELSE result[p]]]
  BY <1>2, <1>3 DEF Merge
<1>6. CASE q = [Go(r, c) EXCEPT !.branch[r.head] = c]
  BY <1>1, <1>2, <1>6, LenProperties DEF Go, Repository
<1>7. CASE q = Committed(there, result, c)
  <2>1. PICK e : q.commits = Append(there.commits, e)
    BY <1>3, <1>7 DEF Committed, Repository
  <2> QED BY <1>1, <1>2, <1>4, <2>1, LenProperties
<1>8. CASE q = [there EXCEPT !.mergeHead = c, !.unmerged = Conflicts(r, c), !.merges = @ + 1,
                !.index = [p \in Paths |-> IF p \in Conflicts(r, c) THEN 0 ELSE result[p]]]
  <2>1. q.commits = r.commits
    BY <1>3, <1>4, <1>8 DEF Repository
  <2> QED BY <1>1, <1>2, <2>1, LenProperties
<1>9. CASE q = r
  BY <1>1, <1>2, <1>9, LenProperties
<1> QED BY <1>5, <1>6, <1>7, <1>8, <1>9

-----------------------------------------------------------------------------
(* What a command leaves, and what a killed one does.                      *)

Losing == {"checkout", "clean", "ours", "theirs", "remove", "write"}

\* A command that leaves r loses no commit, and nothing that the worktree alone has
\* but what the operation was asked to replace.
Sound(o, step, r) ==
  /\ Grounded(r) /\ Len(repo.commits) <= Len(r.commits)
  /\ \A p \in Paths : r.work[p] # repo.work[p] =>
       \/ repo.work[p] \in {0, repo.index[p]}
       \/ step \in Losing /\ p \in op[o].paths
       \/ step = "abort"
  /\ step \in {"push", "publish"} =>
       \A q : q = [repo EXCEPT !.origin = r.origin, !.shared = r.shared] =>
                Grounded(q) /\ q.work = repo.work

\* The command ran, was refused, or was killed.
Outcome(o, step, r) ==
  /\ At(o, step) /\ UNCHANGED <<host, asked>>
  /\ \/ Sound(o, step, r) /\ repo' = r /\ op' = [op EXCEPT ![o] = After(@)] /\ UNCHANGED events
     \/ repo' = repo /\ op' = [op EXCEPT ![o] = Idle] /\ UNCHANGED events
     \/ /\ Sound(o, step, r) /\ Happens
        /\ repo' \in Cut(step, r) /\ op' = [op EXCEPT ![o] = Idle]

\* What a step that is an outcome has to show.
Stays == GitInv' /\ EditsSurviveStep

LEMMA CutsSound ==
  ASSUME GitInv, NEW o \in Slots, NEW step, NEW r, Sound(o, step, r), NEW q \in Cut(step, r)
  PROVE  Sound(o, "cut", q) \/ Sound(o, step, q)
<1>1. /\ Grounded(repo) /\ Grounded(r) /\ Len(repo.commits) \in Nat /\ repo \in Repository
      /\ r.work \in [Paths -> Nat]
  BY PastTypes, HeadTree DEF GitInv, Sound
<1>2. CASE q = repo
  BY <1>1, <1>2 DEF Sound
<1>3. CASE q = r
  BY <1>3
<1>4. CASE q = [repo EXCEPT !.lock = TRUE]
  <2>1. Grounded(q) /\ q.work = repo.work /\ q.commits = repo.commits
    BY <1>1, <1>4, LockMoves DEF Repository
  <2> QED BY <1>1, <2>1 DEF Sound
<1>5. CASE q = [repo EXCEPT !.lock = TRUE, !.work = r.work] /\ step \notin {"push", "publish"}
  <2>1. PICK k : k = [repo EXCEPT !.lock = TRUE]
    OBVIOUS
  <2>2. Grounded(k) /\ q = [k EXCEPT !.work = r.work]
    BY <1>1, <1>5, <2>1, LockMoves DEF Repository
  <2>3. Grounded(q) /\ q.work = r.work
    BY <1>1, <2>2, WorkMoves
  <2>4. q.commits = repo.commits
    BY <1>1, <1>5 DEF Repository
  <2> QED BY <1>1, <1>5, <2>3, <2>4 DEF Sound
<1>6. CASE step \in {"push", "publish"} /\ q = [repo EXCEPT !.origin = r.origin, !.shared = r.shared]
  <2>1. Grounded(q) /\ q.work = repo.work /\ q.commits = repo.commits
    BY <1>1, <1>6 DEF Sound, Repository
  <2> QED BY <1>1, <2>1 DEF Sound
<1> QED BY <1>2, <1>3, <1>4, <1>5, <1>6 DEF Cut, Locking

LEMMA OutcomesStay ==
  ASSUME GitInv, NEW o \in Slots, NEW step, NEW r, Outcome(o, step, r), fresh' \in Nat
  PROVE  Stays
<1>1. /\ op[o] \in Op /\ op[o].todo # <<>> /\ op \in [Slots -> Op] /\ host \in {"local", "remote"}
      /\ asked \in 0..MaxRequests /\ events \in 0..MaxEvents
  BY DEF GitInv, RepositoryOK, Outcome, At
<1>2. PICK q : /\ op' = [op EXCEPT ![o] = q] /\ q \in Op /\ q.at \in {0, op[o].at}
               /\ (Sound(o, step, repo') \/ Sound(o, "cut", repo'))
  <2>1. CASE Sound(o, step, r) /\ repo' = r /\ op' = [op EXCEPT ![o] = After(@)]
    BY <1>1, <2>1, AfterTypes
  <2>2. CASE repo' = repo /\ op' = [op EXCEPT ![o] = Idle]
    <3>1. Sound(o, "cut", repo)
      BY PastTypes, HeadTree DEF GitInv, Sound
    <3> QED BY <2>2, <3>1, IdleTypes
  <2>3. CASE Sound(o, step, r) /\ repo' \in Cut(step, r) /\ op' = [op EXCEPT ![o] = Idle]
    BY <2>3, CutsSound, IdleTypes
  <2> QED BY <2>1, <2>2, <2>3 DEF Outcome
<1>3. /\ Grounded(repo') /\ Len(repo.commits) <= Len(repo'.commits)
      /\ \A p \in Paths : repo'.work[p] # repo.work[p] =>
           \/ repo.work[p] \in {0, repo.index[p]}
           \/ step \in Losing /\ p \in op[o].paths
           \/ step = "abort"
  BY <1>2 DEF Sound, Losing
<1>4. Grounded(repo)' /\ repo' \in Repository /\ Len(repo'.commits) \in Nat
  BY <1>3, PastTypes, HeadTree DEF Grounded, Ids, PastsClosed, Survives, Held, Past
<1>5. op' \in [Slots -> Op] /\ \A i \in Slots : OpOK(op[i])'
  BY <1>2, <1>3, <1>4, OpsMove
<1>6. /\ host' \in {"local", "remote"} /\ asked' \in 0..MaxRequests /\ events' \in 0..MaxEvents
  BY <1>1, GitAssumption DEF Outcome, Happens
<1>7. GitInv'
  BY <1>4, <1>5, <1>6 DEF GitInv, RepositoryOK
<1>8. ASSUME NEW p \in Paths, Unsaved(p), repo'.work[p] # repo.work[p]
      PROVE  GivenUp(p)
  <2>1. (step \in Losing /\ p \in op[o].paths) \/ step = "abort"
    BY <1>3, <1>8 DEF Unsaved
  <2> QED BY <2>1 DEF Outcome, GivenUp, Losing
<1> QED BY <1>7, <1>8 DEF Stays, EditsSurviveStep

-----------------------------------------------------------------------------
(* The steps.                                                              *)

LEMMA Facts ==
  ASSUME GitInv, NEW o \in Slots
  PROVE  /\ Grounded(repo) /\ repo \in Repository /\ Len(repo.commits) \in Nat /\ 0 \in Ids(repo)
         /\ repo.head \in Branches /\ repo.work \in [Paths -> Nat] /\ repo.index \in [Paths -> Nat]
         /\ repo.upstream \in [Branches -> Branches \cup {NoBranch}]
         /\ repo.unmerged \in SUBSET Paths
         /\ op[o] \in Op /\ op[o].paths \in SUBSET Paths /\ op[o].ref \in Refs /\ op[o].to \in Branches
         /\ op[o].at \in Ids(repo) /\ op[o].ref[2] \in Branches /\ RefTip(repo, op[o].ref) \in Ids(repo)
         /\ op[o].todo \in Seq(GitSteps) /\ op[o].text \in Nat /\ op[o].changes \in SUBSET Change
         /\ fresh \in Nat
<1>1. /\ Grounded(repo) /\ repo \in Repository /\ Len(repo.commits) \in Nat /\ 0 \in Ids(repo)
      /\ op[o] \in Op /\ op[o].at \in Ids(repo) /\ fresh \in Nat
  BY PastTypes, HeadTree DEF GitInv, RepositoryOK, OpOK, Ids
<1>2. op[o].ref \in Refs
  BY <1>1, OpTypes
<1>3. op[o].ref[2] \in Branches
  BY <1>2 DEF Refs
<1>4. RefTip(repo, op[o].ref) \in Ids(repo)
  BY <1>1, <1>3 DEF RefTip, Grounded
<1> QED BY <1>1, <1>3, <1>4, OpTypes, FieldTypes

\* A command that keeps the files as they are, ...
LEMMA KeepsFiles ==
  ASSUME GitInv, NEW r, Grounded(r), r.work = repo.work, Len(repo.commits) <= Len(r.commits),
         NEW o, NEW step, step \notin {"push", "publish"}
  PROVE  Sound(o, step, r)
BY DEF Sound

\* ... and one that replaces what is nowhere else only where it may.
LEMMA KeepsEdits ==
  ASSUME GitInv, NEW r, Grounded(r), Len(repo.commits) <= Len(r.commits),
         NEW o, NEW step, step \notin {"push", "publish"},
         \/ Spares(repo, r.work)
         \/ step = "abort"
         \/ step \in Losing /\ \A p \in Paths \ op[o].paths : r.work[p] = repo.work[p]
  PROVE  Sound(o, step, r)
BY DEF Sound, Spares

LEMMA RunAddStays ==
  ASSUME GitInv, NEW o \in Slots, RunAdd(o)
  PROVE  Stays
<1>1. ASSUME TRUE PROVE Sound(o, "add", Add(repo, op[o].paths))
  <2>1. PICK r : r = Add(repo, op[o].paths)
    OBVIOUS
  <2>2. Grounded(r) /\ r.work = repo.work
    BY <1>1, <2>1, Facts, StagingGrounded
  <2>3. Len(repo.commits) <= Len(r.commits)
    BY <1>1, <2>1, Facts, CommitsKept
  <2> QED BY <2>1, <2>2, <2>3, KeepsFiles
<1>2. Outcome(o, "add", Add(repo, op[o].paths)) /\ fresh' \in Nat
  BY <1>1, Facts DEF RunAdd, Command, Runs, Outcome
<1> QED BY <1>2, OutcomesStay

LEMMA RunAddAllStays ==
  ASSUME GitInv, NEW o \in Slots, RunAddAll(o)
  PROVE  Stays
<1>1. ASSUME TRUE PROVE Sound(o, "addAll", Add(repo, Paths))
  <2>1. PICK r : r = Add(repo, Paths)
    OBVIOUS
  <2>2. Grounded(r) /\ r.work = repo.work
    BY <1>1, <2>1, Facts, StagingGrounded
  <2>3. Len(repo.commits) <= Len(r.commits)
    BY <1>1, <2>1, Facts, CommitsKept
  <2> QED BY <2>1, <2>2, <2>3, KeepsFiles
<1>2. Outcome(o, "addAll", Add(repo, Paths)) /\ fresh' \in Nat
  BY <1>1, Facts DEF RunAddAll, Command, Runs, Outcome
<1> QED BY <1>2, OutcomesStay

LEMMA RunResetStays ==
  ASSUME GitInv, NEW o \in Slots, RunReset(o)
  PROVE  Stays
<1>1. ASSUME TRUE PROVE Sound(o, "reset", Reset(repo, op[o].paths))
  <2>1. PICK r : r = Reset(repo, op[o].paths)
    OBVIOUS
  <2>2. Grounded(r) /\ r.work = repo.work
    BY <1>1, <2>1, Facts, StagingGrounded
  <2>3. Len(repo.commits) <= Len(r.commits)
    BY <1>1, <2>1, Facts, CommitsKept
  <2> QED BY <2>1, <2>2, <2>3, KeepsFiles
<1>2. Outcome(o, "reset", Reset(repo, op[o].paths)) /\ fresh' \in Nat
  BY <1>1, Facts DEF RunReset, Command, Runs, Outcome
<1> QED BY <1>2, OutcomesStay

LEMMA RunResetAllStays ==
  ASSUME GitInv, NEW o \in Slots, RunResetAll(o)
  PROVE  Stays
<1>1. ASSUME TRUE PROVE Sound(o, "resetAll", ResetAll(repo))
  <2>1. PICK r : r = ResetAll(repo)
    OBVIOUS
  <2>2. Grounded(r) /\ r.work = repo.work
    BY <1>1, <2>1, Facts, UnstagingGrounded
  <2>3. Len(repo.commits) <= Len(r.commits)
    BY <1>1, <2>1, Facts, CommitsKept
  <2> QED BY <2>1, <2>2, <2>3, KeepsFiles
<1>2. Outcome(o, "resetAll", ResetAll(repo)) /\ fresh' \in Nat
  BY <1>1, Facts DEF RunResetAll, Command, Runs, Outcome
<1> QED BY <1>2, OutcomesStay

LEMMA RunUncacheStays ==
  ASSUME GitInv, NEW o \in Slots, RunUncache(o)
  PROVE  Stays
<1>1. ASSUME TRUE PROVE Sound(o, "uncache", Uncache(repo, op[o].paths))
  <2>1. PICK r : r = Uncache(repo, op[o].paths)
    OBVIOUS
  <2>2. Grounded(r) /\ r.work = repo.work
    BY <1>1, <2>1, Facts, StagingGrounded
  <2>3. Len(repo.commits) <= Len(r.commits)
    BY <1>1, <2>1, Facts, CommitsKept
  <2> QED BY <2>1, <2>2, <2>3, KeepsFiles
<1>2. Outcome(o, "uncache", Uncache(repo, op[o].paths)) /\ fresh' \in Nat
  BY <1>1, Facts DEF RunUncache, Command, Runs, Outcome
<1> QED BY <1>2, OutcomesStay

LEMMA RunUncacheAllStays ==
  ASSUME GitInv, NEW o \in Slots, RunUncacheAll(o)
  PROVE  Stays
<1>1. ASSUME TRUE PROVE Sound(o, "uncacheAll", Uncache(repo, Paths))
  <2>1. PICK r : r = Uncache(repo, Paths)
    OBVIOUS
  <2>2. Grounded(r) /\ r.work = repo.work
    BY <1>1, <2>1, Facts, StagingGrounded
  <2>3. Len(repo.commits) <= Len(r.commits)
    BY <1>1, <2>1, Facts, CommitsKept
  <2> QED BY <2>1, <2>2, <2>3, KeepsFiles
<1>2. Outcome(o, "uncacheAll", Uncache(repo, Paths)) /\ fresh' \in Nat
  BY <1>1, Facts DEF RunUncacheAll, Command, Runs, Outcome
<1> QED BY <1>2, OutcomesStay

LEMMA PlannedAsked ==
  ASSUME GitInv, NEW o \in Slots, NEW untracked
  PROVE  Planned(o, untracked) \subseteq op[o].paths
BY DEF Planned

LEMMA RunCheckoutStays ==
  ASSUME GitInv, NEW o \in Slots, RunCheckout(o)
  PROVE  Stays
<1>1. ASSUME TRUE PROVE Sound(o, "checkout", Restore(repo, Planned(o, FALSE)))
  <2>1. PICK r : r = Restore(repo, Planned(o, FALSE))
    OBVIOUS
  <2>2. PICK ps : ps = Planned(o, FALSE)
    OBVIOUS
  <2>3. r = Restore(repo, ps) /\ ps \subseteq op[o].paths
    BY <2>1, <2>2, PlannedAsked
  <2>4. Grounded(r) /\ (\A p \in Paths \ op[o].paths : r.work[p] = repo.work[p])
    BY <2>3, Facts, RestoreGrounded
  <2>5. Len(repo.commits) <= Len(r.commits)
    BY <2>3, Facts, CommitsKept
  <2> QED BY <2>1, <2>4, <2>5, KeepsEdits DEF Losing
<1>2. Outcome(o, "checkout", Restore(repo, Planned(o, FALSE))) /\ fresh' \in Nat
  BY <1>1, Facts DEF RunCheckout, Command, Runs, Outcome
<1> QED BY <1>2, OutcomesStay

LEMMA RunCleanStays ==
  ASSUME GitInv, NEW o \in Slots, RunClean(o)
  PROVE  Stays
<1>1. ASSUME TRUE PROVE Sound(o, "clean", Clean(repo, Planned(o, TRUE)))
  <2>1. PICK r : r = Clean(repo, Planned(o, TRUE))
    OBVIOUS
  <2>2. PICK ps : ps = Planned(o, TRUE)
    OBVIOUS
  <2>3. r = Clean(repo, ps) /\ ps \subseteq op[o].paths
    BY <2>1, <2>2, PlannedAsked
  <2>4. Grounded(r) /\ (\A p \in Paths \ op[o].paths : r.work[p] = repo.work[p])
    BY <2>3, Facts, RestoreGrounded
  <2>5. Len(repo.commits) <= Len(r.commits)
    BY <2>3, Facts, CommitsKept
  <2> QED BY <2>1, <2>4, <2>5, KeepsEdits DEF Losing
<1>2. Outcome(o, "clean", Clean(repo, Planned(o, TRUE))) /\ fresh' \in Nat
  BY <1>1, Facts DEF RunClean, Command, Runs, Outcome
<1> QED BY <1>2, OutcomesStay

LEMMA RunCommitStays ==
  ASSUME GitInv, NEW o \in Slots, RunCommit(o)
  PROVE  Stays
<1>1. ASSUME TRUE PROVE Sound(o, "commit", Committed(repo, repo.index, repo.mergeHead))
  <2>1. PICK r : r = Committed(repo, repo.index, repo.mergeHead)
    OBVIOUS
  <2>2. Grounded(r) /\ r.work = repo.work
    BY <1>1, <2>1, Facts, HeadTree, CommittedGrounded
  <2>3. Len(repo.commits) <= Len(r.commits)
    BY <1>1, <2>1, Facts, CommitsGrow
  <2> QED BY <2>1, <2>2, <2>3, KeepsFiles
<1>2. Outcome(o, "commit", Committed(repo, repo.index, repo.mergeHead)) /\ fresh' \in Nat
  BY <1>1, Facts DEF RunCommit, Command, Runs, Outcome
<1> QED BY <1>2, OutcomesStay

LEMMA RunCreateStays ==
  ASSUME GitInv, NEW o \in Slots, RunCreate(o)
  PROVE  Stays
<1>1. ASSUME CanCreate(repo, op[o].to, Current(repo)) PROVE Sound(o, "create", Create(repo, op[o].to, Current(repo)))
  <2>1. PICK r : r = Create(repo, op[o].to, Current(repo))
    OBVIOUS
  <2>2. Grounded(r) /\ Spares(repo, r.work)
    BY <1>1, <2>1, Facts, HeadTree, CreateGrounded
  <2>3. Len(repo.commits) <= Len(r.commits)
    BY <1>1, <2>1, Facts, CommitsKept
  <2> QED BY <2>1, <2>2, <2>3, KeepsEdits DEF Losing
<1>2. Outcome(o, "create", Create(repo, op[o].to, Current(repo))) /\ fresh' \in Nat
  BY <1>1, Facts DEF RunCreate, Command, Runs, Outcome, CreatesAt
<1> QED BY <1>2, OutcomesStay

LEMMA RunCreateFromStays ==
  ASSUME GitInv, NEW o \in Slots, RunCreateFrom(o)
  PROVE  Stays
<1>1. ASSUME CanCreate(repo, op[o].to, RefTip(repo, op[o].ref)) PROVE Sound(o, "createFrom", Create(repo, op[o].to, RefTip(repo, op[o].ref)))
  <2>1. PICK r : r = Create(repo, op[o].to, RefTip(repo, op[o].ref))
    OBVIOUS
  <2>2. Grounded(r) /\ Spares(repo, r.work)
    BY <1>1, <2>1, Facts, CreateGrounded
  <2>3. Len(repo.commits) <= Len(r.commits)
    BY <1>1, <2>1, Facts, CommitsKept
  <2> QED BY <2>1, <2>2, <2>3, KeepsEdits DEF Losing
<1>2. Outcome(o, "createFrom", Create(repo, op[o].to, RefTip(repo, op[o].ref))) /\ fresh' \in Nat
  BY <1>1, Facts DEF RunCreateFrom, Command, Runs, Outcome, CreatesAt
<1> QED BY <1>2, OutcomesStay

LEMMA RunCreateAtStays ==
  ASSUME GitInv, NEW o \in Slots, RunCreateAt(o)
  PROVE  Stays
<1>1. ASSUME CanCreate(repo, op[o].to, op[o].at) PROVE Sound(o, "createAt", Create(repo, op[o].to, op[o].at))
  <2>1. PICK r : r = Create(repo, op[o].to, op[o].at)
    OBVIOUS
  <2>2. Grounded(r) /\ Spares(repo, r.work)
    BY <1>1, <2>1, Facts, CreateGrounded
  <2>3. Len(repo.commits) <= Len(r.commits)
    BY <1>1, <2>1, Facts, CommitsKept
  <2> QED BY <2>1, <2>2, <2>3, KeepsEdits DEF Losing
<1>2. Outcome(o, "createAt", Create(repo, op[o].to, op[o].at)) /\ fresh' \in Nat
  BY <1>1, Facts DEF RunCreateAt, Command, Runs, Outcome, CreatesAt
<1> QED BY <1>2, OutcomesStay

LEMMA RunRenameStays ==
  ASSUME GitInv, NEW o \in Slots, RunRename(o)
  PROVE  Stays
<1>1. ASSUME CanRename(repo, op[o].ref[2], op[o].to) PROVE Sound(o, "rename", Rename(repo, op[o].ref[2], op[o].to))
  <2>1. PICK r : r = Rename(repo, op[o].ref[2], op[o].to)
    OBVIOUS
  <2>2. Grounded(r) /\ r.work = repo.work
    BY <1>1, <2>1, Facts, RenameGrounded
  <2>3. Len(repo.commits) <= Len(r.commits)
    BY <1>1, <2>1, Facts, CommitsKept
  <2> QED BY <2>1, <2>2, <2>3, KeepsFiles
<1>2. Outcome(o, "rename", Rename(repo, op[o].ref[2], op[o].to)) /\ fresh' \in Nat
  BY <1>1, Facts DEF RunRename, Command, Runs, Outcome
<1> QED BY <1>2, OutcomesStay

LEMMA RunDeleteStays ==
  ASSUME GitInv, NEW o \in Slots, RunDelete(o)
  PROVE  Stays
<1>1. ASSUME CanDelete(repo, op[o].ref[2]) PROVE Sound(o, "delete", Delete(repo, op[o].ref[2]))
  <2>1. PICK r : r = Delete(repo, op[o].ref[2])
    OBVIOUS
  <2>2. Grounded(r) /\ r.work = repo.work
    BY <1>1, <2>1, Facts, DeleteGrounded
  <2>3. Len(repo.commits) <= Len(r.commits)
    BY <1>1, <2>1, Facts, CommitsKept
  <2> QED BY <2>1, <2>2, <2>3, KeepsFiles
<1>2. Outcome(o, "delete", Delete(repo, op[o].ref[2])) /\ fresh' \in Nat
  BY <1>1, Facts DEF RunDelete, Command, Runs, Outcome
<1> QED BY <1>2, OutcomesStay

LEMMA RunSwitchStays ==
  ASSUME GitInv, NEW o \in Slots, RunSwitch(o)
  PROVE  Stays
<1>1. ASSUME CanSwitch(repo, op[o].to) PROVE Sound(o, "switch", Switch(repo, op[o].to))
  <2>1. PICK r : r = Switch(repo, op[o].to)
    OBVIOUS
  <2>2. Grounded(r) /\ Spares(repo, r.work)
    BY <1>1, <2>1, Facts, SwitchGrounded
  <2>3. Len(repo.commits) <= Len(r.commits)
    BY <1>1, <2>1, Facts, CommitsKept
  <2> QED BY <2>1, <2>2, <2>3, KeepsEdits DEF Losing
<1>2. Outcome(o, "switch", Switch(repo, op[o].to)) /\ fresh' \in Nat
  BY <1>1, Facts DEF RunSwitch, Command, Runs, Outcome
<1> QED BY <1>2, OutcomesStay

LEMMA RunTrackStays ==
  ASSUME GitInv, NEW o \in Slots, RunTrack(o)
  PROVE  Stays
<1>1. ASSUME CanTrack(repo, op[o].ref[2]) PROVE Sound(o, "track", Switch(repo, op[o].ref[2]))
  <2>1. PICK r : r = Switch(repo, op[o].ref[2])
    OBVIOUS
  <2>2. Grounded(r) /\ Spares(repo, r.work)
    BY <1>1, <2>1, Facts, SwitchGrounded DEF CanTrack
  <2>3. Len(repo.commits) <= Len(r.commits)
    BY <1>1, <2>1, Facts, CommitsKept DEF CanTrack
  <2> QED BY <2>1, <2>2, <2>3, KeepsEdits DEF Losing
<1>2. Outcome(o, "track", Switch(repo, op[o].ref[2])) /\ fresh' \in Nat
  BY <1>1, Facts DEF RunTrack, Command, Runs, Outcome
<1> QED BY <1>2, OutcomesStay

LEMMA RunFetchStays ==
  ASSUME GitInv, NEW o \in Slots, RunFetch(o)
  PROVE  Stays
<1>1. ASSUME TRUE PROVE Sound(o, "fetch", Fetch(repo))
  <2>1. PICK r : r = Fetch(repo)
    OBVIOUS
  <2>2. Grounded(r) /\ r.work = repo.work
    BY <1>1, <2>1, Facts, FetchGrounded
  <2>3. Len(repo.commits) <= Len(r.commits)
    BY <1>1, <2>1, Facts, CommitsKept
  <2> QED BY <2>1, <2>2, <2>3, KeepsFiles
<1>2. Outcome(o, "fetch", Fetch(repo)) /\ fresh' \in Nat
  BY <1>1, Facts DEF RunFetch, Command, Runs, Outcome
<1> QED BY <1>2, OutcomesStay

LEMMA RunPullStays ==
  ASSUME GitInv, NEW o \in Slots, RunPull(o)
  PROVE  Stays
<1>1. ASSUME CanPull(repo, op[o].to) PROVE Sound(o, "pull", Pull(repo, op[o].to))
  <2>1. PICK r : r = Pull(repo, op[o].to)
    OBVIOUS
  <2>2. Grounded(r) /\ Spares(repo, r.work)
    BY <1>1, <2>1, Facts, PullGrounded
  <2>3. Len(repo.commits) <= Len(r.commits)
    BY <1>1, <2>1, Facts, CommitsKept
  <2> QED BY <2>1, <2>2, <2>3, KeepsEdits DEF Losing
<1>2. Outcome(o, "pull", Pull(repo, op[o].to)) /\ fresh' \in Nat
  BY <1>1, Facts DEF RunPull, Command, Runs, Outcome
<1> QED BY <1>2, OutcomesStay

LEMMA RunMergeStays ==
  ASSUME GitInv, NEW o \in Slots, RunMerge(o)
  PROVE  Stays
<1>1. ASSUME CanMerge(repo, RefTip(repo, op[o].ref)) PROVE Sound(o, "merge", Merge(repo, RefTip(repo, op[o].ref)))
  <2>1. PICK r : r = Merge(repo, RefTip(repo, op[o].ref))
    OBVIOUS
  <2>2. Grounded(r) /\ Spares(repo, r.work)
    BY <1>1, <2>1, Facts, MergeGrounded DEF CanMerge
  <2>3. Len(repo.commits) <= Len(r.commits)
    BY <1>1, <2>1, Facts, MergesGrow DEF CanMerge
  <2> QED BY <2>1, <2>2, <2>3, KeepsEdits DEF Losing
<1>2. Outcome(o, "merge", Merge(repo, RefTip(repo, op[o].ref))) /\ fresh' \in Nat
  BY <1>1, Facts DEF RunMerge, Command, Runs, Outcome
<1> QED BY <1>2, OutcomesStay

LEMMA RunContinueStays ==
  ASSUME GitInv, NEW o \in Slots, RunContinue(o)
  PROVE  Stays
<1>1. ASSUME TRUE PROVE Sound(o, "continue", Continue(repo))
  <2>1. PICK r : r = Continue(repo)
    OBVIOUS
  <2>2. Grounded(r) /\ r.work = repo.work
    BY <1>1, <2>1, Facts, HeadTree, ContinueGrounded DEF Continue
  <2>3. Len(repo.commits) <= Len(r.commits)
    BY <1>1, <2>1, Facts, CommitsGrow DEF Continue
  <2> QED BY <2>1, <2>2, <2>3, KeepsFiles
<1>2. Outcome(o, "continue", Continue(repo)) /\ fresh' \in Nat
  BY <1>1, Facts DEF RunContinue, Command, Runs, Outcome
<1> QED BY <1>2, OutcomesStay

LEMMA RunAbortStays ==
  ASSUME GitInv, NEW o \in Slots, RunAbort(o)
  PROVE  Stays
<1>1. ASSUME TRUE PROVE Sound(o, "abort", Abort(repo))
  <2>1. PICK r : r = Abort(repo)
    OBVIOUS
  <2>2. Grounded(r) /\ TRUE
    BY <1>1, <2>1, Facts, AbortGrounded
  <2>3. Len(repo.commits) <= Len(r.commits)
    BY <1>1, <2>1, Facts, CommitsKept
  <2> QED BY <2>1, <2>2, <2>3, KeepsEdits DEF Losing
<1>2. Outcome(o, "abort", Abort(repo)) /\ fresh' \in Nat
  BY <1>1, Facts DEF RunAbort, Command, Runs, Outcome
<1> QED BY <1>2, OutcomesStay

\* What a push that is cut leaves is as sound.
LEMMA RunPushStays ==
  ASSUME GitInv, NEW o \in Slots, RunPush(o)
  PROVE  Stays
<1>1. Sound(o, "push", Push(repo, op[o].ref[2], op[o].to))
  <2>1. PICK b \in Branches, t \in Branches : b = op[o].ref[2] /\ t = op[o].to
    BY Facts
  <2>2. PICK r : r = Push(repo, b, t)
    OBVIOUS
  <2>3. Grounded(r) /\ r.work = repo.work
        /\ \A q : q = [repo EXCEPT !.origin = r.origin, !.shared = r.shared] =>
                    Grounded(q) /\ q.work = repo.work
    <3>1. /\ Grounded(Push(repo, b, t)) /\ Push(repo, b, t).work = repo.work
          /\ LET q == [repo EXCEPT !.origin = Push(repo, b, t).origin, !.shared = Push(repo, b, t).shared]
             IN Grounded(q) /\ q.work = repo.work
      BY Facts, PushGrounded, ZenonT(60)
    <3> QED BY <2>2, <3>1
  <2>4. Len(repo.commits) <= Len(r.commits)
    BY <2>2, Facts, CommitsKept
  <2>5. Sound(o, "push", r)
    BY <2>3, <2>4 DEF Sound
  <2> QED BY <2>1, <2>2, <2>5
<1>2. Outcome(o, "push", Push(repo, op[o].ref[2], op[o].to)) /\ fresh' \in Nat
  BY <1>1, Facts DEF RunPush, Command, Runs, Outcome
<1> QED BY <1>2, OutcomesStay

LEMMA RunPublishStays ==
  ASSUME GitInv, NEW o \in Slots, RunPublish(o)
  PROVE  Stays
<1>1. Sound(o, "publish", [Push(repo, op[o].ref[2], op[o].to) EXCEPT !.upstream[op[o].ref[2]] = op[o].to])
  <2>1. PICK b \in Branches, t \in Branches : b = op[o].ref[2] /\ t = op[o].to
    BY Facts
  <2>2. PICK pushed : pushed = Push(repo, b, t)
    OBVIOUS
  <2>3. Grounded(pushed) /\ pushed.work = repo.work
        /\ \A q : q = [repo EXCEPT !.origin = pushed.origin, !.shared = pushed.shared] =>
                    Grounded(q) /\ q.work = repo.work
    <3>1. /\ Grounded(Push(repo, b, t)) /\ Push(repo, b, t).work = repo.work
          /\ LET q == [repo EXCEPT !.origin = Push(repo, b, t).origin, !.shared = Push(repo, b, t).shared]
             IN Grounded(q) /\ q.work = repo.work
      BY Facts, PushGrounded, ZenonT(60)
    <3> QED BY <2>2, <3>1
  <2>4. PICK r : r = [pushed EXCEPT !.upstream[b] = t]
    OBVIOUS
  <2>5. Grounded(r) /\ r.work = repo.work
    BY <2>3, <2>4, UpstreamMoves
  <2>6. r.origin = pushed.origin /\ r.shared = pushed.shared /\ r.commits = pushed.commits
    BY <2>3, <2>4, HeadTree DEF Repository
  <2>7. Len(repo.commits) <= Len(r.commits)
    BY <2>2, <2>6, Facts, CommitsKept
  <2>8. Sound(o, "publish", r)
    BY <2>3, <2>5, <2>6, <2>7 DEF Sound
  <2> QED BY <2>1, <2>2, <2>4, <2>8
<1>2. Outcome(o, "publish", [Push(repo, op[o].ref[2], op[o].to) EXCEPT !.upstream[op[o].ref[2]] = op[o].to])
      /\ fresh' \in Nat
  BY <1>1, Facts DEF RunPublish, Command, Runs, Outcome
<1> QED BY <1>2, OutcomesStay

LEMMA RunTakeStays ==
  ASSUME GitInv, NEW o \in Slots, NEW way \in {"ours", "theirs"}, RunTake(o, way)
  PROVE  Stays
<1>1. PICK p \in op[o].paths : Command(o, way, CanTake(repo, p, way), Take(repo, p, way))
  BY DEF RunTake
<1>2. p \in Paths
  BY Facts
<1>3. Sound(o, way, Take(repo, p, way))
  <2>1. PICK r : r = Take(repo, p, way)
    OBVIOUS
  <2>2. Grounded(r) /\ \A q \in Paths \ op[o].paths : r.work[q] = repo.work[q]
    BY <1>2, <2>1, Facts, TakeGrounded
  <2>3. Len(repo.commits) <= Len(r.commits)
    BY <2>1, Facts, CommitsKept
  <2> QED BY <2>1, <2>2, <2>3, KeepsEdits DEF Losing
<1>4. Outcome(o, way, Take(repo, p, way)) /\ fresh' \in Nat
  BY <1>1, <1>3, Facts DEF Command, Runs, Outcome
<1> QED BY <1>4, OutcomesStay

LEMMA RunRemoveStays ==
  ASSUME GitInv, NEW o \in Slots, RunRemove(o)
  PROVE  Stays
<1>1. PICK p \in op[o].paths : Command(o, "remove", CanRemove(repo, p), Remove(repo, p))
  BY DEF RunRemove
<1>2. p \in Paths
  BY Facts
<1>3. Sound(o, "remove", Remove(repo, p))
  <2>1. PICK r : r = Remove(repo, p)
    OBVIOUS
  <2>2. Grounded(r) /\ \A q \in Paths \ op[o].paths : r.work[q] = repo.work[q]
    BY <1>2, <2>1, Facts, RemoveGrounded
  <2>3. Len(repo.commits) <= Len(r.commits)
    BY <2>1, Facts, CommitsKept
  <2> QED BY <2>1, <2>2, <2>3, KeepsEdits DEF Losing
<1>4. Outcome(o, "remove", Remove(repo, p)) /\ fresh' \in Nat
  BY <1>1, <1>3, Facts DEF Command, Runs, Outcome
<1> QED BY <1>4, OutcomesStay

LEMMA WritesKept ==
  ASSUME NEW r, Grounded(r), NEW p \in Paths, NEW n \in Nat, NEW q, q = [r EXCEPT !.work[p] = n]
  PROVE  /\ Grounded(q) /\ q.commits = r.commits
         /\ \A o \in Paths \ {p} : q.work[o] = r.work[o]
<1>1. r \in Repository /\ r.work \in [Paths -> Nat]
  BY HeadTree
<1> QED BY <1>1, WritesGrounded DEF Repository

LEMMA WriteStays ==
  ASSUME GitInv, NEW o \in Slots, Write(o)
  PROVE  Stays
<1>1. PICK p \in op[o].paths :
        /\ Runs(o, "write", host = "local" \/ repo.work[p] = op[o].text,
                [repo EXCEPT !.work[p] = fresh])
        /\ fresh' = fresh + 1
  BY DEF Write
<1>2. p \in Paths /\ fresh \in Nat
  BY Facts
<1>3. PICK r : r = [repo EXCEPT !.work[p] = fresh]
  OBVIOUS
<1>4. Sound(o, "write", r)
  <2>1. Grounded(r) /\ r.commits = repo.commits /\ \A q \in Paths \ {p} : r.work[q] = repo.work[q]
    BY <1>2, <1>3, Facts, WritesKept
  <2>2. Len(repo.commits) <= Len(r.commits) /\ \A q \in Paths \ op[o].paths : r.work[q] = repo.work[q]
    BY <2>1, Facts
  <2> QED BY <2>1, <2>2, KeepsEdits DEF Losing
<1>5. Outcome(o, "write", r) /\ fresh' \in Nat
  BY <1>1, <1>2, <1>3, <1>4 DEF Runs, Outcome
<1> QED BY <1>5, OutcomesStay

\* An operation that only reads, ends or starts changes nothing of the repository.
LEMMA RepoRests ==
  ASSUME GitInv, NEW o \in Slots, NEW q, q \in Op, q.at \in Ids(repo), op' = [op EXCEPT ![o] = q],
         UNCHANGED <<host, repo, events, fresh>>, asked' \in 0..MaxRequests
  PROVE  Stays
<1>1. op \in [Slots -> Op]
  BY DEF GitInv, RepositoryOK
<1>2. op' \in [Slots -> Op] /\ \A i \in Slots : OpOK(op[i])'
  BY <1>1 DEF GitInv, OpOK, Ids
<1>3. Grounded(repo)'
  BY DEF GitInv, Grounded, Ids, PastsClosed, Survives, Held, Past
<1> QED BY <1>2, <1>3 DEF Stays, GitInv, RepositoryOK, EditsSurviveStep

\* An operation has read something, and goes on as `next` or ends.
Reading(o, next) ==
  /\ next \in Op /\ next.at = op[o].at /\ next.todo # <<>>
  /\ op' = [op EXCEPT ![o] = After(next)] \/ op' = [op EXCEPT ![o] = Idle]
  /\ UNCHANGED <<host, repo, asked, events, fresh>>

LEMMA ReadingStays ==
  ASSUME GitInv, NEW o \in Slots, NEW next, Reading(o, next)
  PROVE  Stays
<1>1. PICK q : q \in Op /\ q.at \in {0, op[o].at} /\ op' = [op EXCEPT ![o] = q]
  BY AfterTypes, IdleTypes DEF Reading
<1>2. q.at \in Ids(repo)
  BY <1>1, Facts
<1>3. asked' \in 0..MaxRequests
  BY DEF Reading, GitInv, RepositoryOK
<1> QED BY <1>1, <1>2, <1>3, RepoRests DEF Reading

\* What an operation remembers, and the step that it takes instead of the next one.
LEMMA NextTypes ==
  ASSUME GitInv, NEW o \in Slots, op[o].todo # <<>>
  PROVE  /\ op[o] \in Op
         /\ \A m \in BOOLEAN : LET n == [op[o] EXCEPT !.merging = m]
                               IN n \in Op /\ n.at = op[o].at /\ n.todo = op[o].todo
         /\ \A cs \in SUBSET Change, k \in Nat : LET n == [op[o] EXCEPT !.changes = cs, !.seen = k]
                               IN n \in Op /\ n.at = op[o].at /\ n.todo = op[o].todo
         /\ \A ref \in Refs, b \in Branches : LET n == [op[o] EXCEPT !.ref = ref, !.to = b]
                               IN n \in Op /\ n.at = op[o].at /\ n.todo = op[o].todo
<1>1. op[o] \in Op
  BY Facts
<1> QED BY <1>1 DEF Op

LEMMA StepReplaced ==
  ASSUME NEW q \in Op, q.todo # <<>>, NEW s \in GitSteps, NEW b \in Branches
  PROVE  /\ LET n == [q EXCEPT !.todo[2] = s] IN n \in Op /\ n.at = q.at /\ n.todo # <<>>
         /\ LET n == [q EXCEPT !.todo[2] = s, !.to = b] IN n \in Op /\ n.at = q.at /\ n.todo # <<>>
<1>1. q.todo \in Seq(GitSteps)
  BY OpTypes
<1>2. PICK t : t = [q.todo EXCEPT ![2] = s]
  OBVIOUS
<1>3. t \in Seq(GitSteps) /\ t # <<>>
  <2> HIDE DEF GitSteps
  <2>1. CASE 2 \in 1..Len(q.todo)
    BY <1>1, <1>2, <2>1, ExceptSeq, EmptySeq
  <2>2. CASE 2 \notin 1..Len(q.todo)
    <3>1. q.todo \in [1..Len(q.todo) -> GitSteps]
      BY <1>1, LenProperties
    <3>2. t = q.todo
      BY <1>2, <2>2, <3>1
    <3> QED BY <1>1, <3>2
  <2> QED BY <2>1, <2>2
<1>4. PICK n : n = [q EXCEPT !.todo = t]
  OBVIOUS
<1>5. n \in Op /\ n.at = q.at /\ n.todo = t
  BY <1>3, <1>4 DEF Op, GitSteps
<1>6. PICK k : k = [n EXCEPT !.to = b]
  OBVIOUS
<1>7. k \in Op /\ k.at = q.at /\ k.todo = t
  BY <1>5, <1>6 DEF Op
<1>8. n = [q EXCEPT !.todo[2] = s] /\ k = [q EXCEPT !.todo[2] = s, !.to = b]
  BY <1>2, <1>4, <1>6 DEF Op
<1> QED BY <1>3, <1>5, <1>7, <1>8

LEMMA ReadsStay ==
  ASSUME GitInv, NEW o \in Slots,
         \/ ReadMergeHead(o) \/ ReadStatus(o) \/ ReadHead(o) \/ ReadSource(o) \/ ReadBranch(o)
         \/ ReadUpstream(o) \/ ReadCurrent(o) \/ ReadTracking(o)
         \/ ReadConflict(o) \/ ReadPresent(o) \/ ReadRevision(o)
  PROVE  Stays
<1>1. op[o].todo # <<>>
  BY DEF ReadMergeHead, ReadStatus, ReadHead, ReadSource, ReadBranch, ReadUpstream, ReadCurrent,
         ReadTracking, ReadConflict, ReadPresent, ReadRevision, Read, At
<1>2. op[o] \in Op /\ repo.merges \in Nat /\ repo.head \in Branches
      /\ repo.upstream \in [Branches -> Branches \cup {NoBranch}]
  BY Facts, FieldTypes
<1>3. CASE ReadMergeHead(o)
  <2>1. Merging(repo) \in BOOLEAN
    BY DEF Merging
  <2>2. PICK m \in BOOLEAN : m = Merging(repo)
    BY <2>1
  <2>3. PICK next : next = [op[o] EXCEPT !.merging = m]
    OBVIOUS
  <2>4. next \in Op /\ next.at = op[o].at /\ next.todo # <<>>
    BY <1>1, <2>3, NextTypes
  <2>5. Reading(o, next)
    BY <1>3, <2>2, <2>3, <2>4 DEF ReadMergeHead, Read, Reading
  <2> QED BY <2>5, ReadingStays
<1>4. CASE ReadStatus(o)
  <2>1. PICK cs, k : cs = Changes(repo) /\ k = repo.merges
    OBVIOUS
  <2>2. cs \in SUBSET Change /\ k \in Nat
    BY <1>2, <2>1 DEF Changes
  <2>3. PICK next : next = [op[o] EXCEPT !.changes = cs, !.seen = k]
    OBVIOUS
  <2>4. next \in Op /\ next.at = op[o].at /\ next.todo # <<>>
    BY <1>1, <2>2, <2>3, NextTypes
  <2>5. Reading(o, next)
    BY <1>4, <2>1, <2>3, <2>4 DEF ReadStatus, Read, Reading
  <2> QED BY <2>5, ReadingStays
<1>5. CASE ReadHead(o)
  <2>1. PICK s \in GitSteps : s = IF op[o].todo[2] = "reset" THEN "uncache" ELSE "uncacheAll"
    BY DEF GitSteps, Writes
  <2>2. PICK next : next = [op[o] EXCEPT !.todo[2] = s]
    OBVIOUS
  <2>3. next \in Op /\ next.at = op[o].at /\ next.todo # <<>>
    BY <1>1, <1>2, <2>2, StepReplaced
  <2>4. Reading(o, next) \/ Reading(o, op[o])
    BY <1>1, <1>2, <1>5, <2>1, <2>2, <2>3 DEF ReadHead, Read, Reading
  <2> QED BY <2>4, ReadingStays
<1>6. CASE ReadSource(o) \/ ReadBranch(o) \/ ReadConflict(o) \/ ReadPresent(o) \/ ReadRevision(o)
  <2>1. Reading(o, op[o])
    BY <1>1, <1>2, <1>6 DEF ReadSource, ReadBranch, ReadConflict, ReadPresent, ReadRevision, Read, Reading
  <2> QED BY <2>1, ReadingStays
<1>7. CASE ReadUpstream(o)
  <2>1. PICK ref, b : ref = <<"local", repo.head>> /\ b = repo.upstream[repo.head]
    OBVIOUS
  <2>2. ref \in Refs /\ (repo.upstream[repo.head] # NoBranch => b \in Branches)
    BY <1>2, <2>1 DEF Refs
  <2>3. PICK next : next = [op[o] EXCEPT !.ref = ref, !.to = b]
    OBVIOUS
  <2>4. CASE b \in Branches
    <3>1. next \in Op /\ next.at = op[o].at /\ next.todo # <<>>
      BY <1>1, <2>2, <2>3, <2>4, NextTypes
    <3>2. Reading(o, next)
      BY <1>7, <2>1, <2>3, <3>1 DEF ReadUpstream, Read, Reading
    <3> QED BY <3>2, ReadingStays
  <2>5. CASE b \notin Branches
    <3>1. Reading(o, op[o])
      BY <1>1, <1>2, <1>7, <2>2, <2>5 DEF ReadUpstream, Read, Reading
    <3> QED BY <3>1, ReadingStays
  <2> QED BY <2>4, <2>5
<1>8. CASE ReadCurrent(o)
  <2>1. PICK ref, b : ref = <<"local", repo.head>> /\ b = repo.head
    OBVIOUS
  <2>2. ref \in Refs /\ b \in Branches
    BY <1>2, <2>1 DEF Refs
  <2>3. PICK next : next = [op[o] EXCEPT !.ref = ref, !.to = b]
    OBVIOUS
  <2>4. next \in Op /\ next.at = op[o].at /\ next.todo # <<>>
    BY <1>1, <2>2, <2>3, NextTypes
  <2>5. Reading(o, next)
    BY <1>8, <2>1, <2>3, <2>4 DEF ReadCurrent, Read, Reading
  <2> QED BY <2>5, ReadingStays
<1>9. CASE ReadTracking(o)
  <2>1. \/ Read(o, "tracking", repo.tracking[op[o].ref[2]] # 0, op[o])
        \/ \E l \in Branches :
             Read(o, "tracking", TRUE, [op[o] EXCEPT !.todo[2] = "switch", !.to = l])
    BY <1>9 DEF ReadTracking
  <2>2. CASE Read(o, "tracking", repo.tracking[op[o].ref[2]] # 0, op[o])
    <3>1. Reading(o, op[o])
      BY <1>1, <1>2, <2>2 DEF Read, Reading
    <3> QED BY <3>1, ReadingStays
  <2>3. ASSUME NEW l \in Branches,
               Read(o, "tracking", TRUE, [op[o] EXCEPT !.todo[2] = "switch", !.to = l])
        PROVE  Stays
    <3>1. PICK s \in GitSteps : s = "switch"
      BY DEF GitSteps, Writes
    <3>2. PICK next : next = [op[o] EXCEPT !.todo[2] = s, !.to = l]
      OBVIOUS
    <3>3. next \in Op /\ next.at = op[o].at /\ next.todo # <<>>
      BY <1>1, <1>2, <3>2, StepReplaced, ZenonT(60)
    <3>4. Reading(o, next)
      BY <2>3, <3>1, <3>2, <3>3 DEF Read, Reading
    <3> QED BY <3>4, ReadingStays
  <2> QED BY <2>1, <2>2, <2>3
<1> QED BY <1>3, <1>4, <1>5, <1>6, <1>7, <1>8, <1>9

LEMMA RequestStays ==
  ASSUME GitInv, NEW o \in Slots, Request(o) \/ Fail(o)
  PROVE  Stays
<1>1. CASE Request(o)
  <2>1. PICK request \in Requests : op' = [op EXCEPT ![o] = request]
    BY <1>1 DEF Request
  <2>2. request \in Op /\ request.at \in Ids(repo)
    BY RequestTypes
  <2>3. asked' \in 0..MaxRequests
    BY <1>1, GitAssumption DEF Request, GitInv, RepositoryOK
  <2> QED BY <1>1, <2>1, <2>2, <2>3, RepoRests DEF Request
<1>2. CASE Fail(o)
  <2>1. Idle \in Op /\ Idle.at \in Ids(repo) /\ asked' \in 0..MaxRequests
    BY <1>2, IdleTypes, Facts DEF Fail, GitInv, RepositoryOK
  <2> QED BY <1>2, <2>1, RepoRests DEF Fail
<1> QED BY <1>1, <1>2

\* What happens beside the operations loses no commit.
LEMMA OpsRest ==
  ASSUME GitInv, NEW r, Grounded(r), Len(repo.commits) <= Len(r.commits),
         repo' = r, UNCHANGED <<host, op, asked>>, events' \in 0..MaxEvents, fresh' \in Nat
  PROVE  Stays
<1>1. Grounded(repo)' /\ repo' \in Repository /\ Len(repo'.commits) \in Nat /\ Len(repo.commits) \in Nat
      /\ repo \in Repository
  <2>1. Grounded(repo)'
    BY DEF Grounded, Ids, PastsClosed, Survives, Held, Past
  <2>2. \A q : Grounded(q) => q \in Repository /\ Len(q.commits) \in Nat
    <3> SUFFICES ASSUME NEW q, Grounded(q)
                 PROVE  q \in Repository /\ Len(q.commits) \in Nat
      OBVIOUS
    <3>1. Current(q) \in Ids(q) /\ q \in Repository
      BY HeadTree
    <3> QED BY <3>1, PastTypes
  <2>3. Grounded(repo) /\ repo' = r
    BY DEF GitInv
  <2> QED BY <2>1, <2>2, <2>3
<1>2. \A n \in Ids(repo) : n \in Ids(repo)'
  BY <1>1 DEF Ids
<1>3. \A i \in Slots : OpOK(op[i])'
  BY <1>2 DEF GitInv, OpOK
<1> QED BY <1>1, <1>3 DEF Stays, GitInv, RepositoryOK, EditsSurviveStep

LEMMA WorldStays ==
  ASSUME GitInv, (\E p \in Paths : Edit(p)) \/ RemoveLock \/ (\E b \in Branches : OthersPush(b))
  PROVE  Stays
<1>0. Grounded(repo) /\ repo \in Repository /\ Len(repo.commits) \in Nat /\ fresh \in Nat
      /\ events \in 0..MaxEvents
  BY PastTypes, HeadTree DEF GitInv, RepositoryOK
<1>1. ASSUME NEW p \in Paths, Edit(p) PROVE Stays
  <2>1. PICK n \in {fresh, 0} : repo' = [repo EXCEPT !.work[p] = n]
    BY <1>1 DEF Edit
  <2>2. PICK r : r = [repo EXCEPT !.work[p] = n]
    OBVIOUS
  <2>3. n \in Nat
    BY <1>0
  <2>4. Grounded(r) /\ r.commits = repo.commits
    BY <1>0, <2>2, <2>3, WritesKept
  <2>5. events < MaxEvents /\ events' = events + 1 /\ fresh' = fresh + 1
        /\ UNCHANGED <<host, op, asked>>
    BY <1>1 DEF Edit, Happens
  <2>6. events' \in 0..MaxEvents /\ fresh' \in Nat
    BY <1>0, <2>5, GitAssumption
  <2>7. repo' = r /\ Len(repo.commits) <= Len(r.commits)
    BY <1>0, <2>1, <2>2, <2>4
  <2> QED BY <2>4, <2>5, <2>6, <2>7, OpsRest
<1>2. CASE RemoveLock
  <2>1. PICK r : r = [repo EXCEPT !.lock = FALSE]
    OBVIOUS
  <2>2. Grounded(r)
    BY <1>0, <2>1, LockMoves
  <2>3. r.commits = repo.commits
    BY <1>0, <2>1 DEF Repository
  <2>4. repo' = r /\ UNCHANGED <<host, op, asked>> /\ events' \in 0..MaxEvents /\ fresh' \in Nat
    BY <1>0, <1>2, <2>1 DEF RemoveLock
  <2>5. Len(repo.commits) <= Len(r.commits)
    BY <1>0, <2>3
  <2> QED BY <2>2, <2>4, <2>5, OpsRest
<1>3. ASSUME NEW b \in Branches, OthersPush(b) PROVE Stays
  <2>1. PICK id : id = Len(repo.commits) + 1
    OBVIOUS
  <2>2. PICK c \in Past(repo, repo.origin[b]) :
          repo' = [repo EXCEPT
                  !.commits = Append(@, [tree |-> [p \in Paths |-> fresh], ours |-> FALSE,
                                         past |-> Past(repo, c) \cup {id}]),
                  !.origin[b] = id, !.shared = @ \cup {id}]
    BY <1>3, <2>1 DEF OthersPush
  <2>3. PICK r : r = [repo EXCEPT
                  !.commits = Append(@, [tree |-> [p \in Paths |-> fresh], ours |-> FALSE,
                                         past |-> Past(repo, c) \cup {id}]),
                  !.origin[b] = id, !.shared = @ \cup {id}]
    OBVIOUS
  <2>4. Grounded(r)
    <3>1. PICK e : e = [tree |-> [p \in Paths |-> fresh], ours |-> FALSE,
                        past |-> Past(repo, c) \cup {id}]
      OBVIOUS
    <3>2. Past(repo, c) \subseteq Nat
      BY <1>0, PastTypes DEF Grounded
    <3>3. e \in Record /\ ~e.ours /\ e.past = Past(repo, c) \cup {id}
      BY <1>0, <2>1, <3>1, <3>2 DEF Record
    <3>4. r = [repo EXCEPT !.commits = Append(@, e), !.origin[b] = id, !.shared = @ \cup {id}]
      BY <2>3, <3>1
    <3> QED BY <1>0, <2>1, <3>3, <3>4, OthersCommit
  <2>5. Len(repo.commits) <= Len(r.commits)
    <3>1. PICK e : r.commits = Append(repo.commits, e)
      BY <1>0, <2>3 DEF Repository
    <3>2. repo.commits \in Seq(Record)
      BY <1>0, FieldTypes DEF Record
    <3> QED BY <3>1, <3>2, LenProperties
  <2>6. events < MaxEvents /\ events' = events + 1 /\ fresh' = fresh + 1
        /\ UNCHANGED <<host, op, asked>>
    BY <1>3 DEF OthersPush, Happens
  <2>7. events' \in 0..MaxEvents /\ fresh' \in Nat
    BY <1>0, <2>6, GitAssumption
  <2> QED BY <2>2, <2>3, <2>4, <2>5, <2>6, <2>7, OpsRest
<1> QED BY <1>1, <1>2, <1>3

-----------------------------------------------------------------------------
(* The start.                                                              *)

LEMMA GitStarts == GitInit => GitInv
<1> SUFFICES ASSUME GitInit PROVE GitInv
  OBVIOUS
<1>1. \A n \in Nat : Grounded(Diverged(n)) /\ Grounded(Merge(Diverged(n), 3))
  BY DivergedGrounded, MergeGrounded
<1>2. Grounded(repo)
  BY <1>1, InStepGrounded, UnbornGrounded DEF GitInit, Stopped
<1>3. repo \in Repository /\ 0 \in Ids(repo)
  BY <1>2, PastTypes, HeadTree DEF Ids
<1>4. \A o \in Slots : OpOK(op[o])
  BY <1>3, IdleTypes DEF GitInit, OpOK
<1>5. op \in [Slots -> Op]
  BY IdleTypes DEF GitInit
<1>6. host \in {"local", "remote"} /\ asked \in 0..MaxRequests /\ events \in 0..MaxEvents /\ fresh \in Nat
  BY GitAssumption DEF GitInit
<1> QED BY <1>2, <1>3, <1>4, <1>5, <1>6 DEF GitInv, RepositoryOK

LEMMA GitStays == GitInv /\ GitNext => Stays
<1> SUFFICES ASSUME GitInv, GitNext PROVE Stays
  OBVIOUS
<1>1. ASSUME NEW o \in Slots,
             \/ Request(o) \/ Fail(o)
             \/ ReadMergeHead(o) \/ ReadStatus(o) \/ ReadHead(o) \/ ReadSource(o) \/ ReadBranch(o)
             \/ ReadUpstream(o) \/ ReadCurrent(o) \/ ReadTracking(o)
             \/ ReadConflict(o) \/ ReadPresent(o) \/ ReadRevision(o)
      PROVE  Stays
  BY <1>1, RequestStays, ReadsStay
<1>2. ASSUME NEW o \in Slots,
             \/ RunAdd(o) \/ RunAddAll(o) \/ RunReset(o) \/ RunResetAll(o) \/ RunUncache(o)
             \/ RunUncacheAll(o) \/ RunCheckout(o) \/ RunClean(o) \/ RunCommit(o)
             \/ RunCreate(o) \/ RunCreateFrom(o) \/ RunCreateAt(o) \/ RunRename(o)
             \/ RunDelete(o) \/ RunSwitch(o) \/ RunTrack(o)
      PROVE  Stays
  BY <1>2, RunAddStays, RunAddAllStays, RunResetStays, RunResetAllStays, RunUncacheStays,
     RunUncacheAllStays, RunCheckoutStays, RunCleanStays, RunCommitStays, RunCreateStays,
     RunCreateFromStays, RunCreateAtStays, RunRenameStays, RunDeleteStays, RunSwitchStays,
     RunTrackStays
<1>3. ASSUME NEW o \in Slots,
             \/ RunFetch(o) \/ RunPull(o) \/ RunPush(o) \/ RunPublish(o)
             \/ RunMerge(o) \/ RunContinue(o) \/ RunAbort(o)
             \/ RunTake(o, "ours") \/ RunTake(o, "theirs") \/ RunRemove(o) \/ Write(o)
      PROVE  Stays
  BY <1>3, RunFetchStays, RunPullStays, RunPushStays, RunPublishStays, RunMergeStays,
     RunContinueStays, RunAbortStays, RunTakeStays, RunRemoveStays, WriteStays
<1> QED BY <1>1, <1>2, <1>3, WorldStays DEF GitNext

(* A repository is one at every moment, and every operation one of git      *)
(* commands: whatever is run beside what, cut or refused.                   *)
THEOREM GitInvariant == GitSpec => []GitInv
<1>1. GitInv /\ [GitNext]_gitVars => GitInv'
  <2> SUFFICES ASSUME GitInv, [GitNext]_gitVars PROVE GitInv'
    OBVIOUS
  <2>1. CASE GitNext
    BY <2>1, GitStays DEF Stays
  <2>2. CASE UNCHANGED gitVars
    BY <2>2 DEF gitVars, GitInv, RepositoryOK, Grounded, Ids, PastsClosed, Survives, Held, Past, OpOK
  <2> QED BY <2>1, <2>2
<1> QED BY <1>1, GitStarts, PTL DEF GitSpec

(* A commit made here is on a branch or has been on origin, for any files,  *)
(* operations and number of them beside each other (the branches that are   *)
(* deleted, renamed and moved, and what is pushed and fetched).             *)
THEOREM CommitsAreKept == GitSpec => []CommitsSurvive
<1>1. GitInv => CommitsSurvive
  <2> SUFFICES ASSUME GitInv, NEW c \in DOMAIN repo.commits, repo.commits[c].ours
               PROVE  c \in repo.shared \cup UNION {Past(repo, repo.branch[b]) : b \in Branches}
    BY DEF CommitsSurvive
  <2>1. repo.commits \in Seq(Record) /\ Survives(repo)
    BY FieldTypes DEF GitInv, Grounded, Record
  <2>2. c \in 1..Len(repo.commits)
    BY <2>1, LenProperties
  <2> QED BY <2>1, <2>2 DEF Survives, Held
<1> QED BY <1>1, GitInvariant, PTL

(* What the user wrote and saved nowhere is replaced only by an operation   *)
(* that was asked to replace that very file, or that aborts a merge.        *)
THEOREM EditsAreKept == GitSpec => EditsSurvive
<1>1. GitInv /\ [GitNext]_gitVars => [EditsSurviveStep]_gitVars
  BY GitStays DEF Stays
<1> QED BY <1>1, GitInvariant, PTL DEF GitSpec, EditsSurvive
=============================================================================
