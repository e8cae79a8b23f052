----------------------------- MODULE PickedPaths -----------------------------
(***************************************************************************)
(* Which local paths the page of the desktop application may have sent or  *)
(* written (src-tauri commands/transfer.rs, TransferState): those the user *)
(* picked in a dialog of the system or dropped on the window.  The page    *)
(* may ask for any path at any time; a dialog is answered while others are *)
(* open (native_dialog.rs).                                                *)
(***************************************************************************)
EXTENDS Naturals, Sequences, FiniteSets

CONSTANTS
  LocalPaths,   \* paths of the machine
  NoPath,       \* no path
  MaxLog        \* bound: what the user and the page do

ASSUME PathsAssumption == NoPath \notin LocalPaths /\ MaxLog \in Nat

VARIABLES
  uploadPath,      \* upload_path
  selectedPaths,   \* selected_upload_paths; {} for none
  downloadPaths,   \* download_paths
  droppedPaths,    \* dropped_paths; {} for none
  dialogs,         \* dialogs for a selection that are open
  log              \* history: what the user answered, what the page tried and got

approvals == <<uploadPath, selectedPaths, downloadPaths, droppedPaths>>
pickVars == <<approvals, dialogs, log>>

-----------------------------------------------------------------------------
Selections == (SUBSET LocalPaths) \ {{}}
Acts == {"openSelection", "pickSelection", "trySelection", "uploadSelection",
         "drop", "uploadDropped", "pickFile", "upload", "pickSave", "download"}

PickTypeOK ==
  /\ uploadPath \in LocalPaths \cup {NoPath} /\ selectedPaths \subseteq LocalPaths
  /\ downloadPaths \subseteq LocalPaths /\ droppedPaths \subseteq LocalPaths
  /\ dialogs \in 0..2
  /\ log \in Seq([act: Acts, paths: SUBSET LocalPaths]) /\ Len(log) <= MaxLog

PickInit ==
  /\ uploadPath = NoPath /\ selectedPaths = {} /\ downloadPaths = {} /\ droppedPaths = {}
  /\ dialogs = 0 /\ log = <<>>

Noted(act, paths) ==
  /\ Len(log) < MaxLog
  /\ log' = Append(log, [act |-> act, paths |-> paths])

-----------------------------------------------------------------------------
(* The user. *)

\* Fault: what was picked before stays while the dialog is open.
OpenKeeping ==
  /\ dialogs < 2
  /\ dialogs' = dialogs + 1
  /\ Noted("openSelection", {})
  /\ UNCHANGED approvals

\* transfer_select_upload_files, transfer_select_upload_folder: what was
\* picked before is forgotten, then the dialog opens.
OpenSelection ==
  /\ dialogs < 2
  /\ dialogs' = dialogs + 1
  /\ selectedPaths' = {}
  /\ Noted("openSelection", {})
  /\ UNCHANGED <<uploadPath, downloadPaths, droppedPaths>>

\* ... and is answered, or cancelled: then nothing is approved or forgotten.
AnswerSelection ==
  /\ dialogs > 0
  /\ dialogs' = dialogs - 1
  /\ \/ UNCHANGED <<selectedPaths, log>>
     \/ \E paths \in Selections :
          /\ selectedPaths' = paths
          /\ Noted("pickSelection", paths)
  /\ UNCHANGED <<uploadPath, downloadPaths, droppedPaths>>

\* transfer_select_upload_file: the answer, also none, replaces the last.
AnswerFile ==
  /\ \E path \in LocalPaths \cup {NoPath} :
       /\ uploadPath' = path
       /\ Noted("pickFile", {path} \ {NoPath})
  /\ UNCHANGED <<selectedPaths, downloadPaths, droppedPaths, dialogs>>

\* transfer_select_download_path: an answer is added to the earlier ones,
\* and a cancelled dialog leaves them.
AnswerSave ==
  /\ \E path \in LocalPaths :
       /\ downloadPaths' = downloadPaths \cup {path}
       /\ Noted("pickSave", {path})
  /\ UNCHANGED <<uploadPath, selectedPaths, droppedPaths, dialogs>>

\* transfer_select_download_directory: the folder and the name in it.
AnswerSaveFolder == AnswerSave

\* approve_drop_paths: a drop replaces the last.
Drop ==
  /\ \E paths \in Selections :
       /\ droppedPaths' = paths
       /\ Noted("drop", paths)
  /\ UNCHANGED <<uploadPath, selectedPaths, downloadPaths, dialogs>>

-----------------------------------------------------------------------------
(* The page. *)

\* transfer_upload: the last picked file, as often as it asks.
UploadPicked ==
  /\ \E path \in LocalPaths :
       /\ uploadPath = path
       /\ Noted("upload", {path})
  /\ UNCHANGED <<approvals, dialogs>>

\* Fault: a selection that was uploaded may be uploaded again.
UploadSelectedKeeping ==
  /\ \E paths \in Selections :
       Noted(IF selectedPaths = paths THEN "uploadSelection" ELSE "trySelection", paths)
  /\ UNCHANGED <<approvals, dialogs>>

\* transfer_upload_selected: take_selected_upload_paths takes the selection
\* whether or not the request names it.
UploadSelected ==
  /\ \E paths \in Selections :
       Noted(IF selectedPaths = paths THEN "uploadSelection" ELSE "trySelection", paths)
  /\ selectedPaths' = {}
  /\ UNCHANGED <<uploadPath, downloadPaths, droppedPaths, dialogs>>

\* transfer_upload_dropped, and remote_runtime_drop: only all of the drop,
\* once; another request leaves it.
UploadDropped ==
  /\ droppedPaths # {}
  /\ Noted("uploadDropped", droppedPaths)
  /\ droppedPaths' = {}
  /\ UNCHANGED <<uploadPath, selectedPaths, downloadPaths, dialogs>>

\* transfer_download: each approval once.
DownloadPicked ==
  /\ \E path \in downloadPaths :
       /\ downloadPaths' = downloadPaths \ {path}
       /\ Noted("download", {path})
  /\ UNCHANGED <<uploadPath, selectedPaths, droppedPaths, dialogs>>

PickNext ==
  \/ OpenSelection \/ AnswerSelection \/ AnswerFile \/ AnswerSave \/ AnswerSaveFolder \/ Drop
  \/ UploadPicked \/ UploadSelected \/ UploadDropped \/ DownloadPicked

PickSpec == PickInit /\ [][PickNext]_pickVars

-----------------------------------------------------------------------------
\* The i-th entry follows an answer `pick` with the same paths, with none of
\* `acts` in between.
Follows(i, pick, acts) ==
  \E k \in 1..(i - 1) :
    /\ log[k] = [act |-> pick, paths |-> log[i].paths]
    /\ \A m \in (k + 1)..(i - 1) : log[m].act \notin acts
Count(i, act, paths) == Cardinality({k \in 1..i : log[k] = [act |-> act, paths |-> paths]})

(* Whatever the page asks, what is sent or written is what the user chose: *)
(* one file is the last file picked; a selection is the last one, which no *)
(* later dialog, attempt or upload has used up; a drop is the last one,    *)
(* sent once; and no path is written more often than it was chosen.        *)
SentAsPicked ==
  \A i \in 1..Len(log) :
    /\ log[i].act = "upload" => Follows(i, "pickFile", {"pickFile"})
    /\ log[i].act = "uploadSelection" =>
         Follows(i, "pickSelection", {"openSelection", "pickSelection", "trySelection",
                                      "uploadSelection"})
    /\ log[i].act = "uploadDropped" => Follows(i, "drop", {"drop", "uploadDropped"})
    /\ log[i].act = "download" =>
         Count(i, "download", log[i].paths) <= Count(i, "pickSave", log[i].paths)
=============================================================================
