------------------------------- MODULE MCFiles -------------------------------
(***************************************************************************)
(* The files of a user, in the places where the program changes them for   *)
(* several requests at once: one file of a remote host, the entries of a   *)
(* directory, and a git repository; and the local paths the user picked.   *)
(* The places never meet: a behaviour is of one place.                     *)
(***************************************************************************)
EXTENDS RemoteFiles, FileEntries, PickedPaths, GitOperations, TLC

VARIABLE place

userVars == <<place, vars, entryVars, pickVars, gitVars>>

\* The jobs are the numbers from 1.  Nothing tells one job from another, so that
\* one order of their kinds stands for all of them.
Order == [upload |-> 1, entries |-> 2, copy |-> 3, save |-> 4]
Ordered == \A i, j \in Jobs : i < j => Order[job[i].kind] <= Order[job[j].kind]

\* ... nor one name of the directory from another.
WorkOrder == [create |-> 1, createFolder |-> 2, copy |-> 3, rename |-> 4, delete |-> 5,
              save |-> 6, download |-> 7, downloadFolder |-> 8]
OrderedEntries ==
  /\ top[CHOOSE n \in Entries : TRUE] # 0
  /\ \A i, j \in FileJobs : i < j => WorkOrder[work[i].kind] <= WorkOrder[work[j].kind]

UserInit ==
  /\ place \in {"file", "directory", "dialogs", "repository"}
  /\ Init /\ EntryInit /\ PickInit /\ GitInit
  /\ place # "file" => target = Old /\ \A j \in Jobs : job[j].kind = "save"
  /\ place # "directory" => /\ side = "local" /\ client = "server" /\ made = 1
                            /\ \A n \in Entries : top[n] # 0 =>
                                 \A j \in FileJobs : work[j].name = n /\ work[j].kind = "delete"
  /\ place # "repository" => host = "local" /\ repo = InStep
  /\ OrderedEntries
  /\ place = "file" => Ordered

UserNext ==
  /\ UNCHANGED place
  /\ \/ place = "file" /\ Next /\ UNCHANGED <<entryVars, pickVars, gitVars>>
     \/ place = "directory" /\ EntryNext /\ UNCHANGED <<vars, pickVars, gitVars>>
     \/ place = "dialogs" /\ PickNext /\ UNCHANGED <<vars, entryVars, gitVars>>
     \/ place = "repository" /\ GitNext /\ UNCHANGED <<vars, entryVars, pickVars>>

UserSpec == UserInit /\ [][UserNext]_userVars

\* No operation tells one slot from another.
Symmetry == Permutations(Slots)
=============================================================================
