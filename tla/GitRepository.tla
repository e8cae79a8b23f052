--------------------------- MODULE GitRepository ---------------------------
(***************************************************************************)
(* A git repository, its worktree and its remote, and what the commands    *)
(* that Qterm runs do to them.  git is external: each command is the       *)
(* change it makes, all of it or none, and a guard under which it makes    *)
(* it.                                                                     *)
(* The content of a file is a number: 0 for a file that is not there,      *)
(* Marked for one that a merge left with conflict markers.  A commit has   *)
(* its tree, its past (itself and every commit before it) and whether it   *)
(* was made here.  0 is no commit.  Every branch of the remote origin has  *)
(* the name of a branch, and `tracking` holds refs/remotes/origin/.        *)
(***************************************************************************)
EXTENDS Naturals, Sequences

CONSTANTS
  Paths,         \* files of the repository
  Main, Topic,   \* names of branches
  NoBranch

Branches == {Main, Topic}
Marked == 1
Empty == [p \in Paths |-> 0]

Repository ==
  [commits: Seq([tree: [Paths -> Nat], past: SUBSET Nat, ours: BOOLEAN]),
   branch: [Branches -> Nat], head: Branches, upstream: [Branches -> Branches \cup {NoBranch}],
   tracking: [Branches -> Nat], origin: [Branches -> Nat],
   index: [Paths -> Nat], unmerged: SUBSET Paths, work: [Paths -> Nat],
   mergeHead: Nat, lock: BOOLEAN,
   merges: Nat,           \* history: merges that stopped at a conflict
   shared: SUBSET Nat]    \* history: commits that origin has had

Refs == {"local", "remote"} \X Branches

Tree(r, c) == IF c = 0 THEN Empty ELSE r.commits[c].tree
Past(r, c) == IF c = 0 THEN {} ELSE r.commits[c].past
Current(r) == r.branch[r.head]
RefTip(r, ref) == IF ref[1] = "local" THEN r.branch[ref[2]] ELSE r.tracking[ref[2]]
Merging(r) == r.mergeHead # 0

-----------------------------------------------------------------------------
(* What is not committed, as git status has it. *)

Change == [path: Paths, staged: BOOLEAN, conflict: BOOLEAN, untracked: BOOLEAN]

Changes(r) ==
  {c \in Change :
     \/ c.conflict /\ ~c.staged /\ ~c.untracked /\ c.path \in r.unmerged
     \/ /\ ~c.conflict /\ c.path \notin r.unmerged
        /\ IF c.staged THEN ~c.untracked /\ r.index[c.path] # Tree(r, Current(r))[c.path]
           ELSE /\ r.work[c.path] # r.index[c.path]
                /\ c.untracked = (r.index[c.path] = 0)}

-----------------------------------------------------------------------------
(* Staging. *)

CanAdd(r, ps) == ~r.lock /\ \A p \in ps : r.work[p] # 0 \/ r.index[p] # 0 \/ p \in r.unmerged
Add(r, ps) == [r EXCEPT !.index = [p \in Paths |-> IF p \in ps THEN r.work[p] ELSE @[p]],
                        !.unmerged = @ \ ps]

\* git reset HEAD -- paths; without paths it ends the merge, too.
Reset(r, ps) ==
  [r EXCEPT !.index = [p \in Paths |-> IF p \in ps THEN Tree(r, Current(r))[p] ELSE @[p]],
            !.unmerged = @ \ ps]
ResetAll(r) == [Reset(r, Paths) EXCEPT !.mergeHead = 0]

\* git rm --cached refuses an entry that is neither the file nor what HEAD has.
CanUncache(r, ps) ==
  ~r.lock /\ \A p \in ps :
    \/ p \in r.unmerged
    \/ r.index[p] # 0 /\ r.work[p] \in {0, r.index[p]}
    \/ r.index[p] # 0 /\ r.index[p] = Tree(r, Current(r))[p]
Uncache(r, ps) == [r EXCEPT !.index = [p \in Paths |-> IF p \in ps THEN 0 ELSE @[p]],
                            !.unmerged = @ \ ps]
CanRemove(r, p) == ~r.lock /\ (r.index[p] # 0 \/ p \in r.unmerged)
Remove(r, p) == [Uncache(r, {p}) EXCEPT !.work[p] = 0]

\* git checkout -- paths, and --ours or --theirs for one of them.
CanRestore(r, ps) == ~r.lock /\ \A p \in ps : r.index[p] # 0 /\ p \notin r.unmerged
Restore(r, ps) == [r EXCEPT !.work = [p \in Paths |-> IF p \in ps THEN r.index[p] ELSE @[p]]]
Side(r, p, side) == Tree(r, IF side = "ours" THEN Current(r) ELSE r.mergeHead)[p]
CanTake(r, p, side) ==
  ~r.lock /\ IF p \in r.unmerged THEN Side(r, p, side) # 0 ELSE r.index[p] # 0
Take(r, p, side) ==
  [r EXCEPT !.work[p] = IF p \in r.unmerged THEN Side(r, p, side) ELSE r.index[p]]

Clean(r, ps) ==
  [r EXCEPT !.work = [p \in Paths |-> IF p \in ps /\ r.index[p] = 0 /\ p \notin r.unmerged
                                      THEN 0 ELSE @[p]]]

-----------------------------------------------------------------------------
(* Commits and branches. *)

Committed(r, tree, other) ==
  LET id == Len(r.commits) + 1
  IN [r EXCEPT !.commits = Append(@, [tree |-> tree, ours |-> TRUE,
                                      past |-> {id} \cup Past(r, Current(r)) \cup Past(r, other)]),
               !.branch[r.head] = id, !.index = tree, !.mergeHead = 0]

CanCommit(r) ==
  ~r.lock /\ r.unmerged = {} /\ (Merging(r) \/ r.index # Tree(r, Current(r)))

\* The worktree goes from the commit at HEAD to c: what is not committed stays, and
\* where it stands in the way nothing happens.
Differs(r, c, p) == Tree(r, Current(r))[p] # Tree(r, c)[p]
CanGo(r, c) ==
  /\ ~r.lock /\ ~Merging(r) /\ r.unmerged = {}
  /\ \A p \in Paths : Differs(r, c, p) =>
       \/ r.index[p] = Tree(r, c)[p]
       \/ r.index[p] = Tree(r, Current(r))[p] /\ r.work[p] \in {r.index[p], 0}
Go(r, c) ==
  [r EXCEPT
     !.index = [p \in Paths |-> IF Differs(r, c, p) THEN Tree(r, c)[p] ELSE @[p]],
     !.work = [p \in Paths |-> IF Differs(r, c, p) /\ r.index[p] # Tree(r, c)[p]
                               THEN Tree(r, c)[p] ELSE @[p]]]

\* git switch, which makes the branch that tracks origin's if there is no local one.
CanSwitch(r, b) ==
  \/ r.branch[b] # 0 /\ CanGo(r, r.branch[b])
  \/ r.branch[b] = 0 /\ b # r.head /\ r.tracking[b] # 0 /\ CanGo(r, r.tracking[b])
Switch(r, b) ==
  IF r.branch[b] # 0 THEN [Go(r, r.branch[b]) EXCEPT !.head = b]
  ELSE [Go(r, r.tracking[b]) EXCEPT !.head = b, !.branch[b] = r.tracking[b], !.upstream[b] = b]

\* git switch --track makes that branch and no other.
CanTrack(r, b) == r.branch[b] = 0 /\ CanSwitch(r, b)

\* git switch -c: where HEAD is, nothing has to go anywhere.
CanCreate(r, b, c) ==
  /\ r.branch[b] = 0 /\ b # r.head
  /\ IF c = Current(r) THEN ~Merging(r) ELSE c # 0 /\ CanGo(r, c)
Create(r, b, c) == [Go(r, c) EXCEPT !.head = b, !.branch[b] = c]

CanRename(r, b, to) == r.branch[b] # 0 /\ r.branch[to] = 0 /\ to # r.head
Rename(r, b, to) ==
  [r EXCEPT !.branch[to] = r.branch[b], !.branch[b] = 0,
            !.upstream[to] = r.upstream[b], !.upstream[b] = NoBranch,
            !.head = IF @ = b THEN to ELSE @]

\* git branch -d: merged into its upstream, or without one into HEAD.
Base(r, b) ==
  IF r.upstream[b] # NoBranch /\ r.tracking[r.upstream[b]] # 0
  THEN r.tracking[r.upstream[b]] ELSE Current(r)
CanDelete(r, b) == r.branch[b] # 0 /\ b # r.head /\ r.branch[b] \in Past(r, Base(r, b))
Delete(r, b) == [r EXCEPT !.branch[b] = 0, !.upstream[b] = NoBranch]

-----------------------------------------------------------------------------
(* The remote. *)

Fetch(r) == [r EXCEPT !.tracking = r.origin]

\* git pull --ff-only origin t, into whatever HEAD is.
CanPull(r, t) ==
  /\ r.origin[t] # 0
  /\ \/ r.origin[t] \in Past(r, Current(r)) /\ ~Merging(r)
     \/ Current(r) \in Past(r, r.origin[t]) \cup {0} /\ CanGo(r, r.origin[t])
Pull(r, t) ==
  LET fetched == [r EXCEPT !.tracking[t] = r.origin[t]]
  IN IF r.origin[t] \in Past(r, Current(r)) THEN fetched
     ELSE [Go(fetched, r.origin[t]) EXCEPT !.branch[r.head] = r.origin[t]]

\* git push origin b:t
CanPush(r, b, t) == r.branch[b] # 0 /\ r.origin[t] \in Past(r, r.branch[b]) \cup {0}
Push(r, b, t) ==
  [r EXCEPT !.origin[t] = r.branch[b], !.tracking[t] = r.branch[b],
            !.shared = @ \cup Past(r, r.branch[b])]

-----------------------------------------------------------------------------
(* Merges. *)

Common(r, c) == LET both == Past(r, Current(r)) \cap Past(r, c)
                IN IF both = {} THEN 0 ELSE CHOOSE x \in both : \A y \in both : y <= x

\* Each path three ways: our content, theirs, or a conflict.
Merged(r, c, p) ==
  LET base == Tree(r, Common(r, c))[p]
      our == Tree(r, Current(r))[p]
      their == Tree(r, c)[p]
  IN CASE their \in {our, base} -> our
       [] our = base /\ their # base -> their
       [] OTHER -> IF our # 0 /\ their # 0 THEN Marked ELSE our + their
Conflicts(r, c) ==
  {p \in Paths : LET base == Tree(r, Common(r, c))[p]
                     our == Tree(r, Current(r))[p]
                     their == Tree(r, c)[p]
                 IN our # their /\ our # base /\ their # base}

CanMerge(r, c) ==
  /\ c # 0 /\ ~r.lock /\ ~Merging(r) /\ r.unmerged = {}
  /\ \/ c \in Past(r, Current(r))
     \/ Current(r) \in Past(r, c) \cup {0} /\ CanGo(r, c)
     \/ /\ r.index = Tree(r, Current(r))
        /\ \A p \in Paths : Merged(r, c, p) # r.index[p] \/ p \in Conflicts(r, c)
                            => r.work[p] \in {r.index[p], 0}
Merge(r, c) ==
  LET result == [p \in Paths |-> Merged(r, c, p)]
      there == [r EXCEPT !.work = [p \in Paths |-> IF result[p] # r.index[p] \/ p \in Conflicts(r, c)
                                                   THEN result[p] ELSE @[p]]]
  IN IF c \in Past(r, Current(r)) THEN r
     ELSE IF Current(r) \in Past(r, c) \cup {0} THEN [Go(r, c) EXCEPT !.branch[r.head] = c]
     ELSE IF Conflicts(r, c) = {} THEN Committed(there, result, c)
     ELSE [there EXCEPT !.mergeHead = c, !.unmerged = Conflicts(r, c), !.merges = @ + 1,
                        !.index = [p \in Paths |-> IF p \in Conflicts(r, c) THEN 0 ELSE result[p]]]

CanContinue(r) == Merging(r) /\ CanCommit(r)
Continue(r) == Committed(r, r.index, r.mergeHead)

\* git merge --abort: the files that the merge changed are as HEAD has them; one
\* of them that was changed again after it was staged is in the way.
Touched(r) == r.unmerged \cup {p \in Paths : r.index[p] # Tree(r, Current(r))[p]}
CanAbort(r) ==
  Merging(r) /\ ~r.lock /\ \A p \in Touched(r) \ r.unmerged : r.work[p] \in {r.index[p], 0}
Abort(r) ==
  LET old == Tree(r, Current(r)) IN
  [r EXCEPT !.mergeHead = 0, !.unmerged = {}, !.index = old,
            !.work = [p \in Paths |-> IF p \in Touched(r) THEN old[p] ELSE @[p]]]
=============================================================================
