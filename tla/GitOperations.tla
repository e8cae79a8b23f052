---------------------------- MODULE GitOperations ----------------------------
(***************************************************************************)
(* The git operations of a user, running beside each other, beside the     *)
(* user's own edits and beside others who push to origin.  An operation is *)
(* a sequence of git commands: reads of what it decides on, then commands  *)
(* that change something (git_cli for a repository of this host,           *)
(* ssh/client/git for one of a remote host).  Nothing keeps the repository *)
(* as it was between two of them.  A command that outlives its budget is   *)
(* killed, and an operation whose session ends stops where it is.          *)
(***************************************************************************)
EXTENDS GitRepository, FiniteSets

CONSTANTS
  Slots,        \* operations that may run at a time
  MaxRequests,  \* bound: operations asked for
  MaxEvents     \* bound: edits of the user, pushes of others and killed commands

ASSUME GitAssumption == MaxRequests \in Nat \ {0} /\ MaxEvents \in Nat

VARIABLES
  host,       \* where the repository is: "local" or "remote"
  repo,       \* the repository
  op,         \* the operation of each slot
  asked, events,
  fresh       \* content that no file has had so far

gitVars == <<host, repo, op, asked, events, fresh>>

Reads == {"merging", "status", "head", "source", "branch", "upstream", "current",
          "tracking", "conflict", "present", "revision"}
Writes == {"add", "addAll", "reset", "uncache", "resetAll", "uncacheAll", "checkout",
           "clean", "commit", "ours", "theirs", "remove", "write", "create", "createFrom",
           "createAt", "rename", "delete", "switch", "track", "fetch", "pull", "push",
           "publish", "merge", "continue", "abort"}
Op == [todo: Seq(Reads \cup Writes), paths: SUBSET Paths, ref: Refs, to: Branches,
       at: Nat, text: Nat, merging: BOOLEAN, changes: SUBSET Change, seen: Nat]

RepositoryOK ==
  /\ host \in {"local", "remote"} /\ repo \in Repository /\ op \in [Slots -> Op]
  /\ asked \in 0..MaxRequests /\ events \in 0..MaxEvents /\ fresh \in Nat

Do(steps) ==
  [todo |-> steps, paths |-> {}, ref |-> <<"local", Main>>, to |-> Main, at |-> 0,
   text |-> 0, merging |-> FALSE, changes |-> {}, seen |-> 0]
Idle == Do(<<>>)

\* A repository that is in step with origin; one whose main branch changed the files
\* that its topic branch changed or deleted; that one while they are being merged;
\* one without a commit.
InStep ==
  [commits |-> <<[tree |-> [p \in Paths |-> 2], past |-> {1}, ours |-> FALSE]>>,
   branch |-> [b \in Branches |-> IF b = Main THEN 1 ELSE 0], head |-> Main,
   upstream |-> [b \in Branches |-> IF b = Main THEN Main ELSE NoBranch],
   tracking |-> [b \in Branches |-> IF b = Main THEN 1 ELSE 0],
   origin |-> [b \in Branches |-> IF b = Main THEN 1 ELSE 0],
   index |-> [p \in Paths |-> 2], unmerged |-> {}, work |-> [p \in Paths |-> 2],
   mergeHead |-> 0, lock |-> FALSE, merges |-> 0, shared |-> {1}]

Diverged(theirs) ==
  [InStep EXCEPT
     !.commits = @ \o <<[tree |-> [p \in Paths |-> 3], past |-> {1, 2}, ours |-> TRUE],
                        [tree |-> [p \in Paths |-> theirs], past |-> {1, 3}, ours |-> FALSE]>>,
     !.branch = [b \in Branches |-> IF b = Main THEN 2 ELSE 3],
     !.upstream = [b \in Branches |-> b],
     !.tracking[Topic] = 3, !.origin[Topic] = 3, !.shared = {1, 3},
     !.index = [p \in Paths |-> 3], !.work = [p \in Paths |-> 3]]

Stopped == {Merge(Diverged(theirs), 3) : theirs \in {4, 0}}

Unborn ==
  [InStep EXCEPT
     !.commits = <<>>, !.branch = [b \in Branches |-> 0], !.tracking = [b \in Branches |-> 0],
     !.upstream = [b \in Branches |-> NoBranch], !.origin = [b \in Branches |-> 0],
     !.index = Empty, !.shared = {}]

GitInit ==
  /\ host \in {"local", "remote"} /\ repo \in {InStep, Diverged(4), Unborn} \cup Stopped
  /\ op = [o \in Slots |-> Idle]
  /\ asked = (IF repo \in Stopped THEN 1 ELSE 0) /\ events = 0 /\ fresh = 5

-----------------------------------------------------------------------------
(* The operations. *)

\* Mutant: MERGE_HEAD is read first at a remote host, too.
SnapshotMergingFirst == <<"merging", "status">>

\* A snapshot reads MERGE_HEAD and then the status; at a remote host the status first.
Snapshot == IF host = "local" THEN <<"merging", "status">> ELSE <<"status", "merging">>

Stage(ps) == [Do(<<"add">>) EXCEPT !.paths = ps]
StageAll == Do(Append(Snapshot, "addAll"))
Unstage(ps) == [Do(<<"head", "reset">>) EXCEPT !.paths = ps]
UnstageAll == Do(<<"head", "resetAll">>)
Discard(ps) == [Do(<<"status", "checkout", "clean">>) EXCEPT !.paths = ps]
Commit == Do(<<"commit">>)

CreateBranch(b) == [Do(<<"create">>) EXCEPT !.to = b]
CreateBranchFrom(b, ref) == [Do(<<"source", "createFrom">>) EXCEPT !.to = b, !.ref = ref]
CreateBranchFromCommit(b, c) == [Do(<<"createAt">>) EXCEPT !.to = b, !.at = c]
RenameBranch(b, to) == [Do(<<"branch", "rename">>) EXCEPT !.ref = <<"local", b>>, !.to = to]
DeleteBranch(b) == [Do(<<"branch", "delete">>) EXCEPT !.ref = <<"local", b>>]
SwitchBranch(b) == [Do(<<"switch">>) EXCEPT !.to = b]
TrackRemoteBranch(b) == [Do(<<"tracking", "track">>) EXCEPT !.ref = <<"remote", b>>]
Fetches == Do(<<"fetch">>)
Pulls == Do(<<"upstream", "pull">>)
Pushes == {Do(<<"upstream", "push">>), Do(<<"current", "publish">>)}
MergeBranch(ref) == [Do(Snapshot \o <<"source", "merge">>) EXCEPT !.ref = ref]
ContinueMerge == Do(Append(Snapshot, "continue"))
AbortMerge == Do(<<"merging", "abort">>)

\* A conflict is resolved by a text, written over the revision it was made from, by
\* one of the sides, by deleting the file, or by what the file has.
SaveText(p) ==
  [Do(IF host = "local" THEN <<"conflict", "revision", "write", "add">>
      ELSE <<"revision", "conflict", "write", "conflict", "add">>)
   EXCEPT !.paths = {p}, !.text = repo.work[p]]
UseSide(p, side) == [Do(<<"conflict", side, "add">>) EXCEPT !.paths = {p}]
DeleteResult(p) == [Do(<<"conflict", "remove">>) EXCEPT !.paths = {p}]
MarkResolved(p) ==
  [Do(IF host = "local" THEN <<"present", "add">> ELSE <<"present", "conflict", "add">>)
   EXCEPT !.paths = {p}]

Requests ==
  {StageAll, UnstageAll, Commit, Fetches, Pulls, ContinueMerge, AbortMerge} \cup Pushes
  \cup (UNION {{Stage(ps), Unstage(ps), Discard(ps)} : ps \in (SUBSET Paths) \ {{}}})
  \cup (UNION {{SaveText(p), UseSide(p, "ours"), UseSide(p, "theirs"), DeleteResult(p),
                MarkResolved(p)} : p \in Paths})
  \cup (UNION {{CreateBranch(b), DeleteBranch(b), SwitchBranch(b), TrackRemoteBranch(b)}
               : b \in Branches})
  \cup {CreateBranchFrom(b, ref) : b \in Branches, ref \in Refs}
  \cup {CreateBranchFromCommit(b, c) : b \in Branches, c \in 1..Len(repo.commits)}
  \cup {RenameBranch(b, to) : b \in Branches, to \in Branches}
  \cup {MergeBranch(ref) : ref \in Refs}

Request(o) ==
  /\ op[o] = Idle /\ asked < MaxRequests
  /\ asked' = asked + 1
  /\ \E request \in Requests : op' = [op EXCEPT ![o] = request]
  /\ UNCHANGED <<host, repo, events, fresh>>

-----------------------------------------------------------------------------
(* What an operation reads. *)

Happens == events < MaxEvents /\ events' = events + 1
At(o, step) == op[o].todo # <<>> /\ Head(op[o].todo) = step
Then(o) == op[o].todo[2]
After(next) == IF Len(next.todo) = 1 THEN Idle ELSE [next EXCEPT !.todo = Tail(@)]

\* The operation goes on with what it knows now, or ends where it is not valid.
Read(o, step, valid, next) ==
  /\ At(o, step)
  /\ op' = [op EXCEPT ![o] = IF valid THEN After(next) ELSE Idle]
  /\ UNCHANGED <<host, repo, asked, events, fresh>>

ReadMergeHead(o) ==
  Read(o, "merging", Then(o) = "abort" => Merging(repo),
       [op[o] EXCEPT !.merging = Merging(repo)])

\* For a discard, every path is to have a change that is neither staged nor a conflict.
Unstaged(p) == {c \in Changes(repo) : c.path = p /\ ~c.staged /\ ~c.conflict}
ReadStatus(o) ==
  Read(o, "status", Then(o) = "checkout" => \A p \in op[o].paths : Unstaged(p) # {},
       [op[o] EXCEPT !.changes = Changes(repo), !.seen = repo.merges])

ReadHead(o) ==
  Read(o, "head", TRUE,
       IF Current(repo) # 0 THEN op[o]
       ELSE [op[o] EXCEPT !.todo[2] = IF @ = "reset" THEN "uncache" ELSE "uncacheAll"])

\* The source of a new branch, or of a merge into another branch that has commits.
ReadSource(o) ==
  Read(o, "source", /\ RefTip(repo, op[o].ref) # 0
                    /\ Then(o) = "merge" =>
                         Current(repo) # 0 /\ op[o].ref # <<"local", repo.head>>, op[o])

\* The branch to rename or delete, which is not the current one.
ReadBranch(o) ==
  Read(o, "branch", RefTip(repo, op[o].ref) # 0
                    /\ (Then(o) = "delete" => op[o].ref[2] # repo.head), op[o])

\* The current branch and the branch of origin it is synchronised with.
ReadUpstream(o) ==
  Read(o, "upstream", Current(repo) # 0 /\ repo.upstream[repo.head] # NoBranch,
       [op[o] EXCEPT !.ref = <<"local", repo.head>>, !.to = repo.upstream[repo.head]])
ReadCurrent(o) ==
  Read(o, "current", Current(repo) # 0,
       [op[o] EXCEPT !.ref = <<"local", repo.head>>, !.to = repo.head])

\* A branch that tracks the remote one already is switched to.
ReadTracking(o) ==
  LET b == op[o].ref[2]
      there == {l \in Branches : repo.branch[l] # 0 /\ repo.upstream[l] = b}
  IN \/ there = {} /\ Read(o, "tracking", repo.tracking[b] # 0, op[o])
     \/ \E l \in there :
          Read(o, "tracking", TRUE, [op[o] EXCEPT !.todo[2] = "switch", !.to = l])

\* The conflict to resolve, and whether the resolution suits it.
Suits(o, p) ==
  CASE Then(o) \in {"ours", "theirs"} -> Side(repo, p, Then(o)) # 0
    [] Then(o) = "remove" -> Side(repo, p, "ours") = 0 \/ Side(repo, p, "theirs") = 0
    [] OTHER -> TRUE
InConflict(p) == Merging(repo) /\ p \in repo.unmerged
ReadConflict(o) ==
  Read(o, "conflict", \A p \in op[o].paths : InConflict(p) /\ Suits(o, p), op[o])
ReadPresent(o) ==
  Read(o, "present", \A p \in op[o].paths : InConflict(p) /\ repo.work[p] # 0, op[o])
ReadRevision(o) ==
  Read(o, "revision", op[o].text # 0 /\ \A p \in op[o].paths : repo.work[p] = op[o].text, op[o])

-----------------------------------------------------------------------------
(* What an operation changes. *)

\* Commands that lock the index while they run.
Locking == Writes \ {"clean", "write", "rename", "delete", "fetch", "push", "publish"}

\* A killed command did nothing yet, all of it, or some: the files and not the
\* index, whose lock stays; origin and not the branch that tracks it.
Cut(step, result) ==
  {repo, result}
  \cup (IF step \in Locking THEN {[repo EXCEPT !.lock = TRUE],
                                  [repo EXCEPT !.lock = TRUE, !.work = result.work]} ELSE {})
  \cup (IF step \in {"push", "publish"}
        THEN {[repo EXCEPT !.origin = result.origin, !.shared = result.shared]} ELSE {})

Runs(o, step, can, result) ==
  /\ At(o, step)
  /\ \/ /\ IF can THEN repo' = result /\ op' = [op EXCEPT ![o] = After(@)]
           ELSE repo' = repo /\ op' = [op EXCEPT ![o] = Idle]
        /\ UNCHANGED events
     \/ /\ can /\ Happens
        /\ repo' \in Cut(step, result)
        /\ op' = [op EXCEPT ![o] = Idle]
  /\ UNCHANGED <<host, asked>>

Command(o, step, can, result) == Runs(o, step, can, result) /\ UNCHANGED fresh

RunAdd(o) == Command(o, "add", CanAdd(repo, op[o].paths), Add(repo, op[o].paths))
\* In a merge, the conflicts are confirmed one by one.
RunAddAll(o) ==
  Command(o, "addAll",
          ~(op[o].merging /\ \E c \in op[o].changes : c.conflict) /\ ~repo.lock,
          Add(repo, Paths))

RunReset(o) ==
  Command(o, "reset", ~repo.lock /\ Current(repo) # 0, Reset(repo, op[o].paths))
RunResetAll(o) == Command(o, "resetAll", ~repo.lock /\ Current(repo) # 0, ResetAll(repo))
\* At a remote host the entry is removed whatever it is.
RunUncache(o) ==
  Command(o, "uncache", IF host = "local" THEN CanUncache(repo, op[o].paths) ELSE ~repo.lock,
          Uncache(repo, op[o].paths))
Indexed == {p \in Paths : repo.index[p] # 0 \/ p \in repo.unmerged}
RunUncacheAll(o) ==
  Command(o, "uncacheAll", CanUncache(repo, Indexed), Uncache(repo, Paths))

Planned(o, untracked) ==
  {c.path : c \in {d \in op[o].changes : ~d.staged /\ ~d.conflict /\ d.untracked = untracked
                                         /\ d.path \in op[o].paths}}
RunCheckout(o) ==
  Command(o, "checkout", Planned(o, FALSE) = {} \/ CanRestore(repo, Planned(o, FALSE)),
          Restore(repo, Planned(o, FALSE)))
RunClean(o) == Command(o, "clean", TRUE, Clean(repo, Planned(o, TRUE)))

RunCommit(o) ==
  Command(o, "commit", CanCommit(repo), Committed(repo, repo.index, repo.mergeHead))

CreatesAt(o, step, c) ==
  Command(o, step, CanCreate(repo, op[o].to, c), Create(repo, op[o].to, c))
RunCreate(o) == CreatesAt(o, "create", Current(repo))
RunCreateFrom(o) == CreatesAt(o, "createFrom", RefTip(repo, op[o].ref))
RunCreateAt(o) == CreatesAt(o, "createAt", op[o].at)
RunRename(o) ==
  Command(o, "rename", CanRename(repo, op[o].ref[2], op[o].to),
          Rename(repo, op[o].ref[2], op[o].to))
\* Mutant: git branch -D.
RunDeleteForced(o) ==
  Command(o, "delete", repo.branch[op[o].ref[2]] # 0 /\ op[o].ref[2] # repo.head,
          Delete(repo, op[o].ref[2]))
RunDelete(o) ==
  Command(o, "delete", CanDelete(repo, op[o].ref[2]), Delete(repo, op[o].ref[2]))
\* Mutant: git switch --discard-changes.
RunSwitchForced(o) ==
  LET c == repo.branch[op[o].to] IN
  Command(o, "switch", c # 0 /\ ~repo.lock,
          [repo EXCEPT !.head = op[o].to, !.index = Tree(repo, c), !.work = Tree(repo, c),
                       !.unmerged = {}, !.mergeHead = 0])
RunSwitch(o) == Command(o, "switch", CanSwitch(repo, op[o].to), Switch(repo, op[o].to))
RunTrack(o) ==
  Command(o, "track", CanTrack(repo, op[o].ref[2]), Switch(repo, op[o].ref[2]))

RunFetch(o) == Command(o, "fetch", TRUE, Fetch(repo))
RunPull(o) == Command(o, "pull", CanPull(repo, op[o].to), Pull(repo, op[o].to))
RunPush(o) ==
  Command(o, "push", CanPush(repo, op[o].ref[2], op[o].to), Push(repo, op[o].ref[2], op[o].to))
RunPublish(o) ==
  Command(o, "publish", CanPush(repo, op[o].ref[2], op[o].to),
          [Push(repo, op[o].ref[2], op[o].to) EXCEPT !.upstream[op[o].ref[2]] = op[o].to])

RunMerge(o) ==
  LET c == RefTip(repo, op[o].ref) IN
  Command(o, "merge",
          ~op[o].merging /\ op[o].changes = {} /\ CanMerge(repo, c),
          Merge(repo, c))
RunContinue(o) ==
  Command(o, "continue",
          op[o].merging /\ (\A c \in op[o].changes : ~c.conflict) /\ CanContinue(repo),
          Continue(repo))
RunAbort(o) == Command(o, "abort", CanAbort(repo), Abort(repo))

RunTake(o, side) ==
  \E p \in op[o].paths : Command(o, side, CanTake(repo, p, side), Take(repo, p, side))
RunRemove(o) ==
  \E p \in op[o].paths : Command(o, "remove", CanRemove(repo, p), Remove(repo, p))

\* The text is written; at a remote host if the file still is the one it was made from.
Write(o) ==
  \E p \in op[o].paths :
    /\ Runs(o, "write", host = "local" \/ repo.work[p] = op[o].text,
            [repo EXCEPT !.work[p] = fresh])
    /\ fresh' = fresh + 1

-----------------------------------------------------------------------------
(* What happens beside the operations. *)

\* An operation ends where it is: a budget has run out, a lock is taken, the
\* session is closed.
Fail(o) ==
  /\ op[o] # Idle
  /\ op' = [op EXCEPT ![o] = Idle]
  /\ UNCHANGED <<host, repo, asked, events, fresh>>

\* The user writes a file or deletes it.
Edit(p) ==
  /\ Happens
  /\ fresh' = fresh + 1
  /\ \E content \in {fresh, 0} : repo' = [repo EXCEPT !.work[p] = content]
  /\ UNCHANGED <<host, op, asked>>

\* The user removes a lock that a killed command left.
RemoveLock ==
  /\ repo.lock
  /\ repo' = [repo EXCEPT !.lock = FALSE]
  /\ UNCHANGED <<host, op, asked, events, fresh>>

\* Others push to a branch of origin, perhaps rewriting it.
OthersPush(b) ==
  /\ Happens /\ repo.origin[b] # 0
  /\ fresh' = fresh + 1
  /\ \E c \in Past(repo, repo.origin[b]) :
       LET id == Len(repo.commits) + 1 IN
       repo' = [repo EXCEPT
                  !.commits = Append(@, [tree |-> [p \in Paths |-> fresh], ours |-> FALSE,
                                         past |-> Past(repo, c) \cup {id}]),
                  !.origin[b] = id, !.shared = @ \cup {id}]
  /\ UNCHANGED <<host, op, asked>>

GitNext ==
  \/ \E o \in Slots :
       \/ Request(o) \/ Fail(o)
       \/ ReadMergeHead(o) \/ ReadStatus(o) \/ ReadHead(o) \/ ReadSource(o) \/ ReadBranch(o)
       \/ ReadUpstream(o) \/ ReadCurrent(o) \/ ReadTracking(o)
       \/ ReadConflict(o) \/ ReadPresent(o) \/ ReadRevision(o)
       \/ RunAdd(o) \/ RunAddAll(o) \/ RunReset(o) \/ RunResetAll(o) \/ RunUncache(o)
       \/ RunUncacheAll(o) \/ RunCheckout(o) \/ RunClean(o) \/ RunCommit(o)
       \/ RunCreate(o) \/ RunCreateFrom(o) \/ RunCreateAt(o) \/ RunRename(o)
       \/ RunDelete(o) \/ RunSwitch(o) \/ RunTrack(o)
       \/ RunFetch(o) \/ RunPull(o) \/ RunPush(o) \/ RunPublish(o)
       \/ RunMerge(o) \/ RunContinue(o) \/ RunAbort(o)
       \/ RunTake(o, "ours") \/ RunTake(o, "theirs") \/ RunRemove(o) \/ Write(o)
  \/ \E p \in Paths : Edit(p)
  \/ RemoveLock
  \/ \E b \in Branches : OthersPush(b)

GitSpec == GitInit /\ [][GitNext]_gitVars

-----------------------------------------------------------------------------
(* A commit made here is never lost: it is on a local branch, or it has     *)
(* been on origin.                                                          *)
CommitsSurvive ==
  \A c \in DOMAIN repo.commits :
    repo.commits[c].ours =>
      c \in repo.shared \cup UNION {Past(repo, repo.branch[b]) : b \in Branches}

(* What the user wrote and saved nowhere is given up only at the user's     *)
(* word: by discarding or resolving that very file, or by aborting a merge. *)
Unsaved(p) ==
  /\ repo.work[p] \notin {0, Marked, repo.index[p]}
  /\ \A c \in DOMAIN repo.commits : repo.commits[c].tree[p] # repo.work[p]
GivenUp(p) ==
  \E o \in Slots :
    \/ /\ \/ At(o, "checkout") \/ At(o, "clean") \/ At(o, "ours") \/ At(o, "theirs")
          \/ At(o, "remove") \/ At(o, "write")
       /\ p \in op[o].paths
    \/ At(o, "abort")
EditsSurviveStep ==
  \A p \in Paths : Unsaved(p) /\ repo'.work[p] # repo.work[p] /\ op' # op => GivenUp(p)
EditsSurvive == [][EditsSurviveStep]_gitVars

(* Where the code and its specification part (QB-20260901-git-conflict-     *)
(* resolution, REQ-012, REQ-004).  Staging everything marks no conflict of  *)
(* a merge that had stopped by the time the operation read the status, of   *)
(* a repository of this host, too; ...                                      *)
NoConflictInBatch ==
  \A o \in Slots :
    At(o, "addAll") /\ repo.unmerged # {} /\ repo.merges = op[o].seen =>
      op[o].merging /\ \E c \in op[o].changes : c.conflict

(* ... and a resolution replaces only the text that it was made from.       *)
ResolvesWhatWasSeen ==
  [][\A o \in Slots : \A p \in op[o].paths :
       At(o, "write") /\ op'[o] # op[o] /\ repo'.work[p] # repo.work[p]
         => repo.work[p] = op[o].text]_gitVars
=============================================================================
