------------------------------- MODULE GitFeed -------------------------------
(***************************************************************************)
(* What the pages are told about one repository: the feed its subscribers  *)
(* share (git_observation.rs), the worker that samples the repository for  *)
(* it (git_observation_worker.rs), the sockets that forward its revisions  *)
(* (git_events_socket.rs), and the git operations that publish the result  *)
(* they return (git.rs, git_remote.rs).                                    *)
(* A feed belongs to an access identity.  It lives while a subscription    *)
(* holds it; its worker ends with it, or earlier, by itself, when it is    *)
(* refused a permit.  The repository is external: a number stands for its  *)
(* content, and it may be unreadable for a while.                          *)
(***************************************************************************)
EXTENDS Workbench, Integers, Sequences

CONSTANTS
  Sockets,      \* connections to /git/events
  Operations,   \* git operations in flight
  QueueSize,    \* capacity of the channel between forwarder and socket (32)
  MaxRevision,  \* bound: access changes stop at this revision
  MaxVersion,   \* bound: changes of the repository
  MaxOutages    \* bound: times the repository becomes unreadable

ASSUME QueueAssumption == QueueSize \in Nat \ {0}
ASSUME RevisionAssumption == MaxRevision \in Nat

VARIABLES
  disk,       \* the content of the repository
  readable,   \* it can be read
  outages,    \* times it became unreadable
  feed,       \* the feeds, by owner
  worker,     \* their workers
  socket,     \* the sockets
  operation   \* the git operations

repository == <<disk, readable, outages>>
feedVars == <<wbVars, repository, feed, worker, socket, operation>>

Owners == 1..MaxRevision
Pending == 0    \* "snapshotPending"
Failed == -1

Feed == [revision: Nat, snapshot: Int, newest: Nat]
Worker == [phase: {"none", "top", "sampling", "read", "waiting", "ended"},
           permit: Permit, expected: Nat, got: Int]
Socket == [open: BOOLEAN, subscribed: BOOLEAN, permit: Permit, seen: Nat,
           messages: Seq(Nat), told: Nat]
Operation == [phase: {"idle", "running", "acted", "read"}, got: Nat]

NewFeed == [revision |-> 0, snapshot |-> Pending, newest |-> 0]
NoWorker == [phase |-> "none", permit |-> [owner |-> 0, revision |-> 0], expected |-> 0, got |-> 0]
Closed == [open |-> FALSE, subscribed |-> FALSE, permit |-> [owner |-> 0, revision |-> 0],
           seen |-> 0, messages |-> <<>>, told |-> 0]

FeedTypeOK ==
  /\ disk \in Nat /\ readable \in BOOLEAN /\ outages \in Nat
  /\ feed \in [Owners -> Feed] /\ worker \in [Owners -> Worker]
  /\ socket \in [Sockets -> Socket]
  /\ \A s \in Sockets : Len(socket[s].messages) <= QueueSize
  /\ operation \in [Operations -> Operation]
  /\ holder \in Nat /\ locked \in BOOLEAN /\ revision \in Nat /\ issued \in Nat

FeedInit ==
  /\ WorkbenchInit
  /\ disk = 1 /\ readable = TRUE /\ outages = 0
  /\ feed = [o \in Owners |-> NewFeed] /\ worker = [o \in Owners |-> NoWorker]
  /\ socket = [s \in Sockets |-> Closed]
  /\ operation = [m \in Operations |-> [phase |-> "idle", got |-> 0]]

-----------------------------------------------------------------------------
(* The feed. *)

\* A subscription's task holds the Arc<Feed>; the registry's Weak finds it.
Held(o, sockets) == \E s \in Sockets : sockets[s].subscribed /\ sockets[s].permit.owner = o
Alive(o) == Held(o, socket)

\* Feed::publish and Feed::fail, once they have decided to replace.
Replaced(f, snapshot) ==
  [f EXCEPT !.revision = @ + 1, !.snapshot = snapshot,
            !.newest = IF snapshot > @ THEN snapshot ELSE @]

\* The last Arc is dropped, and with it the feed; Feed::drop aborts the worker.
Dropped(sockets) ==
  /\ feed' = [o \in Owners |-> IF Held(o, sockets) THEN feed[o] ELSE NewFeed]
  /\ worker' = [o \in Owners |-> IF Held(o, sockets) THEN worker[o] ELSE NoWorker]

-----------------------------------------------------------------------------
(* The worker of owner o's feed. *)

\* The top of run's loop: the revision the sample will have to meet.
Begin(o) ==
  /\ worker[o].phase = "top"
  /\ worker' = [worker EXCEPT ![o] =
                  IF PermitGood(PermitFor(o))
                  THEN [@ EXCEPT !.phase = "sampling", !.permit = PermitFor(o),
                                 !.expected = feed[o].revision]
                  ELSE [@ EXCEPT !.phase = "ended"]]
  /\ UNCHANGED <<wbVars, repository, feed, socket, operation>>

\* sample, between its two checks of the permit.
Read(o) ==
  /\ worker[o].phase = "sampling"
  /\ worker' = [worker EXCEPT
                  ![o].phase = "read",
                  ![o].got = IF readable /\ PermitGood(worker[o].permit) THEN disk ELSE Failed]
  /\ UNCHANGED <<wbVars, repository, feed, socket, operation>>

\* Fault: the sample is published whatever was published meanwhile.
PublishSampleBlind(o) ==
  LET value == IF PermitGood(worker[o].permit) THEN worker[o].got ELSE Failed
  IN /\ worker[o].phase = "read"
     /\ feed' = IF feed[o].snapshot # value
                THEN [feed EXCEPT ![o] = Replaced(@, value)] ELSE feed
     /\ worker' = [worker EXCEPT ![o] = [NoWorker EXCEPT !.phase = "waiting"]]
     /\ UNCHANGED <<wbVars, repository, socket, operation>>

\* The sample is published, or its failure, unless the feed has moved on or
\* shows the same already.
PublishSample(o) ==
  LET value == IF PermitGood(worker[o].permit) THEN worker[o].got ELSE Failed
  IN /\ worker[o].phase = "read"
     /\ feed' = IF feed[o].revision = worker[o].expected /\ feed[o].snapshot # value
                THEN [feed EXCEPT ![o] = Replaced(@, value)] ELSE feed
     /\ worker' = [worker EXCEPT ![o] = [NoWorker EXCEPT !.phase = "waiting"]]
     /\ UNCHANGED <<wbVars, repository, socket, operation>>

\* A file event, the interval, or five seconds after a failure.
Wake(o) ==
  /\ worker[o].phase = "waiting"
  /\ worker' = [worker EXCEPT ![o].phase = "top"]
  /\ UNCHANGED <<wbVars, repository, feed, socket, operation>>

-----------------------------------------------------------------------------
(* A socket, for one subscription. *)

Open(s) ==
  /\ ~socket[s].open
  /\ PermitGood(PermitFor(holder))
  /\ socket' = [socket EXCEPT ![s] = [Closed EXCEPT !.open = TRUE, !.permit = PermitFor(holder)]]
  /\ UNCHANGED <<wbVars, repository, feed, worker, operation>>

\* Observations::subscribe: the feed that is there, or a new one and its worker.
Subscribe(s) ==
  LET o == socket[s].permit.owner
  IN /\ socket[s].open /\ ~socket[s].subscribed
     /\ PermitGood(socket[s].permit)
     /\ socket' = [socket EXCEPT ![s].subscribed = TRUE, ![s].seen = 0, ![s].told = 0]
     /\ worker' = IF Alive(o) THEN worker
                  ELSE [worker EXCEPT ![o] = [NoWorker EXCEPT !.phase = "top"]]
     /\ UNCHANGED <<wbVars, repository, feed, operation>>

\* Fault: the revision is marked as seen though the channel has no room.
ForwardLossy(s) ==
  LET latest == feed[socket[s].permit.owner].revision
  IN /\ socket[s].subscribed /\ latest > socket[s].seen
     /\ socket' = [socket EXCEPT
                     ![s].seen = latest,
                     ![s].messages = IF Len(@) < QueueSize THEN Append(@, latest) ELSE @]
     /\ UNCHANGED <<wbVars, repository, feed, worker, operation>>

\* The subscription's task: borrow_and_update, then send, which waits for room.
Forward(s) ==
  LET latest == feed[socket[s].permit.owner].revision
  IN /\ socket[s].subscribed /\ latest > socket[s].seen
     /\ Len(socket[s].messages) < QueueSize
     /\ socket' = [socket EXCEPT ![s].seen = latest, ![s].messages = Append(@, latest)]
     /\ UNCHANGED <<wbVars, repository, feed, worker, operation>>

\* The socket sends a repositoryChanged; the page ignores revisions it has passed.
Deliver(s) ==
  /\ socket[s].open /\ socket[s].messages # <<>>
  /\ PermitGood(socket[s].permit)
  /\ socket' = [socket EXCEPT
                  ![s].messages = Tail(@),
                  ![s].told = IF Head(socket[s].messages) > @ THEN Head(socket[s].messages) ELSE @]
  /\ UNCHANGED <<wbVars, repository, feed, worker, operation>>

\* Messages for an id that is no longer subscribed are skipped.
Unsubscribe(s) ==
  /\ socket[s].open /\ socket[s].subscribed
  /\ PermitGood(socket[s].permit)
  /\ socket' = [socket EXCEPT ![s].subscribed = FALSE, ![s].messages = <<>>]
  /\ Dropped(socket')
  /\ UNCHANGED <<wbVars, repository, operation>>

\* The page goes, or the loop finds its permit refused.
Leave(s) ==
  /\ socket[s].open
  /\ socket' = [socket EXCEPT ![s] = Closed]
  /\ Dropped(socket')
  /\ UNCHANGED <<wbVars, repository, operation>>

Notice(s) == ~PermitGood(socket[s].permit) /\ Leave(s)

-----------------------------------------------------------------------------
(* A git operation: it changes the repository, takes a snapshot of it, and *)
(* publishes that to every feed of the repository.  Nothing orders two of  *)
(* them.                                                                   *)

StartOperation(m) ==
  /\ operation[m].phase = "idle" /\ holder # 0 /\ ~locked
  /\ operation' = [operation EXCEPT ![m].phase = "running"]
  /\ UNCHANGED <<wbVars, repository, feed, worker, socket>>

Act(m) ==
  /\ operation[m].phase = "running" /\ disk < MaxVersion
  /\ disk' = disk + 1
  /\ operation' = [operation EXCEPT ![m].phase = "acted"]
  /\ UNCHANGED <<wbVars, readable, outages, feed, worker, socket>>

TakeSnapshot(m) ==
  /\ operation[m].phase = "acted" /\ readable
  /\ operation' = [operation EXCEPT ![m] = [phase |-> "read", got |-> disk]]
  /\ UNCHANGED <<wbVars, repository, feed, worker, socket>>

PublishResult(m) ==
  /\ operation[m].phase = "read"
  /\ feed' = [o \in Owners |->
                IF Alive(o) /\ feed[o].snapshot # operation[m].got
                THEN Replaced(feed[o], operation[m].got) ELSE feed[o]]
  /\ operation' = [operation EXCEPT ![m] = [phase |-> "idle", got |-> 0]]
  /\ UNCHANGED <<wbVars, repository, worker, socket>>

\* It is refused, or its snapshot cannot be read: nothing is published.
FailOperation(m) ==
  /\ operation[m].phase \in {"running", "acted"}
  /\ operation' = [operation EXCEPT ![m] = [phase |-> "idle", got |-> 0]]
  /\ UNCHANGED <<wbVars, repository, feed, worker, socket>>

-----------------------------------------------------------------------------
(* The surroundings. *)

Edit ==
  /\ disk < MaxVersion
  /\ disk' = disk + 1
  /\ UNCHANGED <<wbVars, readable, outages, feed, worker, socket, operation>>

Outage ==
  /\ readable /\ outages < MaxOutages
  /\ readable' = FALSE /\ outages' = outages + 1
  /\ UNCHANGED <<wbVars, disk, feed, worker, socket, operation>>

Recover ==
  /\ ~readable
  /\ readable' = TRUE
  /\ UNCHANGED <<wbVars, disk, outages, feed, worker, socket, operation>>

ChangeAccess ==
  /\ revision < MaxRevision
  /\ Enter \/ Turn \/ Exit
  /\ UNCHANGED <<repository, feed, worker, socket, operation>>

LoginRunsOut ==
  /\ holder # 0 /\ RunOut
  /\ UNCHANGED <<repository, feed, worker, socket, operation>>

Sampling(o) == Begin(o) \/ Read(o) \/ PublishSample(o) \/ Wake(o)
Serving(s) ==
  Open(s) \/ Subscribe(s) \/ Forward(s) \/ Deliver(s) \/ Unsubscribe(s) \/ Leave(s)
Operating(m) == StartOperation(m) \/ Act(m) \/ TakeSnapshot(m) \/ PublishResult(m) \/ FailOperation(m)

FeedNext ==
  \/ \E o \in Owners : Sampling(o)
  \/ \E s \in Sockets : Serving(s)
  \/ \E m \in Operations : Operating(m)
  \/ Edit \/ Outage \/ Recover \/ ChangeAccess \/ LoginRunsOut

FeedSpec == FeedInit /\ [][FeedNext]_feedVars

\* The runtime runs every task that can go on: workers, whose timers always
\* fire, forwarders and sockets, which give up a send after five seconds.
\* Nobody has to subscribe, to operate or to repair the repository.
FeedFairness ==
  /\ \A o \in Owners : WF_feedVars(Sampling(o))
  /\ \A s \in Sockets : WF_feedVars(Forward(s)) /\ WF_feedVars(Deliver(s)) /\ WF_feedVars(Notice(s))

FairFeedSpec == FeedSpec /\ FeedFairness

-----------------------------------------------------------------------------
(* A sample that replaces what the feed shows is at least as new as        *)
(* everything the feed has shown before: a slow sample never hides the     *)
(* result of an operation that finished while it was being taken           *)
(* (git_observation.rs, the `expected` revision of publish and fail).      *)
SamplesAreNewest ==
  [][\A o \in Owners :
       worker[o].phase = "read" /\ feed'[o].revision > feed[o].revision
         /\ worker'[o].phase = "waiting" /\ feed'[o].snapshot # Failed
       => feed'[o].snapshot >= feed[o].newest]_feedVars

(* A page that stays subscribed, with a worker at its feed, is in the end  *)
(* told the revision that shows the repository as it is - or, while it     *)
(* cannot be read, that it cannot: after operations that published in the  *)
(* wrong order, samples that were refused, failures, a full channel.       *)
Watched(s) ==
  /\ socket[s].subscribed /\ PermitGood(socket[s].permit)
  /\ worker[socket[s].permit.owner].phase # "ended"
Current(s) ==
  LET f == feed[socket[s].permit.owner]
  IN socket[s].told = f.revision /\ f.snapshot = IF readable THEN disk ELSE Failed
CatchesUp == \A s \in Sockets : <>[]Watched(s) => <>[](Watched(s) => Current(s))

(* The safety of it: a page is told in order, and nothing newer than the   *)
(* feed; what its subscription's task has seen it was told or will be, if  *)
(* the channel was full for a while or the feed went on meanwhile          *)
(* (git_events_socket.rs:124-134).                                         *)
LastSent(k) == IF k.messages = <<>> THEN k.told ELSE k.messages[Len(k.messages)]
InOrder(k) ==
  /\ \A i \in 1..Len(k.messages) : k.told < k.messages[i]
  /\ \A i, j \in 1..Len(k.messages) : i < j => k.messages[i] < k.messages[j]
NothingSkipped ==
  \A s \in Sockets : socket[s].subscribed =>
    /\ LastSent(socket[s]) = socket[s].seen
    /\ socket[s].seen <= feed[socket[s].permit.owner].revision
    /\ InOrder(socket[s])

(* git_observation_worker.rs:1, "One serialized snapshot calculation per   *)
(* subscribed repository"; docs/server-runtime.md:220: after a lock the    *)
(* page subscribes again and is synchronized again.                        *)
SubscribedIsSampled ==
  \A s \in Sockets : socket[s].subscribed /\ PermitGood(socket[s].permit)
                     => worker[socket[s].permit.owner].phase # "ended"
=============================================================================
