------------------------------ MODULE Workbench ------------------------------
(***************************************************************************)
(* What the rest of the server relies on about access to the workbench:    *)
(* who holds it, whether it is locked, and a revision that moves whenever  *)
(* either of them may have changed.  A permit (data_access.rs) remembers   *)
(* the holder and the revision and is good for as long as both stay and    *)
(* the workbench is not locked.  Only the end of a login's eight hours     *)
(* does without a new revision; it leaves no holder at all.                *)
(* Access implements this specification; the services are built on it.     *)
(***************************************************************************)
EXTENDS Naturals

VARIABLES
  holder,    \* the valid access identity, or 0
  locked,    \* Login.locked, the terminal lock
  revision,  \* the value of the `changes` watch
  issued     \* access identities issued so far

wbVars == <<holder, locked, revision, issued>>

WorkbenchInit == holder = 0 /\ locked = FALSE /\ revision = 0 /\ issued = 0

\* A page is admitted under a new identity: login, takeover, resume elsewhere.
Enter ==
  /\ issued' = issued + 1 /\ holder' = issued'
  /\ locked' \in BOOLEAN
  /\ revision' = revision + 1

\* The identity stays: a page attaches or detaches, the lock closes or opens.
Turn ==
  /\ locked' \in BOOLEAN
  /\ revision' = revision + 1
  /\ UNCHANGED <<holder, issued>>

\* logout
Exit ==
  /\ holder' = 0 /\ locked' = FALSE
  /\ revision' = revision + 1
  /\ UNCHANGED issued

\* Login::active no longer holds.
RunOut ==
  /\ holder' = 0
  /\ UNCHANGED <<locked, revision, issued>>

WorkbenchNext == Enter \/ Turn \/ Exit \/ RunOut
WorkbenchSpec == WorkbenchInit /\ [][WorkbenchNext]_wbVars

-----------------------------------------------------------------------------
\* data_access::Permit: what Permit::new remembers and Permit::check asks.
Permit == [owner: Nat, revision: Nat]
PermitFor(owner) == [owner |-> owner, revision |-> revision]
PermitGood(permit) ==
  /\ holder # 0 /\ permit.owner = holder
  /\ ~locked
  /\ permit.revision = revision
=============================================================================
