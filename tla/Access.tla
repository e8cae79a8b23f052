------------------------------- MODULE Access -------------------------------
(***************************************************************************)
(* Admission to the single server workbench.  One login at a time owns the *)
(* workbench; everything a page does is decided against it:                *)
(*   - login, takeover and resume admit a page (access.rs), each under the *)
(*     vault gate, which also seals the credential vault                   *)
(*     (access_lifecycle.rs);                                              *)
(*   - a presence socket attaches to the login, keeps it fresh with pongs  *)
(*     and detaches from it when the page goes away (access_socket.rs);    *)
(*   - a request is authorized, takes a permit that remembers the          *)
(*     revision it was admitted at, and re-checks it at every chunk        *)
(*     (data_access.rs); control requests need no permit;                  *)
(*   - a privacy lock hides the workbench until the master password is     *)
(*     verified (terminal_lock.rs, vault.rs).                              *)
(* Random tokens are numbered in the order they are issued: the cookie and *)
(* the access key are always drawn together, so one number `cred` stands   *)
(* for the pair and a request presents a number for each.  The clock is    *)
(* three kinds of steps: a login expires, its presence lapses, a takeover  *)
(* ticket expires.                                                         *)
(***************************************************************************)
EXTENDS Naturals, FiniteSets

CONSTANTS
  Clients,        \* page identities (clientId)
  NoClient,       \* the client of the absent login
  Sockets,        \* slots of the presence-socket semaphore
  Requests,       \* requests in flight
  MaxPending,     \* takeover tickets kept at once
  Abandonable,    \* gate operations whose page may hang up while they run
  Unreadable,     \* whether vault.status() may fail on a disconnect: a set of BOOLEANs
  MaxOwners,      \* bound: access identities ever issued
  MaxTransports,  \* bound: presence transports ever issued
  MaxRevision     \* bound: lock and unlock requests stop at this revision

ASSUME NoClientAssumption == NoClient \notin Clients
ASSUME PendingAssumption == MaxPending \in Nat /\ Unreadable \subseteq BOOLEAN
ASSUME AbandonAssumption ==
  Abandonable \subseteq {"terminalUnlock", "vaultUnlock", "initialize"}

VARIABLES
  login,       \* Inner.login
  ticket,      \* Inner.pending, at most one ticket per client
  revision,    \* Inner.revision, the value of the `changes` watch
  creds,       \* cookie/key pairs issued
  owners,      \* owner tokens issued
  transports,  \* transport tokens issued
  vault,       \* what vault.status() reports
  gate,        \* vault_gate: who holds it across a password verification
  abandoned,   \* the verification whose handler was dropped, still running
  socket,      \* the presence-socket tasks
  request,     \* the requests in flight
  shown,       \* history: the owner a client was shown with its ticket
  verified     \* history: the owner whose handler saw the master password
               \* accepted since the workbench was last sealed, or 0

loginVars == <<login, ticket, revision, creds, owners, shown>>
vars == <<login, ticket, revision, creds, owners, transports, vault, gate,
          abandoned, socket, request, shown, verified>>

-----------------------------------------------------------------------------
(* Types and empty values. *)

Login == [cred: Nat, client: Clients \cup {NoClient}, owner: Nat,
          locked: BOOLEAN, claimed: BOOLEAN, transport: Nat,
          expired: BOOLEAN, lapsed: BOOLEAN]
Pending == [live: BOOLEAN, revision: Nat, expired: BOOLEAN]
VaultStatus == {"absent", "legacy", "locked", "unlocked"}
GateOps == {"free", "terminalUnlock", "vaultUnlock", "initialize"}
Gate == [op: GateOps, owner: Nat, stage: {"blocking", "verified", "valid"}]
Socket == [phase: {"idle", "upgraded", "open", "leaving"}, owner: Nat,
           key: Nat, client: Clients \cup {NoClient}, transport: Nat]
Request == [phase: {"idle", "authorized", "subscribed", "permitted"},
            owner: Nat, revision: Nat]

NoLogin == [cred |-> 0, client |-> NoClient, owner |-> 0, locked |-> FALSE,
            claimed |-> FALSE, transport |-> 0, expired |-> FALSE,
            lapsed |-> FALSE]
NoTicket == [live |-> FALSE, revision |-> 0, expired |-> FALSE]
Unattended == {"none", "unlock", "initialize"}
GateFree == [op |-> "free", owner |-> 0, stage |-> "blocking"]
IdleSocket == [phase |-> "idle", owner |-> 0, key |-> 0,
               client |-> NoClient, transport |-> 0]
IdleRequest == [phase |-> "idle", owner |-> 0, revision |-> 0]

TypeOK ==
  /\ login \in Login
  /\ ticket \in [Clients -> Pending]
  /\ revision \in Nat /\ creds \in Nat /\ owners \in Nat /\ transports \in Nat
  /\ vault \in VaultStatus
  /\ gate \in Gate /\ abandoned \in Unattended
  /\ socket \in [Sockets -> Socket]
  /\ request \in [Requests -> Request]
  /\ shown \in [Clients -> Nat]
  /\ verified \in Nat

-----------------------------------------------------------------------------
(* Guards of access.rs and access_lifecycle.rs. *)

Present == login.owner # 0
ActiveLogin == Present /\ ~login.expired
Valid(owner) == ActiveLogin /\ login.owner = owner
Occupied == ActiveLogin /\ ~login.lapsed
ProveOwner(owner, key, client) ==
  Valid(owner) /\ login.cred = key /\ login.client = client
OwnsTransport(owner, transport) ==
  Present /\ login.owner = owner /\ login.transport = transport

\* Fault: an unlocked vault is not counted as one that protects anything.
RequiresLockWhenSealed == vault = "locked"
RequiresLock == vault \in {"locked", "unlocked"}
Free == gate.op = "free"
LockedVault(v) == IF v = "unlocked" THEN "locked" ELSE v

\* access_lifecycle::seal: lock the vault, forget the verification.
Seal == vault' = LockedVault(vault) /\ verified' = 0
SealIf(lock) == IF lock THEN Seal ELSE UNCHANGED <<vault, verified>>

Init ==
  /\ login = NoLogin
  /\ ticket = [c \in Clients |-> NoTicket]
  /\ revision = 0 /\ creds = 0 /\ owners = 0 /\ transports = 0
  /\ vault \in {"absent", "legacy", "locked"}
  /\ gate = GateFree /\ abandoned = "none"
  /\ socket = [s \in Sockets |-> IdleSocket]
  /\ request = [r \in Requests |-> IdleRequest]
  /\ shown = [c \in Clients |-> 0]
  /\ verified = 0

-----------------------------------------------------------------------------
(* Admission. *)

\* Fault: a grant does not move the revision.
GrantSilently(c) ==
  /\ owners < MaxOwners
  /\ creds' = creds + 1
  /\ owners' = owners + 1
  /\ login' = [NoLogin EXCEPT !.cred = creds', !.client = c, !.owner = owners',
                              !.locked = RequiresLock, !.claimed = TRUE]
  /\ Seal
  /\ UNCHANGED revision

\* Access::grant: a fresh cookie, key and owner replace whatever was there.
Grant(c) ==
  /\ owners < MaxOwners
  /\ creds' = creds + 1
  /\ owners' = owners + 1
  /\ login' = [NoLogin EXCEPT !.cred = creds', !.client = c, !.owner = owners',
                              !.locked = RequiresLock, !.claimed = TRUE]
  /\ revision' = revision + 1
  /\ Seal

\* The tickets left after `retain`: expired ones and the client's own go.
Kept(c) == [d \in Clients |->
              IF d = c \/ ticket[d].expired THEN NoTicket ELSE ticket[d]]
LiveTickets(t) == {d \in Clients : t[d].live}

\* Access::pending: at the limit the request fails, but the purge stays.
Wait(c) ==
  /\ IF Cardinality(LiveTickets(Kept(c))) >= MaxPending
     THEN ticket' = Kept(c)
     ELSE ticket' = [Kept(c) EXCEPT ![c] =
                       [live |-> TRUE, revision |-> revision, expired |-> FALSE]]
  /\ shown' = [d \in Clients |-> IF ~ticket'[d].live THEN 0
                                 ELSE IF d = c THEN login.owner ELSE shown[d]]
  /\ UNCHANGED <<login, revision, creds, owners, vault, verified>>

\* Fault: a login does not wait for the vault gate.
LoginPageUngated(c) ==
  /\ IF Occupied THEN Wait(c) ELSE Grant(c) /\ UNCHANGED <<ticket, shown>>
  /\ UNCHANGED <<transports, abandoned, gate, socket, request>>

\* access_lifecycle::login, after the access password was verified.
LoginPage(c) ==
  /\ Free
  /\ IF Occupied THEN Wait(c) ELSE Grant(c) /\ UNCHANGED <<ticket, shown>>
  /\ UNCHANGED <<transports, abandoned, gate, socket, request>>

\* access_lifecycle::resume: a page with the cookie and the key reconnects.
\* Another client changes the owner; the same client keeps it.
Resume(c, cookie, key) ==
  /\ Free
  /\ ActiveLogin /\ login.cred = cookie /\ login.cred = key
  /\ IF login.client # c /\ login.claimed /\ Occupied
     THEN Wait(c)
     ELSE LET moved == login.client # c
              lockChanged == RequiresLock /\ ~login.locked
          IN /\ moved => owners < MaxOwners
             /\ owners' = IF moved THEN owners + 1 ELSE owners
             /\ login' = [login EXCEPT
                            !.client = c,
                            !.owner = IF moved THEN owners' ELSE @,
                            !.transport = IF moved THEN 0 ELSE @,
                            !.claimed = TRUE,
                            !.locked = @ \/ RequiresLock,
                            !.lapsed = FALSE]
             /\ revision' = IF moved \/ lockChanged THEN revision + 1 ELSE revision
             /\ SealIf(RequiresLock)
             /\ UNCHANGED <<ticket, creds, shown>>
  /\ UNCHANGED <<transports, abandoned, gate, socket, request>>

\* access_lifecycle::takeover: presenting a ticket consumes it, whether or
\* not it still confirms the occupancy it was issued for.
Takeover(holder, c) ==
  /\ Free
  /\ ticket[holder].live
  /\ ticket' = [ticket EXCEPT ![holder] = NoTicket]
  /\ shown' = [shown EXCEPT ![holder] = 0]
  /\ IF /\ holder = c
        /\ ~ticket[holder].expired
        /\ ticket[holder].revision = revision
     THEN Grant(c)
     ELSE UNCHANGED <<login, revision, creds, owners, vault, verified>>
  /\ UNCHANGED <<transports, abandoned, gate, socket, request>>

-----------------------------------------------------------------------------
(* The presence socket of a page. *)

\* auth::guard lets a socket upgrade in on the cookie alone.
Upgrade(s, cookie) ==
  /\ socket[s].phase = "idle"
  /\ ActiveLogin /\ login.cred = cookie
  /\ socket' = [socket EXCEPT ![s] = [IdleSocket EXCEPT !.phase = "upgraded",
                                                        !.owner = login.owner]]
  /\ UNCHANGED <<loginVars, transports, abandoned, vault, gate, request, verified>>

\* Fault: an error path out of the socket loop skips the detach.
RefuseOpen(s) ==
  /\ socket[s].phase \in {"upgraded", "open"}
  /\ socket' = [socket EXCEPT ![s] = IdleSocket]
  /\ UNCHANGED <<loginVars, transports, abandoned, vault, gate, request, verified>>

\* Fault: a refused socket gives back a transport it never took.
RefuseReturning(s) ==
  /\ socket[s].phase = "upgraded"
  /\ socket' = [socket EXCEPT ![s] = IdleSocket]
  /\ transports' = transports - 1
  /\ UNCHANGED <<loginVars, abandoned, vault, gate, request, verified>>

\* No proof within five seconds, or one that attach refuses.
Refuse(s) ==
  /\ socket[s].phase = "upgraded"
  /\ socket' = [socket EXCEPT ![s] = IdleSocket]
  /\ UNCHANGED <<loginVars, transports, abandoned, vault, gate, request, verified>>

\* access_lifecycle::attach: the newest presence replaces the older one.
Attach(s, key, c) ==
  /\ socket[s].phase = "upgraded"
  /\ Free
  /\ transports < MaxTransports
  /\ ProveOwner(socket[s].owner, key, c)
  /\ transports' = transports + 1
  /\ login' = [login EXCEPT !.transport = transports', !.claimed = TRUE,
                            !.lapsed = FALSE, !.locked = @ \/ RequiresLock]
  /\ revision' = revision + 1
  /\ SealIf(RequiresLock)
  /\ socket' = [socket EXCEPT ![s] = [@ EXCEPT !.phase = "open", !.key = key,
                                        !.client = c, !.transport = transports']]
  /\ UNCHANGED <<ticket, creds, owners, abandoned, gate, request, shown>>

\* The checks at the head of the socket loop: revoked, or replaced.
Superseded(s) ==
  LET me == socket[s]
  IN \/ ~ProveOwner(me.owner, me.key, me.client)
     \/ ~OwnsTransport(me.owner, me.transport)
\* Fault: the loop notices a revoked login only, not a replaced transport.
NoticeRevoked(s) ==
  /\ socket[s].phase = "open"
  /\ ~ProveOwner(socket[s].owner, socket[s].key, socket[s].client)
  /\ socket' = [socket EXCEPT ![s].phase = "leaving"]
  /\ UNCHANGED <<loginVars, transports, abandoned, vault, gate, request, verified>>

Notice(s) ==
  /\ socket[s].phase = "open"
  /\ Superseded(s)
  /\ socket' = [socket EXCEPT ![s].phase = "leaving"]
  /\ UNCHANGED <<loginVars, transports, abandoned, vault, gate, request, verified>>

\* The page closes, a send fails, or no pong came for thirty seconds.
Disconnect(s) ==
  /\ socket[s].phase = "open"
  /\ socket' = [socket EXCEPT ![s].phase = "leaving"]
  /\ UNCHANGED <<loginVars, transports, abandoned, vault, gate, request, verified>>

\* Access::touch on a pong; a pong that no longer counts ends the socket.
Pong(s) ==
  /\ socket[s].phase = "open"
  /\ IF ActiveLogin /\ OwnsTransport(socket[s].owner, socket[s].transport)
     THEN login' = [login EXCEPT !.lapsed = FALSE] /\ UNCHANGED socket
     ELSE socket' = [socket EXCEPT ![s].phase = "leaving"] /\ UNCHANGED login
  /\ UNCHANGED <<ticket, revision, creds, owners, transports, abandoned, vault, gate,
                 request, shown, verified>>

\* Fault: a detach that locks the workbench does not move the revision.
DetachSilently(s, unreadable) ==
  /\ socket[s].phase = "leaving"
  /\ Free
  /\ socket' = [socket EXCEPT ![s] = IdleSocket]
  /\ LET lock == RequiresLock \/ unreadable
     IN IF OwnsTransport(socket[s].owner, socket[s].transport)
        THEN /\ login' = [login EXCEPT !.locked = @ \/ lock, !.claimed = FALSE,
                                       !.lapsed = FALSE, !.transport = 0]
             /\ SealIf(lock)
        ELSE UNCHANGED <<login, vault, verified>>
  /\ UNCHANGED <<revision, ticket, creds, owners, transports, abandoned, gate, request,
                 shown>>

\* access_lifecycle::detach.  A vault whose status cannot be read counts as
\* one that needs the lock; only the socket that owns the transport acts.
Detach(s, unreadable) ==
  /\ socket[s].phase = "leaving"
  /\ Free
  /\ socket' = [socket EXCEPT ![s] = IdleSocket]
  /\ LET lock == RequiresLock \/ unreadable
     IN IF OwnsTransport(socket[s].owner, socket[s].transport)
        THEN /\ login' = [login EXCEPT !.locked = @ \/ lock, !.claimed = FALSE,
                                       !.lapsed = FALSE, !.transport = 0]
             /\ revision' = IF lock /\ ~login.locked THEN revision + 1 ELSE revision
             /\ SealIf(lock)
        ELSE UNCHANGED <<login, revision, vault, verified>>
  /\ UNCHANGED <<ticket, creds, owners, transports, abandoned, gate, request, shown>>

-----------------------------------------------------------------------------
(* Requests: authorized by cookie, key and client, then given a permit. *)

Authorize(r, cookie, key, c) ==
  /\ request[r].phase = "idle"
  /\ login.cred = cookie
  /\ ActiveLogin /\ login.cred = key /\ login.client = c
  /\ request' = [request EXCEPT ![r] = [IdleRequest EXCEPT !.phase = "authorized",
                                                           !.owner = login.owner]]
  /\ UNCHANGED <<loginVars, transports, abandoned, vault, gate, socket, verified>>

\* Permit::new reads the revision first ...
Subscribe(r) ==
  /\ request[r].phase = "authorized"
  /\ request' = [request EXCEPT ![r].phase = "subscribed", ![r].revision = revision]
  /\ UNCHANGED <<loginVars, transports, abandoned, vault, gate, socket, verified>>

\* ... and then runs Permit::check, as every later chunk does.
PermitHolds(r) ==
  /\ Valid(request[r].owner)
  /\ ~login.locked
  /\ request[r].revision = revision
Admit(r) ==
  /\ request[r].phase = "subscribed"
  /\ PermitHolds(r)
  /\ request' = [request EXCEPT ![r].phase = "permitted"]
  /\ UNCHANGED <<loginVars, transports, abandoned, vault, gate, socket, verified>>

\* The request is refused, completes without changing this state, or is dropped.
Release(r) ==
  /\ request[r].phase # "idle"
  /\ request' = [request EXCEPT ![r] = IdleRequest]
  /\ UNCHANGED <<loginVars, transports, abandoned, vault, gate, socket, verified>>

-----------------------------------------------------------------------------
(* Handlers that wait for the gate.  A control handler needs no permit; a  *)
(* data handler was admitted with one, but looks only at `valid` once it   *)
(* has the gate.                                                           *)

AtGate(r, phase) ==
  /\ request[r].phase = phase
  /\ Free
  /\ Valid(request[r].owner)
  /\ request' = [request EXCEPT ![r] = IdleRequest]

\* access_lifecycle::logout
Logout(r) ==
  /\ AtGate(r, "authorized")
  /\ login' = NoLogin
  /\ revision' = revision + 1
  /\ Seal
  /\ UNCHANGED <<ticket, creds, owners, transports, abandoned, gate, socket, shown>>

\* access_lifecycle::lock, the privacy lock.
LockTerminal(r) ==
  /\ AtGate(r, "authorized")
  /\ revision < MaxRevision
  /\ RequiresLock
  /\ login' = [login EXCEPT !.locked = TRUE]
  /\ revision' = IF login.locked THEN revision ELSE revision + 1
  /\ Seal
  /\ UNCHANGED <<ticket, creds, owners, transports, abandoned, gate, socket, shown>>

\* vault::lock locks the vault alone; the terminal and its permits stay.
LockVault(r) ==
  /\ AtGate(r, "permitted")
  /\ vault' = LockedVault(vault)
  /\ UNCHANGED <<loginVars, transports, abandoned, gate, socket, verified>>

\* credential_management::clear removes the vault.
ClearVault(r) ==
  /\ AtGate(r, "permitted")
  /\ vault' = "absent"
  /\ UNCHANGED <<loginVars, transports, abandoned, gate, socket, verified>>

\* terminal_lock::unlock, vault::unlock and vault::initialize keep the gate
\* while a blocking thread derives keys from the password.
Begin(r, op) ==
  /\ AtGate(r, IF op = "terminalUnlock" THEN "authorized" ELSE "permitted")
  /\ revision < MaxRevision
  /\ op = "initialize" => vault = "absent"
  /\ gate' = [op |-> op, owner |-> request[r].owner, stage |-> "blocking"]
  /\ UNCHANGED <<loginVars, transports, abandoned, vault, socket, verified>>

\* The blocking call: the password is right, or the operation fails.
Verify ==
  /\ ~Free /\ gate.stage = "blocking"
  /\ \/ /\ IF gate.op = "initialize" THEN vault = "absent" ELSE RequiresLock
        /\ vault' = "unlocked"
        /\ verified' = gate.owner
        /\ gate' = [gate EXCEPT !.stage = "verified"]
     \/ /\ gate' = GateFree
        /\ UNCHANGED <<vault, verified>>
  /\ UNCHANGED <<loginVars, transports, abandoned, socket, request>>

\* The page hangs up: the server drops the handler with its gate, but the
\* blocking call goes on (its permit moved into it).  Bound: one at a time.
Abandon ==
  /\ gate.op \in Abandonable
  /\ gate' = GateFree
  /\ \/ /\ gate.stage = "blocking" /\ abandoned = "none"
        /\ abandoned' = IF gate.op = "initialize" THEN "initialize" ELSE "unlock"
     \/ /\ gate.stage = "verified"
        /\ UNCHANGED abandoned
  /\ UNCHANGED <<loginVars, transports, vault, socket, request, verified>>

\* It ends without a handler to check the login or to schedule the auto-lock.
FinishAbandoned ==
  /\ abandoned # "none"
  /\ abandoned' = "none"
  /\ \/ /\ IF abandoned = "initialize" THEN vault = "absent" ELSE RequiresLock
        /\ vault' = "unlocked"
     \/ UNCHANGED vault
  /\ UNCHANGED <<loginVars, transports, gate, socket, request, verified>>

\* The login is checked again after the await; if it expired, lock the vault.
Recheck ==
  /\ gate.stage = "verified"
  /\ IF Valid(gate.owner)
     THEN /\ gate' = IF gate.op = "terminalUnlock"
                     THEN [gate EXCEPT !.stage = "valid"] ELSE GateFree
          /\ UNCHANGED vault
     ELSE /\ gate' = GateFree
          /\ vault' = LockedVault(vault)
  /\ UNCHANGED <<loginVars, transports, abandoned, socket, request, verified>>

\* Access::set_terminal_locked(owner, false), which checks the login itself.
Unlock ==
  /\ gate.stage = "valid"
  /\ gate' = GateFree
  /\ IF Valid(gate.owner) /\ login.locked
     THEN /\ login' = [login EXCEPT !.locked = FALSE]
          /\ revision' = revision + 1
     ELSE UNCHANGED <<login, revision>>
  /\ UNCHANGED <<ticket, creds, owners, transports, abandoned, vault, socket, request,
                 shown, verified>>

-----------------------------------------------------------------------------
(* Time.  The auto-lock deadline locks the vault without the gate.         *)

AutoLock ==
  /\ vault = "unlocked"
  /\ vault' = "locked"
  /\ UNCHANGED <<loginVars, transports, abandoned, gate, socket, request, verified>>

Expire ==
  /\ ActiveLogin
  /\ login' = [login EXCEPT !.expired = TRUE]
  /\ UNCHANGED <<ticket, revision, creds, owners, transports, abandoned, vault, gate,
                 socket, request, shown, verified>>

LapsePresence ==
  /\ ActiveLogin /\ ~login.lapsed
  /\ login' = [login EXCEPT !.lapsed = TRUE]
  /\ UNCHANGED <<ticket, revision, creds, owners, transports, abandoned, vault, gate,
                 socket, request, shown, verified>>

ExpireTicket(c) ==
  /\ ticket[c].live /\ ~ticket[c].expired
  /\ ticket' = [ticket EXCEPT ![c].expired = TRUE]
  /\ UNCHANGED <<login, revision, creds, owners, transports, abandoned, vault, gate,
                 socket, request, shown, verified>>

-----------------------------------------------------------------------------

Admission ==
  \/ \E c \in Clients : LoginPage(c)
  \/ \E c \in Clients, cookie, key \in 1..MaxOwners : Resume(c, cookie, key)
  \/ \E holder, c \in Clients : Takeover(holder, c)

Presence(s) ==
  \/ \E cookie \in 1..MaxOwners : Upgrade(s, cookie)
  \/ Refuse(s)
  \/ \E key \in 1..MaxOwners, c \in Clients : Attach(s, key, c)
  \/ Notice(s)
  \/ Disconnect(s)
  \/ Pong(s)
  \/ \E unreadable \in Unreadable : Detach(s, unreadable)

Service(r) ==
  \/ \E cookie, key \in 1..MaxOwners, c \in Clients : Authorize(r, cookie, key, c)
  \/ Subscribe(r) \/ Admit(r) \/ Release(r)
  \/ Logout(r) \/ LockTerminal(r) \/ LockVault(r) \/ ClearVault(r)
  \/ \E op \in GateOps \ {"free"} : Begin(r, op)

Verification == Verify \/ Recheck \/ Unlock
Hangup == Abandon \/ FinishAbandoned

Time == AutoLock \/ Expire \/ LapsePresence \/ \E c \in Clients : ExpireTicket(c)

Next ==
  \/ Admission
  \/ \E s \in Sockets : Presence(s)
  \/ \E r \in Requests : Service(r)
  \/ Verification
  \/ Hangup
  \/ Time

Spec == Init /\ [][Next]_vars

\* Sockets run their loop, queue for the gate (a fair mutex) and finish; the
\* blocking verification returns.
Fairness ==
  /\ \A s \in Sockets : WF_vars(Notice(s))
  /\ \A s \in Sockets : SF_vars(\E unreadable \in Unreadable : Detach(s, unreadable))
  /\ WF_vars(Verification)
FairSpec == Spec /\ Fairness

-----------------------------------------------------------------------------
(* Properties. *)

\* The services see access as Workbench describes it: whoever holds the
\* workbench and whether it is locked change only under a new revision, and a
\* new page gets an identity never issued before; only a login that runs out
\* leaves the revision alone, and then nobody holds the workbench.
W == INSTANCE Workbench WITH
       holder <- IF ActiveLogin THEN login.owner ELSE 0,
       locked <- login.locked,
       issued <- owners
ImplementsWorkbench == W!WorkbenchSpec

\* A permit whose revision is still current belongs to the page that owns the
\* workbench now, and the workbench is not locked.  Permit::run wakes up on
\* the revision alone, so every change of owner or lock must move it.
PermitRevisionSound ==
  \A r \in Requests :
    request[r].phase = "permitted" /\ request[r].revision = revision
      => login.owner = request[r].owner /\ ~login.locked

\* A takeover confirms the occupancy the user was shown: a ticket whose
\* revision is current was issued against the login that is there now.
TicketShowsOccupant ==
  \A c \in Clients :
    ticket[c].live /\ ticket[c].revision = revision => login.owner = shown[c]

\* A protected workbench is open only to the owner who gave the master
\* password since it was last sealed, whatever admissions, reconnects,
\* disconnects and expirations came between.  (Provided the page that creates
\* the vault stays: see Abandonable.)
OpenOnlyAfterVerification ==
  Present /\ RequiresLock /\ ~login.locked => verified = login.owner

\* While a password verification holds the gate, the login it verifies for
\* stays the login: nobody is admitted under it.
VerifierStaysOwner == ~Free => login.owner = gate.owner

\* A login that counts a presence transport has a socket that will detach it.
PresenceHasSocket ==
  login.transport # 0 =>
    \E s \in Sockets :
      /\ socket[s].phase \in {"open", "leaving"}
      /\ socket[s].transport = login.transport
      /\ socket[s].owner = login.owner

\* docs/server-runtime.md:52 says a disconnect, like a takeover or a logout,
\* locks the vault; a locked terminal then has a locked vault until the next
\* unlock runs.
LockedTerminalSealsVault ==
  ActiveLogin /\ login.locked /\ Free => vault # "unlocked"

\* docs/server-runtime.md:209 says logging out locks the vault: while nobody
\* is logged in, it is not unlocked.
LogoutLocksVault == ~Present /\ Free => vault # "unlocked"

\* A presence socket that was revoked or replaced eventually leaves, and its
\* slot is free again.
SupersededSocketEnds ==
  \A s \in Sockets :
    (socket[s].phase = "open" /\ Superseded(s)) ~> socket[s].phase = "idle"
=============================================================================
