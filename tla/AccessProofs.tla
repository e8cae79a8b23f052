---------------------------- MODULE AccessProofs ----------------------------
(***************************************************************************)
(* Proofs about Access, for every set of clients, sockets and requests and *)
(* every bound.  One inductive invariant, AccessInv, carries all the       *)
(* safety invariants the TLC runs check.                                   *)
(***************************************************************************)
EXTENDS Access, TLAPS

\* Every definition a step of the specification is built from.
USE DEF Present, ActiveLogin, Valid, Occupied, ProveOwner, OwnsTransport,
        Free, LockedVault, Seal, SealIf, loginVars,
        NoLogin, NoTicket, GateFree, IdleSocket, IdleRequest

-----------------------------------------------------------------------------
(* Type correctness. *)

LEMMA RequiresLockBool == RequiresLock \in BOOLEAN
  BY DEF RequiresLock

\* What Grant does to the login, with the new numbers only known to be numbers.
LEMMA GrantTypes ==
  ASSUME TypeOK, NEW c \in Clients, Grant(c)
  PROVE  /\ login' \in Login
         /\ revision' \in Nat /\ creds' \in Nat /\ owners' \in Nat
         /\ vault' \in VaultStatus /\ verified' \in Nat
<1>1. creds' \in Nat /\ owners' \in Nat /\ revision' \in Nat
  BY DEF Grant, TypeOK
<1>2. login' = [NoLogin EXCEPT !.cred = creds', !.client = c, !.owner = owners',
                               !.locked = RequiresLock, !.claimed = TRUE]
  BY DEF Grant
<1>3. login' \in Login
  BY <1>1, <1>2, RequiresLockBool DEF Login
<1>4. vault' \in VaultStatus /\ verified' \in Nat
  BY DEF Grant, TypeOK, VaultStatus
<1>5. QED BY <1>1, <1>3, <1>4

LEMMA TypeInit == Init => TypeOK
  BY NoClientAssumption DEF Init, TypeOK, Login, Pending, VaultStatus, Gate,
     GateOps, Socket, Request, Unattended

LEMMA TypeAdmission == TypeOK /\ Admission => TypeOK'
<1> SUFFICES ASSUME TypeOK, Admission PROVE TypeOK'
    OBVIOUS
<1>k. ASSUME NEW c \in Clients PROVE Kept(c) \in [Clients -> Pending]
    BY DEF TypeOK, Kept, Pending
<1>w. ASSUME NEW c \in Clients, Wait(c)
      PROVE ticket' \in [Clients -> Pending] /\ shown' \in [Clients -> Nat]
  <2> DEFINE kept == Kept(c)
            fresh == [live |-> TRUE, revision |-> revision, expired |-> FALSE]
  <2>a. kept \in [Clients -> Pending] /\ fresh \in Pending
    BY <1>k DEF TypeOK, Pending
  <2>b. ticket' = kept \/ ticket' = [kept EXCEPT ![c] = fresh]
    BY <1>w DEF Wait
  <2>1. ticket' \in [Clients -> Pending]
    <3> HIDE DEF kept, fresh
    <3> QED BY <2>a, <2>b
  <2>2. QED BY <2>1, <1>w DEF Wait, TypeOK, Login
<1>1. ASSUME NEW c \in Clients, LoginPage(c) PROVE TypeOK'
  <2>1. CASE Wait(c)
    BY <2>1, <1>1, <1>w DEF LoginPage, Wait, TypeOK
  <2>2. CASE Grant(c) /\ UNCHANGED <<ticket, shown>>
    BY <2>2, <1>1, GrantTypes DEF LoginPage, TypeOK
  <2>3. QED BY <2>1, <2>2, <1>1 DEF LoginPage
<1>2. ASSUME NEW c \in Clients, NEW cookie \in 1..MaxOwners,
             NEW key \in 1..MaxOwners, Resume(c, cookie, key)
      PROVE TypeOK'
  <2>1. CASE Wait(c)
    BY <2>1, <1>2, <1>w DEF Resume, Wait, TypeOK
  <2>2. CASE ~(login.client # c /\ login.claimed /\ Occupied)
    <3>1. /\ owners' \in Nat /\ revision' \in Nat
          /\ vault' \in VaultStatus /\ verified' \in Nat
      BY <2>2, <1>2 DEF Resume, TypeOK, VaultStatus
    <3>2. login' = [login EXCEPT
                      !.client = c,
                      !.owner = IF login.client # c THEN owners' ELSE @,
                      !.transport = IF login.client # c THEN 0 ELSE @,
                      !.claimed = TRUE,
                      !.locked = @ \/ RequiresLock,
                      !.lapsed = FALSE]
      BY <2>2, <1>2 DEF Resume
    <3>3. login' \in Login
      BY <3>1, <3>2, RequiresLockBool DEF TypeOK, Login
    <3>4. QED BY <3>1, <3>3, <2>2, <1>2 DEF Resume, TypeOK
  <2>3. QED BY <2>1, <2>2, <1>2 DEF Resume
<1>3. ASSUME NEW holder \in Clients, NEW c \in Clients, Takeover(holder, c)
      PROVE TypeOK'
  <2>1. ticket' \in [Clients -> Pending] /\ shown' \in [Clients -> Nat]
    BY <1>3 DEF Takeover, TypeOK, Pending
  <2>2. CASE Grant(c)
    BY <2>1, <2>2, <1>3, GrantTypes DEF Takeover, TypeOK
  <2>3. CASE UNCHANGED <<login, revision, creds, owners, vault, verified>>
    BY <2>1, <2>3, <1>3 DEF Takeover, TypeOK
  <2>4. QED BY <2>2, <2>3, <1>3 DEF Takeover
<1>4. QED BY <1>1, <1>2, <1>3 DEF Admission

LEMMA TypePresence ==
  ASSUME TypeOK, NEW s \in Sockets, Presence(s) PROVE TypeOK'
<1>1. ASSUME NEW cookie \in 1..MaxOwners, Upgrade(s, cookie) PROVE TypeOK'
  BY <1>1, NoClientAssumption DEF Upgrade, TypeOK, Socket, Login
<1>2. CASE Refuse(s)
  BY <1>2 DEF Refuse, TypeOK, Socket
<1>3. ASSUME NEW key \in 1..MaxOwners, NEW c \in Clients, Attach(s, key, c)
      PROVE TypeOK'
  <2>0. revision' \in Nat /\ transports' \in Nat
    BY <1>3 DEF Attach, TypeOK
  <2>a. login' = [login EXCEPT !.transport = transports', !.claimed = TRUE,
                               !.lapsed = FALSE, !.locked = @ \/ RequiresLock]
    BY <1>3 DEF Attach
  <2>1. login' \in Login
    BY <2>0, <2>a, RequiresLockBool DEF TypeOK, Login
  <2>2. vault' \in VaultStatus /\ verified' \in Nat
    BY <1>3 DEF Attach, TypeOK, VaultStatus
  <2>3. socket' \in [Sockets -> Socket]
    <3>1. socket' = [socket EXCEPT ![s] =
                       [socket[s] EXCEPT !.phase = "open", !.key = key,
                                         !.client = c, !.transport = transports']]
      BY <1>3 DEF Attach
    <3>2. key \in Nat
      OBVIOUS
    <3>3. [socket[s] EXCEPT !.phase = "open", !.key = key, !.client = c,
                            !.transport = transports'] \in Socket
      BY <2>0, <3>2 DEF TypeOK, Socket
    <3>4. QED BY <3>1, <3>3 DEF TypeOK
  <2>4. QED BY <2>0, <2>1, <2>2, <2>3, <1>3 DEF Attach, TypeOK
<1>4. CASE Notice(s) \/ Disconnect(s)
  BY <1>4 DEF Notice, Disconnect, TypeOK, Socket
<1>5. CASE Pong(s)
  <2>1. login' \in Login /\ socket' \in [Sockets -> Socket]
    <3>1. CASE login' = [login EXCEPT !.lapsed = FALSE] /\ UNCHANGED socket
      BY <3>1 DEF TypeOK, Login
    <3>2. CASE socket' = [socket EXCEPT ![s].phase = "leaving"] /\ UNCHANGED login
      BY <3>2 DEF TypeOK, Socket
    <3>3. QED BY <3>1, <3>2, <1>5 DEF Pong
  <2>2. QED BY <2>1, <1>5 DEF Pong, TypeOK
<1>6. ASSUME NEW unreadable \in Unreadable, Detach(s, unreadable) PROVE TypeOK'
  <2>0. unreadable \in BOOLEAN
    BY PendingAssumption
  <2>1. socket' \in [Sockets -> Socket]
    BY <1>6 DEF Detach, TypeOK, Socket
  <2>a. revision' \in Nat
    BY <1>6 DEF Detach, TypeOK
  <2>2. login' \in Login
    <3>1. (login.locked \/ RequiresLock \/ unreadable) \in BOOLEAN
      BY <2>0, RequiresLockBool
    <3>2. \/ login' = login
          \/ login' = [login EXCEPT
                         !.locked = login.locked \/ RequiresLock \/ unreadable,
                         !.claimed = FALSE, !.lapsed = FALSE, !.transport = 0]
      BY <1>6, Zenon DEF Detach
    <3>3. PICK lock \in BOOLEAN :
            \/ login' = login
            \/ login' = [login EXCEPT !.locked = lock, !.claimed = FALSE,
                                      !.lapsed = FALSE, !.transport = 0]
      BY <3>1, <3>2, Zenon
    <3>4. CASE login' = login
      BY <3>4 DEF TypeOK
    <3>5. CASE login' = [login EXCEPT !.locked = lock, !.claimed = FALSE,
                                      !.lapsed = FALSE, !.transport = 0]
      BY <3>5 DEF TypeOK, Login
    <3>6. QED BY <3>3, <3>4, <3>5
  <2>3. vault' \in VaultStatus /\ verified' \in Nat
    BY <1>6 DEF Detach, TypeOK, VaultStatus
  <2>4. QED BY <2>1, <2>a, <2>2, <2>3, <1>6 DEF Detach, TypeOK
<1>7. QED BY <1>1, <1>2, <1>3, <1>4, <1>5, <1>6 DEF Presence

LEMMA TypeService ==
  ASSUME TypeOK, NEW r \in Requests, Service(r) PROVE TypeOK'
<1> USE DEF TypeOK, Request
<1>1. ASSUME NEW cookie \in 1..MaxOwners, NEW key \in 1..MaxOwners,
             NEW c \in Clients, Authorize(r, cookie, key, c)
      PROVE TypeOK'
  BY <1>1 DEF Authorize, Login
<1>2. CASE Subscribe(r) \/ Admit(r) \/ Release(r)
  BY <1>2 DEF Subscribe, Admit, Release
<1>3. CASE Logout(r)
  BY <1>3 DEF Logout, AtGate, Login, VaultStatus
<1>4. CASE LockTerminal(r)
  <2>1. login' \in Login
    BY <1>4 DEF LockTerminal, Login
  <2>2. revision' \in Nat
    BY <1>4 DEF LockTerminal
  <2>3. QED BY <2>1, <2>2, <1>4 DEF LockTerminal, AtGate, VaultStatus
<1>5. CASE LockVault(r) \/ ClearVault(r)
  BY <1>5 DEF LockVault, ClearVault, AtGate, VaultStatus
<1>6. ASSUME NEW op \in GateOps \ {"free"}, Begin(r, op) PROVE TypeOK'
  BY <1>6 DEF Begin, AtGate, Gate, GateOps
<1>7. QED BY <1>1, <1>2, <1>3, <1>4, <1>5, <1>6 DEF Service

LEMMA TypeVerification == TypeOK /\ (Verification \/ Hangup \/ Time) => TypeOK'
<1> USE DEF TypeOK
<1>1. ASSUME TypeOK, Verification PROVE TypeOK'
  <2>1. CASE Verify
    BY <2>1, <1>1 DEF Verify, Gate, GateOps, VaultStatus
  <2>2. CASE Recheck
    BY <2>2, <1>1 DEF Recheck, Gate, GateOps, VaultStatus
  <2>3. CASE Unlock
    <3>1. login' \in Login
      BY <2>3, <1>1 DEF Unlock, Login
    <3>2. revision' \in Nat
      BY <2>3, <1>1 DEF Unlock
    <3>3. QED BY <3>1, <3>2, <2>3, <1>1 DEF Unlock, Gate, GateOps
  <2>4. QED BY <2>1, <2>2, <2>3, <1>1 DEF Verification
<1>2. ASSUME TypeOK, Time PROVE TypeOK'
  <2>1. CASE AutoLock
    BY <2>1, <1>2 DEF AutoLock, VaultStatus
  <2>2. CASE Expire \/ LapsePresence
    <3>1. login' \in Login
      BY <2>2, <1>2 DEF Expire, LapsePresence, Login
    <3>2. UNCHANGED <<ticket, revision, creds, owners, transports, abandoned, vault, gate,
                      socket, request, shown, verified>>
      BY <2>2 DEF Expire, LapsePresence
    <3>3. QED BY <3>1, <3>2, <1>2
  <2>3. ASSUME NEW c \in Clients, ExpireTicket(c) PROVE TypeOK'
    <3>1. ticket' \in [Clients -> Pending]
      BY <2>3, <1>2 DEF ExpireTicket, Pending
    <3>2. UNCHANGED <<login, revision, creds, owners, transports, abandoned, vault, gate,
                      socket, request, shown, verified>>
      BY <2>3 DEF ExpireTicket
    <3>3. QED BY <3>1, <3>2, <1>2
  <2>4. QED BY <2>1, <2>2, <2>3, <1>2 DEF Time
<1>3. ASSUME TypeOK, Hangup PROVE TypeOK'
  BY <1>3 DEF Hangup, Abandon, FinishAbandoned, Gate, GateOps, VaultStatus, Unattended
<1>4. QED BY <1>1, <1>2, <1>3

LEMMA TypeNext == TypeOK /\ [Next]_vars => TypeOK'
<1>1. CASE UNCHANGED vars
  BY <1>1 DEF vars, TypeOK
<1>2. QED
  BY <1>1, TypeAdmission, TypePresence, TypeService, TypeVerification DEF Next

\* Every reachable state is well typed.
THEOREM TypeCorrect == Spec => []TypeOK
<1>1. QED BY TypeInit, TypeNext, PTL DEF Spec
-----------------------------------------------------------------------------
(* Every change of the owner or of the lock moves the revision forward.    *)

Covered ==
  \/ revision' = revision /\ login'.owner = login.owner /\ login'.locked = login.locked
  \/ revision' = revision + 1

LEMMA AdmissionCovered == TypeOK /\ Admission => Covered
<1> SUFFICES ASSUME TypeOK, Admission PROVE Covered
    OBVIOUS
<1>1. ASSUME NEW c \in Clients, LoginPage(c) PROVE Covered
  BY <1>1 DEF LoginPage, Wait, Grant, Covered
<1>2. ASSUME NEW c \in Clients, NEW cookie \in 1..MaxOwners,
             NEW key \in 1..MaxOwners, Resume(c, cookie, key)
      PROVE Covered
  <2>1. CASE Wait(c)
    BY <2>1 DEF Wait, Covered
  <2>2. CASE login.client # c \/ (RequiresLock /\ ~login.locked)
    BY <2>2, <1>2 DEF Resume, Wait, Covered
  <2>3. CASE /\ login.client = c
             /\ ~RequiresLock \/ login.locked
    <3>1. revision' = revision
      BY <2>3, <1>2 DEF Resume
    <3>2. login' = [login EXCEPT !.client = c, !.owner = login.owner,
                                 !.transport = login.transport, !.claimed = TRUE,
                                 !.locked = login.locked \/ RequiresLock,
                                 !.lapsed = FALSE]
      BY <2>3, <1>2 DEF Resume
    <3>3. login'.owner = login.owner
      BY <3>2 DEF TypeOK, Login
    <3>4. login'.locked = (login.locked \/ RequiresLock)
      BY <3>2 DEF TypeOK, Login
    <3>5. (login.locked \/ RequiresLock) = login.locked
      BY <2>3, RequiresLockBool DEF TypeOK, Login
    <3>6. QED BY <3>1, <3>3, <3>4, <3>5 DEF Covered
  <2>4. QED BY <2>1, <2>2, <2>3
<1>3. ASSUME NEW holder \in Clients, NEW c \in Clients, Takeover(holder, c)
      PROVE Covered
  BY <1>3 DEF Takeover, Grant, Covered
<1>4. QED BY <1>1, <1>2, <1>3 DEF Admission

LEMMA PresenceCovered ==
  ASSUME TypeOK, NEW s \in Sockets, Presence(s) PROVE Covered
<1>1. CASE \E cookie \in 1..MaxOwners : Upgrade(s, cookie)
  BY <1>1 DEF Upgrade, Covered
<1>2. CASE \E key \in 1..MaxOwners, c \in Clients : Attach(s, key, c)
  BY <1>2 DEF Attach, Covered
<1>3. CASE Refuse(s) \/ Notice(s) \/ Disconnect(s)
  BY <1>3 DEF Refuse, Notice, Disconnect, Covered
<1>4. CASE Pong(s)
  BY <1>4 DEF Pong, Covered, TypeOK, Login
<1>5. ASSUME NEW unreadable \in Unreadable, Detach(s, unreadable) PROVE Covered
  <2>0. unreadable \in BOOLEAN
    BY PendingAssumption
  <2>1. CASE ~OwnsTransport(socket[s].owner, socket[s].transport)
    BY <2>1, <1>5 DEF Detach, Covered
  <2>2. CASE OwnsTransport(socket[s].owner, socket[s].transport)
    <3>1. login' = [login EXCEPT !.locked = @ \/ RequiresLock \/ unreadable,
                                 !.claimed = FALSE, !.lapsed = FALSE, !.transport = 0]
      BY <2>2, <1>5, Zenon DEF Detach
    <3>2. login'.owner = login.owner
      BY <3>1 DEF TypeOK, Login
    <3>3. login'.locked = (login.locked \/ RequiresLock \/ unreadable)
      BY <3>1 DEF TypeOK, Login
    <3>4. CASE (RequiresLock \/ unreadable) /\ ~login.locked
      BY <3>4, <2>2, <1>5 DEF Detach, Covered
    <3>5. CASE ~((RequiresLock \/ unreadable) /\ ~login.locked)
      <4>1. revision' = revision
        BY <3>5, <2>2, <1>5 DEF Detach
      <4>2. (login.locked \/ RequiresLock \/ unreadable) = login.locked
        BY <3>5, <2>0, RequiresLockBool DEF TypeOK, Login
      <4>3. QED BY <4>1, <4>2, <3>2, <3>3 DEF Covered
    <3>6. QED BY <3>4, <3>5
  <2>3. QED BY <2>1, <2>2
<1>6. QED BY <1>1, <1>2, <1>3, <1>4, <1>5 DEF Presence

LEMMA ServiceCovered ==
  ASSUME TypeOK, NEW r \in Requests, Service(r) PROVE Covered
<1>1. CASE LockTerminal(r)
  BY <1>1 DEF LockTerminal, Covered, TypeOK, Login
<1>2. CASE Logout(r)
  BY <1>2 DEF Logout, Covered
<1>3. CASE UNCHANGED <<login, revision>>
  BY <1>3 DEF Covered
<1>4. QED
  BY <1>1, <1>2, <1>3 DEF Service, Authorize, Subscribe, Admit, Release,
     LockVault, ClearVault, Begin

LEMMA OtherCovered == TypeOK /\ (Verification \/ Hangup \/ Time) => Covered
<1> SUFFICES ASSUME TypeOK, Verification \/ Hangup \/ Time PROVE Covered
    OBVIOUS
<1>1. CASE Expire \/ LapsePresence
  BY <1>1 DEF Expire, LapsePresence, Covered, TypeOK, Login
<1>2. CASE Unlock
  BY <1>2 DEF Unlock, Covered
<1>3. CASE UNCHANGED <<login, revision>>
  BY <1>3 DEF Covered
<1>4. QED
  BY <1>1, <1>2, <1>3 DEF Verification, Verify, Recheck, Hangup, Abandon,
     FinishAbandoned, Time, AutoLock, ExpireTicket

LEMMA StepCovered == TypeOK /\ [Next]_vars => Covered
<1>1. CASE UNCHANGED vars
  BY <1>1 DEF vars, Covered
<1>2. QED
  BY <1>1, AdmissionCovered, PresenceCovered, ServiceCovered, OtherCovered DEF Next
-----------------------------------------------------------------------------
(* Permits: a permit at the current revision is a permit of the current    *)
(* owner of an unlocked workbench.                                         *)

RequestBound == \A r \in Requests : request[r].revision <= revision

\* What a step may do to one request.
RequestStep(q) ==
  \/ request'[q] = request[q]
  \/ request'[q].phase # "permitted" /\ request'[q].revision \in {0, revision}
  \/ /\ request'[q].phase = "permitted"
     /\ request'[q].owner = request[q].owner
     /\ request'[q].revision = request[q].revision
     /\ PermitHolds(q)
     /\ UNCHANGED <<login, revision>>

LEMMA StepRequests ==
  ASSUME TypeOK, [Next]_vars, NEW q \in Requests PROVE RequestStep(q)
<1>1. CASE UNCHANGED request
  BY <1>1 DEF RequestStep
<1>2. ASSUME NEW r \in Requests, Service(r) PROVE RequestStep(q)
  <2>1. CASE \E cookie, key \in 1..MaxOwners, c \in Clients : Authorize(r, cookie, key, c)
    BY <2>1 DEF Authorize, RequestStep, TypeOK
  <2>2. CASE Subscribe(r)
    BY <2>2 DEF Subscribe, RequestStep, TypeOK, Request
  <2>3. CASE Admit(r)
    BY <2>3 DEF Admit, RequestStep, PermitHolds, TypeOK, Request
  <2>4. CASE request' = [request EXCEPT ![r] = IdleRequest]
    BY <2>4 DEF RequestStep, TypeOK
  <2>5. QED
    BY <1>2, <2>1, <2>2, <2>3, <2>4 DEF Service, Release, Logout, LockTerminal,
       LockVault, ClearVault, Begin, AtGate
<1>3. QED
  BY <1>1, <1>2 DEF Next, vars, Admission, LoginPage, Resume, Takeover, Presence,
     Upgrade, Refuse, Attach, Notice, Disconnect, Pong, Detach, Verification,
     Verify, Recheck, Unlock, Hangup, Abandon, FinishAbandoned, Time, AutoLock,
     Expire, LapsePresence, ExpireTicket

LEMMA PermitStep ==
  TypeOK /\ RequestBound /\ PermitRevisionSound /\ [Next]_vars
    => RequestBound' /\ PermitRevisionSound'
<1> SUFFICES ASSUME TypeOK, RequestBound, PermitRevisionSound, [Next]_vars,
                    NEW q \in Requests
             PROVE  /\ request'[q].revision <= revision'
                    /\ request'[q].phase = "permitted" /\ request'[q].revision = revision'
                         => login'.owner = request'[q].owner /\ ~login'.locked
    BY DEF RequestBound, PermitRevisionSound
<1>1. Covered /\ RequestStep(q)
  BY StepCovered, StepRequests
<1>2. revision \in Nat /\ request[q].revision \in Nat /\ request[q].revision <= revision
  BY DEF TypeOK, Request, RequestBound
<1>3. CASE request'[q] = request[q]
  BY <1>1, <1>2, <1>3 DEF Covered, PermitRevisionSound
<1>4. CASE request'[q].phase # "permitted" /\ request'[q].revision \in {0, revision}
  BY <1>1, <1>2, <1>4 DEF Covered
<1>5. CASE /\ request'[q].phase = "permitted"
           /\ request'[q].owner = request[q].owner
           /\ request'[q].revision = request[q].revision
           /\ PermitHolds(q)
           /\ UNCHANGED <<login, revision>>
  BY <1>2, <1>5 DEF PermitHolds
<1>6. QED BY <1>1, <1>3, <1>4, <1>5 DEF RequestStep

-----------------------------------------------------------------------------
(* Tickets: a ticket at the current revision names the login in place.     *)

TicketBound == \A c \in Clients : ticket[c].revision <= revision

\* What a step may do to one client's ticket.
TicketStep(d) ==
  \/ /\ ticket'[d].live = ticket[d].live
     /\ ticket'[d].revision = ticket[d].revision
     /\ ticket[d].live => shown'[d] = shown[d]
  \/ ~ticket'[d].live /\ ticket'[d].revision = 0
  \/ /\ ticket'[d].revision = revision
     /\ shown'[d] = login.owner
     /\ UNCHANGED <<login, revision>>

LEMMA WaitTickets ==
  ASSUME TypeOK, NEW c \in Clients, Wait(c), NEW d \in Clients PROVE TicketStep(d)
<1>1. UNCHANGED <<login, revision>>
  BY DEF Wait
<1>2. shown'[d] = IF ~ticket'[d].live THEN 0
                  ELSE IF d = c THEN login.owner ELSE shown[d]
  BY DEF Wait
<1>3. \/ ticket'[d] = Kept(c)[d]
      \/ d = c /\ ticket'[d] = [live |-> TRUE, revision |-> revision, expired |-> FALSE]
  <2> DEFINE kept == Kept(c)
             fresh == [live |-> TRUE, revision |-> revision, expired |-> FALSE]
  <2>1. ticket' = kept \/ ticket' = [kept EXCEPT ![c] = fresh]
    BY DEF Wait
  <2>2. kept \in [Clients -> Pending]
    BY DEF Kept, TypeOK, Pending
  <2> HIDE DEF kept, fresh
  <2>3. \/ ticket'[d] = kept[d]
        \/ d = c /\ ticket'[d] = fresh
    <3>1. CASE ticket' = kept
      BY <3>1
    <3>2. CASE ticket' = [kept EXCEPT ![c] = fresh]
      BY <2>2, <3>2
    <3>3. QED BY <2>1, <3>1, <3>2
  <2> USE DEF kept, fresh
  <2>4. QED BY <2>3
<1>4. Kept(c)[d] = IF d = c \/ ticket[d].expired THEN NoTicket ELSE ticket[d]
  BY DEF Kept
<1>5. CASE d = c /\ ticket'[d] = [live |-> TRUE, revision |-> revision, expired |-> FALSE]
  BY <1>1, <1>2, <1>5 DEF TicketStep
<1>6. CASE ticket'[d] = NoTicket
  BY <1>6 DEF TicketStep
<1>7. CASE d # c /\ ticket'[d] = ticket[d]
  BY <1>2, <1>7 DEF TicketStep
<1>8. QED BY <1>3, <1>4, <1>5, <1>6, <1>7

LEMMA StepTickets ==
  ASSUME TypeOK, [Next]_vars, NEW d \in Clients PROVE TicketStep(d)
<1>1. CASE UNCHANGED <<ticket, shown>>
  BY <1>1 DEF TicketStep
<1>2. ASSUME NEW c \in Clients, Wait(c) PROVE TicketStep(d)
  BY <1>2, WaitTickets
<1>3. ASSUME NEW holder \in Clients, NEW c \in Clients, Takeover(holder, c)
      PROVE TicketStep(d)
  BY <1>3 DEF Takeover, TicketStep, TypeOK, Pending
<1>4. ASSUME NEW c \in Clients, ExpireTicket(c) PROVE TicketStep(d)
  BY <1>4 DEF ExpireTicket, TicketStep, TypeOK, Pending
<1>5. CASE Admission
  BY <1>1, <1>2, <1>3, <1>5 DEF Admission, LoginPage, Resume, Grant
<1>6. CASE \E s \in Sockets : Presence(s)
  BY <1>1, <1>6 DEF Presence, Upgrade, Refuse, Attach, Notice, Disconnect, Pong, Detach
<1>7. CASE \E r \in Requests : Service(r)
  BY <1>1, <1>7 DEF Service, Authorize, Subscribe, Admit, Release, Logout,
     LockTerminal, LockVault, ClearVault, Begin
<1>8. CASE Verification \/ Hangup \/ Time \/ UNCHANGED vars
  BY <1>1, <1>4, <1>8 DEF Verification, Verify, Recheck, Unlock, Hangup, Abandon,
     FinishAbandoned, Time, AutoLock, Expire, LapsePresence, vars
<1>9. QED BY <1>5, <1>6, <1>7, <1>8 DEF Next

LEMMA TakeoverStep ==
  TypeOK /\ TicketBound /\ TicketShowsOccupant /\ [Next]_vars
    => TicketBound' /\ TicketShowsOccupant'
<1> SUFFICES ASSUME TypeOK, TicketBound, TicketShowsOccupant, [Next]_vars,
                    NEW d \in Clients
             PROVE  /\ ticket'[d].revision <= revision'
                    /\ ticket'[d].live /\ ticket'[d].revision = revision'
                         => login'.owner = shown'[d]
    BY DEF TicketBound, TicketShowsOccupant
<1>1. Covered /\ TicketStep(d)
  BY StepCovered, StepTickets
<1>2. revision \in Nat /\ ticket[d].revision \in Nat /\ ticket[d].revision <= revision
  BY DEF TypeOK, Pending, TicketBound
<1>3. CASE /\ ticket'[d].live = ticket[d].live
           /\ ticket'[d].revision = ticket[d].revision
           /\ ticket[d].live => shown'[d] = shown[d]
  BY <1>1, <1>2, <1>3 DEF Covered, TicketShowsOccupant
<1>4. CASE ~ticket'[d].live /\ ticket'[d].revision = 0
  BY <1>1, <1>2, <1>4 DEF Covered
<1>5. CASE /\ ticket'[d].revision = revision
           /\ shown'[d] = login.owner
           /\ UNCHANGED <<login, revision>>
  BY <1>2, <1>5
<1>6. QED BY <1>1, <1>3, <1>4, <1>5 DEF TicketStep

-----------------------------------------------------------------------------
(* The vault gate: while a verification holds it, the login stays.  The     *)
(* login steps under the gate are those that need it free, plus the         *)
(* verification's own.                                                      *)

GateInv ==
  /\ ~Free => Present /\ login.owner = gate.owner
  /\ Free => gate.stage = "blocking"
  /\ gate.stage \in {"verified", "valid"} => verified = gate.owner

\* What a step may do to the gate and to what it protects.
UnderGate ==
  \/ Free /\ UNCHANGED gate
  \/ UNCHANGED <<gate, verified>> /\ login'.owner = login.owner
LEMMA AdmissionUnderGate == Admission => UnderGate
  BY DEF Admission, LoginPage, Resume, Takeover, UnderGate

LEMMA PresenceUnderGate ==
  ASSUME TypeOK, NEW s \in Sockets, Presence(s) PROVE UnderGate
<1>1. CASE Pong(s)
  BY <1>1 DEF Pong, UnderGate, TypeOK, Login
<1>2. CASE UNCHANGED <<login, gate, verified>>
  BY <1>2 DEF UnderGate
<1>3. CASE Free /\ UNCHANGED gate
  BY <1>3 DEF UnderGate
<1>4. QED
  BY <1>1, <1>2, <1>3 DEF Presence, Upgrade, Refuse, Attach, Notice, Disconnect, Detach

LEMMA GateStep == TypeOK /\ GateInv /\ [Next]_vars => GateInv'
<1> SUFFICES ASSUME TypeOK, GateInv, [Next]_vars PROVE GateInv'
    OBVIOUS
<1>1. ASSUME UnderGate PROVE GateInv'
  BY <1>1 DEF UnderGate, GateInv
<1>2. ASSUME NEW r \in Requests, Service(r) PROVE GateInv'
  <2>1. ASSUME NEW op \in GateOps \ {"free"}, Begin(r, op) PROVE GateInv'
    BY <2>1 DEF Begin, AtGate, GateInv, TypeOK
  <2>2. CASE UnderGate
    BY <2>2, <1>1
  <2>3. QED
    BY <1>2, <2>1, <2>2 DEF Service, Authorize, Subscribe, Admit, Release, Logout,
       LockTerminal, LockVault, ClearVault, AtGate, UnderGate
<1>3. CASE Verify
  BY <1>3 DEF Verify, GateInv, TypeOK, Gate
<1>4. CASE Recheck
  BY <1>4 DEF Recheck, GateInv, TypeOK, Gate
<1>5. CASE Unlock
  BY <1>5 DEF Unlock, GateInv
<1>6. CASE Hangup
  BY <1>6 DEF Hangup, Abandon, FinishAbandoned, GateInv
<1>7. CASE Time \/ UNCHANGED vars
  BY <1>1, <1>7 DEF Time, AutoLock, Expire, LapsePresence, ExpireTicket, vars,
     UnderGate, TypeOK, Login
<1>8. QED
  BY <1>1, <1>2, <1>3, <1>4, <1>5, <1>6, <1>7, AdmissionUnderGate, PresenceUnderGate
     DEF Next, Verification

-----------------------------------------------------------------------------
(* The privacy lock: a protected workbench is open only after a            *)
(* verification by its owner.                                              *)

\* Sealing keeps the vault's protection.
LEMMA SealKeepsProtection ==
  ASSUME vault' = LockedVault(vault) PROVE RequiresLock' = RequiresLock
  BY DEF RequiresLock

\* Admissions, attachments and disconnects leave the terminal locked if the
\* vault is protected, or leave the login and its verification alone.
LockedOrSame ==
  \/ RequiresLock' => login'.locked
  \/ UNCHANGED <<verified>> /\ RequiresLock' = RequiresLock
     /\ login'.owner = login.owner /\ login'.locked = login.locked

LEMMA AdmissionLocks == TypeOK /\ Admission => LockedOrSame
<1> SUFFICES ASSUME TypeOK, Admission PROVE LockedOrSame
    OBVIOUS
<1>1. ASSUME NEW c \in Clients, Wait(c) PROVE LockedOrSame
  BY <1>1 DEF Wait, LockedOrSame, RequiresLock
<1>2. ASSUME NEW c \in Clients, Grant(c) PROVE LockedOrSame
  <2>1. login'.locked = RequiresLock
    BY <1>2 DEF Grant
  <2>2. QED BY <2>1, <1>2, SealKeepsProtection DEF Grant, LockedOrSame
<1>3. CASE UNCHANGED <<login, vault, verified>>
  BY <1>3 DEF LockedOrSame, RequiresLock
<1>4. ASSUME NEW c \in Clients, NEW cookie \in 1..MaxOwners,
             NEW key \in 1..MaxOwners, Resume(c, cookie, key)
      PROVE LockedOrSame
  <2>1. CASE login' = [login EXCEPT
                         !.client = c,
                         !.owner = IF login.client # c THEN owners' ELSE @,
                         !.transport = IF login.client # c THEN 0 ELSE @,
                         !.claimed = TRUE,
                         !.locked = @ \/ RequiresLock,
                         !.lapsed = FALSE]
             /\ SealIf(RequiresLock)
    <3>1. login'.locked = (login.locked \/ RequiresLock)
      BY <2>1 DEF TypeOK, Login
    <3>2. RequiresLock' = RequiresLock
      BY <2>1, SealKeepsProtection DEF RequiresLock
    <3>3. QED BY <3>1, <3>2 DEF LockedOrSame
  <2>2. QED BY <2>1, <1>1, <1>4 DEF Resume
<1>5. QED BY <1>1, <1>2, <1>3, <1>4 DEF Admission, LoginPage, Takeover

LEMMA PresenceLocks ==
  ASSUME TypeOK, NEW s \in Sockets, Presence(s) PROVE LockedOrSame
<1>1. ASSUME NEW key \in 1..MaxOwners, NEW c \in Clients, Attach(s, key, c)
      PROVE LockedOrSame
  <2>1. login'.locked = (login.locked \/ RequiresLock)
    BY <1>1 DEF Attach, TypeOK, Login
  <2>2. RequiresLock' = RequiresLock
    BY <1>1, SealKeepsProtection DEF Attach, RequiresLock
  <2>3. QED BY <2>1, <2>2 DEF LockedOrSame
<1>2. ASSUME NEW unreadable \in Unreadable, Detach(s, unreadable)
      PROVE LockedOrSame
  <2>1. CASE UNCHANGED <<login, vault, verified>>
    BY <2>1 DEF LockedOrSame, RequiresLock
  <2>2. CASE OwnsTransport(socket[s].owner, socket[s].transport)
    <3>1. login' = [login EXCEPT !.locked = @ \/ RequiresLock \/ unreadable,
                                 !.claimed = FALSE, !.lapsed = FALSE, !.transport = 0]
      BY <2>2, <1>2, Zenon DEF Detach
    <3>2. login'.locked = (login.locked \/ RequiresLock \/ unreadable)
      BY <3>1 DEF TypeOK, Login
    <3>3. SealIf(RequiresLock \/ unreadable)
      BY <2>2, <1>2, Zenon DEF Detach
    <3>4. RequiresLock' = RequiresLock
      BY <3>3, SealKeepsProtection DEF RequiresLock
    <3>5. QED BY <3>2, <3>4 DEF LockedOrSame
  <2>3. QED BY <2>1, <2>2, <1>2 DEF Detach
<1>3. CASE Pong(s)
  BY <1>3 DEF Pong, LockedOrSame, RequiresLock, TypeOK, Login
<1>4. CASE UNCHANGED <<login, vault, verified>>
  BY <1>4 DEF LockedOrSame, RequiresLock
<1>5. QED
  BY <1>1, <1>2, <1>3, <1>4 DEF Presence, Upgrade, Refuse, Notice, Disconnect

\* The one step that protects a workbench without sealing it: the vault is
\* created by a page that hung up.  It is excluded when no page may.
AbandonInv == abandoned = "initialize" => "initialize" \in Abandonable

LEMMA AbandonStep == TypeOK /\ AbandonInv /\ [Next]_vars => AbandonInv'
<1> SUFFICES ASSUME TypeOK, AbandonInv, [Next]_vars PROVE AbandonInv'
    OBVIOUS
<1>1. CASE Hangup
  BY <1>1 DEF Hangup, Abandon, FinishAbandoned, AbandonInv
<1>2. CASE UNCHANGED abandoned
  BY <1>2 DEF AbandonInv
<1>3. QED
  BY <1>1, <1>2 DEF Next, vars, Admission, LoginPage, Resume, Takeover, Presence,
     Upgrade, Refuse, Attach, Notice, Disconnect, Pong, Detach, Service, Authorize,
     Subscribe, Admit, Release, Logout, LockTerminal, LockVault, ClearVault, Begin,
     Verification, Verify, Recheck, Unlock, Time, AutoLock, Expire, LapsePresence,
     ExpireTicket

LEMMA OpenStep ==
  ASSUME "initialize" \notin Abandonable, TypeOK, AbandonInv, GateInv,
         OpenOnlyAfterVerification, [Next]_vars
  PROVE  OpenOnlyAfterVerification'
<1>1. ASSUME LockedOrSame PROVE OpenOnlyAfterVerification'
  BY <1>1 DEF LockedOrSame, OpenOnlyAfterVerification
<1>2. ASSUME NEW r \in Requests, Service(r) PROVE OpenOnlyAfterVerification'
  <2>1. CASE Logout(r)
    BY <2>1 DEF Logout, OpenOnlyAfterVerification
  <2>2. CASE LockTerminal(r)
    BY <2>2 DEF LockTerminal, OpenOnlyAfterVerification, TypeOK, Login
  <2>3. CASE LockVault(r)
    BY <2>3, SealKeepsProtection DEF LockVault, OpenOnlyAfterVerification
  <2>4. CASE ClearVault(r)
    BY <2>4 DEF ClearVault, OpenOnlyAfterVerification, RequiresLock
  <2>5. CASE UNCHANGED <<login, vault, verified>>
    BY <2>5 DEF OpenOnlyAfterVerification, RequiresLock
  <2>6. QED
    BY <1>2, <2>1, <2>2, <2>3, <2>4, <2>5 DEF Service, Authorize, Subscribe, Admit,
       Release, Begin
<1>3. CASE Verify
  BY <1>3 DEF Verify, GateInv, OpenOnlyAfterVerification, RequiresLock
<1>4. CASE Recheck
  BY <1>4, SealKeepsProtection DEF Recheck, OpenOnlyAfterVerification, RequiresLock
<1>5. CASE Unlock
  BY <1>5 DEF Unlock, GateInv, OpenOnlyAfterVerification, RequiresLock, TypeOK, Login
<1>6. CASE Time \/ UNCHANGED vars
  BY <1>6 DEF Time, AutoLock, Expire, LapsePresence, ExpireTicket, vars,
     OpenOnlyAfterVerification, RequiresLock, TypeOK, Login
<1>7. CASE Hangup
  <2>1. abandoned # "initialize"
    BY DEF AbandonInv
  <2>2. QED
    BY <1>7, <2>1 DEF Hangup, Abandon, FinishAbandoned, OpenOnlyAfterVerification,
       RequiresLock, TypeOK, Unattended
<1>8. QED
  BY <1>1, <1>2, <1>3, <1>4, <1>5, <1>6, <1>7, AdmissionLocks, PresenceLocks
     DEF Next, Verification

-----------------------------------------------------------------------------
(* Presence: the transport a login counts belongs to a socket that will    *)
(* detach it.                                                              *)

TransportInv == ~Present => login.transport = 0

\* Socket s still stands for the login's transport.
Stands(s) ==
  /\ socket[s].phase \in {"open", "leaving"}
  /\ socket[s].transport = login.transport
  /\ socket[s].owner = login.owner

\* Away from the sockets, a step keeps the login's owner and transport or
\* clears the transport.
KeptOrCleared ==
  /\ UNCHANGED socket
  /\ \/ login'.transport = 0
     \/ login'.owner = login.owner /\ login'.transport = login.transport
LEMMA KeepsPresence ==
  TransportInv /\ PresenceHasSocket /\ KeptOrCleared
    => TransportInv' /\ PresenceHasSocket'
  BY DEF TransportInv, PresenceHasSocket, KeptOrCleared

LEMMA AdmissionKeeps == TypeOK /\ Admission => KeptOrCleared
<1> SUFFICES ASSUME TypeOK, Admission PROVE KeptOrCleared
    OBVIOUS
<1>1. ASSUME NEW c \in Clients, Wait(c), UNCHANGED socket PROVE KeptOrCleared
  BY <1>1 DEF Wait, KeptOrCleared
<1>2. ASSUME NEW c \in Clients, Grant(c), UNCHANGED socket PROVE KeptOrCleared
  BY <1>2 DEF Grant, KeptOrCleared
<1>3. ASSUME NEW c \in Clients, NEW cookie \in 1..MaxOwners,
             NEW key \in 1..MaxOwners, Resume(c, cookie, key)
      PROVE KeptOrCleared
  <2>1. CASE login.client # c
    BY <2>1, <1>1, <1>3 DEF Resume, KeptOrCleared, TypeOK, Login
  <2>2. CASE login.client = c
    <3>1. login' = [login EXCEPT !.client = c, !.owner = login.owner,
                                 !.transport = login.transport, !.claimed = TRUE,
                                 !.locked = login.locked \/ RequiresLock,
                                 !.lapsed = FALSE]
      BY <2>2, <1>3 DEF Resume
    <3>2. login'.owner = login.owner /\ login'.transport = login.transport
      BY <3>1 DEF TypeOK, Login
    <3>3. QED BY <3>2, <1>3 DEF Resume, KeptOrCleared
  <2>3. QED BY <2>1, <2>2
<1>4. QED
  BY <1>1, <1>2, <1>3 DEF Admission, LoginPage, Takeover, KeptOrCleared

LEMMA ServiceKeeps ==
  ASSUME TypeOK, NEW r \in Requests, Service(r) PROVE KeptOrCleared
  BY DEF Service, Authorize, Subscribe, Admit, Release, Logout, LockTerminal,
     LockVault, ClearVault, Begin, KeptOrCleared, TypeOK, Login

LEMMA OtherKeeps == TypeOK /\ (Verification \/ Hangup \/ Time) => KeptOrCleared
  BY DEF Verification, Verify, Recheck, Unlock, Hangup, Abandon, FinishAbandoned, Time, AutoLock, Expire,
     LapsePresence, ExpireTicket, KeptOrCleared, TypeOK, Login

\* A socket step that leaves the login's owner and transport alone, and moves
\* no socket that stands for them out of its phase.
LEMMA QuietSocket ==
  ASSUME TransportInv, PresenceHasSocket,
         login'.owner = login.owner, login'.transport = login.transport,
         \A w \in Sockets : login.transport # 0 /\ Stands(w) => Stands(w)'
  PROVE  TransportInv' /\ PresenceHasSocket'
<1>1. TransportInv'
  BY DEF TransportInv
<1>2. ASSUME login'.transport # 0 PROVE \E w \in Sockets : Stands(w)'
  BY <1>2 DEF PresenceHasSocket, Stands
<1>3. QED BY <1>1, <1>2 DEF PresenceHasSocket, Stands

LEMMA SocketStep ==
  ASSUME TypeOK, TransportInv, PresenceHasSocket, NEW s \in Sockets, Presence(s)
  PROVE  TransportInv' /\ PresenceHasSocket'
<1>1. ASSUME NEW cookie \in 1..MaxOwners, Upgrade(s, cookie)
      PROVE TransportInv' /\ PresenceHasSocket'
  <2>1. \A w \in Sockets : Stands(w) => Stands(w)'
    BY <1>1 DEF Upgrade, Stands, TypeOK
  <2>2. QED BY <1>1, <2>1, QuietSocket DEF Upgrade
<1>2. CASE Refuse(s)
  <2>1. \A w \in Sockets : Stands(w) => Stands(w)'
    BY <1>2 DEF Refuse, Stands, TypeOK
  <2>2. QED BY <1>2, <2>1, QuietSocket DEF Refuse
<1>3. ASSUME NEW key \in 1..MaxOwners, NEW c \in Clients, Attach(s, key, c)
      PROVE TransportInv' /\ PresenceHasSocket'
  <2>1. login'.owner = login.owner /\ login'.transport = transports'
    BY <1>3 DEF Attach, TypeOK, Login
  <2>2. /\ socket'[s].phase = "open"
        /\ socket'[s].transport = transports'
        /\ socket'[s].owner = socket[s].owner
    BY <1>3 DEF Attach, TypeOK, Socket
  <2>3. Present /\ socket[s].owner = login.owner
    BY <1>3 DEF Attach
  <2>4. QED BY <2>1, <2>2, <2>3 DEF TransportInv, PresenceHasSocket
<1>4. CASE Notice(s) \/ Disconnect(s)
  <2>1. \A w \in Sockets : Stands(w) => Stands(w)'
    BY <1>4 DEF Notice, Disconnect, Stands, TypeOK, Socket
  <2>2. QED BY <1>4, <2>1, QuietSocket DEF Notice, Disconnect
<1>5. CASE Pong(s)
  <2>1. login'.owner = login.owner /\ login'.transport = login.transport
    BY <1>5 DEF Pong, TypeOK, Login
  <2>2. \A w \in Sockets : Stands(w) => Stands(w)'
    BY <1>5, <2>1 DEF Pong, Stands, TypeOK, Socket
  <2>3. QED BY <2>1, <2>2, QuietSocket
<1>6. ASSUME NEW unreadable \in Unreadable, Detach(s, unreadable)
      PROVE TransportInv' /\ PresenceHasSocket'
  <2>1. CASE OwnsTransport(socket[s].owner, socket[s].transport)
    <3>1. login' = [login EXCEPT !.locked = @ \/ RequiresLock \/ unreadable,
                                 !.claimed = FALSE, !.lapsed = FALSE, !.transport = 0]
      BY <2>1, <1>6, Zenon DEF Detach
    <3>2. login'.transport = 0
      BY <3>1 DEF TypeOK, Login
    <3>3. QED BY <3>2 DEF TransportInv, PresenceHasSocket
  <2>2. CASE ~OwnsTransport(socket[s].owner, socket[s].transport)
    <3>1. UNCHANGED login /\ socket' = [socket EXCEPT ![s] = IdleSocket]
      BY <2>2, <1>6 DEF Detach
    <3>2. login.transport # 0 => ~Stands(s)
      BY <2>2 DEF Stands, TransportInv
    <3>3. \A w \in Sockets : login.transport # 0 /\ Stands(w) => Stands(w)'
      BY <3>1, <3>2 DEF Stands, TypeOK
    <3>4. QED BY <3>1, <3>3, QuietSocket
  <2>3. QED BY <2>1, <2>2
<1>7. QED BY <1>1, <1>2, <1>3, <1>4, <1>5, <1>6 DEF Presence

LEMMA PresenceStep ==
  TypeOK /\ TransportInv /\ PresenceHasSocket /\ [Next]_vars
    => TransportInv' /\ PresenceHasSocket'
<1> SUFFICES ASSUME TypeOK, TransportInv, PresenceHasSocket, [Next]_vars
             PROVE TransportInv' /\ PresenceHasSocket'
    OBVIOUS
<1>1. CASE \E s \in Sockets : Presence(s)
  BY <1>1, SocketStep
<1>2. CASE KeptOrCleared
  BY <1>2, KeepsPresence
<1>3. CASE UNCHANGED vars
  BY <1>3 DEF vars, TransportInv, PresenceHasSocket
<1>4. QED
  BY <1>1, <1>2, <1>3, AdmissionKeeps, ServiceKeeps, OtherKeeps DEF Next

-----------------------------------------------------------------------------
(* The inductive invariant and the theorems.                               *)

AccessInv ==
  /\ TypeOK
  /\ RequestBound /\ PermitRevisionSound
  /\ TicketBound /\ TicketShowsOccupant
  /\ GateInv /\ AbandonInv
  /\ "initialize" \notin Abandonable => OpenOnlyAfterVerification
  /\ TransportInv /\ PresenceHasSocket

LEMMA InitInv == Init => AccessInv
<1> SUFFICES ASSUME Init PROVE AccessInv
    OBVIOUS
<1>1. TypeOK
  BY TypeInit
<1>2. /\ RequestBound /\ PermitRevisionSound
      /\ TicketBound /\ TicketShowsOccupant
  BY DEF Init, RequestBound, PermitRevisionSound, TicketBound, TicketShowsOccupant
<1>3. /\ GateInv /\ AbandonInv /\ OpenOnlyAfterVerification
      /\ TransportInv /\ PresenceHasSocket
  BY DEF Init, GateInv, AbandonInv, OpenOnlyAfterVerification, TransportInv, PresenceHasSocket
<1>4. QED BY <1>1, <1>2, <1>3 DEF AccessInv

LEMMA NextInv == AccessInv /\ [Next]_vars => AccessInv'
  BY TypeNext, PermitStep, TakeoverStep, GateStep, AbandonStep, OpenStep, PresenceStep
     DEF AccessInv

LEMMA Inductive == Spec => []AccessInv
<1>1. QED BY InitInv, NextInv, PTL DEF Spec

\* A permit still at the current revision was admitted for the present owner of
\* an unlocked workbench (data_access.rs, Permit::run watches the revision only).
THEOREM PermitsSound == Spec => []PermitRevisionSound
<1>1. AccessInv => PermitRevisionSound
  BY DEF AccessInv
<1>2. QED BY <1>1, Inductive, PTL

\* A takeover ticket accepted by Access::takeover was issued against the very
\* login it replaces.
THEOREM TicketsSound == Spec => []TicketShowsOccupant
<1>1. AccessInv => TicketShowsOccupant
  BY DEF AccessInv
<1>2. QED BY <1>1, Inductive, PTL

\* A workbench whose vault is protected is open only to an owner who gave the
\* master password since the last seal (access_lifecycle.rs, terminal_lock.rs),
\* if the page that creates the vault waits for the answer.
THEOREM PrivacyLockSound ==
  ASSUME "initialize" \notin Abandonable
  PROVE  Spec => []OpenOnlyAfterVerification
<1>1. AccessInv => OpenOnlyAfterVerification
  BY DEF AccessInv
<1>2. QED BY <1>1, Inductive, PTL

\* Nobody is admitted, logged out or replaced while a password verification
\* holds the vault gate (vault.rs, terminal_lock.rs).
THEOREM GateExcludesAdmission == Spec => []VerifierStaysOwner
<1>1. AccessInv => VerifierStaysOwner
  BY DEF AccessInv, GateInv, VerifierStaysOwner
<1>2. QED BY <1>1, Inductive, PTL

\* The transport a login counts as its presence is held by a socket task that
\* will run detach (access_socket.rs), so a lost page is always noticed.
THEOREM PresenceDetachable == Spec => []PresenceHasSocket
<1>1. AccessInv => PresenceHasSocket
  BY DEF AccessInv
<1>2. QED BY <1>1, Inductive, PTL
-----------------------------------------------------------------------------
(* Refinement: a step of Access enters, turns, leaves or runs out as        *)
(* Workbench says, or does nothing a service could see.                     *)

Entered ==
  /\ owners' = owners + 1 /\ login'.owner = owners' /\ login'.expired = FALSE
  /\ revision' = revision + 1
Turned ==
  /\ login'.owner = login.owner /\ login'.expired = login.expired
  /\ revision' = revision + 1 /\ owners' = owners
Left == login' = NoLogin /\ revision' = revision + 1 /\ owners' = owners
Ended ==
  /\ login'.expired = TRUE /\ login'.locked = login.locked
  /\ revision' = revision /\ owners' = owners
Unseen ==
  /\ login'.owner = login.owner /\ login'.expired = login.expired
  /\ login'.locked = login.locked
  /\ revision' = revision /\ owners' = owners
Change == Entered \/ Turned \/ Left \/ Ended \/ Unseen

LEMMA GrantEnters ==
  ASSUME TypeOK, NEW c \in Clients, Grant(c) PROVE Entered
  BY DEF Grant, Entered, TypeOK

LEMMA AdmissionChange == TypeOK /\ Admission => Change
<1> SUFFICES ASSUME TypeOK, Admission PROVE Change
    OBVIOUS
<1>w. ASSUME NEW c \in Clients, Wait(c) PROVE Unseen
  BY <1>w DEF Wait, Unseen
<1>1. ASSUME NEW c \in Clients, LoginPage(c) PROVE Change
  BY <1>1, <1>w, GrantEnters DEF LoginPage, Change
<1>2. ASSUME NEW c \in Clients, NEW cookie \in 1..MaxOwners,
             NEW key \in 1..MaxOwners, Resume(c, cookie, key)
      PROVE Change
  <2>1. CASE Wait(c)
    BY <2>1, <1>w DEF Change
  <2> DEFINE moved == login.client # c
             lockChanged == RequiresLock /\ ~login.locked
  <2>2. CASE ~(moved /\ login.claimed /\ Occupied)
    <3>0. /\ owners' = IF moved THEN owners + 1 ELSE owners
          /\ revision' = IF moved \/ lockChanged THEN revision + 1 ELSE revision
          /\ ~login.expired
      BY <2>2, <1>2 DEF Resume
    <3>1. login' = [login EXCEPT
                      !.client = c,
                      !.owner = IF moved THEN owners' ELSE @,
                      !.transport = IF moved THEN 0 ELSE @,
                      !.claimed = TRUE,
                      !.locked = @ \/ RequiresLock,
                      !.lapsed = FALSE]
      BY <2>2, <1>2 DEF Resume
    <3>2. /\ login'.owner = IF moved THEN owners' ELSE login.owner
          /\ login'.expired = login.expired
          /\ login'.locked = (login.locked \/ RequiresLock)
      BY <3>1 DEF TypeOK, Login
    <3>x. login.expired = FALSE
      BY <3>0 DEF TypeOK, Login
    <3> HIDE DEF moved
    <3>3. CASE moved
      BY <3>0, <3>2, <3>3, <3>x DEF Change, Entered
    <3>4. CASE ~moved /\ lockChanged
      BY <3>0, <3>2, <3>4 DEF Change, Turned
    <3>5. CASE ~moved /\ ~lockChanged
      <4>1. (login.locked \/ RequiresLock) = login.locked
        BY <3>5, RequiresLockBool DEF TypeOK, Login
      <4>2. QED BY <3>0, <3>2, <3>5, <4>1 DEF Change, Unseen
    <3>6. QED BY <3>3, <3>4, <3>5
  <2>3. QED BY <2>1, <2>2, <1>2 DEF Resume
<1>3. ASSUME NEW holder \in Clients, NEW c \in Clients, Takeover(holder, c)
      PROVE Change
  BY <1>3, GrantEnters DEF Takeover, Change, Unseen
<1>4. QED BY <1>1, <1>2, <1>3 DEF Admission

LEMMA PresenceChange ==
  ASSUME TypeOK, NEW s \in Sockets, Presence(s) PROVE Change
<1>1. CASE \E cookie \in 1..MaxOwners : Upgrade(s, cookie)
  BY <1>1 DEF Upgrade, Change, Unseen
<1>2. ASSUME NEW key \in 1..MaxOwners, NEW c \in Clients, Attach(s, key, c)
      PROVE Change
  <2>1. login' = [login EXCEPT !.transport = transports', !.claimed = TRUE,
                               !.lapsed = FALSE, !.locked = @ \/ RequiresLock]
    BY <1>2 DEF Attach
  <2>2. login'.owner = login.owner /\ login'.expired = login.expired
    BY <2>1 DEF TypeOK, Login
  <2>3. QED BY <2>2, <1>2 DEF Attach, Change, Turned
<1>3. CASE Refuse(s) \/ Notice(s) \/ Disconnect(s)
  BY <1>3 DEF Refuse, Notice, Disconnect, Change, Unseen
<1>4. CASE Pong(s)
  BY <1>4 DEF Pong, Change, Unseen, TypeOK, Login
<1>5. ASSUME NEW unreadable \in Unreadable, Detach(s, unreadable) PROVE Change
  <2>0. unreadable \in BOOLEAN
    BY PendingAssumption
  <2>1. CASE ~OwnsTransport(socket[s].owner, socket[s].transport)
    BY <2>1, <1>5 DEF Detach, Change, Unseen
  <2>2. CASE OwnsTransport(socket[s].owner, socket[s].transport)
    <3>1. login' = [login EXCEPT !.locked = @ \/ RequiresLock \/ unreadable,
                                 !.claimed = FALSE, !.lapsed = FALSE, !.transport = 0]
      BY <2>2, <1>5, Zenon DEF Detach
    <3>2. /\ login'.owner = login.owner /\ login'.expired = login.expired
          /\ login'.locked = (login.locked \/ RequiresLock \/ unreadable)
      BY <3>1 DEF TypeOK, Login
    <3>4. CASE (RequiresLock \/ unreadable) /\ ~login.locked
      BY <3>2, <3>4, <2>2, <1>5 DEF Detach, Change, Turned
    <3>5. CASE ~((RequiresLock \/ unreadable) /\ ~login.locked)
      <4>1. revision' = revision /\ owners' = owners
        BY <3>5, <2>2, <1>5 DEF Detach
      <4>2. (login.locked \/ RequiresLock \/ unreadable) = login.locked
        BY <3>5, <2>0, RequiresLockBool DEF TypeOK, Login
      <4>3. QED BY <4>1, <4>2, <3>2 DEF Change, Unseen
    <3>6. QED BY <3>4, <3>5
  <2>3. QED BY <2>1, <2>2
<1>6. QED BY <1>1, <1>2, <1>3, <1>4, <1>5 DEF Presence

LEMMA ServiceChange ==
  ASSUME TypeOK, NEW r \in Requests, Service(r) PROVE Change
<1>1. CASE LockTerminal(r)
  BY <1>1 DEF LockTerminal, Change, Turned, Unseen, TypeOK, Login
<1>2. CASE Logout(r)
  BY <1>2 DEF Logout, Change, Left
<1>3. CASE UNCHANGED <<login, revision, owners>>
  BY <1>3 DEF Change, Unseen
<1>4. QED
  BY <1>1, <1>2, <1>3 DEF Service, Authorize, Subscribe, Admit, Release,
     LockVault, ClearVault, Begin

LEMMA OtherChange == TypeOK /\ (Verification \/ Hangup \/ Time) => Change
<1> SUFFICES ASSUME TypeOK, Verification \/ Hangup \/ Time PROVE Change
    OBVIOUS
<1>1. CASE Expire
  BY <1>1 DEF Expire, Change, Ended, TypeOK, Login
<1>2. CASE LapsePresence
  BY <1>2 DEF LapsePresence, Change, Unseen, TypeOK, Login
<1>3. CASE Unlock
  BY <1>3 DEF Unlock, Change, Turned, Unseen, TypeOK, Login
<1>4. CASE UNCHANGED <<login, revision, owners>>
  BY <1>4 DEF Change, Unseen
<1>5. QED
  BY <1>1, <1>2, <1>3, <1>4 DEF Verification, Verify, Recheck, Hangup, Abandon,
     FinishAbandoned, Time, AutoLock, ExpireTicket

LEMMA StepChange == TypeOK /\ [Next]_vars => Change
<1>1. CASE UNCHANGED vars
  BY <1>1 DEF vars, Change, Unseen
<1>2. QED
  BY <1>1, AdmissionChange, PresenceChange, ServiceChange, OtherChange DEF Next

\* A change is a step of Workbench.
LEMMA ChangeIsStep ==
  TypeOK /\ TypeOK' /\ Change => [W!WorkbenchNext]_(W!wbVars)
<1> SUFFICES ASSUME TypeOK, TypeOK', Change
             PROVE  W!WorkbenchNext \/ UNCHANGED W!wbVars
    OBVIOUS
<1>t. /\ owners \in Nat /\ revision \in Nat
      /\ login'.locked \in BOOLEAN
      /\ login.expired \in BOOLEAN /\ login'.expired \in BOOLEAN
  BY DEF TypeOK, Login
<1>1. CASE Entered
  BY <1>1, <1>t DEF Entered, W!WorkbenchNext, W!Enter
<1>2. CASE Turned
  BY <1>2, <1>t DEF Turned, W!WorkbenchNext, W!Turn
<1>3. CASE Left
  BY <1>3, <1>t DEF Left, W!WorkbenchNext, W!Exit
<1>4. CASE Ended
  BY <1>4, <1>t DEF Ended, W!WorkbenchNext, W!RunOut
<1>5. CASE Unseen
  BY <1>5, <1>t DEF Unseen, W!wbVars
<1>6. QED BY <1>1, <1>2, <1>3, <1>4, <1>5 DEF Change

\* Access implements Workbench: the holder and the lock change only under a
\* new revision, and each admission has an identity of its own.
THEOREM WorkbenchRefined == Spec => ImplementsWorkbench
<1>1. Init => W!WorkbenchInit
  BY DEF Init, W!WorkbenchInit
<1>2. TypeOK /\ TypeOK' /\ [Next]_vars => [W!WorkbenchNext]_(W!wbVars)
  BY StepChange, ChangeIsStep
<1>3. QED BY <1>1, <1>2, TypeCorrect, PTL DEF Spec, ImplementsWorkbench, W!WorkbenchSpec
=============================================================================
