--------------------------- MODULE MCConfiguration ---------------------------
(***************************************************************************)
(* ConfigurationFiles and CredentialRequests for TLC: what may be stored,  *)
(* merged and started from.  A behaviour is of one of them.                *)
(***************************************************************************)
EXTENDS ConfigurationFiles, CredentialRequests

CONSTANTS p1, p2, p3, c1, c2, r1, r2, g1, h1, h2, m1

Host(host, auth, credential, group, jumps) ==
  [host |-> host, auth |-> auth, credential |-> credential, group |-> group, jumps |-> jumps]

\* A jump with a saved password, and a connection through it or without.
Gateway == Host(h1, "secret", c1, None, {})
Inner(jumps) == Host(h2, "manual", None, None, jumps)
MCDrafts == {Gateway, Inner({}), Inner({p1})}

Nothing(f) == [x \in f |-> None]
Empty == [connections |-> [groups |-> {}, profiles |-> Nothing(Profiles)],
          rules |-> Nothing(Rules), vault |-> None]
WithOne == [Empty EXCEPT !.connections.profiles[p1] = Gateway,
                         !.vault = [key |-> 1, wrap |-> 0, secrets |-> [Nothing(Credentials) EXCEPT ![c1] = m1]]]
WithRoute == [WithOne EXCEPT !.connections.profiles[p2] = Inner({p1})]
MCStart == {Empty, WithOne, WithRoute}

\* Another directory: its gateway has another identifier, a group and a rule.
Elsewhere ==
  [connections |-> [groups |-> {g1},
                    profiles |-> [Nothing(Profiles) EXCEPT ![p2] = Host(h1, "secret", c2, None, {}),
                                                           ![p3] = Host(h2, "manual", None, g1, {p2})]],
   rules |-> [Nothing(Rules) EXCEPT ![r2] = [profile |-> p2, kind |-> CHOOSE k \in Kinds : TRUE]],
   vault |-> [key |-> 0, wrap |-> 0, secrets |-> [Nothing(Credentials) EXCEPT ![c2] = m1]]]
MCSources == {Elsewhere}

VARIABLE place

DirectoryInit ==
  /\ place \in {"files", "requests"}
  /\ Init /\ CredInit
  /\ place = "files" => shell = "server" /\ vault = NoVault
  /\ place = "requests" => server /\ files = Empty

DirectoryNext ==
  /\ UNCHANGED place
  /\ \/ place = "files" /\ Next /\ UNCHANGED credVars
     \/ place = "requests" /\ CredNext /\ UNCHANGED vars

DirectorySpec == DirectoryInit /\ [][DirectoryNext]_<<place, vars, credVars>>
=============================================================================
