---------------------------- MODULE MCTransfers -----------------------------
(***************************************************************************)
(* Files on their way: the transfers of the server, and what is pasted     *)
(* into terminals.  The two never meet: a behaviour is of one place.       *)
(***************************************************************************)
EXTENDS Transfers, TerminalStaging, TLC

VARIABLE place

transferPlaces == <<place, vars, stagingVars>>

\* Nothing tells one session from another, nor one paste, so that one of the
\* orders in which they meet stands for all of them.
Ordered ==
  LET first == CHOOSE s \in Sessions : TRUE
      other == CHOOSE p \in Pastes : TRUE
  IN \A p \in Pastes : p # other => Of(p) = first

PlacesInit ==
  /\ Init /\ StagingInit
  /\ Ordered
  /\ \/ place = "transfers" /\ \A p, q \in Pastes : Of(p) = Of(q)
     \/ place = "terminals"

PlacesNext ==
  /\ UNCHANGED place
  /\ \/ place = "transfers" /\ Next /\ UNCHANGED stagingVars
     \/ place = "terminals" /\ StagingNext /\ UNCHANGED vars

PlacesSpec == PlacesInit /\ [][PlacesNext]_transferPlaces

\* No step tells one request from another.
Symmetry == Permutations(Requests)
=============================================================================
