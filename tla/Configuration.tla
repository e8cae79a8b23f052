---------------------------- MODULE Configuration ----------------------------
(***************************************************************************)
(* What the stored configuration promises to its readers: it changes by    *)
(* whole operations only.  An operation replaces one of the three parts,   *)
(* or merges another configuration into all of them at once, and a merge   *)
(* adds and changes nothing that was there.  The connections stay          *)
(* readable: routes and groups never point to nothing.                     *)
(***************************************************************************)
EXTENDS Catalog

VARIABLE catalog

Init == catalog \in Content /\ Valid(catalog.connections)

EditConnections ==
  /\ catalog'.connections \in Connections /\ Valid(catalog'.connections)
  /\ catalog' = [catalog EXCEPT !.connections = catalog'.connections]

EditRules ==
  /\ catalog'.rules \in [Rules -> Rule \cup {None}]
  /\ catalog' = [catalog EXCEPT !.rules = catalog'.rules]

EditVault ==
  /\ catalog'.vault \in Vault \cup {None}
  /\ catalog' = [catalog EXCEPT !.vault = catalog'.vault]

Merge ==
  /\ catalog' \in Content /\ Valid(catalog'.connections)
  /\ Extends(catalog', catalog)

Next == EditConnections \/ EditRules \/ EditVault \/ Merge

Spec == Init /\ [][Next]_catalog
=============================================================================
