------------------------- MODULE MCRetainedSession -------------------------
(***************************************************************************)
(* RetainedSession for TLC: its pages are interchangeable, and no step     *)
(* reads what the call to the screen before it returned.                   *)
(***************************************************************************)
EXTENDS RetainedSession, TLC

Symmetry == Permutations(Viewers)

Observed ==
  <<kind, external, session, inner, replies, pages, registry, log, screen, answered>>
=============================================================================
