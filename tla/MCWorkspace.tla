----------------------------- MODULE MCWorkspace -----------------------------
(* Instance of WorkspaceRuntime for TLC. *)
EXTENDS WorkspaceRuntime
CONSTANTS b1, b2

\* Two blocks, sessions and a restart; one block with a file pane and drafts,
\* over two logins and with answers that get lost; requests of two gone pages
\* under a third; a draft that is thrown away while requests for it wait.
MCLimits ==
  {[files |-> {}, faults |-> {"write", "list"}, logins |-> 2, pauses |-> 1, restarts |-> 1,
    edits |-> 2, texts |-> 0, openings |-> 2],
   [files |-> {b1}, faults |-> {"list"}, logins |-> 2, pauses |-> 1, restarts |-> 0,
    edits |-> 2, texts |-> 2, openings |-> 0],
   [files |-> {b1}, faults |-> {"reply"}, logins |-> 1, pauses |-> 1, restarts |-> 0,
    edits |-> 1, texts |-> 2, openings |-> 0],
   [files |-> {}, faults |-> {}, logins |-> 3, pauses |-> 1, restarts |-> 0,
    edits |-> 2, texts |-> 0, openings |-> 0],
   [files |-> {b1}, faults |-> {}, logins |-> 1, pauses |-> 1, restarts |-> 0,
    edits |-> 2, texts |-> 3, openings |-> 0]}
=============================================================================
