----------------------------- MODULE MCServeTool -----------------------------
(***************************************************************************)
(* The serve tool for TLC.                                                 *)
(***************************************************************************)
EXTENDS ServeTool, TLC

CONSTANTS read, list

\* One request for a tool that watches its context and one for a tool that
\* does not.
ToolLines == [token : {Token}, tool : {read, list}]
=============================================================================
