------------------------------ MODULE MCServer ------------------------------
(***************************************************************************)
(* The server for TLC: connections are symmetric model values, and a run   *)
(* chooses how many kinds of request line its clients send.                *)
(***************************************************************************)
EXTENDS Server, TLC

CONSTANTS bad, read, list, help, nosuch

ConnSymmetry == Permutations(Conns)

\* One line for each way through handleConn.
EveryLine ==
  {Oversized, Malformed, [token |-> bad, tool |-> read]}
    \cup [token : {Token}, tool : Tools]

\* A line that is rejected and one that runs a tool.
FewLines ==
  {[token |-> bad, tool |-> read], [token |-> Token, tool |-> read]}
=============================================================================
