----------------------------- MODULE MCFileTools -----------------------------
(***************************************************************************)
(* The file tools for TLC.  The lines of the files are empty, a rune of    *)
(* two bytes, a line to search for, one that ends in a carriage return, a  *)
(* line that is too long for a scanner and a line without its newline.     *)
(***************************************************************************)
EXTENDS FileTools

Pieces ==
  {<<NL>>, <<"m", Cont, NL>>, <<"x", "m", NL>>, <<"m", CR, NL>>, <<"x", "m", "x", "x", NL>>, <<"m">>}

MCChunks == {<<"m", CR>>, <<NL>>}

\* The contents made of at most n pieces.
Made(n) == {FlattenSeq(s) : s \in UNION {[1..k -> Pieces] : k \in 0..n}}

File(kind, bytes) == [kind |-> kind, bytes |-> bytes]

MCTrees ==
  {<<File("regular", s)>> : s \in Made(3)}
    \cup {<<File(kind, s), File("regular", t)>> :
            kind \in {"regular", "other", "unreadable"}, s \in Made(1), t \in Made(1)}

MCCaps == {-1, 1, 4}

Asks(tool, ns, offsets, patterns) ==
  [tool : {tool}, n : ns, offset : offsets, dir : BOOLEAN, pattern : patterns]

MCRequests ==
  {r \in Asks("read", {0, 1}, {-1, 0, 2}, {""}) \cup Asks("tail", {0, 1, 4}, {0}, {""})
           \cup Asks("grep", {0, 1}, {0}, {"", "m"}) : r.dir => r.tool = "grep"}
=============================================================================
