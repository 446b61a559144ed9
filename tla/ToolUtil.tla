------------------------------ MODULE ToolUtil ------------------------------
(***************************************************************************)
(* The helpers that the tools share: internal/tools/util.go.  Text is a    *)
(* sequence of bytes.                                                      *)
(***************************************************************************)
EXTENDS Integers, Sequences, FiniteSetsExt

NL == "\n"

\* A continuation byte of a UTF-8 rune; every other byte starts one.
Cont == "c"

UTFMax == 4

\* The k-th smallest number of S.
Nth(S, k) == CHOOSE n \in S : Cardinality({m \in S : m <= n}) = k

clampLimit(requested, def, max) == Min({IF requested <= 0 THEN def ELSE requested, max})

MutantCapOutput(s, max) ==
  IF max < 0 \/ Len(s) <= max THEN <<s, FALSE>> ELSE <<SubSeq(s, 1, max), TRUE>>

\* The longest prefix of at most max bytes that ends before the start of a rune.
capOutput(s, max) ==
  IF max < 0 \/ Len(s) <= max THEN <<s, FALSE>>
  ELSE LET cut == Max({k \in 0..max : k = 0 \/ s[k + 1] # Cont})
       IN  <<SubSeq(s, 1, cut), TRUE>>

\* capWriter.Write of p by a writer that holds out: what it holds then, and whether
\* bytes were dropped. A negative cap disables the limit.
capWrite(out, p, cap) ==
  LET room == cap - Len(out)
  IN  IF cap < 0 \/ room >= Len(p) THEN <<out \o p, FALSE>>
      ELSE <<out \o SubSeq(p, 1, room), TRUE>>
=============================================================================
