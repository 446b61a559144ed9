------------------------------- MODULE MCJail -------------------------------
(***************************************************************************)
(* The jail for TLC: two names of which one is a prefix of the other.      *)
(***************************************************************************)
EXTENDS Jail

a == <<"a">>
ab == <<"a", "b">>

MCNames == {a, ab}
MCTargets == {<<>>, <<a>>, <<ab, a>>}
MCGiven == {{<<>>}, {<<a>>}, {<<ab>>, <<a, a>>}}
MCCwd == <<a>>
MCInputs ==
  [abs : BOOLEAN, comps : UNION {[1..n -> {a, ab, Up}] : n \in 0..2}]
=============================================================================
