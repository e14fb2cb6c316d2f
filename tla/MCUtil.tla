------------------------------- MODULE MCUtil -------------------------------
(* Util instantiated for TLC: two addresses, strings over a few digits     *)
(* and one other character, and an 8-bit int so that overflow is reached  *)
(* by three-digit strings.                                                 *)
EXTENDS Util, TLC

CONSTANTS p1, p2

MCPtrs == {p1, p2}
MCChars == {"9", "x"}
MCLiterals == {<<"9">>, <<"9", "x">>}
MCNums == {-10, 100}
MCSymmetry == Permutations(MCPtrs)
====
