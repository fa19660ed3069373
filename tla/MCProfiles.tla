----------------------------- MODULE MCProfiles -----------------------------
(***************************************************************************)
(* Two requests at a time over two profile names and two configurations,   *)
(* one of them that of a profile made from nothing.                        *)
(***************************************************************************)
EXTENDS Profiles, TLC

CONSTANTS h1, h2, main, other, plain, tuned

RequestSymmetry == Permutations({h1, h2})
=============================================================================
