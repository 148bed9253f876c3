------------------------------ MODULE MCBlock ------------------------------
(***************************************************************************)
(* TLC instance of Block: a page with room for a few items of one to three *)
(* bytes, so that items of different sizes are deleted from the middle,    *)
(* the ids run out of space before the items do and the other way round.   *)
(***************************************************************************)
EXTENDS Block

CONSTANTS a, b

MCItems == {<<a>>, <<b>>, <<a, b>>, <<b, a, b>>}
=============================================================================
