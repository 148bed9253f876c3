------------------------------ MODULE MCTable ------------------------------
(***************************************************************************)
(* TLC instance of Table: blocks with room for two to four items of three  *)
(* sizes, where both ids and bytes run out, and enough blocks for a choice *)
(* of the best fit.                                                        *)
(***************************************************************************)
EXTENDS Table

CONSTANTS small, middle, large

MCItem == {small, middle, large}

MCSizeOf == [i \in MCItem |-> IF i = small THEN 1 ELSE IF i = middle THEN 2 ELSE 4]
=============================================================================
