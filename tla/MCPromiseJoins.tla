---------------------------- MODULE MCPromiseJoins ----------------------------
(***************************************************************************)
(* Two calls in flight of one child or two, that fail or answer too        *)
(* little, a u64, or more than the callback's buffer holds.                *)
(***************************************************************************)
EXTENDS PromiseJoins

CONSTANTS c1, c2, v1

MCCalls == {c1, c2}

MCValues == {v1}

MCFanIns == {1, 2}

MCLengths == {7, 8, 9}
==============================================================================
