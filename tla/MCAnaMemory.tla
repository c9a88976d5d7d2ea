---------------------------- MODULE MCAnaMemory ----------------------------
(***************************************************************************)
(* Instances of AnaMemory for TLC.  With three size lists (0, 1, 2 and up) *)
(* and an arena of a few addresses, exact lists, the mixed last list, cuts *)
(* and merges on both sides, and every refusal occur.                      *)
(***************************************************************************)
EXTENDS AnaMemory

MCArenaSize == 7
MCRequests == {1, 2, 4}
=============================================================================
