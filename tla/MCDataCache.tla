---------------------------- MODULE MCDataCache ----------------------------
(* Model-checking instance of DataCache: two callers of the same series, a   *)
(* provider that lacks a day in the middle, and requests that overlap, that  *)
(* lie apart and that end at the missing day.                                *)
EXTENDS DataCache, TLC

CONSTANTS c1, c2

Ranges == {<<1, 1>>, <<1, 4>>, <<2, 3>>, <<3, 4>>, <<4, 4>>}

=============================================================================
