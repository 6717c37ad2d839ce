-------------------------------- MODULE MCPgmgr --------------------------------
EXTENDS Pgmgr, TLC

R(b, n) == [base |-> b, len |-> n]

(* Within a table; across two of the lowest tables and next to the first;  *)
(* across all levels.                                                      *)
MRanges == {R(0, 1), R(1, 2), R(6, 4)}

===============================================================================
