-------------------------------- MODULE MCPfmgr --------------------------------
EXTENDS Pfmgr, TLC

(* A range of low memory, one that begins below the end of the ISA memory  *)
(* and holds the kernel, and a short one.                                  *)
MBase  == <<0, 4, 16>>
MTotal == <<2, 11, 3>>
MTrack == <<1, 1, 1>>
MKernel == {6, 7}

NotAstray == ~astray

===============================================================================
