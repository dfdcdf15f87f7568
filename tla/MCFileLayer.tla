---------------------------- MODULE MCFileLayer ----------------------------
(***************************************************************************)
(* FileLayer instantiated for TLC.  The configurations give a flash of a   *)
(* few log segments of three data blocks each (segment 0 stands for the    *)
(* superblock, usage-table and checkpoint segments), so that a handful of  *)
(* calls seal the tail, free whole segments and reuse them, and the        *)
(* cleaner finds segments to clean.  Block contents are model values.      *)
(***************************************************************************)
EXTENDS FileLayer

CONSTANTS v1, v2, z, rootdata

MCVals == {v1, v2}
=============================================================================
