------------------------------ MODULE StoreMC ------------------------------
(* Files of two sectors of three bytes; requests of two bytes make some    *)
(* begin inside a sector and cross into the next.  Four bits to a sector   *)
(* of the map: a run crosses a byte of it and ends at a border, as runs of *)
(* 2048 that begin behind the reserved bit do.  Two runs fit in front of   *)
(* cmd.tar, which lies off their grid; once it is removed it can be        *)
(* created on that grid, next to the other file and in a byte of the map   *)
(* with it.                                                                *)
EXTENDS Store, TLC

CONSTANTS f, h1, h2, u, v

Interchangeable == Permutations({h1, h2}) \cup Permutations({u, v})
=============================================================================
