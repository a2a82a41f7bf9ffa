--------------------------- MODULE MCParquetCache ---------------------------
(***************************************************************************)
(* Four row groups, one of them empty, in two files, of which one may be   *)
(* open, and two row groups cached; an index beyond the end.               *)
(***************************************************************************)
EXTENDS ParquetCache

CONSTANTS t1, t2, t3

MCThreads == {t1, t2, t3}
MCShards == << <<2, 0>>, <<1, 1>> >>
MCIndexes == {1, 2, 7}
=============================================================================
