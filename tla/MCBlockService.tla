--------------------------- MODULE MCBlockService ---------------------------
(***************************************************************************)
(* Small disks for TLC.  Every sector of the image has its own content, so *)
(* that a sector served from the wrong block or offset shows.              *)
(***************************************************************************)
EXTENDS BlockService

MCBase == [s \in Sectors |-> s]
MCZero == Capacity
MCWritten == {Capacity + 1}
MCData == 0 .. Capacity + 1
MCPrefetch == <<1>>

\* At most one sector of the overlay, a part of its block, is explored further.
FewWrites == Cardinality(dirty) <= 1

=============================================================================
