--------------------------- MODULE MCSegmentedFile ---------------------------
(* For blocks of 18 bytes: lengths that let a record begin at every place  *)
(* near a block's end, fill a block and go over up to three of them.       *)
EXTENDS SegmentedFile

MCLengths == {7} \union 13 .. 20 \union {30}
=============================================================================
