--------------------------- MODULE MCNestingWriter --------------------------
(***************************************************************************)
(* Instances of the nesting writer for TLC.  A varint byte carries one     *)
(* base-2 digit, so that a level of two bytes already has a length of two  *)
(* bytes; the permanent buffer is small, so that both ways of growing it   *)
(* (in the middle of a length, in the middle of a block) happen.           *)
(***************************************************************************)
EXTENDS NestingWriter

MCBlocks == {<<1, 2, 1>>}
=============================================================================
