-------------------------------- MODULE MCCrc --------------------------------
(***************************************************************************)
(* Crc with every payload of one byte, which looks up every entry of the   *)
(* tables, and some of two; every bit of a byte is flipped, and some       *)
(* bursts.                                                                 *)
(***************************************************************************)
EXTENDS Crc

MCPayloads ==
  {<<b>> : b \in Byte} \union
  {<<b, c>> : b \in {{0}, {0, 7}}, c \in {{}, {0 , 1, 2}, 0 .. 7}}
MCMasks == {{k} : k \in 0 .. 7} \union {0 .. 7, {0, 2, 5}, {1, 7}}
=============================================================================
