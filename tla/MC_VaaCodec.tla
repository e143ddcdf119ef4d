---------------------------- MODULE MC_VaaCodec ----------------------------
(* VaaCodec on every buffer of up to 8 bytes over {0, 1, 4}, with a 1-byte *)
(* magic and a 2-byte signature (r and s of one byte each).                *)
EXTENDS VaaCodec

MC_ByteVals == {0, 1, 4}
=============================================================================
