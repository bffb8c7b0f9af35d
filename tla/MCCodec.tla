------------------------------ MODULE MCCodec ------------------------------
(***************************************************************************)
(* The codec on a small instance: payloads of at most one byte, one above *)
(* that maximum, and a lifesign that wraps after two frames.               *)
(***************************************************************************)
EXTENDS Codec

\* The id of acceptance scenario 1, 0x12345678, and the null id.
MCIds == {0, \h12345678}

\* "A" (one byte), and two bytes, above the maximum of one.
MCPayloads == {<<65>>, <<65, 103>>}

\* A region that fits only an empty payload, and the 256 bytes of main().
MCBufferSizes == {12, 256}
=============================================================================
