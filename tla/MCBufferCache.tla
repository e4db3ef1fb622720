---------------------------- MODULE MCBufferCache ----------------------------
(* Constants of BufferCache for TLC. *)
EXTENDS BufferCache

CONSTANTS s1, s2, s3, s4, a, b

MCDevice == {s1, s2, s3, s4}

MCContent == {a, b}
=============================================================================
