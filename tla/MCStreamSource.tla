--------------------------- MODULE MCStreamSource ---------------------------
(* Instances of StreamSource for TLC. *)
EXTENDS StreamSource

ShortOrLong == {0, 1}
OneByte == {1}
=============================================================================
