------------------------------- MODULE MCCodec ------------------------------
(* Instances of Codec for TLC. *)
EXTENDS Codec

\* No parameter, "-9" (a dash is no digit: -21) and "100".
SomeParams == { <<>>, <<45, 57>>, <<49, 48, 48>> }
=============================================================================
