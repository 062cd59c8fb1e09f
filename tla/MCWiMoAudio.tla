---------------------------- MODULE MCWiMoAudio ----------------------------
(* Model values for checking WiMoAudio: as in the code the read size does not divide every
   write; a caller's write may be larger than the buffer. *)
EXTENDS WiMoAudio

SomeSizes == {1, 3, 6}
=============================================================================
