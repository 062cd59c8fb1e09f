--------------------------- MODULE MCWiMoControl ---------------------------
(* Model values for checking WiMoControl: what may happen to a session in a run. *)
EXTENDS WiMoControl

AllEvents == {"nosocket", "late", "quit", "kicked", "datalost", "silent", "capture"}
KickOnly == {"kicked"}
QuitOnly == {"quit"}
SilenceOnly == {"silent"}
NoEvents == {}
=============================================================================
