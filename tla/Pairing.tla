------------------------------- MODULE Pairing -------------------------------
(* What the handshake of libciwimo promises to the rest of the session: the status
   becomes CONNECTING at most once, and only after a device granted the password.  The
   session may be ended at any time; that CONNECTING may then be stored over FINISH is
   part of the promise, because no lock prevents it. *)

CONSTANT Devices

VARIABLES
  status,    \* statusWiMo
  granted,   \* the devices whose answer to the password request was taken
  connected  \* the handshake has stored CONNECTING

vars == <<status, granted, connected>>

Init == status = "INITING" /\ granted = {} /\ connected = FALSE

Grant(d) == granted' = granted \cup {d} /\ UNCHANGED <<status, connected>>

Connect ==
  /\ granted # {} /\ ~connected
  /\ status' = "CONNECTING" /\ connected' = TRUE
  /\ UNCHANGED granted

End == status' = "FINISH" /\ UNCHANGED <<granted, connected>>

Next == (\E d \in Devices : Grant(d)) \/ Connect \/ End

Spec == Init /\ [][Next]_vars
=============================================================================
