------------------------------- MODULE Playout -------------------------------
(* What the reassembly of the WiFi Display sink promises to the player: packets are
   shown with growing numbers, each once, and one that is missing is passed over only
   after the patience with it was started and ran out. *)
EXTENDS Integers

VARIABLES
  shown,     \* the number of the packet shown last, -1 before the first
  patience   \* with the packet that should come next

vars == <<shown, patience>>

Init == shown = -1 /\ patience = "fresh"

Show ==
  /\ shown' \in Int
  /\ shown' > shown
  /\ shown = -1 \/ shown' = shown + 1 \/ patience = "expired"
  /\ patience' = "fresh"

Wait == patience = "fresh" /\ patience' = "waiting" /\ UNCHANGED shown

GiveUp == patience = "waiting" /\ patience' = "expired" /\ UNCHANGED shown

Next == Show \/ Wait \/ GiveUp

Spec == Init /\ [][Next]_vars
=============================================================================
