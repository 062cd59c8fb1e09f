--------------------------- MODULE MCWiMoHandshake ---------------------------
(* Two receiving devices and every timing, for WiMoHandshake. *)
EXTENDS WiMoHandshake

CONSTANTS a, b

TwoDevices == {a, b}
AllTimings == {"prompt", "late", "slow"}
=============================================================================
