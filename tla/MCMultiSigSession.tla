------------------------- MODULE MCMultiSigSession --------------------------
(* Small instances of MultiSigSession. *)
EXTENDS MultiSigSession

CONSTANTS alice, bob

Two == {alice, bob}
=============================================================================
