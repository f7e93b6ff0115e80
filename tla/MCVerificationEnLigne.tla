------------------------ MODULE MCVerificationEnLigne ------------------------
(* Instance of VerificationEnLigne for TLC: one machine and its tunnel.    *)
EXTENDS VerificationEnLigne, TLC

CONSTANTS m1, tunnel

DeMC == tunnel :> m1
=============================================================================
