--------------------------- MODULE MCCancellation ---------------------------
(* Instances of Cancellation for TLC.                                      *)
EXTENDS Cancellation, TLC

=============================================================================
