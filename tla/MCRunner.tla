------------------------------ MODULE MCRunner ------------------------------
(* Instances of Runner, and of the vault processes it supervises, for TLC. *)
EXTENDS Runner, TLC

=============================================================================
