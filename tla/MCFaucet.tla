------------------------------ MODULE MCFaucet ------------------------------
(* Instances of Faucet for TLC.                                            *)
EXTENDS Faucet

=============================================================================
