------------------------------ MODULE MCIssue -------------------------------
(* Instances of Issue for TLC.                                             *)
EXTENDS Issue

=============================================================================
