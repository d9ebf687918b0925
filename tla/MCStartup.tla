----------------------------- MODULE MCStartup ------------------------------
(* Instances of Startup for TLC.                                           *)
EXTENDS Startup

\* A vault that exists already or is registered by hand, by amount, by faucet.
OneOfEach ==
  {[c \in Currencies |-> IF c = Native THEN how[1] ELSE how[2]] :
     how \in {<<"no", "faucet">>, <<"amount", "no">>}}

\* Nothing, or native coins for an amount of collateral, the key and the fees.
NothingOrNative ==
  {[c \in Currencies |-> 0], [c \in Currencies |-> IF c = Native THEN 4 ELSE 0]}

=============================================================================
