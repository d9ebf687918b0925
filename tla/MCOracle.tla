------------------------------ MODULE MCOracle ------------------------------
(* Instances of Oracle for TLC.                                            *)
EXTENDS Oracle

MCValue == [s \in Symbols |-> CASE s = "BTC" -> 14 [] s = "KSM" -> 5 [] s = "USD" -> 0 [] OTHER -> 1]
MCDecimals == [s \in Symbols |-> CASE s = "BTC" -> 8 [] s = "KSM" -> 12 [] s = "USD" -> 2 [] OTHER -> 6]

BTC == Plain("BTC")
KSM == Plain("KSM")
USD == Plain("USD")

\* As in oracle-config.json, without fee feeds, with a fixed value as in README.md, and
\* with a route that ends elsewhere.
Shipped ==
  [pair |-> Pair(BTC, KSM), value |-> {},
   feeds |-> [f \in {"Kraken", "Dia"} |->
                IF f = "Kraken" THEN <<Pair(KSM, BTC)>>
                ELSE <<Pair(USD, Tagged("BTC")), Pair(USD, Tagged("KSM"))>>]]
NoEnd == [Shipped EXCEPT !.feeds = [f \in {"Kraken"} |-> <<Pair(BTC, USD)>>]]

Fixed == [Shipped EXCEPT !.value = {11}, !.feeds = <<>>]

MCConfigs ==
  {[prices |-> [p \in Prices |-> Shipped], fees |-> b] : b \in BOOLEAN}
    \cup {[prices |-> [p \in Prices |-> price], fees |-> FALSE] : price \in {Fixed, NoEnd}}

=============================================================================
