----------------------------- MODULE PriceFeeds -----------------------------
(***************************************************************************)
(* How the oracle finds the price of a pair of currencies: routes over the *)
(* pairs that a feed quotes (oracle/src/config.rs, currency.rs, feeds.rs   *)
(* and feeds/).                                                            *)
(*                                                                         *)
(* Prices are logarithms: the product of two prices is the sum, and the    *)
(* inverse of one its negation.                                            *)
(***************************************************************************)
EXTENDS Integers, FiniteSets, Sequences, SequencesExt

CONSTANTS
  Symbols,         \* currencies; USD and BTC are among them
  Value,           \* what one unit of every currency is worth
  Decimals,        \* of every currency of the store
  FeedNames        \* the feeds that are configured

ASSUME PriceAssumption ==
  /\ "USD" \in Symbols
  /\ Value \in [Symbols -> Int] /\ Decimals \in [Symbols -> Nat]
  /\ FeedNames \subseteq {"Kraken", "GateIo", "CoinGecko", "Dia"}

\* A currency is named by its symbol, with DIA's path to it or without:
\* "STDOT=Moonbeam/0xFA.." or "STDOT".
Currency == [symbol : Symbols, path : BOOLEAN]
Plain(s) == [symbol |-> s, path |-> FALSE]
Tagged(s) == [symbol |-> s, path |-> TRUE]

Pair(b, q) == [base |-> b, quote |-> q]

-----------------------------------------------------------------------------
(* CurrencyPair and CurrencyPairAndPrice.                                  *)

\* Compares what is before the "=".
contains(pair, currency) == currency.symbol \in {pair.base.symbol, pair.quote.symbol}

has_shared(left, right) == contains(left, right.base) \/ contains(left, right.quote)

invert(p) == [pair |-> Pair(p.pair.quote, p.pair.base), price |-> -p.price]

\* Mutant: a shared base is handled like a shared quote.
InvertOther(p, q) ==
  IF p.pair.quote = q.pair.quote \/ p.pair.base = q.pair.base THEN <<p, invert(q)>>
  ELSE IF p.pair.base = q.pair.quote THEN <<invert(p), invert(q)>>
  ELSE <<p, q>>

\* The two pairs with the shared currency in the middle; compares whole names.
Aligned(p, q) ==
  IF p.pair.quote = q.pair.quote THEN <<p, invert(q)>>
  ELSE IF p.pair.base = q.pair.base THEN <<invert(p), q>>
  ELSE IF p.pair.base = q.pair.quote THEN <<invert(p), invert(q)>>
  ELSE <<p, q>>

reduce(p, q) ==
  LET a == Aligned(p, q)
  IN [pair |-> Pair(a[1].pair.base, a[2].pair.quote), price |-> a[1].price + a[2].price]

\* Of the smallest units of the two currencies.
exchange_rate(p) == p.price + Decimals[p.pair.quote.symbol] - Decimals[p.pair.base.symbol]

-----------------------------------------------------------------------------
(* PriceConfig::validate, for the route of one feed.                       *)

Starts(pair, route) == contains(route[1], pair.base) \/ contains(route[1], pair.quote)

End(pair, route) == IF contains(route[1], pair.base) THEN pair.quote ELSE pair.base

ValidRoute(pair, route) ==
  /\ route # <<>> /\ Starts(pair, route)
  /\ contains(route[Len(route)], End(pair, route))
  /\ \A i \in 1..Len(route) - 1 : has_shared(route[i], route[i + 1])

validate(config) == \A f \in DOMAIN config.feeds : ValidRoute(config.pair, config.feeds[f])

-----------------------------------------------------------------------------
(* The feeds.                                                              *)

\* No exchange answers for a symbol with a path, and CoinGecko finds no name for it.
IsListed(pair) == ~pair.base.path /\ ~pair.quote.path

\* What a feed can be asked for.  DIA only quotes in USD, and is asked for
\* USD/BTC=.. to get the price of BTC in USD.
Quotes(feed, pair) ==
  IF feed = "Dia" THEN pair.base = Plain("USD") /\ pair.quote.path ELSE IsListed(pair)

SpotPrice(pair) == [pair |-> pair, price |-> Value[pair.base.symbol] - Value[pair.quote.symbol]]

DiaPrice(pair) == [pair |-> pair, price |-> Value[pair.quote.symbol] - Value["USD"]]

get_price(feed, pair) == IF feed = "Dia" THEN DiaPrice(pair) ELSE SpotPrice(pair)

\* The answers for the pairs of a route, reduced from the left up to each of them.
Reductions(answers) ==
  LET reduced[i \in DOMAIN answers] ==
        IF i = 1 THEN answers[1] ELSE reduce(reduced[i - 1], answers[i])
  IN reduced

\* The price that is left, the other way round if it is not quoted from the base.
FeedPrice(pair, feed, route) ==
  LET answers == [i \in DOMAIN route |-> get_price(feed, route[i])]
      p == Reductions(answers)[Len(answers)]
  IN IF p.pair.base # pair.base THEN invert(p) ELSE p

\* NotConfigured, InvalidDiaSymbol, InvalidCurrency, InvalidResponse
CanPrice(config) ==
  \A f \in DOMAIN config.feeds :
    f \in FeedNames /\ \A i \in DOMAIN config.feeds[f] : Quotes(f, config.feeds[f][i])

get_prices(config) ==
  [f \in DOMAIN config.feeds |-> FeedPrice(config.pair, f, config.feeds[f]).price]

\* One of the middle prices; their mean, if they are two, is not expressible, and
\* without any price it is no number.
Median(price) ==
  CHOOSE m \in Range(price) :
    /\ 2 * Cardinality({f \in DOMAIN price : price[f] < m}) <= Cardinality(DOMAIN price)
    /\ 2 * Cardinality({f \in DOMAIN price : price[f] > m}) <= Cardinality(DOMAIN price)

\* config.value is a set: empty, or with the one value to use instead of a feed.
get_value_or_median(config) ==
  [pair |-> config.pair,
   price |-> IF config.value # {} THEN CHOOSE v \in config.value : TRUE
             ELSE Median(get_prices(config))]

-----------------------------------------------------------------------------
(* The reference.                                                          *)

\* Ways from one currency to another that pass no currency twice, ...
Paths == UNION {{c \in [1..n -> Symbols] : IsInjective(c)} : n \in 2..4}

\* ... and the pairs a feed is asked for on the way, each either way round.
RoutesOf(path, feed) ==
  LET Name(s) == IF feed = "Dia" /\ s # "USD" THEN Tagged(s) ELSE Plain(s)
      Hop(i, flip) == IF flip THEN Pair(Name(path[i + 1]), Name(path[i]))
                      ELSE Pair(Name(path[i]), Name(path[i + 1]))
  IN {route \in {[i \in 1..Len(path) - 1 |-> Hop(i, flip[i])] :
                   flip \in [1..Len(path) - 1 -> BOOLEAN]} :
       \A i \in DOMAIN route : Quotes(feed, route[i])}

\* The pairs that such a route prices: the ends of the path either way round, but
\* DIA, that quotes all pairs the wrong way, from the base to USD and on to the quote.
EndsOf(path, route, feed) ==
  LET s == Plain(path[1])
      e == Plain(path[Len(path)])
  IN IF feed # "Dia" THEN {Pair(s, e), Pair(e, s)}
     ELSE IF Len(route) = 2 THEN {Pair(s, e)} ELSE {}

\* The rate between the smallest units, from what the currencies are worth.
TrueRate(pair) ==
  (Value[pair.base.symbol] - Decimals[pair.base.symbol])
    - (Value[pair.quote.symbol] - Decimals[pair.quote.symbol])

=============================================================================
