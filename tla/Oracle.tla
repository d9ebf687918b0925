------------------------------- MODULE Oracle -------------------------------
(***************************************************************************)
(* The oracle client (oracle/src/main.rs): it reads the prices and the fee *)
(* estimate, and submits them to the parachain with the Signer, all        *)
(* concurrently, round after round.                                        *)
(***************************************************************************)
EXTENDS Signer, PriceFeeds

CONSTANTS
  Configs,         \* possible oracle-config.json, and are there fee feeds?
  MaxRounds        \* bound: values that are read

VARIABLES
  config,
  phase,           \* where _main is
  round,           \* the last values that were read
  quote            \* exchange rate of the round for every currency

oracleVars == <<config, phase, round, quote>>
vars == <<signerVars, oracleVars>>

Fee == "fee"
Prices == Calls \ {Fee}

ASSUME OracleAssumption ==
  /\ Fee \in Calls /\ Prices \subseteq Symbols /\ MaxRounds \in Nat \ {0}
  /\ \A k \in Configs : DOMAIN k.prices = Prices

NoQuote == [p \in Prices |-> 0]

Init ==
  /\ SignerInit
  /\ config \in Configs /\ phase = "config" /\ round = 0 /\ quote = NoQuote

-----------------------------------------------------------------------------

\* Any error of a call with `?' ends the process.
Fails == phase' = "ended" /\ Fault /\ Forget /\ UNCHANGED <<nodeVars, lost, config, round, quote>>

Validate ==
  /\ phase = "config"
  /\ phase' = IF \A p \in Prices : validate(config.prices[p]) THEN "fees" ELSE "invalid"
  /\ UNCHANGED <<signerVars, config, round, quote>>

\* maybe_get_median
GetFee ==
  /\ phase = "fees"
  /\ \/ phase' = "prices" /\ UNCHANGED <<signerVars, config, round, quote>>
     \/ config.fees /\ Fails

GetPrices ==
  /\ phase = "prices"
  /\ \/ /\ \A p \in Prices : CanPrice(config.prices[p])
        /\ phase' = "connect" /\ round' = IF round < MaxRounds THEN round + 1 ELSE round
        /\ quote' = [p \in Prices |-> exchange_rate(get_value_or_median(config.prices[p]))]
        /\ UNCHANGED <<signerVars, config>>
     \/ Fails

\* from_url_with_retry ends with refresh_nonce; then both tasks start.
\* submit_bitcoin_fees has nothing to do without a fee estimate.
Connect ==
  /\ phase = "connect"
  /\ \/ /\ phase' = "submit" /\ nonce' = RefreshedNonce
        /\ call' = [c \in Calls |-> IF c = Fee /\ ~config.fees THEN [Idle EXCEPT !.pc = "ok"]
                                    ELSE Called(round)]
        /\ UNCHANGED <<nodeVars, lost, faults, config, round, quote>>
     \/ Fails

\* retry_notify: everything of the task again, also what was done, or give up
\* after five minutes; a call that timed out took that long.
Ended(C) == \A c \in C : call[c].pc \in {"ok", "err", "elapsed"}
GivenUp(C) == \E c \in C : call[c].pc = "elapsed"
Failed(C) == \E c \in C : call[c].pc = "err"

RetryTask(C) ==
  /\ phase = "submit" /\ Ended(C) /\ Failed(C) /\ ~GivenUp(C)
  /\ \/ call' = [c \in Calls |-> IF c \in C THEN Called(round) ELSE call[c]] /\ UNCHANGED faults
     \/ /\ call' = [c \in Calls |-> IF c \in C THEN [call[c] EXCEPT !.pc = "elapsed"] ELSE call[c]]
        /\ Fault
  /\ UNCHANGED <<nonce, nodeVars, lost, oracleVars>>

Retry == RetryTask({Fee}) \/ RetryTask(Prices)

\* Mutant: only the first task's result is looked at.
SecondIsIgnored == \A c \in {Fee} : call[c].pc = "ok"

Succeeded == \A c \in Calls : call[c].pc = "ok"

\* Both tasks are done, and Shutdown if one failed.
EndRound ==
  /\ phase = "submit"
  /\ \A C \in {{Fee}, Prices} : Ended(C) /\ (GivenUp(C) \/ ~Failed(C))
  /\ phase' = IF Succeeded THEN "sleep" ELSE "ended"
  /\ Forget /\ UNCHANGED <<nodeVars, lost, faults, config, round, quote>>

NextRound ==
  /\ phase = "sleep" /\ round < MaxRounds /\ phase' = "fees"
  /\ UNCHANGED <<signerVars, config, round, quote>>

\* The operator's supervisor starts the process again.
Restart ==
  /\ phase = "ended" /\ phase' = "config"
  /\ UNCHANGED <<signerVars, config, round, quote>>

-----------------------------------------------------------------------------

Main == Validate \/ GetFee \/ GetPrices \/ Connect \/ Retry \/ EndRound \/ NextRound \/ Restart

Parachain == (Chain \/ Fork \/ DispatchFails) /\ UNCHANGED oracleVars

Next == Main \/ Parachain \/ (SignerStep /\ UNCHANGED oracleVars)

Spec == Init /\ [][Next]_vars

\* What can go on does, also the node, and a call that is stuck times out.
FairSpec ==
  /\ Spec /\ WF_vars(Main) /\ WF_vars(Chain /\ UNCHANGED oracleVars)
  /\ \A c \in Calls : WF_vars((Proceed(c) \/ TimesOut(c)) /\ UNCHANGED oracleVars)

-----------------------------------------------------------------------------

Pcs == {"idle", "take", "submit", "refresh", "wait", "ok", "err", "elapsed"}

TypeOK ==
  /\ phase \in {"config", "invalid", "fees", "prices", "connect", "submit", "sleep", "ended"}
  /\ round \in 0..MaxRounds /\ final <= next
  /\ \A c \in Calls : call[c].pc \in Pcs /\ call[c].value \in 0..round
  /\ \A tx \in pool : tx.nonce >= final /\ tx.value \in 1..round
  /\ \A tx, other \in pool : tx.nonce = other.nonce => tx = other
  /\ \A n \in final..next - 1 : Pooled(n)
  /\ phase # "submit" => call = NoCalls

\* Every route from one currency of a pair to the other is accepted, and gives
\* the rate that the values of the currencies do, with its pairs either way round.
RoutePricesPair ==
  phase = "config" /\ round = 0 =>
    \A f \in FeedNames : \A path \in Paths : \A route \in RoutesOf(path, f) :
      \A pair \in EndsOf(path, route, f) :
        /\ ValidRoute(pair, route)
        /\ exchange_rate([FeedPrice(pair, f, route) EXCEPT !.pair = pair]) = TrueRate(pair)

\* The price comes from feeds, at least one, and the route of every feed leads from
\* one currency of the pair to the other: validate() asks for less (config.rs:57-90).
IsRouted(price) ==
  /\ price.value = {} /\ DOMAIN price.feeds # {}
  /\ \A f \in DOMAIN price.feeds : \E path \in Paths :
       price.feeds[f] \in RoutesOf(path, f) /\ price.pair \in EndsOf(path, price.feeds[f], f)

\* When a round is over every value of it is on chain, whatever was retried,
\* refused for its nonce, reorganised or lost on the way; a fixed value is quoted as
\* it is (oracle/README.md:35), and what routed feeds give is the rate.
RoundIsFed ==
  phase = "sleep" =>
    /\ \A c \in Calls : c # Fee \/ config.fees => round \in Range(applied[c])
    /\ \A p \in Prices :
         LET price == config.prices[p]
         IN /\ price.value # {} => \E v \in price.value :
                 quote[p] = exchange_rate([pair |-> price.pair, price |-> v])
            /\ IsRouted(price) => quote[p] = TrueRate(price.pair)

\* As long as no submission is lost, leaving a gap in the nonces, no value
\* replaces a newer one, though transactions of processes that ended are
\* still in the pool when the next process submits.
RatesMoveForward ==
  [][\A c \in Calls :
       ~lost /\ Len(applied[c]) > 0 /\ applied'[c] # applied[c]
         => Last(applied'[c]) >= Last(applied[c])]_vars

\* The oracle gets through every round, if the process is started again when
\* it ends: a gap in the nonces is filled, and no call waits for ever.
RoundCompletes == (phase = "fees") ~> (phase = "sleep")

=============================================================================
