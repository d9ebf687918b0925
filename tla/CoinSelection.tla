--------------------------- MODULE CoinSelection ----------------------------
(***************************************************************************)
(* How the light wallet funds a transaction (bitcoin/src/light/wallet.rs): *)
(* sizes, fees and the selection of coins, in satoshi and bytes.  Every    *)
(* output and coin is P2WPKH, the only script the wallet can sign for; a   *)
(* payment of the vault also carries the OP_RETURN of its request.         *)
(***************************************************************************)
EXTENDS Integers, Sequences, FiniteSetsExt

WITNESS_SCALE_FACTOR == 4

DivCeil(a, b) == (a + b - 1) \div b
SaturatingSub(a, b) == IF a > b THEN a - b ELSE 0

\* get_serialize_size of an output with a P2WPKH script, or with OP_RETURN.
TxOutSize == 8 + 1 + 22
OpReturnSize == 8 + 1 + 34
\* ... and of an input: outpoint, sequence and an empty script.
TxInSize == 32 + 4 + 4 + 1

\* dummy_sign_input: a signature of 71 bytes and a key of 33.
WitnessSize == 1 + (1 + 71) + (1 + 33)

get_transaction_input_weight == TxInSize * (WITNESS_SCALE_FACTOR - 1) + TxInSize + WitnessSize

get_virtual_transaction_size(weight) == DivCeil(weight, WITNESS_SCALE_FACTOR)

calculate_maximum_signed_input_size == get_virtual_transaction_size(get_transaction_input_weight)

\* The signed transaction with n inputs: version, counters and lock time, then
\* marker and flag of the witnesses.
calculate_maximum_signed_tx_size(n, outputSize) ==
  get_virtual_transaction_size(
    WITNESS_SCALE_FACTOR * (4 + 1 + n * TxInSize + 1 + outputSize + 4) + 2 + n * WitnessSize)

\* FeeRate::get_fee, the rate in satoshi per 1000 bytes.
get_fee(rate, bytes) == DivCeil(rate * bytes, 1000)

\* Mutant: what it costs to spend the coin is forgotten.
FaceValue(value, rate) == value

\* CoinOutput::get_effective_value.
get_effective_value(value, rate) ==
  SaturatingSub(value, get_fee(rate, calculate_maximum_signed_input_size))

\* SelectCoins::get_change; min_viable_change is 0.
get_change(effective, target, changeFee) == SaturatingSub(SaturatingSub(effective, target), changeFee)

SumTo(values, n) == MapThenSumSet(LAMBDA i : values[i], 1..n)

NotEnoughInputs == [inputs |-> 0, change |-> 0, fee |-> 0]

\* fund_transaction: coins are taken in the order the wallet lists them until
\* their effective values cover the payment, and what is left goes back.
fund_transaction(values, amount, rate) ==
  LET outputSize == TxOutSize + OpReturnSize
      target == amount + get_fee(rate, 10 + 1 + outputSize)
      effective == [i \in DOMAIN values |-> get_effective_value(values[i], rate)]
      enough == {n \in DOMAIN values : SumTo(effective, n) >= target}
  IN IF enough = {} THEN NotEnoughInputs
     ELSE LET n == Min(enough)
              selected == SumTo(values, n)
              change == get_change(SumTo(effective, n), target, get_fee(rate, TxOutSize))
              size == outputSize + (IF change > 0 THEN TxOutSize ELSE 0)
              needed == get_fee(rate, calculate_maximum_signed_tx_size(n, size))
              fee == selected - amount - change
              surplus == IF change > 0 THEN SaturatingSub(fee, needed) ELSE 0
          IN [inputs |-> n, change |-> change + surplus, fee |-> fee - surplus]

-----------------------------------------------------------------------------

\* What the caller asked for: the fee covers the signed transaction at `rate'.
FeeFor(n, withChange, rate) ==
  get_fee(rate, calculate_maximum_signed_tx_size(
                  n, TxOutSize + OpReturnSize + (IF withChange THEN TxOutSize ELSE 0)))

=============================================================================
