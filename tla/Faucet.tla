------------------------------- MODULE Faucet -------------------------------
(***************************************************************************)
(* The faucet (faucet/src/http.rs and main.rs): a JSON-RPC server that     *)
(* gives an account coins once in FAUCET_COOLDOWN_HOURS.  One account is   *)
(* modelled, with the currencies it asks for.  Requests are served         *)
(* concurrently; every `await' of a handler is a step boundary.            *)
(***************************************************************************)
EXTENDS Integers, FiniteSets

CONSTANTS
  Currencies, Native,
  Slots,                   \* requests the server handles at a time
  UserAllowance, VaultAllowance,
  MAX_FUNDABLE_CLIENT_BALANCE,
  FAUCET_COOLDOWN_HOURS,
  MaxHours,                \* bound: hours that pass
  MaxFaults                \* bound: failing calls, crashes, liquidations

ASSUME FaucetAssumption ==
  /\ Native \in Currencies
  /\ {UserAllowance, VaultAllowance, MAX_FUNDABLE_CLIENT_BALANCE, FAUCET_COOLDOWN_HOURS,
      MaxHours, MaxFaults} \subseteq Nat

VARIABLES
  \* the parachain: the account's balances and its vaults
  free, reserved, registered,
  \* the faucet
  kv,                      \* the last claim recorded for every currency
  request,                 \* the handlers of fund_account; does the client wait for its answer?
  hours, faults

chainVars == <<free, reserved, registered>>
faucetVars == <<kv, request>>

NoClaim == [datetime |-> 0, account_type |-> "None"]
Idle == [pc |-> "idle", currency |-> Native, last |-> NoClaim, account_type |-> "None",
         transfers |-> {}, failed |-> FALSE, waited |-> FALSE]

FaucetInit ==
  /\ kv = [c \in Currencies |-> NoClaim]
  /\ request = [s \in Slots |-> Idle]
  /\ hours = 0 /\ faults = 0

Fault == faults < MaxFaults /\ faults' = faults + 1

-----------------------------------------------------------------------------

Answer(r, pc) == [Idle EXCEPT !.pc = pc, !.currency = r.currency, !.waited = r.waited]

Update(s, r) == request' = [request EXCEPT ![s] = r]

\* A call of fund_account arrives: parse_params, open_kv_store and kv.get.
Receive(s, c) ==
  /\ request[s].pc = "idle"
  /\ Update(s, [Idle EXCEPT !.pc = "type", !.currency = c, !.last = kv[c],
                      !.waited = TRUE])

get_account_type == IF registered = {} THEN "User" ELSE "Vault"

\* A query that fails counts as no vaults.
GetType(s) ==
  /\ request[s].pc = "type"
  /\ \E type \in {"User", "Vault"} :
       /\ \/ type = get_account_type /\ UNCHANGED faults
          \/ type = "User" /\ Fault
       /\ Update(s, [request[s] EXCEPT !.pc = "ensure", !.account_type = type])
  /\ UNCHANGED <<chainVars, kv, hours>>

is_type_and_was_user(type, current, previous) == current = type /\ previous = "User"

has_request_expired(datetime, threshold, current, previous) ==
  datetime < threshold \/ is_type_and_was_user("Vault", current, previous)

\* get_free_balance_for_id and get_reserved_balance_for_id.
Balance(c) == free[c] + reserved[c]

ensure_funding_allowed(c, last, type) ==
  /\ Balance(c) <= MAX_FUNDABLE_CLIENT_BALANCE
  /\ \/ last = NoClaim
     \/ has_request_expired(last.datetime, hours - FAUCET_COOLDOWN_HOURS, type, last.account_type)

\* Coins of another currency come with as many of the native one.  Either of the
\* balances' queries may fail.
EnsureAllowed(s) ==
  LET r == request[s]
  IN /\ r.pc = "ensure"
     /\ \/ /\ Update(s, IF ensure_funding_allowed(r.currency, r.last, r.account_type)
                        THEN [r EXCEPT !.pc = "transfer", !.transfers = {r.currency, Native}]
                        ELSE Answer(r, "err"))
           /\ UNCHANGED faults
        \/ Fault /\ Update(s, Answer(r, "err"))
     /\ UNCHANGED <<chainVars, kv, hours>>

Amount(type) == IF type = "Vault" THEN VaultAllowance ELSE UserAllowance

\* The transfers are made concurrently.  A call that fails may have been
\* executed nevertheless.
Transfer(s, c) ==
  LET r == request[s]
      paid == free' = [free EXCEPT ![c] = @ + Amount(r.account_type)]
  IN /\ r.pc = "transfer" /\ c \in r.transfers
     /\ \/ paid /\ Update(s, [r EXCEPT !.transfers = @ \ {c}]) /\ UNCHANGED faults
        \/ /\ paid \/ UNCHANGED free
           /\ Fault /\ Update(s, [r EXCEPT !.transfers = @ \ {c}, !.failed = TRUE])
     /\ UNCHANGED <<reserved, registered, kv, hours>>

\* update_kv_store, unless a transfer failed, and the answer.
Finish(s) ==
  LET r == request[s]
  IN /\ r.pc = "transfer" /\ r.transfers = {}
     /\ kv' = IF r.failed THEN kv
              ELSE [kv EXCEPT ![r.currency] = [datetime |-> hours, account_type |-> r.account_type]]
     /\ Update(s, Answer(r, IF r.failed THEN "err" ELSE "ok"))
     /\ UNCHANGED <<chainVars, hours, faults>>

HourPasses ==
  /\ hours < MaxHours /\ hours' = hours + 1
  /\ UNCHANGED <<chainVars, faucetVars, faults>>

\* The faucet's connection to the parachain is lost: the block listener ends,
\* the server closes, and starts again on the same store.
Disconnect ==
  /\ Fault
  /\ request' = [s \in Slots |-> IF request[s].pc = "idle" THEN Idle
                                 ELSE Answer(request[s], "err")]
  /\ UNCHANGED <<chainVars, kv, hours>>

Handle(s) ==
  \/ GetType(s) \/ EnsureAllowed(s) \/ Finish(s)
  \/ \E c \in Currencies : Transfer(s, c)

-----------------------------------------------------------------------------
(* The faucet with clients that ask at any time.                           *)

Ask(s) ==
  /\ \E c \in Currencies : Receive(s, c)
  /\ UNCHANGED <<chainVars, kv, hours, faults>>

\* The client takes the answer.
Take(s) ==
  /\ request[s].pc \in {"ok", "err"} /\ Update(s, Idle)
  /\ UNCHANGED <<chainVars, kv, hours, faults>>

FaucetSpec ==
  /\ FaucetInit
  /\ free = [c \in Currencies |-> 0] /\ reserved = [c \in Currencies |-> 0] /\ registered = {}
  /\ [][HourPasses \/ \E s \in Slots : Ask(s) \/ Handle(s) \/ Take(s)]_<<chainVars, faucetVars, hours, faults>>

\* No account is given coins of a currency again before the cooldown is over:
\* "Requester was recently funded" (faucet/src/error.rs:27).  The transfer of a
\* request for c finds no claim recorded for c, or an expired one.
OncePerCooldown ==
  [][\A s \in Slots :
       LET r == request[s]
       IN /\ r.pc = "transfer" /\ r.currency \in r.transfers
          /\ request'[s].pc = "transfer" /\ r.currency \notin request'[s].transfers
          => \/ kv[r.currency] = NoClaim
             \/ has_request_expired(kv[r.currency].datetime, hours - FAUCET_COOLDOWN_HOURS,
                                    r.account_type, kv[r.currency].account_type)]_<<free, request>>

=============================================================================
