------------------------------- MODULE Signer -------------------------------
(***************************************************************************)
(* Submitting calls to the parachain: the nonce that all calls of a        *)
(* process share, and the retries of with_unique_signer and notify_retry   *)
(* (runtime/src/rpc.rs, retry.rs, error.rs), with the account's            *)
(* transactions in the node's pool and on the parachain (external).        *)
(*                                                                         *)
(* A transaction is in the pool until it is final; it is in a block of the *)
(* best chain if its nonce is below `next'.                                *)
(***************************************************************************)
EXTENDS Integers, FiniteSets, Sequences

CONSTANTS
  Calls,           \* the calls a process makes concurrently
  MaxFaults        \* bound: failures of any kind

ASSUME SignerAssumption == MaxFaults \in Nat

VARIABLES
  nonce,           \* of the process's signer
  call,            \* with_unique_signer for every call
  \* the parachain and its node
  final, next,     \* the account's nonce in the last final and in the best block
  pool,            \* its transactions that are not final
  applied,         \* what calls put on chain, in order
  lost,            \* was a submission lost with its nonce taken?
  faults

processVars == <<nonce, call>>
nodeVars == <<final, next, pool, applied>>
signerVars == <<processVars, nodeVars, lost, faults>>

Idle == [pc |-> "idle", nonce |-> 0, value |-> 0]
NoCalls == [c \in Calls |-> Idle]

SignerInit ==
  /\ nonce = 0 /\ call = NoCalls
  /\ final = 0 /\ next = 0 /\ pool = {} /\ applied = [c \in Calls |-> <<>>]
  /\ lost = FALSE /\ faults = 0

Fault == faults < MaxFaults /\ faults' = faults + 1

-----------------------------------------------------------------------------
(* with_unique_signer.                                                     *)

Called(v) == [Idle EXCEPT !.pc = "take", !.value = v]

GoTo(c, pc) == call' = [call EXCEPT ![c].pc = pc]

\* Mutant: the nonce is incremented by the caller as well.
IncrementedTwice == nonce + 2

\* signer.increment_nonce()
Incremented == nonce + 1

\* "return the current value, increment afterwards", under the write lock.
TakeNonce(c) ==
  /\ call[c].pc = "take"
  /\ call' = [call EXCEPT ![c].pc = "submit", ![c].nonce = nonce] /\ nonce' = Incremented
  /\ UNCHANGED <<nodeVars, lost, faults>>

Stale(n) == n < next
Pooled(n) == \E tx \in pool : tx.nonce = n
Transaction(c) == [nonce |-> call[c].nonce, call |-> c, value |-> call[c].value]

Submit(c) ==
  /\ call[c].pc = "submit" /\ ~Stale(call[c].nonce) /\ ~Pooled(call[c].nonce)
  /\ pool' = pool \cup {Transaction(c)} /\ GoTo(c, "wait")
  /\ UNCHANGED <<nonce, final, next, applied, lost, faults>>

\* The node refuses it: POOL_INVALID_TX or POOL_TOO_LOW_PRIORITY.
Refused(c) ==
  /\ call[c].pc = "submit"
  /\ Stale(call[c].nonce) \/ Pooled(call[c].nonce)
  /\ GoTo(c, "refresh")
  /\ UNCHANGED <<nonce, nodeVars, lost, faults>>

\* Another error is thrown.  The transaction, or only the answer, was lost.
SubmitFails(c) ==
  /\ call[c].pc = "submit" /\ Fault /\ GoTo(c, "err")
  /\ \/ lost' = TRUE /\ UNCHANGED pool
     \/ /\ ~Stale(call[c].nonce) /\ ~Pooled(call[c].nonce)
        /\ pool' = pool \cup {Transaction(c)} /\ UNCHANGED lost
  /\ UNCHANGED <<nonce, final, next, applied>>

\* From "latest, possibly non-finalized block".
RefreshedNonce == next

\* refresh_nonce, whose query may fail (`unwrap_or(0)'), then another try, or
\* Timeout after ten minutes of them.
RefreshNonce(c) ==
  /\ call[c].pc = "refresh"
  /\ \/ nonce' = RefreshedNonce /\ GoTo(c, "take") /\ UNCHANGED faults
     \/ nonce' = 0 /\ GoTo(c, "take") /\ Fault
     \/ nonce' = RefreshedNonce /\ GoTo(c, "elapsed") /\ Fault
  /\ UNCHANGED <<nodeVars, lost>>

\* The transaction waits for one that is not there, and not on its way.
Submitting(n) == \E c \in Calls : call[c].pc = "submit" /\ call[c].nonce = n
Stuck(n) == \E m \in next..n - 1 : ~Pooled(m) /\ ~Submitting(m)

\* Mutant: no timeout on the submission.
WaitsForEver(c) == call[c].pc = "wait" /\ FALSE /\ UNCHANGED signerVars

\* TRANSACTION_TIMEOUT: a transaction that is stuck, or just slow.
TimesOut(c) ==
  /\ call[c].pc = "wait" /\ GoTo(c, "elapsed")
  /\ \/ Stuck(call[c].nonce) /\ UNCHANGED faults
     \/ Fault
  /\ UNCHANGED <<nonce, nodeVars, lost>>

-----------------------------------------------------------------------------
(* The parachain.                                                          *)

Include ==
  /\ Pooled(next) /\ next' = next + 1
  /\ UNCHANGED <<processVars, final, pool, applied, lost, faults>>

\* Another chain becomes the best; what is not on it is in the pool again.
Fork ==
  /\ final < next /\ next' = final /\ Fault
  /\ UNCHANGED <<processVars, final, pool, applied, lost>>

Watched(tx) == call[tx.call].pc = "wait" /\ call[tx.call].nonce = tx.nonce

Notify(tx, pc) == IF Watched(tx) THEN GoTo(tx.call, pc) ELSE UNCHANGED call

\* A transaction is final, and what waits for it continues: with success, or as
\* the block is not found (BlockHashNotFound, "apparent fork"), or as the
\* call is refused on chain.
Finalize ==
  /\ final < next /\ final' = final + 1
  /\ \E tx \in pool :
       /\ tx.nonce = final /\ pool' = pool \ {tx}
       /\ \/ Notify(tx, "ok") /\ UNCHANGED faults
          \/ Watched(tx) /\ GoTo(tx.call, "refresh") /\ Fault
       /\ applied' = [applied EXCEPT ![tx.call] = Append(@, tx.value)]
  /\ UNCHANGED <<nonce, next, lost>>

DispatchFails ==
  /\ final < next /\ final' = final + 1
  /\ \E tx \in pool :
       /\ tx.nonce = final /\ pool' = pool \ {tx}
       /\ Notify(tx, "err") /\ Fault
  /\ UNCHANGED <<nonce, next, applied, lost>>

-----------------------------------------------------------------------------

Proceed(c) == TakeNonce(c) \/ Submit(c) \/ Refused(c) \/ RefreshNonce(c)

SignerStep == \E c \in Calls : Proceed(c) \/ SubmitFails(c) \/ TimesOut(c)

Chain == Include \/ Finalize

\* Mutant: calls go on in the next round.
KeepCalls == nonce' = 0 /\ UNCHANGED call

\* The process ends: its calls are lost, its transactions are not.
Forget == nonce' = 0 /\ call' = NoCalls

=============================================================================
