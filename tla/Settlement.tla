----------------------------- MODULE Settlement -----------------------------
(***************************************************************************)
(* What the vault promises for its redeem and replace requests, whatever   *)
(* of it runs: a request is paid once, while it is pending, and is then    *)
(* executed with its payment or cancelled (vault/src/execution.rs: Request *)
(* with pay_and_execute, and execute_open_requests).                       *)
(*                                                                         *)
(* Requests may be released from the promise to be paid once and in time;  *)
(* also they are executed only with a payment.                             *)
(***************************************************************************)
EXTENDS Naturals, Sequences

CONSTANT Requests

VARIABLES
  status,          \* of every request on the parachain
  paid,            \* the requests paid for, in the order of the payments
  released         \* the requests that may be paid again, or too late

vars == <<status, paid, released>>

IsPaid(r) == \E i \in DOMAIN paid : paid[i] = r

Init == status = [r \in Requests |-> "None"] /\ paid = <<>> /\ released = {}

Settle(r, s) == status' = [status EXCEPT ![r] = s] /\ UNCHANGED <<paid, released>>

Open(r) == status[r] = "None" /\ Settle(r, "Pending")

Pay(r) ==
  /\ (status[r] = "Pending" /\ ~IsPaid(r)) \/ r \in released
  /\ paid' = Append(paid, r) /\ UNCHANGED <<status, released>>

Execute(r) == status[r] = "Pending" /\ IsPaid(r) /\ Settle(r, "Executed")

Cancel(r) == status[r] = "Pending" /\ Settle(r, "Cancelled")

Release ==
  /\ released' \in SUBSET Requests /\ released \subseteq released'
  /\ UNCHANGED <<status, paid>>

Next == Release \/ \E r \in Requests : Open(r) \/ Pay(r) \/ Execute(r) \/ Cancel(r)

Spec == Init /\ [][Next]_vars

=============================================================================
