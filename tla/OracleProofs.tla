---------------------------- MODULE OracleProofs ----------------------------
(***************************************************************************)
(* Every round of the oracle reaches the chain, and no value replaces a    *)
(* newer one while no submission is lost; every route that leads from one  *)
(* currency to another gives their rate: for any number of currencies,     *)
(* rounds and faults.                                                      *)
(***************************************************************************)
EXTENDS Oracle, TLAPS, FiniteSetTheorems

-----------------------------------------------------------------------------
(* The inductive invariant.                                                *)

Phases == {"config", "invalid", "fees", "prices", "connect", "submit", "sleep", "ended"}

ShapeInv ==
  /\ phase \in Phases /\ round \in 0..MaxRounds /\ config \in Configs
  /\ {nonce, final, next} \subseteq Nat /\ final <= next /\ lost \in BOOLEAN
  /\ call \in [Calls -> [pc : Pcs, nonce : Nat, value : 0..round]]
  /\ pool \subseteq [nonce : Nat, call : Calls, value : 1..round]
  /\ applied \in [Calls -> Seq(1..round)]

\* Transactions of one account have a nonce each, and the best chain no gap.
PoolInv ==
  /\ \A tx \in pool : tx.nonce >= final
  /\ \A tx, other \in pool : tx.nonce = other.nonce => tx = other
  /\ \A n \in final..next - 1 : Pooled(n)

\* Only in the middle of a round are there calls, with the values of the round.
\* Without a fee estimate there is nothing to submit, and that has succeeded.
NoFee(c) == c = Fee /\ ~config.fees

CallInv ==
  /\ phase # "submit" => call = NoCalls
  /\ phase \in {"connect", "submit", "sleep"} => round > 0
  /\ phase = "submit" => \A c \in Calls :
       IF NoFee(c) THEN call[c].pc = "ok"
       ELSE call[c].pc # "idle" /\ call[c].value = round

\* What a call waits for has its value.  A value that succeeded is on chain.
OnChain(c) == NoFee(c) \/ round \in Range(applied[c])

FedInv ==
  /\ \A tx \in pool : Watched(tx) => tx.value = call[tx.call].value
  /\ \A c \in Calls : call[c].pc = "ok" => OnChain(c)
  /\ phase = "sleep" => \A c \in Calls : OnChain(c)

\* A submission for every nonce that was taken is in the pool or on its way.
Taken(n) == Pooled(n) \/ Submitting(n)

GapInv ==
  ~lost =>
    /\ \A n \in final..nonce - 1 : Taken(n)
    /\ \A c \in Calls : call[c].pc = "submit" => \A n \in final..call[c].nonce - 1 : Taken(n)
    /\ \A tx \in pool : \A n \in final..tx.nonce - 1 : Taken(n)

\* In the order of their nonces, values only grow, from what is on chain already:
\* what overtakes a submission is of the same round.
OrderInv ==
  ~lost =>
    /\ \A c \in Calls : \A tx \in pool :
         call[c].pc = "submit" /\ ~Pooled(call[c].nonce)
           /\ final <= call[c].nonce /\ call[c].nonce < tx.nonce => tx.value = round
    /\ \A tx, other \in pool :
         tx.call = other.call /\ tx.nonce < other.nonce => tx.value <= other.value
    /\ \A tx \in pool : applied[tx.call] # <<>> => Last(applied[tx.call]) <= tx.value

IInv == ShapeInv /\ PoolInv /\ CallInv /\ FedInv /\ GapInv /\ OrderInv

-----------------------------------------------------------------------------
(* Facts of the records and the sequences.                                 *)

LEMMA FeeIsCall == Fee \in Calls /\ \A c \in Calls : c # Fee => c \in Prices
BY OracleAssumption DEF Prices

LEMMA NoCallsAre == NoCalls = [c \in Calls |-> Idle] /\ \A c \in Calls : NoCalls[c].pc = "idle"
BY DEF NoCalls, Idle

LEMMA CalledIs ==
  ASSUME NEW n \in Nat, NEW v \in 0..n
  PROVE  /\ Called(v) \in [pc : Pcs, nonce : Nat, value : 0..n]
         /\ Called(v).pc = "take" /\ Called(v).value = v
BY DEF Called, Idle, Pcs

\* What is appended is last, and what was there stays.
LEMMA AppendedIs ==
  ASSUME NEW S, NEW s \in Seq(S), NEW v \in S
  PROVE  /\ Append(s, v) \in Seq(S) /\ Append(s, v) # <<>>
         /\ Last(Append(s, v)) = v
         /\ Range(Append(s, v)) = Range(s) \cup {v}
<1>1. Append(s, v) \in Seq(S) /\ Len(Append(s, v)) = Len(s) + 1 /\ Len(s) \in Nat
  OBVIOUS
<1>2. Append(s, v)[Len(s) + 1] = v
  OBVIOUS
<1>3. \A i \in 1..Len(s) : Append(s, v)[i] = s[i]
  OBVIOUS
<1>4. Last(Append(s, v)) = v
  BY <1>1, <1>2 DEF Last
<1>5. DOMAIN s = 1..Len(s) /\ DOMAIN Append(s, v) = 1..Len(s) + 1
  BY <1>1
<1>6. Range(Append(s, v)) = Range(s) \cup {v}
  <2>1. ASSUME NEW x \in Range(Append(s, v))
        PROVE  x \in Range(s) \cup {v}
    <3>1. PICK i \in 1..Len(s) + 1 : x = Append(s, v)[i]
      BY <1>5, <2>1 DEF Range
    <3>2. CASE i = Len(s) + 1
      BY <1>2, <3>1, <3>2
    <3>3. CASE i \in 1..Len(s)
      BY <1>3, <1>5, <3>1, <3>3 DEF Range
    <3> QED BY <1>1, <3>1, <3>2, <3>3
  <2>2. ASSUME NEW x \in Range(s)
        PROVE  x \in Range(Append(s, v))
    <3>1. PICK i \in 1..Len(s) : x = s[i]
      BY <1>5, <2>2 DEF Range
    <3>2. i \in 1..Len(s) + 1 /\ Append(s, v)[i] = x
      BY <1>1, <1>3, <3>1
    <3> QED BY <1>5, <3>2 DEF Range
  <2>3. v \in Range(Append(s, v))
    <3>1. Len(s) + 1 \in 1..Len(s) + 1
      BY <1>1
    <3> QED BY <1>2, <1>5, <3>1 DEF Range
  <2> QED BY <2>1, <2>2, <2>3
<1>7. Append(s, v) # <<>>
  BY <1>1
<1> QED BY <1>1, <1>4, <1>6, <1>7

LEMMA LastIs ==
  ASSUME NEW S, NEW s \in Seq(S), s # <<>>
  PROVE  Last(s) \in S
<1>1. Len(s) \in Nat /\ Len(s) # 0 /\ s \in [1..Len(s) -> S]
  OBVIOUS
<1>2. Len(s) \in 1..Len(s)
  BY <1>1
<1> QED BY <1>1, <1>2 DEF Last

\* Before the round counts on, what is typed stays so.
LEMMA ShapeGrows ==
  ASSUME NEW m \in Nat, NEW n \in Nat, m <= n
  PROVE  /\ 0..m \subseteq 0..n /\ 1..m \subseteq 1..n
         /\ Seq(1..m) \subseteq Seq(1..n)
         /\ [nonce : Nat, call : Calls, value : 1..m] \subseteq [nonce : Nat, call : Calls, value : 1..n]
<1>1. 0..m \subseteq 0..n /\ 1..m \subseteq 1..n
  OBVIOUS
<1>2. ASSUME NEW s \in Seq(1..m)
      PROVE  s \in Seq(1..n)
  BY <1>1
<1> QED BY <1>1, <1>2

-----------------------------------------------------------------------------
(* Steps of one call.                                                      *)

CallRecords == [pc : Pcs, nonce : Nat, value : 0..round]

LEMMA GoToIs ==
  ASSUME ShapeInv, NEW c \in Calls, NEW pc \in Pcs, GoTo(c, pc), UNCHANGED round
  PROVE  /\ call' \in [Calls -> CallRecords'] /\ call'[c].pc = pc
         /\ call'[c].nonce = call[c].nonce /\ call'[c].value = call[c].value
         /\ \A d \in Calls : d # c => call'[d] = call[d]
BY DEF ShapeInv, GoTo, CallRecords

LEMMA CallRuns ==
  ASSUME IInv, NEW c \in Calls, call[c].pc \notin {"idle", "ok"}
  PROVE  phase = "submit" /\ ~NoFee(c) /\ call[c].value = round /\ round \in 1..MaxRounds
<1>1. phase = "submit"
  BY NoCallsAre DEF IInv, CallInv
<1>2. round > 0 /\ round \in 0..MaxRounds
  BY <1>1 DEF IInv, CallInv, ShapeInv
<1> QED BY <1>1, <1>2, OracleAssumption DEF IInv, CallInv

\* A call that does not send anything goes on or gives up.  What it had to submit
\* is lost, or the node knows its nonce.
LEMMA CallMoves ==
  ASSUME IInv, NEW c \in Calls, call[c].pc \in {"submit", "refresh", "wait"},
         NEW pc \in {"take", "refresh", "err", "elapsed"}, GoTo(c, pc),
         nonce' \in {nonce, 0, next}, lost' \in BOOLEAN, lost => lost',
         call[c].pc = "submit" /\ ~lost' /\ final <= call[c].nonce => Pooled(call[c].nonce),
         UNCHANGED <<final, next, pool, applied, oracleVars>>
  PROVE  IInv'
<1>1. ShapeInv /\ PoolInv /\ CallInv /\ FedInv /\ GapInv /\ OrderInv
  BY DEF IInv
<1>2. phase = "submit" /\ ~NoFee(c) /\ call[c].value = round
  BY CallRuns
<1>3. UNCHANGED <<config, phase, round, quote>>
  BY DEF oracleVars
<1>4. /\ call' \in [Calls -> CallRecords'] /\ call'[c].pc = pc
      /\ call'[c].nonce = call[c].nonce /\ call'[c].value = call[c].value
      /\ \A d \in Calls : d # c => call'[d] = call[d]
  BY <1>1, <1>3, GoToIs DEF Pcs
<1>5. ShapeInv'
  BY <1>1, <1>3, <1>4 DEF ShapeInv, CallRecords
<1>6. PoolInv'
  BY <1>1 DEF PoolInv, Pooled
<1>7. CallInv'
  BY <1>1, <1>2, <1>3, <1>4 DEF CallInv, NoFee
<1>8. FedInv'
  <2>1. \A tx \in pool : Watched(tx)' => Watched(tx)
    BY <1>1, <1>4 DEF Watched, ShapeInv
  <2>2. \A d \in Calls : OnChain(d)' = OnChain(d)
    BY <1>3 DEF OnChain, NoFee
  <2> QED BY <1>1, <1>2, <1>3, <1>4, <2>1, <2>2 DEF FedInv, ShapeInv
<1>9. ASSUME ~lost'
      PROVE  \A n \in Nat : n >= final /\ Taken(n) => Taken(n)'
  <2> SUFFICES ASSUME NEW n \in Nat, n >= final, Taken(n)
               PROVE  Taken(n)'
    OBVIOUS
  <2>1. CASE Pooled(n)
    BY <2>1 DEF Taken, Pooled
  <2>2. CASE Submitting(n)
    <3>1. PICK d \in Calls : call[d].pc = "submit" /\ call[d].nonce = n
      BY <2>2 DEF Submitting
    <3>2. CASE d = c
      BY <1>9, <3>1, <3>2 DEF Taken, Pooled
    <3>3. CASE d # c
      BY <1>4, <3>1, <3>3 DEF Taken, Submitting
    <3> QED BY <3>2, <3>3
  <2> QED BY <2>1, <2>2 DEF Taken
<1>10. GapInv'
  <2> SUFFICES ASSUME ~lost'
               PROVE  /\ \A n \in final..nonce' - 1 : Taken(n)'
                      /\ \A d \in Calls : call'[d].pc = "submit" =>
                           \A n \in final..call'[d].nonce - 1 : Taken(n)'
                      /\ \A tx \in pool : \A n \in final..tx.nonce - 1 : Taken(n)'
    BY DEF GapInv
  <2>1. final \in Nat /\ next \in Nat /\ nonce \in Nat /\ nonce' \in Nat
    BY <1>1 DEF ShapeInv
  <2>2. \A n \in final..next - 1 : Taken(n)
    BY <1>1 DEF PoolInv, Taken
  <2>3. \A n \in final..nonce - 1 : Taken(n)
    BY <1>1 DEF GapInv
  <2>4. ASSUME NEW top \in {nonce, 0, next}, NEW n \in final..top - 1
        PROVE  n \in Nat /\ n >= final /\ Taken(n)
    <3>1. CASE top = nonce
      BY <2>1, <2>3, <2>4, <3>1
    <3>2. CASE top = 0
      BY <2>1, <2>4, <3>2
    <3>3. CASE top = next
      BY <2>1, <2>2, <2>4, <3>3
    <3> QED BY <2>4, <3>1, <3>2, <3>3
  <2>5. ASSUME NEW d \in Calls, call'[d].pc = "submit", NEW n \in final..call'[d].nonce - 1
        PROVE  n \in Nat /\ n >= final /\ Taken(n)
    <3>1. d # c
      BY <1>4, <2>5
    <3>2. call'[d] = call[d]
      BY <1>4, <3>1
    <3> QED BY <1>1, <2>1, <2>5, <3>2 DEF GapInv
  <2>6. ASSUME NEW tx \in pool, NEW n \in final..tx.nonce - 1
        PROVE  n \in Nat /\ n >= final /\ Taken(n)
    BY <1>1, <2>1, <2>6 DEF GapInv
  <2> QED BY <1>9, <2>4, <2>5, <2>6
<1>11. OrderInv'
  <2>1. \A d \in Calls : call'[d].pc = "submit" => call'[d] = call[d]
    BY <1>4
  <2>2. \A n : Pooled(n)' = Pooled(n)
    BY DEF Pooled
  <2> QED BY <1>1, <1>3, <2>1, <2>2 DEF OrderInv
<1> QED BY <1>5, <1>6, <1>7, <1>8, <1>10, <1>11 DEF IInv

\* A transaction reaches the pool, and its call waits for it, or has lost the answer.
LEMMA Delivered ==
  ASSUME IInv, NEW c \in Calls, call[c].pc = "submit", NEW pc \in {"wait", "err"}, GoTo(c, pc),
         ~Stale(call[c].nonce), ~Pooled(call[c].nonce), pool' = pool \cup {Transaction(c)},
         UNCHANGED <<nonce, final, next, applied, lost, oracleVars>>
  PROVE  IInv'
<1>1. ShapeInv /\ PoolInv /\ CallInv /\ FedInv /\ GapInv /\ OrderInv
  BY DEF IInv
<1>2. phase = "submit" /\ ~NoFee(c) /\ call[c].value = round /\ round \in 1..MaxRounds
  BY CallRuns
<1>3. UNCHANGED <<config, phase, round, quote>>
  BY DEF oracleVars
<1>4. /\ call' \in [Calls -> CallRecords'] /\ call'[c].pc = pc
      /\ call'[c].nonce = call[c].nonce /\ call'[c].value = call[c].value
      /\ \A d \in Calls : d # c => call'[d] = call[d]
  BY <1>1, <1>3, GoToIs DEF Pcs
<1> DEFINE new == Transaction(c)
           n == call[c].nonce
<1>5. /\ new.nonce = n /\ new.call = c /\ new.value = round
      /\ n \in Nat /\ n >= next /\ n >= final
      /\ new \in [nonce : Nat, call : Calls, value : 1..round]
  <2>1. n \in Nat /\ next \in Nat /\ final \in Nat /\ final <= next /\ ~(n < next)
    BY <1>1 DEF ShapeInv, Stale
  <2>2. round \in 1..round /\ new = [nonce |-> n, call |-> c, value |-> round]
    BY <1>2, OracleAssumption DEF Transaction
  <2> QED BY <2>1, <2>2
<1> HIDE DEF new
<1>6. new \notin pool /\ \A tx \in pool : tx.nonce # n
  BY <1>5 DEF Pooled
<1>7. ShapeInv'
  BY <1>1, <1>3, <1>4, <1>5 DEF ShapeInv, CallRecords, new
<1>8. \A m : Pooled(m) => Pooled(m)'
  BY DEF Pooled
<1>9. PoolInv'
  BY <1>1, <1>5, <1>6, <1>8 DEF PoolInv, new
<1>10. CallInv'
  BY <1>1, <1>2, <1>3, <1>4 DEF CallInv, NoFee
<1>11. FedInv'
  <2>1. \A tx \in pool : Watched(tx)' => Watched(tx)
    BY <1>1, <1>4, <1>6 DEF Watched, ShapeInv
  <2>2. \A d \in Calls : OnChain(d)' = OnChain(d)
    BY <1>3 DEF OnChain, NoFee
  <2>3. ASSUME NEW tx \in pool', Watched(tx)'
        PROVE  tx.value = call'[tx.call].value
    <3>1. CASE tx = new
      BY <1>2, <1>4, <1>5, <3>1
    <3>2. CASE tx \in pool
      BY <1>1, <1>4, <2>1, <2>3, <3>2 DEF FedInv, ShapeInv
    <3> QED BY <3>1, <3>2 DEF new
  <2>4. ASSUME NEW d \in Calls, call'[d].pc = "ok"
        PROVE  OnChain(d)
    BY <1>1, <1>4, <2>4 DEF FedInv
  <2> QED BY <1>2, <1>3, <2>2, <2>3, <2>4 DEF FedInv
<1>12. \A m : Taken(m) => Taken(m)'
  <2> SUFFICES ASSUME NEW m, Taken(m)
               PROVE  Taken(m)'
    OBVIOUS
  <2>1. CASE Pooled(m)
    BY <1>8, <2>1 DEF Taken
  <2>2. CASE Submitting(m)
    <3>1. PICK d \in Calls : call[d].pc = "submit" /\ call[d].nonce = m
      BY <2>2 DEF Submitting
    <3>2. CASE d = c
      BY <1>5, <3>1, <3>2 DEF Taken, Pooled, new
    <3>3. CASE d # c
      BY <1>4, <3>1, <3>3 DEF Taken, Submitting
    <3> QED BY <3>2, <3>3
  <2> QED BY <2>1, <2>2 DEF Taken
<1>13. GapInv'
  <2> SUFFICES ASSUME ~lost
               PROVE  /\ \A m \in final..nonce - 1 : Taken(m)'
                      /\ \A d \in Calls : call'[d].pc = "submit" =>
                           \A m \in final..call'[d].nonce - 1 : Taken(m)'
                      /\ \A tx \in pool' : \A m \in final..tx.nonce - 1 : Taken(m)'
    BY DEF GapInv
  <2>1. \A m \in final..n - 1 : Taken(m)
    BY <1>1 DEF GapInv
  <2>2. \A tx \in pool' : tx = new \/ tx \in pool
    BY DEF new
  <2>3. \A d \in Calls : call'[d].pc = "submit" => call'[d] = call[d]
    BY <1>4
  <2>4. \A tx \in pool' : \A m \in final..tx.nonce - 1 : Taken(m)
    BY <1>1, <1>5, <2>1, <2>2 DEF GapInv
  <2> QED BY <1>1, <1>12, <2>3, <2>4 DEF GapInv
<1>14. OrderInv'
  <2> SUFFICES ASSUME ~lost
               PROVE  /\ \A d \in Calls : \A tx \in pool' :
                           call'[d].pc = "submit" /\ (\A other \in pool' : other.nonce # call'[d].nonce)
                             /\ final <= call'[d].nonce /\ call'[d].nonce < tx.nonce
                               => tx.value = round
                      /\ \A tx, other \in pool' :
                           tx.call = other.call /\ tx.nonce < other.nonce => tx.value <= other.value
                      /\ \A tx \in pool' :
                           applied[tx.call] # <<>> => Last(applied[tx.call]) <= tx.value
    BY <1>3 DEF OrderInv, Pooled
  <2>1. \A tx \in pool' : tx = new \/ tx \in pool
    BY DEF new
  <2>2. \A d \in Calls : call'[d].pc = "submit" => call'[d] = call[d]
    BY <1>4
  <2>3. ASSUME NEW d \in Calls, NEW tx \in pool', call'[d].pc = "submit",
               \A other \in pool' : other.nonce # call'[d].nonce, final <= call'[d].nonce, call'[d].nonce < tx.nonce
        PROVE  tx.value = round
    <3>1. ~Pooled(call[d].nonce)
      BY <2>2, <2>3 DEF Pooled
    <3> QED BY <1>1, <1>5, <2>1, <2>2, <2>3, <3>1 DEF OrderInv
  <2>4. \A tx \in pool : n < tx.nonce => tx.value = round
    BY <1>1, <1>5 DEF OrderInv
  <2>5. \A tx \in pool : tx.value \in 1..round /\ tx.nonce \in Nat
    BY <1>1 DEF ShapeInv
  <2>6. round \in Nat
    BY <1>2, OracleAssumption
  <2>7. ASSUME NEW tx \in pool', NEW other \in pool', tx.call = other.call, tx.nonce < other.nonce
        PROVE  tx.value <= other.value
    <3>1. CASE tx = new /\ other = new
      BY <1>5, <2>6, <3>1
    <3>2. CASE tx = new /\ other \in pool
      BY <1>5, <2>4, <2>6, <2>7, <3>2
    <3>3. CASE tx \in pool /\ other = new
      BY <1>5, <2>5, <2>6, <3>3
    <3>4. CASE tx \in pool /\ other \in pool
      BY <1>1, <2>7, <3>4 DEF OrderInv
    <3> QED BY <2>1, <3>1, <3>2, <3>3, <3>4
  <2>8. applied[c] # <<>> => Last(applied[c]) <= round
    <3>1. SUFFICES ASSUME applied[c] # <<>>
                   PROVE  Last(applied[c]) \in 1..round
      BY <2>6
    <3>2. applied[c] \in Seq(1..round)
      BY <1>1 DEF ShapeInv
    <3> QED BY <3>1, <3>2, LastIs
  <2>9. \A tx \in pool' : applied[tx.call] # <<>> => Last(applied[tx.call]) <= tx.value
    BY <1>1, <1>5, <2>1, <2>8 DEF OrderInv
  <2> QED BY <2>3, <2>7, <2>9
<1> QED BY <1>7, <1>9, <1>10, <1>11, <1>13, <1>14 DEF IInv

LEMMA SignerStepInv ==
  ASSUME IInv, NEW c \in Calls, UNCHANGED oracleVars,
         Submit(c) \/ Refused(c) \/ SubmitFails(c) \/ RefreshNonce(c) \/ TimesOut(c)
  PROVE  IInv'
<1>1. ShapeInv /\ PoolInv
  BY DEF IInv
<1>2. lost \in BOOLEAN /\ final \in Nat /\ next \in Nat /\ call[c].nonce \in Nat
  BY <1>1 DEF ShapeInv
<1>3. CASE Submit(c)
  BY <1>3, Delivered DEF Submit
<1>4. CASE Refused(c)
  <2>1. final <= call[c].nonce => Pooled(call[c].nonce)
    <3>1. SUFFICES ASSUME final <= call[c].nonce, Stale(call[c].nonce)
                   PROVE  Pooled(call[c].nonce)
      BY <1>4 DEF Refused
    <3>2. call[c].nonce \in final..next - 1
      BY <1>2, <3>1 DEF Stale
    <3> QED BY <1>1, <3>2 DEF PoolInv
  <2>2. /\ call[c].pc = "submit" /\ GoTo(c, "refresh")
        /\ UNCHANGED <<nonce, final, next, pool, applied, lost>>
    BY <1>4 DEF Refused, nodeVars
  <2> QED BY <1>2, <2>1, <2>2, CallMoves
<1>5. CASE SubmitFails(c)
  <2>1. /\ call[c].pc = "submit" /\ GoTo(c, "err")
        /\ UNCHANGED <<nonce, final, next, applied>>
        /\ \/ lost' = TRUE /\ UNCHANGED pool
           \/ /\ ~Stale(call[c].nonce) /\ ~Pooled(call[c].nonce)
              /\ pool' = pool \cup {Transaction(c)} /\ UNCHANGED lost
    BY <1>5 DEF SubmitFails
  <2>2. CASE lost' = TRUE /\ UNCHANGED pool
    BY <1>2, <2>1, <2>2, CallMoves
  <2>3. CASE UNCHANGED lost /\ pool' # pool
    BY <2>1, <2>3, Delivered
  <2>4. CASE UNCHANGED <<lost, pool>> /\ pool' = pool \cup {Transaction(c)} /\ ~Pooled(call[c].nonce)
    <3>1. Transaction(c) \in pool /\ Transaction(c).nonce = call[c].nonce
      BY <2>4 DEF Transaction
    <3> QED BY <2>4, <3>1 DEF Pooled
  <2> QED BY <2>1, <2>2, <2>3, <2>4
<1>6. CASE RefreshNonce(c)
  <2>1. /\ call[c].pc = "refresh" /\ nonce' \in {0, next}
        /\ GoTo(c, "take") \/ GoTo(c, "elapsed")
        /\ UNCHANGED <<final, next, pool, applied, lost>>
    BY <1>6 DEF RefreshNonce, RefreshedNonce, nodeVars
  <2> QED BY <1>2, <2>1, CallMoves
<1>7. CASE TimesOut(c)
  <2>1. /\ call[c].pc = "wait" /\ GoTo(c, "elapsed")
        /\ UNCHANGED <<nonce, final, next, pool, applied, lost>>
    BY <1>7 DEF TimesOut, nodeVars
  <2> QED BY <1>2, <2>1, CallMoves
<1> QED BY <1>3, <1>4, <1>5, <1>6, <1>7

\* Every nonce below the one that is taken is taken already.  If the call is not
\* the first to take it, what it may overtake is of its own round.
LEMMA TakeNonceInv ==
  ASSUME IInv, NEW c \in Calls, UNCHANGED oracleVars, TakeNonce(c)
  PROVE  IInv'
<1>1. ShapeInv /\ PoolInv /\ CallInv /\ FedInv /\ GapInv /\ OrderInv
  BY DEF IInv
<1>2. phase = "submit" /\ ~NoFee(c) /\ call[c].value = round /\ call[c].pc = "take"
  BY CallRuns DEF TakeNonce
<1>3. UNCHANGED <<config, phase, round, quote, final, next, pool, applied, lost>>
  BY DEF oracleVars, nodeVars, TakeNonce
<1>4. /\ call' \in [Calls -> CallRecords'] /\ call'[c].pc = "submit"
      /\ call'[c].nonce = nonce /\ call'[c].value = call[c].value
      /\ \A d \in Calls : d # c => call'[d] = call[d]
  BY <1>1, <1>3 DEF ShapeInv, CallRecords, Pcs, TakeNonce
<1>5. nonce \in Nat /\ nonce' = nonce + 1 /\ final \in Nat /\ \A tx \in pool : tx.nonce \in Nat
  BY <1>1 DEF ShapeInv, TakeNonce, Incremented
<1>6. ShapeInv'
  BY <1>1, <1>3, <1>4, <1>5 DEF ShapeInv, CallRecords
<1>7. PoolInv'
  BY <1>1, <1>3 DEF PoolInv, Pooled
<1>8. CallInv'
  BY <1>1, <1>2, <1>3, <1>4 DEF CallInv, NoFee
<1>9. FedInv'
  <2>1. \A tx \in pool : Watched(tx)' => Watched(tx)
    BY <1>1, <1>4 DEF Watched, ShapeInv
  <2>2. \A d \in Calls : OnChain(d)' = OnChain(d)
    BY <1>3 DEF OnChain, NoFee
  <2> QED BY <1>1, <1>2, <1>3, <1>4, <2>1, <2>2 DEF FedInv, ShapeInv
<1>10. \A n : Taken(n) => Taken(n)'
  <2> SUFFICES ASSUME NEW n, Taken(n)
               PROVE  Taken(n)'
    OBVIOUS
  <2>1. CASE Pooled(n)
    BY <1>3, <2>1 DEF Taken, Pooled
  <2>2. CASE Submitting(n)
    <3>1. PICK d \in Calls : call[d].pc = "submit" /\ call[d].nonce = n
      BY <2>2 DEF Submitting
    <3>2. d # c
      BY <1>2, <3>1
    <3> QED BY <1>4, <3>1, <3>2 DEF Taken, Submitting
  <2> QED BY <2>1, <2>2 DEF Taken
<1>11. GapInv'
  <2> SUFFICES ASSUME ~lost
               PROVE  /\ \A n \in final..nonce' - 1 : Taken(n)'
                      /\ \A d \in Calls : call'[d].pc = "submit" =>
                           \A n \in final..call'[d].nonce - 1 : Taken(n)'
                      /\ \A tx \in pool : \A n \in final..tx.nonce - 1 : Taken(n)'
    BY <1>3 DEF GapInv
  <2>1. \A n \in final..nonce - 1 : Taken(n)'
    BY <1>1, <1>10 DEF GapInv
  <2>2. ASSUME NEW n, n = nonce
        PROVE  Taken(n)'
    BY <1>4, <2>2 DEF Taken, Submitting
  <2>3. ASSUME NEW n \in final..nonce' - 1
        PROVE  Taken(n)'
    <3>1. n = nonce \/ n \in final..nonce - 1
      BY <1>5, <2>3
    <3> QED BY <2>1, <2>2, <3>1
  <2>4. ASSUME NEW d \in Calls, call'[d].pc = "submit", NEW n \in final..call'[d].nonce - 1
        PROVE  Taken(n)'
    <3>1. CASE d = c
      BY <1>4, <2>1, <2>4, <3>1
    <3>2. CASE d # c
      BY <1>1, <1>4, <1>10, <2>4, <3>2 DEF GapInv
    <3> QED BY <3>1, <3>2
  <2>5. \A tx \in pool : \A n \in final..tx.nonce - 1 : Taken(n)'
    BY <1>1, <1>10 DEF GapInv
  <2> QED BY <2>3, <2>4, <2>5
<1>12. OrderInv'
  <2> SUFFICES ASSUME ~lost, NEW d \in Calls, NEW tx \in pool, call'[d].pc = "submit",
                      \A other \in pool : other.nonce # call'[d].nonce,
                      final <= call'[d].nonce, call'[d].nonce < tx.nonce
               PROVE  tx.value = round
    BY <1>1, <1>3 DEF OrderInv, Pooled
  <2>1. CASE d # c
    BY <1>1, <1>4, <2>1 DEF OrderInv, Pooled
  <2>2. CASE d = c
    <3>1. nonce \in final..tx.nonce - 1 /\ ~Pooled(nonce)
      BY <1>4, <1>5, <2>2 DEF Pooled
    <3>2. Submitting(nonce)
      BY <1>1, <3>1 DEF GapInv, Taken
    <3>3. PICK e \in Calls : call[e].pc = "submit" /\ call[e].nonce = nonce
      BY <3>2 DEF Submitting
    <3> QED BY <1>1, <1>4, <2>2, <3>1, <3>3 DEF OrderInv
  <2> QED BY <2>1, <2>2
<1> QED BY <1>6, <1>7, <1>8, <1>9, <1>11, <1>12 DEF IInv

-----------------------------------------------------------------------------
(* Steps of the parachain.                                                 *)

LEMMA BestBlockMoves ==
  ASSUME IInv, UNCHANGED oracleVars, Include \/ Fork
  PROVE  IInv'
<1>1. ShapeInv /\ PoolInv /\ CallInv /\ FedInv /\ GapInv /\ OrderInv
  BY DEF IInv
<1>2. UNCHANGED <<config, phase, round, quote, nonce, call, final, pool, applied, lost>>
  BY DEF oracleVars, processVars, Include, Fork
<1>3. next' \in Nat /\ final <= next' /\ \A n \in final..next' - 1 : Pooled(n)
  <2>1. next \in Nat /\ final \in Nat /\ final <= next
    BY <1>1 DEF ShapeInv
  <2>2. CASE Include
    <3>1. next' = next + 1 /\ Pooled(next)
      BY <2>2 DEF Include
    <3>2. \A n \in final..(next + 1) - 1 : n = next \/ n \in final..next - 1
      BY <2>1
    <3>3. \A n \in final..(next + 1) - 1 : Pooled(n)
      BY <1>1, <3>1, <3>2 DEF PoolInv
    <3> QED BY <2>1, <3>1, <3>3
  <2>3. CASE Fork
    <3>1. next' = final
      BY <2>3 DEF Fork
    <3> QED BY <2>1, <3>1
  <2> QED BY <2>2, <2>3
<1>4. ShapeInv'
  BY <1>1, <1>2, <1>3 DEF ShapeInv
<1>5. PoolInv'
  BY <1>1, <1>2, <1>3 DEF PoolInv, Pooled
<1>6. CallInv'
  BY <1>1, <1>2 DEF CallInv, NoFee
<1>7. FedInv'
  BY <1>1, <1>2 DEF FedInv, Watched, OnChain, NoFee
<1>8. GapInv'
  BY <1>1, <1>2 DEF GapInv, Taken, Pooled, Submitting
<1>9. OrderInv'
  BY <1>1, <1>2 DEF OrderInv, Pooled
<1> QED BY <1>4, <1>5, <1>6, <1>7, <1>8, <1>9 DEF IInv

\* A transaction is final: what waits for it is told, and its value is on chain
\* after all older ones; or it had no effect, and its call failed.
LEMMA Finalized ==
  ASSUME IInv, UNCHANGED <<oracleVars, nonce, next, lost>>,
         final < next, final' = final + 1,
         NEW tx \in pool, tx.nonce = final, pool' = pool \ {tx},
         NEW pc \in {"ok", "refresh", "err"},
         IF Watched(tx) THEN GoTo(tx.call, pc) ELSE UNCHANGED call,
         \/ applied' = [applied EXCEPT ![tx.call] = Append(@, tx.value)]
         \/ UNCHANGED applied /\ pc # "ok"
  PROVE  IInv'
<1> DEFINE c == tx.call
<1>1. ShapeInv /\ PoolInv /\ CallInv /\ FedInv /\ GapInv /\ OrderInv
  BY DEF IInv
<1>2. UNCHANGED <<config, phase, round, quote>>
  BY DEF oracleVars
<1>3. /\ c \in Calls /\ tx.value \in 1..round /\ final \in Nat /\ next \in Nat /\ round \in Nat
      /\ \A other \in pool : other.nonce \in Nat /\ other.nonce >= final
  BY <1>1, OracleAssumption DEF ShapeInv, PoolInv
<1>4. \A other \in pool' : other \in pool /\ other.nonce # final /\ other.nonce >= final + 1
  BY <1>1, <1>3 DEF PoolInv
<1>5. \A n : n # final => Pooled(n)' = Pooled(n)
  BY DEF Pooled
<1>6. /\ call' \in [Calls -> CallRecords']
      /\ \A d \in Calls : d # c => call'[d] = call[d]
      /\ call'[c].nonce = call[c].nonce /\ call'[c].value = call[c].value
      /\ IF Watched(tx) THEN call[c].pc = "wait" /\ call'[c].pc = pc ELSE call' = call
  <2>1. CASE Watched(tx)
    BY <1>1, <1>2, <1>3, <2>1, GoToIs DEF Pcs, Watched
  <2>2. CASE ~Watched(tx)
    BY <1>1, <1>2, <2>2 DEF ShapeInv, CallRecords
  <2> QED BY <2>1, <2>2
<1>7. \A d \in Calls : call'[d].pc = "submit" => call'[d] = call[d]
  BY <1>6
<1>8. \A d \in Calls :
        /\ applied'[d] \in Seq(1..round) /\ Range(applied[d]) \subseteq Range(applied'[d])
        /\ d # c => applied'[d] = applied[d]
  <2>1. applied[c] \in Seq(1..round) /\ applied \in [Calls -> Seq(1..round)]
    BY <1>1, <1>3 DEF ShapeInv
  <2>2. /\ Append(applied[c], tx.value) \in Seq(1..round)
        /\ Range(Append(applied[c], tx.value)) = Range(applied[c]) \cup {tx.value}
    BY <1>3, <2>1, AppendedIs
  <2> QED BY <1>3, <2>1, <2>2
<1>9. ShapeInv'
  <2>1. applied' \in [Calls -> Seq(1..round)]
    BY <1>1, <1>3, <1>8 DEF ShapeInv
  <2>2. {nonce, final + 1, next} \subseteq Nat /\ final + 1 <= next
    BY <1>1, <1>3 DEF ShapeInv
  <2> QED BY <1>1, <1>2, <1>4, <1>6, <2>1, <2>2 DEF ShapeInv, CallRecords
<1>10. PoolInv'
  <2>1. \A n \in final + 1..next - 1 : n # final /\ n \in final..next - 1
    BY <1>3
  <2>2. \A n \in final + 1..next - 1 : Pooled(n)'
    BY <1>1, <1>5, <2>1 DEF PoolInv
  <2> QED BY <1>1, <1>4, <2>2 DEF PoolInv
<1>11. CallInv'
  <2>1. call' # call => phase = "submit" /\ ~NoFee(c)
    BY <1>3, <1>6, CallRuns
  <2> QED BY <1>1, <1>2, <1>3, <1>6, <2>1 DEF CallInv, NoFee
<1>12. FedInv'
  <2>1. \A d \in Calls : OnChain(d) => OnChain(d)'
    BY <1>2, <1>8 DEF OnChain, NoFee
  <2>2. \A other \in pool' : Watched(other)' => Watched(other)
    <3>1. \A other \in pool' : other.call \in Calls
      BY <1>1, <1>4 DEF ShapeInv
    <3> QED BY <1>3, <1>4, <1>6, <3>1 DEF Watched
  <2>3. ASSUME call'[c].pc = "ok"
        PROVE  OnChain(c)'
    <3>1. CASE Watched(tx)
      <4>1. pc = "ok" /\ ~NoFee(c) /\ call[c].value = round
        BY <1>3, <1>6, <2>3, <3>1, CallRuns
      <4>2. tx.value = round
        BY <1>1, <3>1, <4>1 DEF FedInv
      <4>3. applied[c] \in Seq(1..round) /\ applied'[c] = Append(applied[c], tx.value)
        BY <1>1, <1>3, <4>1 DEF ShapeInv
      <4>4. round \in Range(applied'[c])
        BY <1>3, <4>2, <4>3, AppendedIs
      <4> QED BY <1>2, <4>4 DEF OnChain
    <3>2. CASE ~Watched(tx)
      BY <1>1, <1>3, <1>6, <2>1, <2>3, <3>2 DEF FedInv
    <3> QED BY <3>1, <3>2
  <2>4. \A d \in Calls : call'[d].pc = "ok" => OnChain(d)'
    BY <1>1, <1>6, <2>1, <2>3 DEF FedInv
  <2>5. \A other \in pool' : call'[other.call].value = call[other.call].value
    BY <1>1, <1>3, <1>4, <1>6 DEF ShapeInv
  <2> QED BY <1>1, <1>2, <1>4, <2>1, <2>2, <2>4, <2>5 DEF FedInv
<1>13. \A n \in Nat : n # final /\ Taken(n) => Taken(n)'
  <2> SUFFICES ASSUME NEW n \in Nat, n # final, Taken(n)
               PROVE  Taken(n)'
    OBVIOUS
  <2>1. CASE Pooled(n)
    BY <1>5, <2>1 DEF Taken
  <2>2. CASE Submitting(n)
    <3>1. PICK d \in Calls : call[d].pc = "submit" /\ call[d].nonce = n
      BY <2>2 DEF Submitting
    <3>2. call'[d] = call[d]
      BY <1>6, <3>1
    <3> QED BY <3>1, <3>2 DEF Taken, Submitting
  <2> QED BY <2>1, <2>2 DEF Taken
<1>14. GapInv'
  <2> SUFFICES ASSUME ~lost
               PROVE  /\ \A n \in final + 1..nonce - 1 : Taken(n)'
                      /\ \A d \in Calls : call'[d].pc = "submit" =>
                           \A n \in final + 1..call'[d].nonce - 1 : Taken(n)'
                      /\ \A other \in pool' : \A n \in final + 1..other.nonce - 1 : Taken(n)'
    BY DEF GapInv
  <2>1. \A m \in Nat : \A n \in final + 1..m - 1 : n \in Nat /\ n # final /\ n \in final..m - 1
    BY <1>3
  <2>2. nonce \in Nat /\ \A d \in Calls : call[d].nonce \in Nat
    BY <1>1 DEF ShapeInv
  <2>3. \A n \in final + 1..nonce - 1 : Taken(n)'
    BY <1>1, <1>13, <2>1, <2>2 DEF GapInv
  <2>4. ASSUME NEW d \in Calls, call'[d].pc = "submit", NEW n \in final + 1..call'[d].nonce - 1
        PROVE  Taken(n)'
    BY <1>1, <1>7, <1>13, <2>1, <2>2, <2>4 DEF GapInv
  <2>5. ASSUME NEW other \in pool', NEW n \in final + 1..other.nonce - 1
        PROVE  Taken(n)'
    BY <1>1, <1>3, <1>4, <1>13, <2>1, <2>5 DEF GapInv
  <2> QED BY <2>3, <2>4, <2>5
<1>15. OrderInv'
  <2> SUFFICES ASSUME ~lost
               PROVE  /\ \A d \in Calls : \A other \in pool' :
                           call'[d].pc = "submit" /\ (\A o \in pool' : o.nonce # call'[d].nonce)
                             /\ final + 1 <= call'[d].nonce /\ call'[d].nonce < other.nonce
                               => other.value = round
                      /\ \A o, other \in pool' :
                           o.call = other.call /\ o.nonce < other.nonce => o.value <= other.value
                      /\ \A other \in pool' :
                           applied'[other.call] # <<>> => Last(applied'[other.call]) <= other.value
    BY <1>2 DEF OrderInv, Pooled
  <2>1. ASSUME NEW d \in Calls, NEW other \in pool', call'[d].pc = "submit",
               \A o \in pool' : o.nonce # call'[d].nonce,
               final + 1 <= call'[d].nonce, call'[d].nonce < other.nonce
        PROVE  other.value = round
    <3>1. call'[d] = call[d] /\ call[d].nonce \in Nat
      BY <1>1, <1>7, <2>1 DEF ShapeInv
    <3>2. final <= call[d].nonce /\ final # call[d].nonce
      BY <1>3, <2>1, <3>1
    <3>3. ~Pooled(call[d].nonce)
      BY <2>1, <3>1, <3>2 DEF Pooled
    <3> QED BY <1>1, <1>4, <2>1, <3>1, <3>2, <3>3 DEF OrderInv
  <2>2. ASSUME NEW other \in pool', applied'[other.call] # <<>>
        PROVE  Last(applied'[other.call]) <= other.value
    <3>1. other \in pool /\ other.call \in Calls
      BY <1>1, <1>4 DEF ShapeInv
    <3>2. CASE other.call = c /\ applied' = [applied EXCEPT ![c] = Append(@, tx.value)]
      <4>1. applied[c] \in Seq(1..round) /\ applied'[c] = Append(applied[c], tx.value)
        BY <1>1, <1>3, <3>2 DEF ShapeInv
      <4>2. Last(applied'[c]) = tx.value
        BY <1>3, <4>1, AppendedIs
      <4>3. tx.nonce < other.nonce
        BY <1>3, <1>4
      <4>4. tx.value <= other.value
        BY <1>1, <3>1, <3>2, <4>3 DEF OrderInv
      <4> QED BY <3>2, <4>2, <4>4
    <3>3. CASE applied'[other.call] = applied[other.call]
      BY <1>1, <2>2, <3>1, <3>3 DEF OrderInv
    <3> QED BY <1>8, <3>1, <3>2, <3>3
  <2>3. \A o, other \in pool' :
          o.call = other.call /\ o.nonce < other.nonce => o.value <= other.value
    BY <1>1, <1>4 DEF OrderInv
  <2> QED BY <2>1, <2>2, <2>3
<1> QED BY <1>9, <1>10, <1>11, <1>12, <1>14, <1>15 DEF IInv

LEMMA ParachainInv == ASSUME IInv, Parachain PROVE IInv'
<1>1. CASE Finalize
  <2>1. PICK tx \in pool :
          /\ tx.nonce = final /\ pool' = pool \ {tx}
          /\ \/ Notify(tx, "ok")
             \/ Watched(tx) /\ GoTo(tx.call, "refresh")
          /\ applied' = [applied EXCEPT ![tx.call] = Append(@, tx.value)]
    BY <1>1 DEF Finalize
  <2>2. UNCHANGED <<oracleVars, nonce, next, lost>> /\ final < next /\ final' = final + 1
    BY <1>1 DEF Finalize, Parachain
  <2>3. CASE Notify(tx, "ok")
    <3>1. IF Watched(tx) THEN GoTo(tx.call, "ok") ELSE UNCHANGED call
      BY <2>3 DEF Notify
    <3> QED BY <2>1, <2>2, <3>1, Finalized
  <2>4. CASE Watched(tx) /\ GoTo(tx.call, "refresh")
    BY <2>1, <2>2, <2>4, Finalized
  <2> QED BY <2>1, <2>3, <2>4
<1>2. CASE DispatchFails
  <2>1. PICK tx \in pool : tx.nonce = final /\ pool' = pool \ {tx} /\ Notify(tx, "err")
    BY <1>2 DEF DispatchFails
  <2>2. /\ UNCHANGED <<oracleVars, nonce, next, lost, applied>>
        /\ final < next /\ final' = final + 1
    BY <1>2 DEF DispatchFails, Parachain
  <2>3. IF Watched(tx) THEN GoTo(tx.call, "err") ELSE UNCHANGED call
    BY <2>1 DEF Notify
  <2> QED BY <2>1, <2>2, <2>3, Finalized
<1> QED BY <1>1, <1>2, BestBlockMoves DEF Parachain, Chain

-----------------------------------------------------------------------------
(* Steps of the process.                                                   *)

\* The process is between two rounds, or ends: nothing is on its way to the pool.
LEMMA MainMoves ==
  ASSUME IInv, \A c \in Calls : call[c].pc # "submit",
         call' = NoCalls, nonce' \in {nonce, 0}, UNCHANGED <<nodeVars, lost, config>>,
         phase' \in Phases \ {"submit"}, round' \in round..MaxRounds,
         phase' \in {"connect", "sleep"} => round' > 0,
         phase' = "sleep" => round' = round /\ \A c \in Calls : OnChain(c)
  PROVE  IInv'
<1>1. ShapeInv /\ PoolInv /\ CallInv /\ FedInv /\ GapInv /\ OrderInv
  BY DEF IInv
<1>2. UNCHANGED <<final, next, pool, applied>>
  BY DEF nodeVars
<1>3. \A c \in Calls : call'[c] = Idle /\ call'[c].pc = "idle"
  BY NoCallsAre
<1>4. round \in Nat /\ round' \in Nat /\ round <= round' /\ round' \in 0..MaxRounds
      /\ nonce \in Nat /\ nonce' \in Nat /\ final \in Nat
  BY <1>1, OracleAssumption DEF ShapeInv
<1>5. ShapeInv'
  <2>1. NoCalls \in [Calls -> [pc : Pcs, nonce : Nat, value : 0..round']]
    BY <1>4 DEF NoCalls, Idle, Pcs
  <2>2. pool \subseteq [nonce : Nat, call : Calls, value : 1..round']
    BY <1>1, <1>4, ShapeGrows DEF ShapeInv
  <2>3. applied \in [Calls -> Seq(1..round')]
    <3>1. Seq(1..round) \subseteq Seq(1..round') /\ applied \in [Calls -> Seq(1..round)]
      BY <1>1, <1>4, ShapeGrows DEF ShapeInv
    <3> QED BY <3>1
  <2>4. {nonce', final, next} \subseteq Nat /\ phase' \in Phases
    BY <1>1, <1>4 DEF ShapeInv
  <2> QED BY <1>1, <1>2, <1>4, <2>1, <2>2, <2>3, <2>4 DEF ShapeInv
<1>6. PoolInv'
  BY <1>1, <1>2 DEF PoolInv, Pooled
<1>7. CallInv'
  BY DEF CallInv
<1>8. FedInv'
  <2>1. \A tx \in pool : ~Watched(tx)'
    BY <1>1, <1>3 DEF Watched, ShapeInv
  <2>2. phase' = "sleep" => \A c \in Calls : OnChain(c)'
    BY <1>2 DEF OnChain, NoFee
  <2> QED BY <1>2, <1>3, <2>1, <2>2 DEF FedInv
<1>9. \A n : Taken(n) => Taken(n)'
  BY <1>2 DEF Taken, Pooled, Submitting
<1>10. GapInv'
  <2> SUFFICES ASSUME ~lost
               PROVE  /\ \A n \in final..nonce' - 1 : Taken(n)'
                      /\ \A tx \in pool : \A n \in final..tx.nonce - 1 : Taken(n)'
    BY <1>2, <1>3 DEF GapInv
  <2>1. ASSUME NEW top \in {nonce, 0}, NEW n \in final..top - 1
        PROVE  Taken(n)'
    <3>1. CASE top = nonce
      BY <1>1, <1>9, <2>1, <3>1 DEF GapInv
    <3>2. CASE top = 0
      BY <1>4, <2>1, <3>2
    <3> QED BY <2>1, <3>1, <3>2
  <2>2. \A tx \in pool : \A n \in final..tx.nonce - 1 : Taken(n)'
    BY <1>1, <1>9 DEF GapInv
  <2> QED BY <2>1, <2>2
<1>11. OrderInv'
  BY <1>1, <1>2, <1>3 DEF OrderInv, Pooled
<1> QED BY <1>5, <1>6, <1>7, <1>8, <1>10, <1>11 DEF IInv

LEMMA ConnectInv == ASSUME IInv, Connect PROVE IInv'
<1>1. ShapeInv /\ PoolInv /\ CallInv /\ FedInv /\ GapInv /\ OrderInv
  BY DEF IInv
<1>2. phase = "connect" /\ call = NoCalls /\ round \in 1..MaxRounds /\ round \in Nat
  BY <1>1, OracleAssumption DEF Connect, CallInv, ShapeInv
<1>3. \A c \in Calls : call[c].pc = "idle"
  BY <1>2, NoCallsAre
<1>4. CASE Fails
  <2>1. /\ phase' = "ended" /\ nonce' = 0 /\ call' = NoCalls
        /\ UNCHANGED <<nodeVars, lost, config, round>>
    BY <1>4 DEF Fails, Forget
  <2>2. round' \in round..MaxRounds /\ phase' \in Phases \ {"submit"}
    BY <1>2, <2>1, OracleAssumption DEF Phases
  <2> QED BY <1>3, <2>1, <2>2, MainMoves
<1>5. CASE ~Fails
  <2>1. /\ phase' = "submit" /\ nonce' = next
        /\ call' = [c \in Calls |-> IF c = Fee /\ ~config.fees THEN [Idle EXCEPT !.pc = "ok"]
                                    ELSE Called(round)]
        /\ UNCHANGED <<final, next, pool, applied, lost, config, round>>
    BY <1>5 DEF Connect, RefreshedNonce, nodeVars
  <2>2. \A c \in Calls :
          /\ call'[c] \in [pc : Pcs, nonce : Nat, value : 0..round]
          /\ IF NoFee(c) THEN call'[c].pc = "ok"
             ELSE call'[c].pc = "take" /\ call'[c].value = round
    <3>1. /\ Called(round) \in [pc : Pcs, nonce : Nat, value : 0..round]
          /\ Called(round).pc = "take" /\ Called(round).value = round
      BY <1>2, CalledIs
    <3>2. /\ [Idle EXCEPT !.pc = "ok"] \in [pc : Pcs, nonce : Nat, value : 0..round]
          /\ [Idle EXCEPT !.pc = "ok"].pc = "ok"
      BY <1>2 DEF Idle, Pcs
    <3> QED BY <2>1, <3>1, <3>2 DEF NoFee
  <2>3. \A c \in Calls : call'[c].pc \in {"ok", "take"} /\ (NoFee(c)' <=> NoFee(c))
    BY <2>1, <2>2 DEF NoFee
  <2>4. ShapeInv'
    BY <1>1, <2>1, <2>2 DEF ShapeInv, Phases
  <2>5. PoolInv'
    BY <1>1, <2>1 DEF PoolInv, Pooled
  <2>6. CallInv'
    BY <1>2, <2>1, <2>2, <2>3 DEF CallInv
  <2>7. FedInv'
    <3>1. \A tx \in pool : ~Watched(tx)'
      BY <1>1, <2>3 DEF Watched, ShapeInv
    <3> QED BY <2>1, <2>2, <2>3, <3>1 DEF FedInv, OnChain
  <2>8. \A n : Pooled(n) => Taken(n)'
    BY <2>1 DEF Taken, Pooled
  <2>9. \A n : Taken(n) => Pooled(n)
    BY <1>3 DEF Taken, Submitting
  <2>10. GapInv'
    <3> SUFFICES ASSUME ~lost
                 PROVE  /\ \A n \in final..next - 1 : Taken(n)'
                        /\ \A tx \in pool : \A n \in final..tx.nonce - 1 : Taken(n)'
      BY <2>1, <2>3 DEF GapInv
    <3>1. \A n \in final..next - 1 : Taken(n)'
      BY <1>1, <2>8 DEF PoolInv
    <3>2. \A tx \in pool : \A n \in final..tx.nonce - 1 : Taken(n)'
      BY <1>1, <2>8, <2>9 DEF GapInv
    <3> QED BY <3>1, <3>2
  <2>11. OrderInv'
    BY <1>1, <2>1, <2>3 DEF OrderInv, Pooled
  <2> QED BY <2>4, <2>5, <2>6, <2>7, <2>10, <2>11 DEF IInv
<1> QED BY <1>4, <1>5

LEMMA RetryInv ==
  ASSUME IInv, NEW C \in {{Fee}, Prices}, RetryTask(C)
  PROVE  IInv'
<1>1. ShapeInv /\ PoolInv /\ CallInv /\ FedInv /\ GapInv /\ OrderInv
  BY DEF IInv
<1>2. /\ phase = "submit" /\ C \subseteq Calls /\ round \in Nat /\ round \in 0..round
      /\ \A c \in C : call[c].pc \in {"ok", "err", "elapsed"} /\ ~NoFee(c)
  <2>1. phase = "submit" /\ Ended(C) /\ Failed(C)
    BY DEF RetryTask
  <2>2. C \subseteq Calls /\ (C = Prices => Fee \notin C)
    BY OracleAssumption DEF Prices
  <2>3. \A c \in C : ~NoFee(c)
    <3>1. CASE C = Prices
      BY <2>2, <3>1 DEF NoFee
    <3>2. CASE C = {Fee}
      BY <1>1, <2>1, <2>2, <3>2 DEF Failed, CallInv, NoFee
    <3> QED BY <3>1, <3>2
  <2>4. round \in Nat /\ round \in 0..round
    BY <1>1, OracleAssumption DEF ShapeInv
  <2> QED BY <2>1, <2>2, <2>3, <2>4 DEF Ended
<1>3. UNCHANGED <<nonce, final, next, pool, applied, lost, config, phase, round>>
  BY DEF RetryTask, nodeVars, oracleVars
<1>4. \A c \in Calls :
        /\ call'[c] \in [pc : Pcs, nonce : Nat, value : 0..round]
        /\ IF c \in C THEN call'[c].pc \in {"take", "elapsed"} /\ call'[c].value = round
           ELSE call'[c] = call[c]
  <2>1. /\ Called(round) \in [pc : Pcs, nonce : Nat, value : 0..round]
        /\ Called(round).pc = "take" /\ Called(round).value = round
    BY <1>2, CalledIs
  <2>2. \A c \in C :
          /\ [call[c] EXCEPT !.pc = "elapsed"] \in [pc : Pcs, nonce : Nat, value : 0..round]
          /\ [call[c] EXCEPT !.pc = "elapsed"].pc = "elapsed"
          /\ [call[c] EXCEPT !.pc = "elapsed"].value = round
    BY <1>1, <1>2 DEF ShapeInv, CallInv, Pcs
  <2>3. CASE call' = [c \in Calls |-> IF c \in C THEN Called(round) ELSE call[c]]
    BY <1>1, <1>2, <2>1, <2>3 DEF ShapeInv
  <2>4. CASE call' = [c \in Calls |-> IF c \in C THEN [call[c] EXCEPT !.pc = "elapsed"]
                                      ELSE call[c]]
    BY <1>1, <1>2, <2>2, <2>4 DEF ShapeInv
  <2> QED BY <2>3, <2>4 DEF RetryTask
<1>5. ShapeInv'
  <2>1. DOMAIN call' = Calls /\ call' = [c \in Calls |-> call'[c]]
    BY DEF RetryTask
  <2> QED BY <1>1, <1>3, <1>4, <2>1 DEF ShapeInv
<1>6. PoolInv'
  BY <1>1, <1>3 DEF PoolInv, Pooled
<1>7. CallInv'
  BY <1>1, <1>2, <1>3, <1>4 DEF CallInv, NoFee
<1>8. FedInv'
  <2>1. \A tx \in pool : Watched(tx)' => Watched(tx) /\ call'[tx.call] = call[tx.call]
    BY <1>1, <1>4 DEF Watched, ShapeInv
  <2>2. \A d \in Calls : call'[d].pc = "ok" => OnChain(d)'
    BY <1>1, <1>3, <1>4 DEF FedInv, OnChain, NoFee
  <2> QED BY <1>1, <1>2, <1>3, <2>1, <2>2 DEF FedInv
<1>9. \A c \in Calls : (call[c].pc = "submit" \/ call'[c].pc = "submit") => call'[c] = call[c]
  BY <1>2, <1>4
<1>10. \A n : Taken(n) => Taken(n)'
  <2>1. \A n : Submitting(n) => Submitting(n)'
    BY <1>9 DEF Submitting
  <2> QED BY <1>3, <2>1 DEF Taken, Pooled
<1>11. GapInv'
  BY <1>1, <1>3, <1>9, <1>10 DEF GapInv
<1>12. OrderInv'
  BY <1>1, <1>3, <1>9 DEF OrderInv, Pooled
<1> QED BY <1>5, <1>6, <1>7, <1>8, <1>11, <1>12 DEF IInv

LEMMA FailsInv ==
  ASSUME IInv, \A c \in Calls : call[c].pc # "submit", Fails
  PROVE  IInv'
<1>1. /\ phase' = "ended" /\ nonce' = 0 /\ call' = NoCalls
      /\ UNCHANGED <<nodeVars, lost, config, round>>
  BY DEF Fails, Forget
<1>2. round' \in round..MaxRounds /\ phase' \in Phases \ {"submit"}
  BY <1>1, OracleAssumption DEF Phases, IInv, ShapeInv
<1> QED BY <1>1, <1>2, MainMoves

LEMMA MainInv == ASSUME IInv, Main PROVE IInv'
<1>1. round \in 0..MaxRounds /\ MaxRounds \in Nat \ {0} /\ Calls = {Fee} \cup Prices
  BY OracleAssumption DEF IInv, ShapeInv, Prices
<1>2. ASSUME phase # "submit"
      PROVE  call = NoCalls /\ \A c \in Calls : call[c].pc # "submit"
  BY <1>2, NoCallsAre DEF IInv, CallInv
<1>3. CASE Validate
  <2>1. UNCHANGED <<nonce, call, nodeVars, lost, config, round>> /\ phase # "submit"
    BY <1>3 DEF Validate, signerVars, processVars
  <2>2. phase' \in Phases \ {"submit", "connect", "sleep"} /\ round' \in round..MaxRounds
    BY <1>1, <1>3, <2>1 DEF Validate, Phases
  <2> QED BY <1>2, <2>1, <2>2, MainMoves
<1>4. CASE GetFee
  <2>1. phase = "fees"
    BY <1>4 DEF GetFee
  <2>2. CASE Fails
    BY <1>2, <2>1, <2>2, FailsInv
  <2>3. CASE ~Fails
    <3>1. UNCHANGED <<nonce, call, nodeVars, lost, config, round>> /\ phase' = "prices"
      BY <1>4, <2>3 DEF GetFee, signerVars, processVars
    <3>2. phase' \in Phases \ {"submit", "connect", "sleep"} /\ round' \in round..MaxRounds
      BY <1>1, <3>1 DEF Phases
    <3> QED BY <1>2, <2>1, <3>1, <3>2, MainMoves
  <2> QED BY <2>2, <2>3
<1>5. CASE GetPrices
  <2>1. phase = "prices"
    BY <1>5 DEF GetPrices
  <2>2. CASE Fails
    BY <1>2, <2>1, <2>2, FailsInv
  <2>3. CASE ~Fails
    <3>1. /\ UNCHANGED <<nonce, call, nodeVars, lost, config>> /\ phase' = "connect"
          /\ round' = IF round < MaxRounds THEN round + 1 ELSE round
      BY <1>5, <2>3 DEF GetPrices, signerVars, processVars
    <3>2. round' \in round..MaxRounds /\ round' > 0
      BY <1>1, <3>1
    <3>3. phase' \in Phases \ {"submit", "sleep"}
      BY <3>1 DEF Phases
    <3> QED BY <1>2, <2>1, <3>1, <3>2, <3>3, MainMoves
  <2> QED BY <2>2, <2>3
<1>6. CASE EndRound
  <2>1. /\ phase = "submit" /\ nonce' = 0 /\ call' = NoCalls
        /\ UNCHANGED <<nodeVars, lost, config, round>>
        /\ phase' = IF Succeeded THEN "sleep" ELSE "ended"
    BY <1>6 DEF EndRound, Forget
  <2>2. \A c \in Calls : call[c].pc # "submit"
    BY <1>1, <1>6 DEF EndRound, Ended
  <2>3. phase' = "sleep" => \A c \in Calls : OnChain(c)
    BY <2>1 DEF Succeeded, IInv, FedInv
  <2>4. round' \in round..MaxRounds /\ round' > 0 /\ phase' \in Phases \ {"submit"}
    BY <1>1, <2>1 DEF Phases, IInv, CallInv
  <2> QED BY <2>1, <2>2, <2>3, <2>4, MainMoves
<1>7. CASE NextRound \/ Restart
  <2>1. /\ UNCHANGED <<nonce, call, nodeVars, lost, config, round>> /\ phase # "submit"
        /\ phase' \in {"fees", "config"}
    BY <1>7 DEF NextRound, Restart, signerVars, processVars
  <2>2. phase' \in Phases \ {"submit", "connect", "sleep"} /\ round' \in round..MaxRounds
    BY <1>1, <2>1 DEF Phases
  <2> QED BY <1>2, <2>1, <2>2, MainMoves
<1> QED BY <1>3, <1>4, <1>5, <1>6, <1>7, ConnectInv, RetryInv DEF Main, Retry

-----------------------------------------------------------------------------
(* The theorems.                                                           *)

LEMMA InitInv == Init => IInv
<1> SUFFICES ASSUME Init PROVE IInv
  OBVIOUS
<1> USE DEF Init, SignerInit
<1>1. ShapeInv
  <2>1. NoCalls \in [Calls -> [pc : Pcs, nonce : Nat, value : 0..round]]
    BY DEF NoCalls, Idle, Pcs
  <2>2. applied \in [Calls -> Seq(1..round)]
    OBVIOUS
  <2>3. pool \subseteq [nonce : Nat, call : Calls, value : 1..round]
    OBVIOUS
  <2>4. phase \in Phases /\ config \in Configs /\ lost \in BOOLEAN
    BY Zenon DEF Phases
  <2>7. {nonce, final, next} \subseteq Nat /\ final <= next
    OBVIOUS
  <2>6. round \in 0..MaxRounds
    BY OracleAssumption
  <2>5. call \in [Calls -> [pc : Pcs, nonce : Nat, value : 0..round]]
    BY <2>1
  <2> QED BY <2>2, <2>3, <2>4, <2>5, <2>6, <2>7 DEF ShapeInv
<1>2. PoolInv
  BY DEF PoolInv
<1>3. CallInv
  BY DEF CallInv
<1>4. FedInv
  BY NoCallsAre DEF FedInv
<1>5. GapInv
  BY NoCallsAre DEF GapInv
<1>6. OrderInv
  BY DEF OrderInv
<1> QED BY <1>1, <1>2, <1>3, <1>4, <1>5, <1>6 DEF IInv

LEMMA StutterInv == ASSUME IInv, UNCHANGED vars PROVE IInv'
<1>1. UNCHANGED <<nonce, call, final, next, pool, applied, lost, config, phase, round>>
  BY DEF vars, signerVars, processVars, nodeVars, oracleVars
<1>2. ShapeInv' /\ PoolInv' /\ CallInv' /\ FedInv'
  BY <1>1 DEF IInv, ShapeInv, PoolInv, CallInv, FedInv, Pooled, Watched, OnChain, NoFee
<1>3. GapInv' /\ OrderInv'
  BY <1>1 DEF IInv, GapInv, OrderInv, Pooled, Taken, Submitting
<1> QED BY <1>2, <1>3 DEF IInv

LEMMA StepInv == IInv /\ [Next]_vars => IInv'
<1> SUFFICES ASSUME IInv, [Next]_vars PROVE IInv'
  OBVIOUS
<1>1. ASSUME SignerStep, UNCHANGED oracleVars
      PROVE  IInv'
  BY <1>1, SignerStepInv, TakeNonceInv DEF SignerStep, Proceed
<1> QED BY <1>1, MainInv, ParachainInv, StutterInv DEF Next

THEOREM Inductive == Spec => []IInv
<1>1. Init => IInv
  BY InitInv
<1>2. IInv /\ [Next]_vars => IInv'
  BY StepInv
<1> QED BY <1>1, <1>2, PTL DEF Spec

\* The nonces that the account has used, has in the pool and has given to calls
\* stay in order: the pool holds one transaction for a nonce, none is final
\* twice, and the best block has no gap.
THEOREM OracleTypeCorrect == Spec => []TypeOK
<1>1. IInv => TypeOK
  <2> SUFFICES ASSUME IInv PROVE TypeOK
    OBVIOUS
  <2>1. \A c \in Calls : call[c].pc \in Pcs /\ call[c].value \in 0..round
    BY DEF IInv, ShapeInv
  <2>2. \A tx \in pool : tx.nonce >= final /\ tx.value \in 1..round
    BY DEF IInv, ShapeInv, PoolInv
  <2> QED BY <2>1, <2>2 DEF TypeOK, IInv, ShapeInv, PoolInv, CallInv, Phases
<1> QED BY <1>1, Inductive, PTL

\* What is appended in a step is the value of the transaction that is final, and
\* the last of its call by the order of the nonces.
THEOREM OracleMovesForward == Spec => RatesMoveForward
<1> DEFINE Forward == \A c \in Calls :
      ~lost /\ Len(applied[c]) > 0 /\ applied'[c] # applied[c]
        => Last(applied'[c]) >= Last(applied[c])
<1>1. ASSUME IInv, [Next]_vars
      PROVE  Forward
  <2>1. CASE Finalize
    <3>1. PICK tx \in pool : applied' = [applied EXCEPT ![tx.call] = Append(@, tx.value)]
      BY <2>1 DEF Finalize
    <3> SUFFICES ASSUME NEW c \in Calls, ~lost, Len(applied[c]) > 0, applied'[c] # applied[c]
                 PROVE  Last(applied'[c]) >= Last(applied[c])
      OBVIOUS
    <3>2. /\ tx.call \in Calls /\ tx.value \in 1..round /\ round \in Nat
          /\ applied \in [Calls -> Seq(1..round)]
      BY <1>1, OracleAssumption DEF IInv, ShapeInv
    <3>3. c = tx.call /\ applied'[c] = Append(applied[c], tx.value)
      BY <3>1, <3>2
    <3>4. Last(applied'[c]) = tx.value
      BY <3>2, <3>3, AppendedIs
    <3>5. applied[c] # <<>> /\ applied[c] \in Seq(1..round)
      BY <3>2
    <3>6. Last(applied[c]) <= tx.value /\ Last(applied[c]) \in 1..round
      BY <1>1, <3>3, <3>5, LastIs DEF IInv, OrderInv
    <3> QED BY <3>2, <3>4, <3>6
  <2>2. CASE ~Finalize
    <3>1. ASSUME NEW c \in Calls, Proceed(c) \/ SubmitFails(c) \/ TimesOut(c)
          PROVE  UNCHANGED applied
      BY <3>1 DEF Proceed, TakeNonce, Submit, Refused, RefreshNonce, SubmitFails, TimesOut, nodeVars
    <3>2. CASE Main
      BY <3>2 DEF Main, Validate, GetFee, GetPrices, Connect, Retry, RetryTask, EndRound,
                  NextRound, Restart, Fails, signerVars, nodeVars
    <3>3. CASE Parachain
      BY <2>2, <3>3 DEF Parachain, Chain, Include, Fork, DispatchFails
    <3>4. CASE SignerStep
      BY <3>1, <3>4 DEF SignerStep
    <3>5. CASE UNCHANGED vars
      BY <3>5 DEF vars, signerVars, nodeVars
    <3>6. Main \/ Parachain \/ SignerStep \/ UNCHANGED vars
      BY <1>1 DEF Next
    <3> QED BY <3>2, <3>3, <3>4, <3>5, <3>6
  <2> QED BY <2>1, <2>2
<1>2. Spec => [][Forward]_vars
  <2>1. IInv /\ [Next]_vars => [Forward]_vars
    BY <1>1
  <2> QED BY <2>1, Inductive, PTL DEF Spec
<1> QED BY <1>2 DEF RatesMoveForward

-----------------------------------------------------------------------------
(* Routes.                                                                 *)

\* The price of a pair by what the currencies are worth, and the same either way round.
At(worth, a, b) == [pair |-> Pair(a, b), price |-> worth[a.symbol] - worth[b.symbol]]
Priced(worth, a, b) == {At(worth, a, b), At(worth, b, a)}

LEMMA AtIs ==
  ASSUME NEW worth \in [Symbols -> Int], NEW a \in Currency, NEW b \in Currency
  PROVE  /\ At(worth, a, b).pair.base = a /\ At(worth, a, b).pair.quote = b
         /\ At(worth, a, b).price = worth[a.symbol] - worth[b.symbol]
         /\ {worth[a.symbol], worth[b.symbol]} \subseteq Int
         /\ invert(At(worth, a, b)) = At(worth, b, a)
<1>1. At(worth, a, b).pair.base = a /\ At(worth, a, b).pair.quote = b
  BY DEF At, Pair
<1>2. At(worth, a, b).price = worth[a.symbol] - worth[b.symbol]
  BY DEF At
<1>3. {worth[a.symbol], worth[b.symbol]} \subseteq Int
  BY DEF Currency
<1>4. -(worth[a.symbol] - worth[b.symbol]) = worth[b.symbol] - worth[a.symbol]
  BY <1>3
<1>5. invert(At(worth, a, b)) = At(worth, b, a)
  BY <1>1, <1>2, <1>4 DEF invert, At
<1> QED BY <1>1, <1>2, <1>3, <1>5

\* Two pairs with one currency in common reduce to the price of the others,
\* whichever way round either is.
LEMMA ReduceIs ==
  ASSUME NEW worth \in [Symbols -> Int],
         NEW a \in Currency, NEW b \in Currency, NEW c \in Currency,
         a # b, b # c, a # c,
         NEW p \in Priced(worth, a, b), NEW q \in Priced(worth, b, c)
  PROVE  reduce(p, q) = At(worth, a, c)
<1>1. Aligned(p, q) = <<At(worth, a, b), At(worth, b, c)>>
  <2>1. CASE p = At(worth, a, b) /\ q = At(worth, b, c)
    BY <2>1, AtIs DEF Aligned
  <2>2. CASE p = At(worth, a, b) /\ q = At(worth, c, b)
    BY <2>2, AtIs DEF Aligned
  <2>3. CASE p = At(worth, b, a) /\ q = At(worth, b, c)
    BY <2>3, AtIs DEF Aligned
  <2>4. CASE p = At(worth, b, a) /\ q = At(worth, c, b)
    BY <2>4, AtIs DEF Aligned
  <2> QED BY <2>1, <2>2, <2>3, <2>4 DEF Priced
<1>2. /\ At(worth, a, b).pair.base = a /\ At(worth, b, c).pair.quote = c
      /\ At(worth, a, b).price + At(worth, b, c).price = worth[a.symbol] - worth[c.symbol]
  BY AtIs
<1>3. reduce(p, q) = [pair |-> Pair(a, c), price |-> worth[a.symbol] - worth[c.symbol]]
  BY <1>1, <1>2 DEF reduce
<1> QED BY <1>3 DEF At

\* The reduction is what the recursion says; a route has three pairs at most.
LEMMA ReductionsAre ==
  ASSUME NEW n \in 1..3, NEW answers, DOMAIN answers = 1..n
  PROVE  /\ Reductions(answers)[1] = answers[1]
         /\ \A i \in 2..n : Reductions(answers)[i] = reduce(Reductions(answers)[i - 1], answers[i])
<1> DEFINE Def(g) == g = [i \in DOMAIN answers |->
                            IF i = 1 THEN answers[1] ELSE reduce(g[i - 1], answers[i])]
           two == reduce(answers[1], answers[2])
           three == reduce(two, answers[3])
           h == [i \in 1..n |-> IF i = 1 THEN answers[1] ELSE IF i = 2 THEN two ELSE three]
<1>1. Def(h)
  <2> SUFFICES ASSUME NEW i \in 1..n
               PROVE  h[i] = IF i = 1 THEN answers[1] ELSE reduce(h[i - 1], answers[i])
    OBVIOUS
  <2>1. i = 1 \/ i = 2 \/ i = 3
    OBVIOUS
  <2>2. i # 1 => i - 1 \in 1..n
    BY <2>1
  <2> HIDE DEF two, three
  <2>3. CASE i = 1
    BY <2>3
  <2>4. CASE i = 2
    <3>1. h[1] = answers[1] /\ h[2] = two
      BY <2>2, <2>4
    <3> QED BY <2>4, <3>1 DEF two
  <2>5. CASE i = 3
    <3>1. h[2] = two /\ h[3] = three
      BY <2>2, <2>5
    <3> QED BY <2>5, <3>1 DEF three
  <2> QED BY <2>1, <2>3, <2>4, <2>5
<1> DEFINE R == Reductions(answers)
<1>2. R = CHOOSE g : Def(g)
  BY DEF Reductions
<1> HIDE DEF h
<1>3. Def(R)
  <2>1. \E g : Def(g)
    BY <1>1
  <2> HIDE DEF Def
  <2> QED BY <1>2, <2>1
<1> HIDE DEF R
<1>4. \A i \in 1..n : R[i] = IF i = 1 THEN answers[1] ELSE reduce(R[i - 1], answers[i])
  BY <1>3
<1>5. 1 \in 1..n /\ \A i \in 2..n : i \in 1..n /\ i # 1
  OBVIOUS
<1>6. R[1] = answers[1] /\ \A i \in 2..n : R[i] = reduce(R[i - 1], answers[i])
  BY <1>4, <1>5
<1> QED BY <1>6 DEF R

\* Along a route through different currencies, the reductions price the first
\* currency in terms of each of the next.
LEMMA RouteIsPriced ==
  ASSUME NEW worth \in [Symbols -> Int], NEW n \in 1..3,
         NEW name \in [1..n + 1 -> Currency],
         \A i, j \in 1..n + 1 : i # j => name[i] # name[j],
         NEW answers, DOMAIN answers = 1..n,
         \A i \in 1..n : answers[i] \in Priced(worth, name[i], name[i + 1])
  PROVE  Reductions(answers)[n] \in Priced(worth, name[1], name[n + 1])
<1> DEFINE R == Reductions(answers)
<1>1. R[1] = answers[1] /\ \A i \in 2..n : R[i] = reduce(R[i - 1], answers[i])
  BY ReductionsAre
<1>2. R[1] \in Priced(worth, name[1], name[2])
  BY <1>1
<1>3. ASSUME NEW i \in 2..n, R[i - 1] \in Priced(worth, name[1], name[i])
      PROVE  R[i] \in Priced(worth, name[1], name[i + 1])
  <2>1. /\ 1 \in 1..n + 1 /\ i \in 1..n /\ i \in 1..n + 1 /\ i + 1 \in 1..n + 1
        /\ 1 # i /\ i # i + 1 /\ 1 # i + 1
    BY <1>3
  <2>2. /\ name[1] \in Currency /\ name[i] \in Currency /\ name[i + 1] \in Currency
        /\ name[1] # name[i] /\ name[i] # name[i + 1] /\ name[1] # name[i + 1]
    BY <2>1
  <2>3. R[i] = At(worth, name[1], name[i + 1])
    <3> HIDE DEF R
    <3> QED BY <1>1, <1>3, <2>1, <2>2, ReduceIs
  <2> QED BY <2>3 DEF Priced
<1> HIDE DEF R
<1>4. CASE n = 1
  BY <1>2, <1>4 DEF R
<1>5. CASE n = 2
  BY <1>2, <1>3, <1>5 DEF R
<1>6. CASE n = 3
  <2>1. R[2] \in Priced(worth, name[1], name[3])
    BY <1>2, <1>3, <1>6
  <2>2. R[3] \in Priced(worth, name[1], name[4])
    BY <1>3, <1>6, <2>1
  <2> QED BY <1>6, <2>2 DEF R
<1> QED BY <1>4, <1>5, <1>6

\* A hop of a route leads from one currency of the path to the next, either way round.
Name(f, s) == IF f = "Dia" /\ s # "USD" THEN Tagged(s) ELSE Plain(s)
HopIs(f, path, i, hop) ==
  LET a == Name(f, path[i])
      b == Name(f, path[i + 1])
  IN hop \in {Pair(a, b), Pair(b, a)} /\ Quotes(f, hop)

LEMMA NameIs ==
  ASSUME NEW f, NEW s \in Symbols
  PROVE  Name(f, s) \in Currency /\ Name(f, s).symbol = s
BY DEF Name, Currency, Tagged, Plain

\* A path is of two to four currencies, and a route along it has a hop for every two.
Along(f, n, path, route) ==
  /\ path \in [1..n + 1 -> Symbols] /\ Len(path) = n + 1
  /\ \A i, j \in 1..n + 1 : i # j => path[i] # path[j]
  /\ DOMAIN route = 1..n /\ Len(route) = n
  /\ \A i \in 1..n : HopIs(f, path, i, route[i])

LEMMA RouteIs ==
  ASSUME NEW path \in Paths, NEW f, NEW route \in RoutesOf(path, f)
  PROVE  \E n \in 1..3 : Along(f, n, path, route)
<1> DEFINE Hop(i, flip) == IF flip THEN Pair(Name(f, path[i + 1]), Name(f, path[i]))
                           ELSE Pair(Name(f, path[i]), Name(f, path[i + 1]))
<1>1. PICK m \in 2..4 : path \in [1..m -> Symbols] /\ IsInjective(path)
  BY DEF Paths
<1> DEFINE n == m - 1
<1>2. n \in 1..3 /\ n + 1 = m
  BY <1>1
<1>3. path \in [1..n + 1 -> Symbols] /\ Len(path) = n + 1
  BY <1>1
<1>4. \A i, j \in 1..n + 1 : i # j => path[i] # path[j]
  BY <1>1, <1>2 DEF IsInjective
<1>5. Len(path) - 1 = n
  BY <1>1
<1> HIDE DEF n
<1>6. PICK flip \in [1..n -> BOOLEAN] : route = [i \in 1..n |-> Hop(i, flip[i])]
  BY <1>5 DEF RoutesOf, Name
<1>7. \A i \in DOMAIN route : Quotes(f, route[i])
  BY DEF RoutesOf
<1>8. DOMAIN route = 1..n /\ Len(route) = n
  BY <1>2, <1>6
<1>9. ASSUME NEW i \in 1..n PROVE HopIs(f, path, i, route[i])
  <2>1. route[i] = Hop(i, flip[i]) /\ Quotes(f, route[i])
    BY <1>6, <1>7, <1>8
  <2> QED BY <2>1 DEF HopIs
<1>10. Along(f, n, path, route)
  BY <1>3, <1>4, <1>8, <1>9 DEF Along
<1> QED BY <1>2, <1>10

\* A route along a path is valid for the pair of its ends, either way round.
LEMMA RouteIsValid ==
  ASSUME NEW f, NEW n \in 1..3, NEW path, NEW route, Along(f, n, path, route),
         NEW pair \in {Pair(Plain(path[1]), Plain(path[n + 1])),
                       Pair(Plain(path[n + 1]), Plain(path[1]))}
  PROVE  ValidRoute(pair, route)
<1> USE DEF Along
<1>1. ASSUME NEW i \in 1..n
      PROVE  \/ route[i].base.symbol = path[i] /\ route[i].quote.symbol = path[i + 1]
             \/ route[i].base.symbol = path[i + 1] /\ route[i].quote.symbol = path[i]
  <2>1. i \in 1..n + 1 /\ i + 1 \in 1..n + 1
    OBVIOUS
  <2> DEFINE a == Name(f, path[i])
             b == Name(f, path[i + 1])
  <2>2. a.symbol = path[i] /\ b.symbol = path[i + 1]
    BY <2>1, NameIs
  <2>3. (route[i].base = a /\ route[i].quote = b) \/ (route[i].base = b /\ route[i].quote = a)
    BY DEF HopIs, Pair
  <2> HIDE DEF a, b
  <2> QED BY <2>2, <2>3
<1>2. ASSUME NEW i \in 1..n, NEW c
      PROVE  contains(route[i], c) <=> c.symbol \in {path[i], path[i + 1]}
  BY <1>1 DEF contains
<1>3. 1 \in 1..n /\ n \in 1..n
  OBVIOUS
<1>4. Plain(path[1]).symbol = path[1] /\ Plain(path[n + 1]).symbol = path[n + 1]
  BY DEF Plain
<1>5. route # <<>>
  BY <1>3
<1>6. \/ pair.base.symbol = path[1] /\ pair.quote.symbol = path[n + 1]
      \/ pair.base.symbol = path[n + 1] /\ pair.quote.symbol = path[1]
  BY <1>4 DEF Pair
<1>7. contains(route[1], pair.base) \/ contains(route[1], pair.quote)
  BY <1>2, <1>3, <1>6
<1>8. contains(route[n], End(pair, route))
  <2>1. CASE contains(route[1], pair.base)
    <3>1. pair.base.symbol \in {path[1], path[1 + 1]} /\ End(pair, route) = pair.quote
      BY <1>2, <1>3, <2>1 DEF End
    <3>2. CASE pair.quote.symbol = path[n + 1]
      BY <1>2, <1>3, <3>1, <3>2
    <3>3. CASE pair.base.symbol = path[n + 1] /\ pair.quote.symbol = path[1]
      <4>1. 1 \in 1..n + 1 /\ 1 + 1 \in 1..n + 1 /\ n + 1 \in 1..n + 1 /\ n + 1 # 1
        OBVIOUS
      <4>2. n = 1
        BY <3>1, <3>3, <4>1
      <4> QED BY <1>2, <1>3, <3>1, <3>3, <4>2
    <3> QED BY <1>6, <3>2, <3>3
  <2>2. CASE ~contains(route[1], pair.base)
    <3>1. pair.base.symbol = path[n + 1] /\ End(pair, route) = pair.base
      BY <1>2, <1>3, <1>6, <2>2 DEF End
    <3> QED BY <1>2, <1>3, <3>1
  <2> QED BY <2>1, <2>2
<1>9. ASSUME NEW i \in 1..n - 1 PROVE has_shared(route[i], route[i + 1])
  <2>1. i \in 1..n /\ i + 1 \in 1..n
    OBVIOUS
  <2>2. path[i + 1] \in {route[i + 1].base.symbol, route[i + 1].quote.symbol}
    BY <1>1, <2>1
  <2> QED BY <1>2, <2>1, <2>2 DEF has_shared
<1> QED BY <1>5, <1>7, <1>8, <1>9 DEF ValidRoute, Starts

\* An exchange gives the price of every pair: the route's is that of the ends.
LEMMA ExchangePrices ==
  ASSUME NEW f, f # "Dia", NEW n \in 1..3, NEW path, NEW route, Along(f, n, path, route),
         NEW pair \in {Pair(Plain(path[1]), Plain(path[n + 1])),
                       Pair(Plain(path[n + 1]), Plain(path[1]))}
  PROVE  FeedPrice(pair, f, route) = At(Value, pair.base, pair.quote)
<1> USE DEF Along
<1> DEFINE answers == [i \in DOMAIN route |-> get_price(f, route[i])]
           name == [i \in 1..n + 1 |-> Plain(path[i])]
           s == Plain(path[1])
           e == Plain(path[n + 1])
<1>1. /\ name \in [1..n + 1 -> Currency]
      /\ \A i, j \in 1..n + 1 : i # j => name[i] # name[j]
  BY DEF Plain, Currency
<1>2. DOMAIN answers = 1..n /\ Len(answers) = n
  OBVIOUS
<1>3. ASSUME NEW i \in 1..n PROVE answers[i] \in Priced(Value, name[i], name[i + 1])
  <2>1. i \in 1..n + 1 /\ i + 1 \in 1..n + 1
    OBVIOUS
  <2>2. name[i] = Name(f, path[i]) /\ name[i + 1] = Name(f, path[i + 1])
    BY <2>1 DEF Name
  <2>3. route[i] = Pair(name[i], name[i + 1]) \/ route[i] = Pair(name[i + 1], name[i])
    BY <2>2 DEF HopIs
  <2> HIDE DEF name
  <2>4. answers[i] = SpotPrice(route[i])
    BY DEF get_price
  <2> QED BY <2>3, <2>4 DEF SpotPrice, Priced, At, Pair
<1>4. Value \in [Symbols -> Int]
  BY PriceAssumption
<1> DEFINE p == Reductions(answers)[n]
<1>5. p \in Priced(Value, name[1], name[n + 1])
  <2> HIDE DEF answers, name
  <2> QED BY <1>1, <1>2, <1>3, <1>4, RouteIsPriced
<1>6. name[1] = s /\ name[n + 1] = e /\ s \in Currency /\ e \in Currency /\ s # e
  <2>1. 1 \in 1..n + 1 /\ n + 1 \in 1..n + 1 /\ 1 # n + 1
    OBVIOUS
  <2> QED BY <1>1, <2>1
<1>7. FeedPrice(pair, f, route) = IF p.pair.base # pair.base THEN invert(p) ELSE p
  BY <1>2 DEF FeedPrice
<1>8. (pair.base = s /\ pair.quote = e) \/ (pair.base = e /\ pair.quote = s)
  BY DEF Pair
<1> HIDE DEF p, s, e, name, answers
<1>9. p \in {At(Value, s, e), At(Value, e, s)}
  BY <1>5, <1>6 DEF Priced
<1>10. /\ At(Value, s, e).pair.base = s /\ At(Value, e, s).pair.base = e
       /\ invert(At(Value, s, e)) = At(Value, e, s) /\ invert(At(Value, e, s)) = At(Value, s, e)
  BY <1>4, <1>6, AtIs
<1> QED BY <1>6, <1>7, <1>8, <1>9, <1>10

\* DIA quotes every pair in USD and the wrong way round.  It prices a route that
\* goes from the base to USD and on: what is left has the currencies with their
\* paths, is taken to be the other way round, and is inverted.
LEMMA DiaPrices ==
  ASSUME NEW path, NEW route, Along("Dia", 2, path, route)
  PROVE  FeedPrice(Pair(Plain(path[1]), Plain(path[3])), "Dia", route) =
           [pair |-> Pair(Tagged(path[3]), Tagged(path[1])),
            price |-> Value[path[1]] - Value[path[3]]]
<1> USE DEF Along
<1> DEFINE s == Plain(path[1])
           e == Plain(path[3])
           S == Tagged(path[1])
           U == Plain("USD")
           E == Tagged(path[3])
           worth == [c \in Symbols |-> -Value[c]]
           answers == [i \in DOMAIN route |-> get_price("Dia", route[i])]
<1>1. /\ {path[1], path[2], path[3]} \subseteq Symbols /\ DOMAIN route = 1..2 /\ Len(route) = 2
      /\ path[1] # path[2] /\ path[2] # path[3] /\ path[1] # path[3]
      /\ HopIs("Dia", path, 1, route[1]) /\ HopIs("Dia", path, 2, route[2])
  OBVIOUS
<1>2. ASSUME NEW a \in Symbols, NEW b \in Symbols, a # b, NEW hop,
             hop \in {Pair(Name("Dia", a), Name("Dia", b)), Pair(Name("Dia", b), Name("Dia", a))},
             Quotes("Dia", hop)
      PROVE  (a = "USD" /\ hop = Pair(U, Tagged(b))) \/ (b = "USD" /\ hop = Pair(U, Tagged(a)))
  <2>1. hop.base = U /\ hop.quote.path
    BY <1>2 DEF Quotes
  <2>2. CASE hop = Pair(Name("Dia", a), Name("Dia", b))
    <3>1. Name("Dia", a) = U
      BY <2>1, <2>2 DEF Pair
    <3>2. a = "USD"
      BY <3>1 DEF Name, Plain, Tagged
    <3> QED BY <1>2, <2>2, <3>2 DEF Name
  <2>3. CASE hop = Pair(Name("Dia", b), Name("Dia", a))
    <3>1. Name("Dia", b) = U
      BY <2>1, <2>3 DEF Pair
    <3>2. b = "USD"
      BY <3>1 DEF Name, Plain, Tagged
    <3> QED BY <1>2, <2>3, <3>2 DEF Name
  <2> QED BY <1>2, <2>2, <2>3
<1>3. path[1] = "USD" \/ path[2] = "USD"
  BY <1>1, <1>2 DEF HopIs
<1>4. path[2] = "USD" \/ path[3] = "USD"
  BY <1>1, <1>2 DEF HopIs
<1>5. path[2] = "USD" /\ path[1] # "USD" /\ path[3] # "USD"
  BY <1>1, <1>3, <1>4
<1>6. route[1] = Pair(U, S)
  BY <1>1, <1>2, <1>5 DEF HopIs
<1>7. route[2] = Pair(U, E)
  BY <1>1, <1>2, <1>5 DEF HopIs
<1>8. /\ S \in Currency /\ U \in Currency /\ E \in Currency /\ s \in Currency /\ e \in Currency
      /\ S # U /\ U # E /\ S # E /\ s # S /\ s # E
      /\ S.symbol = path[1] /\ E.symbol = path[3] /\ U.symbol = "USD"
      /\ s.symbol = path[1] /\ e.symbol = path[3]
  BY <1>1, <1>5 DEF Currency, Plain, Tagged
<1>9. "USD" \in Symbols /\ Value \in [Symbols -> Int] /\ worth \in [Symbols -> Int]
  BY PriceAssumption
<1>10. \A c \in Symbols : worth[c] = -Value[c]
  OBVIOUS
<1>11. DOMAIN answers = 1..2 /\ Len(answers) = 2
       /\ answers[1] = DiaPrice(Pair(U, S)) /\ answers[2] = DiaPrice(Pair(U, E))
  BY <1>1, <1>6, <1>7 DEF get_price
<1>12. FeedPrice(Pair(s, e), "Dia", route) =
         LET p == Reductions(answers)[2]
         IN IF p.pair.base # s THEN invert(p) ELSE p
  BY <1>11 DEF FeedPrice, Pair
<1> HIDE DEF S, U, E, s, e, worth, answers
<1>13. ASSUME NEW c \in {S, E} PROVE DiaPrice(Pair(U, c)) = At(worth, U, c)
  <2>1. c.symbol \in Symbols
    BY <1>1, <1>8
  <2>2. Value[c.symbol] - Value["USD"] = worth["USD"] - worth[c.symbol]
    BY <1>9, <1>10, <2>1
  <2> QED BY <1>8, <2>2 DEF DiaPrice, At, Pair
<1>14. answers[1] \in Priced(worth, S, U) /\ answers[2] \in Priced(worth, U, E)
  BY <1>11, <1>13 DEF Priced
<1>15. Reductions(answers)[2] = reduce(answers[1], answers[2])
  <2>1. 2 \in 1..3 /\ 2 \in 2..2 /\ 2 - 1 = 1
    OBVIOUS
  <2> QED BY <1>11, <2>1, ReductionsAre
<1>16. reduce(answers[1], answers[2]) = At(worth, S, E)
  BY <1>8, <1>9, <1>14, ReduceIs
<1>17. FeedPrice(Pair(s, e), "Dia", route) = invert(At(worth, S, E))
  BY <1>8, <1>9, <1>12, <1>15, <1>16, AtIs
<1>18. At(worth, S, E).price = Value[path[3]] - Value[path[1]]
  <2>1. worth[path[1]] = -Value[path[1]] /\ worth[path[3]] = -Value[path[3]]
    BY <1>1, <1>10
  <2> QED BY <1>1, <1>8, <1>9, <2>1 DEF At
<1>19. -(Value[path[3]] - Value[path[1]]) = Value[path[1]] - Value[path[3]]
  BY <1>1, <1>9
<1>20. invert(At(worth, S, E)) = [pair |-> Pair(E, S), price |-> Value[path[1]] - Value[path[3]]]
  BY <1>8, <1>9, <1>18, <1>19, AtIs DEF invert
<1> QED BY <1>17, <1>20 DEF s, e, S, E

\* A route for a feed is accepted for the pairs of its ends, and gives their price.
LEMMA RoutePrices ==
  ASSUME NEW f, NEW path \in Paths, NEW route \in RoutesOf(path, f),
         NEW pair \in EndsOf(path, route, f)
  PROVE  /\ ValidRoute(pair, route)
         /\ \E a, b \in Symbols : pair = Pair(Plain(a), Plain(b))
         /\ \E left : FeedPrice(pair, f, route) =
                        [pair |-> left, price |-> SpotPrice(pair).price]
<1> DEFINE a == path[1]
           b == path[Len(path)]
<1>1. PICK n \in 1..3 : Along(f, n, path, route)
  BY RouteIs
<1>2. a \in Symbols /\ b \in Symbols /\ b = path[n + 1] /\ Len(route) = n
  BY <1>1 DEF Along
<1>3. pair \in {Pair(Plain(a), Plain(b)), Pair(Plain(b), Plain(a))}
  BY DEF EndsOf
<1>4. pair \in {Pair(Plain(path[1]), Plain(path[n + 1])), Pair(Plain(path[n + 1]), Plain(path[1]))}
  BY <1>2, <1>3
<1>5. ValidRoute(pair, route)
  BY <1>1, <1>4, RouteIsValid
<1>6. \E left : FeedPrice(pair, f, route) = [pair |-> left, price |-> SpotPrice(pair).price]
  <2>1. CASE f = "Dia"
    <3>1. n = 2 /\ pair = Pair(Plain(path[1]), Plain(path[3]))
      BY <1>2, <2>1 DEF EndsOf
    <3>2. SpotPrice(pair).price = Value[path[1]] - Value[path[3]]
      BY <3>1 DEF SpotPrice, Pair, Plain
    <3> QED BY <1>1, <2>1, <3>1, <3>2, DiaPrices
  <2>2. CASE f # "Dia"
    <3>1. FeedPrice(pair, f, route) = At(Value, pair.base, pair.quote)
      BY <1>1, <1>4, <2>2, ExchangePrices
    <3> QED BY <3>1 DEF At, SpotPrice
  <2> QED BY <2>1, <2>2
<1> QED BY <1>2, <1>3, <1>5, <1>6

\* The price of a pair gives the rate of the smallest units.
LEMMA RateIsTrue ==
  ASSUME NEW a \in Symbols, NEW b \in Symbols, NEW pair, pair = Pair(Plain(a), Plain(b))
  PROVE  exchange_rate([pair |-> pair, price |-> SpotPrice(pair).price]) = TrueRate(pair)
<1>1. /\ pair.base.symbol = a /\ pair.quote.symbol = b
      /\ SpotPrice(pair).price = Value[a] - Value[b]
  BY DEF Pair, Plain, SpotPrice
<1>2. {Value[a], Value[b], Decimals[a], Decimals[b]} \subseteq Int
  BY PriceAssumption
<1>3. Value[a] - Value[b] + Decimals[b] - Decimals[a] = (Value[a] - Decimals[a]) - (Value[b] - Decimals[b])
  BY <1>2
<1> QED BY <1>1, <1>3 DEF exchange_rate, TrueRate

\* For all currencies, whatever they are worth, a route of up to three pairs that
\* a feed can be asked for is accepted, and prices the pair.
THEOREM OracleRoutesPricePairs == Spec => []RoutePricesPair
<1>1. ASSUME NEW f \in FeedNames, NEW path \in Paths, NEW route \in RoutesOf(path, f),
             NEW pair \in EndsOf(path, route, f)
      PROVE  /\ ValidRoute(pair, route)
             /\ exchange_rate([FeedPrice(pair, f, route) EXCEPT !.pair = pair]) = TrueRate(pair)
  <2> DEFINE p == FeedPrice(pair, f, route)
  <2>1. PICK left : p = [pair |-> left, price |-> SpotPrice(pair).price]
    BY RoutePrices
  <2> HIDE DEF p
  <2>2. [p EXCEPT !.pair = pair] = [pair |-> pair, price |-> SpotPrice(pair).price]
    BY <2>1
  <2>3. PICK a \in Symbols, b \in Symbols : pair = Pair(Plain(a), Plain(b))
    BY RoutePrices
  <2>4. exchange_rate([p EXCEPT !.pair = pair]) = TrueRate(pair)
    BY <2>2, <2>3, RateIsTrue
  <2>5. ValidRoute(pair, route)
    BY RoutePrices
  <2> QED BY <2>4, <2>5 DEF p
<1>2. RoutePricesPair
  BY <1>1 DEF RoutePricesPair
<1> QED BY <1>2, PTL

-----------------------------------------------------------------------------
(* The prices.                                                             *)

\* Only a valid configuration gets beyond "config", and only prices that every
\* feed gave are quoted.
Quoted == [p \in Prices |-> exchange_rate(get_value_or_median(config.prices[p]))]

QuoteInv ==
  /\ phase \in {"fees", "prices", "connect", "submit", "sleep"} =>
       \A p \in Prices : validate(config.prices[p])
  /\ phase \in {"connect", "submit", "sleep"} =>
       quote = Quoted /\ \A p \in Prices : CanPrice(config.prices[p])

LEMMA QuoteStep == QuoteInv /\ [Next]_vars => QuoteInv'
<1> SUFFICES ASSUME QuoteInv, [Next]_vars PROVE QuoteInv'
  OBVIOUS
<1>1. CASE UNCHANGED oracleVars
  BY <1>1 DEF QuoteInv, Quoted, oracleVars
<1>2. CASE Validate
  BY <1>2 DEF QuoteInv, Quoted, Validate
<1>3. CASE Fails
  BY <1>3 DEF QuoteInv, Fails
<1>4. CASE GetFee /\ ~Fails
  BY <1>4 DEF QuoteInv, GetFee
<1>5. CASE GetPrices /\ ~Fails
  <2>1. /\ phase = "prices" /\ phase' = "connect" /\ config' = config /\ quote' = Quoted
        /\ \A p \in Prices : CanPrice(config.prices[p])
    BY <1>5 DEF GetPrices, Quoted
  <2>2. Quoted' = Quoted
    BY <2>1 DEF Quoted
  <2> QED BY <2>1, <2>2 DEF QuoteInv
<1>6. CASE Connect /\ ~Fails
  <2>1. phase = "connect" /\ phase' = "submit" /\ UNCHANGED <<config, quote>>
    BY <1>6 DEF Connect
  <2> QED BY <2>1 DEF QuoteInv, Quoted
<1>7. CASE EndRound
  <2>1. phase = "submit" /\ phase' \in {"sleep", "ended"} /\ UNCHANGED <<config, quote>>
    BY <1>7 DEF EndRound
  <2> QED BY <2>1 DEF QuoteInv, Quoted
<1>8. CASE NextRound \/ Restart
  <2>1. \/ phase = "sleep" /\ phase' = "fees" /\ UNCHANGED config
        \/ phase' = "config"
    BY <1>8 DEF NextRound, Restart
  <2> QED BY <2>1 DEF QuoteInv
<1>9. CASE Retry
  BY <1>1, <1>9 DEF Retry, RetryTask
<1>10. CASE UNCHANGED vars
  BY <1>1, <1>10 DEF vars
<1> QED BY <1>1, <1>2, <1>3, <1>4, <1>5, <1>6, <1>7, <1>8, <1>9, <1>10 DEF Next, Main, Parachain

\* If all prices are the same, so is their median.
LEMMA MedianIs ==
  ASSUME NEW price, NEW x \in Int, DOMAIN price # {}, IsFiniteSet(DOMAIN price),
         \A f \in DOMAIN price : price[f] = x
  PROVE  Median(price) = x
<1> DEFINE F == DOMAIN price
           Middle(m) == /\ 2 * Cardinality({f \in F : price[f] < m}) <= Cardinality(F)
                        /\ 2 * Cardinality({f \in F : price[f] > m}) <= Cardinality(F)
<1>1. Range(price) = {x}
  BY DEF Range
<1>2. {f \in F : price[f] < x} = {} /\ {f \in F : price[f] > x} = {}
  OBVIOUS
<1>3. Cardinality({}) = 0 /\ Cardinality(F) \in Nat
  BY FS_EmptySet, FS_CardinalityType
<1>4. Middle(x)
  <2> HIDE DEF F
  <2> QED BY <1>2, <1>3
<1>5. Median(price) = CHOOSE m \in Range(price) : Middle(m)
  BY DEF Median
<1> HIDE DEF Middle
<1> QED BY <1>1, <1>4, <1>5

LEMMA FeedsAreFinite == \A S : S \subseteq FeedNames => IsFiniteSet(S)
<1>1. IsFiniteSet({"Kraken", "GateIo", "CoinGecko", "Dia"})
  <2>1. IsFiniteSet({"Kraken"}) /\ IsFiniteSet({"GateIo"})
        /\ IsFiniteSet({"CoinGecko"}) /\ IsFiniteSet({"Dia"})
    BY FS_Singleton
  <2>2. IsFiniteSet({"Kraken"} \cup {"GateIo"}) /\ IsFiniteSet({"CoinGecko"} \cup {"Dia"})
    BY <2>1, FS_Union
  <2>3. IsFiniteSet(({"Kraken"} \cup {"GateIo"}) \cup ({"CoinGecko"} \cup {"Dia"}))
    BY <2>2, FS_Union
  <2>4. ({"Kraken"} \cup {"GateIo"}) \cup ({"CoinGecko"} \cup {"Dia"})
          = {"Kraken", "GateIo", "CoinGecko", "Dia"}
    OBVIOUS
  <2> QED BY <2>3, <2>4
<1> QED BY <1>1, PriceAssumption, FS_Subset

\* Every feed gives the price of the pair, and so does their median.
LEMMA QuoteIsTrue ==
  ASSUME NEW c, IsRouted(c), CanPrice(c)
  PROVE  exchange_rate(get_value_or_median(c)) = TrueRate(c.pair)
<1> DEFINE x == SpotPrice(c.pair).price
           price == get_prices(c)
<1>1. /\ c.value = {} /\ DOMAIN c.feeds # {}
      /\ \A f \in DOMAIN c.feeds : \E path \in Paths :
           c.feeds[f] \in RoutesOf(path, f) /\ c.pair \in EndsOf(path, c.feeds[f], f)
  BY DEF IsRouted
<1>2. DOMAIN c.feeds \subseteq FeedNames
  BY DEF CanPrice
<1>3. DOMAIN price = DOMAIN c.feeds
  BY DEF get_prices
<1>4. ASSUME NEW f \in DOMAIN c.feeds PROVE price[f] = x
  <2>1. PICK path \in Paths : c.feeds[f] \in RoutesOf(path, f) /\ c.pair \in EndsOf(path, c.feeds[f], f)
    BY <1>1
  <2>2. PICK left : FeedPrice(c.pair, f, c.feeds[f]) = [pair |-> left, price |-> x]
    <3> DEFINE pair == c.pair
               route == c.feeds[f]
    <3> HIDE DEF pair, route
    <3>1. path \in Paths /\ route \in RoutesOf(path, f) /\ pair \in EndsOf(path, route, f)
      BY <2>1 DEF pair, route
    <3>2. \E left : FeedPrice(pair, f, route) = [pair |-> left, price |-> SpotPrice(pair).price]
      BY <3>1, RoutePrices
    <3> QED BY <3>2 DEF pair, route
  <2> HIDE DEF x
  <2> QED BY <2>2 DEF get_prices
<1>5. \E a, b \in Symbols : c.pair = Pair(Plain(a), Plain(b))
  <2>1. PICK f \in DOMAIN c.feeds : TRUE
    BY <1>1
  <2>2. PICK path \in Paths : c.feeds[f] \in RoutesOf(path, f) /\ c.pair \in EndsOf(path, c.feeds[f], f)
    BY <1>1
  <2> QED BY <2>2, RoutePrices
<1>6. PICK a \in Symbols, b \in Symbols : c.pair = Pair(Plain(a), Plain(b))
  BY <1>5
<1>7. x \in Int
  BY <1>6, PriceAssumption DEF SpotPrice, Pair, Plain
<1>8. IsFiniteSet(DOMAIN price)
  BY <1>2, <1>3, FeedsAreFinite
<1>9. get_value_or_median(c) = [pair |-> c.pair, price |-> Median(price)]
  BY <1>1 DEF get_value_or_median
<1> HIDE DEF price
<1>10. Median(price) = x
  <2> HIDE DEF x
  <2> QED BY <1>1, <1>3, <1>4, <1>7, <1>8, MedianIs
<1>11. exchange_rate(get_value_or_median(c)) = TrueRate(c.pair)
  BY <1>6, <1>9, <1>10, RateIsTrue
<1> QED BY <1>11

\* A fixed value is what is quoted.
LEMMA QuoteIsFixed ==
  ASSUME NEW c, c.value # {}
  PROVE  \E v \in c.value :
           exchange_rate(get_value_or_median(c)) = exchange_rate([pair |-> c.pair, price |-> v])
<1> DEFINE v == CHOOSE u \in c.value : TRUE
<1>1. v \in c.value
  OBVIOUS
<1>2. get_value_or_median(c) = [pair |-> c.pair, price |-> v]
  BY DEF get_value_or_median
<1> QED BY <1>1, <1>2

\* When a round is over all its values are on chain, after any number of nonces
\* refused, forks, lost answers, retries of one task and restarts of the process;
\* a quoted price is the fixed value, or the rate of the pair if its feeds are
\* routed.  For every set of configurations.
THEOREM OracleRoundIsFed == Spec => []RoundIsFed
<1>1. Init => QuoteInv
  BY DEF Init, QuoteInv
<1>2. QuoteInv /\ [Next]_vars => QuoteInv'
  BY QuoteStep
<1>3. IInv /\ QuoteInv => RoundIsFed
  <2> SUFFICES ASSUME IInv, QuoteInv, phase = "sleep"
               PROVE  /\ \A c \in Calls : c # Fee \/ config.fees => round \in Range(applied[c])
                      /\ \A p \in Prices :
                           LET price == config.prices[p]
                           IN /\ price.value # {} => \E v \in price.value :
                                   quote[p] = exchange_rate([pair |-> price.pair, price |-> v])
                              /\ IsRouted(price) => quote[p] = TrueRate(price.pair)
    BY DEF RoundIsFed
  <2>1. config \in Configs /\ \A c \in Calls : OnChain(c)
    BY DEF IInv, ShapeInv, FedInv
  <2>2. \A c \in Calls : c # Fee \/ config.fees => round \in Range(applied[c])
    BY <2>1 DEF OnChain, NoFee
  <2>3. ASSUME NEW p \in Prices, NEW c, c = config.prices[p]
        PROVE  /\ c.value # {} => \E v \in c.value :
                    quote[p] = exchange_rate([pair |-> c.pair, price |-> v])
               /\ IsRouted(c) => quote[p] = TrueRate(c.pair)
    <3>1. quote[p] = exchange_rate(get_value_or_median(c)) /\ CanPrice(c)
      BY <2>3 DEF QuoteInv, Quoted
    <3> QED BY <3>1, QuoteIsTrue, QuoteIsFixed
  <2> QED BY <2>2, <2>3
<1> QED BY <1>1, <1>2, <1>3, Inductive, PTL DEF Spec

=============================================================================
