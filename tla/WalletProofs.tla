---------------------------- MODULE WalletProofs ----------------------------
(***************************************************************************)
(* No payment is mined in two versions, the lock keeps the inputs of a     *)
(* funded transaction from being taken, and what the light wallet sends    *)
(* pays its fee and loses nothing, for any number of payments, coins,      *)
(* versions and faults, and any amounts.                                   *)
(***************************************************************************)
EXTENDS Wallet, TLAPS, FiniteSetTheorems

-----------------------------------------------------------------------------
(* The inductive invariant.                                                *)

Locked == {"fund", "send", "refund", "resend"}
Bumping == {"bump", "refund"}

\* The lock is held from funding to sending.
ShapeInv ==
  /\ kind \in {"core", "light"}
  /\ task \in [Payments -> Stages] /\ tx = [p \in Payments |-> tx[p]]
  /\ lock \in Payments \cup {0}
  /\ \A p \in Payments : lock = p <=> task[p] \in Locked

\* Versions name transactions, and are counted without gaps.  Of live ones no two
\* are of one payment or spend one coin.
NetworkInv ==
  /\ Live \subseteq known /\ pool \cap Mined = {} /\ IsFiniteSet(known)
  /\ \A t \in known : t.pay \in Payments /\ t.version \in 1..(NextVersion(t.pay) - 1)
  /\ \A p \in Payments : \A v \in 1..(NextVersion(p) - 1) :
       \E t \in known : t.pay = p /\ t.version = v
  /\ \A t, u \in known : t.pay = u.pay /\ t.version = u.version => t = u
  /\ \A t \in known : t.inputs \subseteq Coins(known)
  /\ kind = "core" => \A t \in known : t.inputs # {}
  /\ \A t, u \in Live : t # u => t.pay # u.pay /\ t.inputs \cap u.inputs = {}

\* While a payment is made anew it has no live transaction.  While it is bumped,
\* its transaction is live or has lost an input for good, and the replacement
\* conflicts with it.
LiveInv(p) ==
  \A t \in Live : t.pay = p =>
    /\ task[p] \notin {"create", "fund", "send"}
    /\ task[p] \in Bumping => t = tx[p]
    /\ task[p] = "resend" => t.inputs \subseteq tx[p].inputs

BumpInv(p) ==
  /\ task[p] \in Bumping \cup {"resend"} => kind = "core" /\ NextVersion(p) > 1
  /\ task[p] \in Bumping =>
       tx[p] \in known /\ (tx[p].inputs \subseteq Coins(Live) => tx[p] \in Live)

\* A funded transaction is a new version, and its inputs, while they exist, are its own.
FundedInv(p) ==
  Unsent(p) =>
    /\ tx[p].pay = p /\ tx[p].version = NextVersion(p)
    /\ kind = "core" =>
         /\ tx[p].inputs # {}
         /\ tx[p].inputs \subseteq Coins(Live) =>
              \A t \in Live : t.pay # p => t.inputs \cap tx[p].inputs = {}

PaymentInv(p) == tx[p].pay \in {0, p} /\ LiveInv(p) /\ BumpInv(p) /\ FundedInv(p)

IInv == ShapeInv /\ NetworkInv /\ \A p \in Payments : PaymentInv(p)

-----------------------------------------------------------------------------
(* Versions, coins and replacements.                                       *)

LEMMA PaymentIsPositive == \A p \in Payments : p # 0
BY WalletAssumption

LEMMA NextVersionIsNat ==
  ASSUME IsFiniteSet(known), NEW p
  PROVE  NextVersion(p) \in Nat \ {0}
<1> DEFINE sent == {t \in known : t.pay = p}
<1>1. IsFiniteSet(sent)
  BY FS_Subset
<1>2. Cardinality(sent) \in Nat
  BY <1>1, FS_CardinalityType
<1> QED BY <1>2 DEF NextVersion

\* What is sent is new to the network, and moves its payment's version on.
LEMMA SendCounts ==
  ASSUME NetworkInv, NEW p \in Payments, FundedInv(p), Unsent(p), known' = known \cup {tx[p]}
  PROVE  /\ tx[p] \notin known /\ IsFiniteSet(known')
         /\ NextVersion(p)' = NextVersion(p) + 1
         /\ \A q \in Payments : q # p => NextVersion(q)' = NextVersion(q)
<1>1. tx[p].pay = p /\ tx[p].version = NextVersion(p) /\ NextVersion(p) \in Nat
  BY NextVersionIsNat DEF NetworkInv, FundedInv
<1>2. tx[p] \notin known
  <2>1. SUFFICES ASSUME tx[p] \in known PROVE FALSE
    OBVIOUS
  <2>2. tx[p].version \in 1..(NextVersion(p) - 1)
    BY <1>1, <2>1 DEF NetworkInv
  <2> QED BY <1>1, <2>2
<1>3. IsFiniteSet(known')
  BY FS_AddElement DEF NetworkInv
<1> DEFINE sent == {t \in known : t.pay = p}
<1>4. IsFiniteSet(sent)
  BY FS_Subset DEF NetworkInv
<1>5. {t \in known' : t.pay = p} = sent \cup {tx[p]} /\ tx[p] \notin sent
  BY <1>1, <1>2
<1>6. Cardinality(sent \cup {tx[p]}) = Cardinality(sent) + 1
  BY <1>4, <1>5, FS_AddElement
<1>7. NextVersion(p)' = NextVersion(p) + 1
  <2>1. Cardinality(sent) \in Nat
    BY <1>4, FS_CardinalityType
  <2>2. NextVersion(p) = 1 + Cardinality(sent)
    BY DEF NextVersion
  <2>3. NextVersion(p)' = 1 + Cardinality(sent \cup {tx[p]})
    BY <1>5 DEF NextVersion
  <2> HIDE DEF sent
  <2> QED BY <1>6, <2>1, <2>2, <2>3
<1>8. ASSUME NEW q \in Payments, q # p
      PROVE  NextVersion(q)' = NextVersion(q)
  <2>1. {t \in known' : t.pay = q} = {t \in known : t.pay = q}
    BY <1>1, <1>8
  <2> QED BY <2>1 DEF NextVersion
<1> QED BY <1>2, <1>3, <1>7, <1>8

\* What is replaced is in the mempool, and conflicts with the new transaction or
\* spends the change of another that is replaced.
LEMMA ReplacedWhy ==
  ASSUME NEW t
  PROVE  /\ Replaced(t) \subseteq pool /\ Conflicts(t, pool) \subseteq Replaced(t)
         /\ \A u \in Replaced(t) :
              u \in Conflicts(t, pool) \/ \E v \in Replaced(t) : Change(v) \cap u.inputs # {}
<1> DEFINE gone == Conflicts(t, pool)
           R == Replaced(t)
           Closed(s) == gone \cup Spending(s, pool) \subseteq s
<1>1. R = {u \in pool : \A s \in SUBSET pool : Closed(s) => u \in s}
  BY DEF Replaced, WithDescendants
<1>2. R \subseteq pool /\ gone \subseteq pool
  BY <1>1 DEF Conflicts
<1>3. gone \subseteq R
  BY <1>1, <1>2
<1>4. Spending(R, pool) \subseteq R
  <2> SUFFICES ASSUME NEW u \in Spending(R, pool), NEW s \in SUBSET pool, Closed(s)
               PROVE  u \in s
    BY <1>1 DEF Spending
  <2>1. R \subseteq s
    BY <1>1
  <2>2. u \in Spending(s, pool)
    BY <2>1 DEF Spending
  <2> QED BY <2>2
<1>5. ASSUME NEW u \in R, u \notin gone, u \notin Spending(R, pool)
      PROVE  FALSE
  <2> DEFINE s == R \ {u}
  <2>1. s \in SUBSET pool /\ gone \subseteq s
    BY <1>2, <1>3, <1>5
  <2>2. Spending(s, pool) \subseteq Spending(R, pool)
    BY DEF Spending
  <2>3. Closed(s)
    BY <1>4, <1>5, <2>1, <2>2
  <2> QED BY <1>1, <2>1, <2>3
<1>6. \A u \in R : u \in gone \/ \E v \in R : Change(v) \cap u.inputs # {}
  BY <1>5 DEF Spending
<1> QED BY <1>2, <1>3, <1>6

LEMMA CoinsGrow ==
  ASSUME NEW small, NEW large, small \subseteq large
  PROVE  Coins(small) \subseteq Coins(large)
BY DEF Coins

\* The change of a new version did not exist before.
LEMMA ChangeIsNew ==
  ASSUME NetworkInv, NEW t, t.pay \in Payments, NEW ts \in SUBSET known,
         \A u \in ts : ~(u.pay = t.pay /\ u.version = t.version)
  PROVE  Change(t) \cap Coins(ts) = {}
<1> SUFFICES ASSUME NEW coin \in Change(t), coin \in Coins(ts)
             PROVE  FALSE
  OBVIOUS
<1>1. coin = <<t.pay, t.version>>
  BY DEF Change
<1>2. coin \notin Initial
  <2>1. t.pay # 0
    BY PaymentIsPositive
  <2> QED BY <1>1, <2>1 DEF Initial
<1>3. PICK u \in ts : coin \in Change(u)
  BY <1>2 DEF Coins
<1>4. coin = <<u.pay, u.version>>
  BY <1>3 DEF Change
<1> QED BY <1>1, <1>4

-----------------------------------------------------------------------------
(* A transaction is sent.                                                  *)

LEMMA SendLive ==
  ASSUME IInv, NEW p \in Payments, Unsent(p), Accept(tx[p]), UNCHANGED <<depth, kind>>
  PROVE  /\ Live' = (Live \ Replaced(tx[p])) \cup {tx[p]}
         /\ tx[p].inputs \subseteq Coins(Live)
         /\ \A t \in Live' : t # tx[p] => t.pay # p /\ t.inputs \cap tx[p].inputs = {}
<1> DEFINE new == tx[p]
           gone == Replaced(new)
<1>1. NetworkInv /\ FundedInv(p) /\ LiveInv(p) /\ BumpInv(p)
  BY DEF IInv, PaymentInv
<1>2. gone \subseteq pool /\ Conflicts(new, pool) \subseteq gone
  BY ReplacedWhy
<1>3. Live' = (Live \ gone) \cup {new}
  <2>1. pool' = (pool \ gone) \cup {new} /\ Mined' = Mined
    BY DEF Accept, Mined
  <2>2. gone \cap Mined = {}
    BY <1>1, <1>2 DEF NetworkInv
  <2> HIDE DEF gone, new
  <2> QED BY <2>1, <2>2 DEF Live
<1>4. new.inputs \subseteq Coins(Live)
  <2>1. new.inputs \subseteq Coins(Live \ gone)
    BY DEF Accept, Acceptable
  <2>2. Coins(Live \ gone) \subseteq Coins(Live)
    BY CoinsGrow
  <2> QED BY <2>1, <2>2
<1>5. ASSUME NEW t \in Live', t # new
      PROVE  t.pay # p /\ t.inputs \cap new.inputs = {}
  <2>1. t \in Live /\ t \notin gone
    BY <1>3, <1>5
  <2>2. t \notin Conflicts(new, pool) /\ t \notin Conflicts(new, Mined)
    BY <1>2, <2>1 DEF Accept, Acceptable
  <2>3. t.inputs \cap new.inputs = {}
    BY <2>1, <2>2, <1>5 DEF Conflicts, Live
  <2>4. ASSUME t.pay = p
        PROVE  FALSE
    <3>1. task[p] = "resend" /\ t.inputs \subseteq new.inputs
      BY <1>1, <2>1, <2>4 DEF LiveInv, Unsent
    <3>2. t.inputs # {}
      BY <1>1, <2>1, <3>1 DEF BumpInv, NetworkInv
    <3> QED BY <2>3, <3>1, <3>2
  <2> QED BY <2>3, <2>4
<1> QED BY <1>3, <1>4, <1>5

\* What leaves the mempool loses an input, or is of the same payment.
LEMMA ReplacedIsGone ==
  ASSUME IInv, NEW p \in Payments, Unsent(p), Accept(tx[p]), UNCHANGED <<depth, kind>>,
         NEW t \in Replaced(tx[p]), t.pay # p
  PROVE  ~(t.inputs \subseteq Coins(Live'))
<1> DEFINE new == tx[p]
           gone == Replaced(new)
<1>1. NetworkInv /\ FundedInv(p)
  BY DEF IInv, PaymentInv
<1>2. /\ Live' = (Live \ gone) \cup {new} /\ new.inputs \subseteq Coins(Live)
  BY SendLive
<1>3. kind = "core"
  BY DEF Accept, Acceptable
<1>4. gone \subseteq Live /\ gone \subseteq known
  BY <1>1, ReplacedWhy DEF NetworkInv, Live
<1>5. t \notin Conflicts(new, pool)
  <2>1. t.inputs \cap new.inputs = {}
    BY <1>1, <1>2, <1>3, <1>4 DEF FundedInv
  <2> QED BY <2>1 DEF Conflicts
<1>6. PICK v \in gone : Change(v) \cap t.inputs # {}
  BY <1>5, ReplacedWhy
<1>7. PICK coin \in t.inputs : coin \in Change(v)
  BY <1>6
<1>8. v.pay \in Payments /\ v.version \in 1..(NextVersion(v.pay) - 1)
  BY <1>1, <1>4 DEF NetworkInv
<1>9. coin \notin Coins(Live \ gone)
  <2>1. \A u \in Live \ gone : ~(u.pay = v.pay /\ u.version = v.version)
    BY <1>1, <1>4 DEF NetworkInv
  <2>2. Live \ gone \in SUBSET known
    BY <1>1 DEF NetworkInv
  <2> QED BY <1>1, <1>7, <1>8, <2>1, <2>2, ChangeIsNew
<1>10. coin \notin Change(new)
  <2>1. SUFFICES ASSUME coin \in Change(new)
                 PROVE  FALSE
    OBVIOUS
  <2>2. coin = <<v.pay, v.version>> /\ coin = <<new.pay, new.version>>
    BY <1>7, <2>1 DEF Change
  <2>3. v.pay = p /\ v.version = NextVersion(p)
    BY <1>1, <2>2 DEF FundedInv
  <2>4. NextVersion(p) \in Nat
    BY <1>1, NextVersionIsNat DEF NetworkInv
  <2> QED BY <1>8, <2>3, <2>4
<1>11. Coins(Live') = Coins(Live \ gone) \cup Change(new)
  <2> HIDE DEF gone, new
  <2> QED BY <1>2 DEF Coins, Initial
<1> QED BY <1>7, <1>9, <1>10, <1>11

LEMMA SendNetwork ==
  ASSUME IInv, NEW p \in Payments, Unsent(p), Accept(tx[p]), UNCHANGED <<depth, kind>>
  PROVE  NetworkInv'
<1> DEFINE new == tx[p]
           gone == Replaced(new)
<1>1. NetworkInv /\ FundedInv(p)
  BY DEF IInv, PaymentInv
<1>2. /\ Live' = (Live \ gone) \cup {new} /\ new.inputs \subseteq Coins(Live)
      /\ \A t \in Live' : t # new => t.pay # p /\ t.inputs \cap new.inputs = {}
  BY SendLive
<1>3. known' = known \cup {new} /\ pool' = (pool \ gone) \cup {new} /\ Mined' = Mined
  BY DEF Accept, Mined
<1>4. /\ new \notin known /\ IsFiniteSet(known')
      /\ NextVersion(p)' = NextVersion(p) + 1
      /\ \A q \in Payments : q # p => NextVersion(q)' = NextVersion(q)
  BY <1>1, <1>3, SendCounts
<1>5. new.pay = p /\ new.version = NextVersion(p) /\ kind = "core" => new.inputs # {}
  BY <1>1 DEF FundedInv
<1>6. \A q \in Payments : NextVersion(q) \in Nat \ {0}
  BY <1>1, NextVersionIsNat DEF NetworkInv
<1> HIDE DEF new, gone
<1>7. Live' \subseteq known' /\ pool' \cap Mined' = {}
  BY <1>1, <1>2, <1>3, <1>4 DEF NetworkInv, Live
<1>8. \A t \in known' : t.pay \in Payments /\ t.version \in 1..(NextVersion(t.pay)' - 1)
  <2> SUFFICES ASSUME NEW t \in known'
               PROVE  t.pay \in Payments /\ t.version \in 1..(NextVersion(t.pay)' - 1)
    OBVIOUS
  <2>1. CASE t = new
    <3>1. new.version \in 1..(NextVersion(p)' - 1)
      BY <1>1, <1>4, <1>6 DEF new, FundedInv
    <3> QED BY <2>1, <3>1, <1>1 DEF new, FundedInv
  <2>2. CASE t \in known
    <3>1. t.pay \in Payments /\ t.version \in 1..(NextVersion(t.pay) - 1)
      BY <1>1, <2>2 DEF NetworkInv
    <3>2. NextVersion(t.pay)' \in {NextVersion(t.pay), NextVersion(t.pay) + 1}
      BY <1>4, <3>1
    <3> QED BY <3>1, <3>2, <1>6
  <2> QED BY <1>3, <2>1, <2>2
<1>9. ASSUME NEW q \in Payments, NEW v \in 1..(NextVersion(q)' - 1)
      PROVE  \E t \in known' : t.pay = q /\ t.version = v
  <2>1. CASE v \in 1..(NextVersion(q) - 1)
    BY <1>1, <1>3, <2>1 DEF NetworkInv
  <2>2. CASE v \notin 1..(NextVersion(q) - 1)
    <3>1. q = p
      BY <1>4, <2>2
    <3>2. v = NextVersion(p)
      BY <1>4, <1>6, <2>2, <3>1
    <3>3. new.pay = p /\ new.version = NextVersion(p)
      BY <1>1 DEF new, FundedInv
    <3> QED BY <1>3, <3>1, <3>2, <3>3
  <2> QED BY <2>1, <2>2
<1>10. ASSUME NEW t \in known', NEW u \in known', t.pay = u.pay, t.version = u.version
       PROVE  t = u
  <2>1. ASSUME NEW o \in known, o.pay = p, o.version = NextVersion(p)
        PROVE  FALSE
    <3>1. o.version \in 1..(NextVersion(p) - 1)
      BY <1>1, <2>1 DEF NetworkInv
    <3> QED BY <1>6, <2>1, <3>1
  <2>2. new.pay = p /\ new.version = NextVersion(p)
    BY <1>1 DEF new, FundedInv
  <2> QED BY <1>1, <1>3, <1>10, <2>1, <2>2 DEF NetworkInv
<1>11. \A t \in known' : t.inputs \subseteq Coins(known')
  <2>1. Coins(known) \subseteq Coins(known') /\ Coins(Live) \subseteq Coins(known')
    BY <1>1, <1>3, CoinsGrow DEF NetworkInv
  <2>2. \A t \in known : t.inputs \subseteq Coins(known)
    BY <1>1 DEF NetworkInv
  <2> QED BY <1>2, <1>3, <2>1, <2>2
<1>12. Coins(known') = Coins(known)'
  BY DEF Coins, Initial
<1>13. kind' = "core" => \A t \in known' : t.inputs # {}
  <2>1. kind' = kind
    OBVIOUS
  <2>2. kind = "core" => new.inputs # {}
    BY <1>1 DEF new, FundedInv
  <2> QED BY <1>1, <1>3, <2>1, <2>2 DEF NetworkInv
<1>14. \A t, u \in Live' : t # u => t.pay # u.pay /\ t.inputs \cap u.inputs = {}
  <2>1. \A t \in Live' : t = new \/ t \in Live
    BY <1>2
  <2>2. new.pay = p
    BY <1>1 DEF new, FundedInv
  <2> QED BY <1>1, <1>2, <2>1, <2>2 DEF NetworkInv
<1> QED BY <1>4, <1>7, <1>8, <1>9, <1>10, <1>11, <1>12, <1>13, <1>14 DEF NetworkInv

\* Sending does not hurt the others.
LEMMA SendOthers ==
  ASSUME IInv, NEW p \in Payments, Unsent(p), Accept(tx[p]), UNCHANGED <<depth, kind>>,
         NEW q \in Payments, q # p, task'[q] = task[q], tx'[q] = tx[q]
  PROVE  PaymentInv(q)'
<1> DEFINE new == tx[p]
           gone == Replaced(new)
<1>1. NetworkInv /\ FundedInv(p) /\ PaymentInv(q) /\ ShapeInv
  BY DEF IInv, PaymentInv
<1>2. /\ Live' = (Live \ gone) \cup {new} /\ new.inputs \subseteq Coins(Live)
      /\ \A t \in Live' : t # new => t.pay # p /\ t.inputs \cap new.inputs = {}
  BY SendLive
<1>3. known' = known \cup {new} /\ NextVersion(q)' = NextVersion(q)
  BY <1>1, SendCounts DEF Accept
<1>4. LiveInv(q)'
  <2>1. new.pay # q
    BY <1>1 DEF FundedInv
  <2>2. \A t \in Live' : t.pay = q => t \in Live
    BY <1>2, <2>1
  <2>3. LiveInv(q)
    BY <1>1 DEF PaymentInv
  <2> QED BY <2>2, <2>3 DEF LiveInv
<1>5. BumpInv(q)'
  <2>1. BumpInv(q)
    BY <1>1 DEF PaymentInv
  <2>2. ASSUME task[q] \in Bumping, tx[q].inputs \subseteq Coins(Live')
        PROVE  tx[q] \in Live'
    <3>1. tx[q] \in known
      BY <2>1, <2>2 DEF BumpInv
    <3>2. tx[q].inputs \subseteq Coins(known)
      BY <1>1, <3>1 DEF NetworkInv
    <3>3. Change(new) \cap Coins(known) = {}
      <4>1. \A u \in known : ~(u.pay = new.pay /\ u.version = new.version)
        <5>1. NextVersion(p) \in Nat
          BY <1>1, NextVersionIsNat DEF NetworkInv
        <5>2. new.pay = p /\ new.version = NextVersion(p)
          BY <1>1 DEF FundedInv
        <5>3. \A u \in known : u.pay = p => u.version \in 1..(NextVersion(p) - 1)
          BY <1>1 DEF NetworkInv
        <5> HIDE DEF new
        <5> QED BY <5>1, <5>2, <5>3
      <4>2. new.pay \in Payments
        BY <1>1 DEF FundedInv
      <4> QED BY <1>1, <4>1, <4>2, ChangeIsNew
    <3>4. Coins(Live') \subseteq Coins(Live) \cup Change(new)
      <4> HIDE DEF new, gone
      <4> QED BY <1>2 DEF Coins, Initial
    <3>5. tx[q].inputs \subseteq Coins(Live)
      BY <2>2, <3>2, <3>3, <3>4
    <3>6. tx[q] \in Live
      BY <2>1, <2>2, <3>5 DEF BumpInv
    <3>7. tx[q].pay # p
      <4>1. tx[q].pay \in {0, q} /\ tx[q].pay \in Payments
        BY <1>1, <3>1 DEF PaymentInv, NetworkInv
      <4> QED BY <4>1, PaymentIsPositive
    <3>8. tx[q] \notin gone
      BY <2>2, <3>7, ReplacedIsGone
    <3> QED BY <1>2, <3>6, <3>8
  <2>3. Coins(Live') = Coins(Live)'
    BY DEF Coins, Initial
  <2> QED BY <1>3, <2>1, <2>2, <2>3 DEF BumpInv
<1>6. FundedInv(q)'
  <2>1. ~Unsent(q)
    <3>1. lock = p
      BY <1>1 DEF ShapeInv, Unsent, Locked
    <3> QED BY <1>1, <3>1 DEF ShapeInv, Unsent, Locked
  <2> QED BY <2>1 DEF FundedInv, Unsent
<1> QED BY <1>1, <1>4, <1>5, <1>6 DEF PaymentInv

\* The lock is released, and the task waits, or has failed.
LEMMA SendInv ==
  ASSUME IInv, NEW p \in Payments, Unsent(p), Accept(tx[p]), UNCHANGED <<depth, kind>>,
         NEW stage \in {"wait", "failed"}, GoTo(p, stage), lock' = 0,
         NEW t, t.pay = p, tx' = [tx EXCEPT ![p] = t]
  PROVE  IInv'
<1>1. NetworkInv'
  BY SendNetwork
<1>2. /\ task \in [Payments -> Stages] /\ tx = [q \in Payments |-> tx[q]]
      /\ \A q \in Payments : lock = q <=> task[q] \in Locked
  BY DEF IInv, ShapeInv
<1>3. /\ task' = [task EXCEPT ![p] = stage] /\ task'[p] = stage /\ tx'[p] = t
      /\ \A q \in Payments : q # p => task'[q] = task[q] /\ tx'[q] = tx[q]
  BY <1>2 DEF GoTo
<1>4. ShapeInv'
  <2>1. kind' \in {"core", "light"} /\ lock' \in Payments \cup {0}
    BY DEF IInv, ShapeInv
  <2>2. task' \in [Payments -> Stages]
    BY <1>2, <1>3 DEF Stages
  <2>3. tx' = [q \in Payments |-> tx'[q]]
    BY <1>2
  <2>4. lock = p
    BY <1>2 DEF Unsent, Locked
  <2>5. \A q \in Payments : lock' = q <=> task'[q] \in Locked
    BY <1>2, <1>3, <2>4, PaymentIsPositive DEF Locked
  <2> QED BY <2>1, <2>2, <2>3, <2>5 DEF ShapeInv
<1>5. PaymentInv(p)'
  BY <1>3 DEF PaymentInv, LiveInv, BumpInv, FundedInv, Unsent, Bumping
<1>6. \A q \in Payments : q # p => PaymentInv(q)'
  BY <1>3, SendOthers
<1> QED BY <1>1, <1>4, <1>5, <1>6 DEF IInv

-----------------------------------------------------------------------------
(* Every other step leaves the network as it is, for most of the payments.  *)

Quiet == UNCHANGED <<kind, known>> /\ Live' = Live /\ pool' \cap Mined' = {}

LEMMA QuietNetwork ==
  ASSUME NetworkInv, Quiet
  PROVE  NetworkInv' /\ \A p \in Payments : NextVersion(p)' = NextVersion(p)
<1>1. \A p : NextVersion(p)' = NextVersion(p)
  BY DEF Quiet, NextVersion
<1>2. Coins(known)' = Coins(known)
  BY DEF Quiet, Coins, Initial
<1> QED BY <1>1, <1>2 DEF NetworkInv, Quiet

LEMMA QuietOthers ==
  ASSUME NetworkInv, Quiet, NEW p \in Payments, PaymentInv(p),
         task'[p] = task[p], tx'[p] = tx[p]
  PROVE  PaymentInv(p)'
<1>1. NextVersion(p)' = NextVersion(p)
  BY QuietNetwork
<1>2. Coins(Live)' = Coins(Live)
  BY DEF Quiet, Coins, Initial
<1>3. LiveInv(p)'
  BY DEF PaymentInv, LiveInv, Quiet
<1>4. BumpInv(p)'
  BY <1>1, <1>2 DEF PaymentInv, BumpInv, Quiet
<1>5. FundedInv(p)'
  BY <1>1, <1>2 DEF PaymentInv, FundedInv, Unsent, Quiet
<1> QED BY <1>3, <1>4, <1>5 DEF PaymentInv

\* A step of one task that keeps the network as it is.
LEMMA TaskQuiet ==
  ASSUME IInv, UNCHANGED <<kind, known, pool, depth>>, NEW p \in Payments,
         NEW stage \in Stages, GoTo(p, stage),
         NEW t, tx' = [tx EXCEPT ![p] = t],
         lock' \in Payments \cup {0},
         lock' = p <=> stage \in Locked,
         lock' = lock \/ {lock, lock'} \subseteq {p, 0},
         task'[p] = stage /\ tx'[p] = t => PaymentInv(p)'
  PROVE  IInv'
<1>1. /\ ShapeInv /\ NetworkInv /\ task \in [Payments -> Stages] /\ tx = [q \in Payments |-> tx[q]]
      /\ \A q \in Payments : lock = q <=> task[q] \in Locked
  BY DEF IInv, ShapeInv
<1>2. Quiet
  <2>1. Live' = Live /\ Mined' = Mined
    BY DEF Live, Mined
  <2> QED BY <1>1, <2>1 DEF Quiet, NetworkInv
<1>3. /\ task' = [task EXCEPT ![p] = stage] /\ task'[p] = stage /\ tx'[p] = t
      /\ \A q \in Payments : q # p => task'[q] = task[q] /\ tx'[q] = tx[q]
  BY <1>1 DEF GoTo
<1>4. ShapeInv'
  <2>1. kind' \in {"core", "light"}
    BY <1>1 DEF ShapeInv
  <2>2. task' \in [Payments -> Stages]
    BY <1>1, <1>3
  <2>3. tx' = [q \in Payments |-> tx'[q]]
    BY <1>1
  <2>4. ASSUME NEW q \in Payments
        PROVE  lock' = q <=> task'[q] \in Locked
    <3>1. CASE q = p
      BY <1>3, <3>1
    <3>2. CASE q # p
      BY <1>1, <1>3, <3>2, PaymentIsPositive
    <3> QED BY <3>1, <3>2
  <2> QED BY <2>1, <2>2, <2>3, <2>4 DEF ShapeInv
<1>5. NetworkInv'
  BY <1>1, <1>2, QuietNetwork
<1>6. \A q \in Payments : q # p => PaymentInv(q)'
  BY <1>1, <1>2, <1>3, QuietOthers DEF IInv
<1> QED BY <1>3, <1>4, <1>5, <1>6 DEF IInv

\* While the network is as it was, so is what the invariant says of it.
LEMMA SameNetwork ==
  ASSUME NetworkInv, UNCHANGED <<kind, known, pool, depth>>
  PROVE  /\ Live' = Live /\ Coins(Live)' = Coins(Live)
         /\ \A p \in Payments : NextVersion(p)' = NextVersion(p) /\ NextVersion(p) \in Nat \ {0}
<1>1. Live' = Live
  BY DEF Live, Mined
<1>2. Coins(Live)' = Coins(Live)
  BY <1>1 DEF Coins, Initial
<1>3. \A p \in Payments : NextVersion(p)' = NextVersion(p)
  BY DEF NextVersion
<1>4. \A p \in Payments : NextVersion(p) \in Nat \ {0}
  BY NextVersionIsNat DEF NetworkInv
<1> QED BY <1>1, <1>2, <1>3, <1>4

LEMMA LockInv == ASSUME IInv, NEW p \in Payments, Lock(p) PROVE IInv'
<1> USE DEF Lock
<1>1. PaymentInv(p) /\ NetworkInv /\ ShapeInv
  BY DEF IInv
<1>2. PICK stage \in {"fund", "refund"} :
        GoTo(p, stage) /\ task[p] = (IF stage = "fund" THEN "create" ELSE "bump")
  OBVIOUS
<1>3. tx' = [tx EXCEPT ![p] = tx[p]]
  BY <1>1 DEF ShapeInv
<1>4. ASSUME task'[p] = stage, tx'[p] = tx[p]
      PROVE  PaymentInv(p)'
  <2>1. LiveInv(p)' /\ BumpInv(p)' /\ FundedInv(p)'
    BY <1>1, <1>2, <1>4, SameNetwork DEF PaymentInv, LiveInv, BumpInv, FundedInv, Unsent, Bumping
  <2> QED BY <1>1, <1>4, <2>1 DEF PaymentInv
<1>5. lock = 0 /\ lock' = p /\ stage \in Stages /\ stage \in Locked
  BY DEF MayLock, Stages, Locked
<1> QED BY <1>2, <1>3, <1>4, <1>5, TaskQuiet

LEMMA ReloadInv == ASSUME IInv, NEW p \in Payments, ReloadWallet(p) PROVE IInv'
<1> USE DEF ReloadWallet
<1> DEFINE stage == IF task[p] = "fund" THEN "create" ELSE "bump"
<1>1. PaymentInv(p) /\ NetworkInv /\ ShapeInv
  BY DEF IInv
<1>2. tx' = [tx EXCEPT ![p] = tx[p]] /\ lock = p
  BY <1>1 DEF ShapeInv, Locked
<1>3. ASSUME task'[p] = stage, tx'[p] = tx[p]
      PROVE  PaymentInv(p)'
  <2>1. LiveInv(p)' /\ BumpInv(p)' /\ FundedInv(p)'
    BY <1>1, <1>3, SameNetwork DEF PaymentInv, LiveInv, BumpInv, FundedInv, Unsent, Bumping
  <2> QED BY <1>1, <1>3, <2>1 DEF PaymentInv
<1>4. lock' = 0 /\ stage \in Stages /\ stage \notin Locked
  BY DEF Stages, Locked
<1> QED BY <1>2, <1>3, <1>4, TaskQuiet, PaymentIsPositive

\* Any new transaction takes nothing a live one spends.
LEMMA NewTransactionInv ==
  ASSUME IInv, NEW p \in Payments, task[p] = "fund", GoTo(p, "send"),
         NEW inputs, NEW change, NEW fee, Funded(p, NextVersion(p), inputs, change, fee),
         kind = "core" => inputs # {} /\ inputs \subseteq Unspent(Live),
         UNCHANGED <<kind, lock, known, pool, depth>>
  PROVE  IInv'
<1> DEFINE t == [pay |-> p, version |-> NextVersion(p), inputs |-> inputs,
                 change |-> change, fee |-> fee]
<1>1. PaymentInv(p) /\ NetworkInv /\ ShapeInv
  BY DEF IInv
<1>2. tx' = [tx EXCEPT ![p] = t] /\ lock = p
  BY <1>1 DEF Funded, ShapeInv, Locked
<1>3. t.pay = p /\ t.version = NextVersion(p) /\ t.inputs = inputs
  OBVIOUS
<1> HIDE DEF t
<1>4. ASSUME task'[p] = "send", tx'[p] = t
      PROVE  PaymentInv(p)'
  <2>1. LiveInv(p)' /\ BumpInv(p)'
    BY <1>1, <1>4, SameNetwork DEF PaymentInv, LiveInv, BumpInv, Bumping
  <2>2. FundedInv(p)'
    <3>1. NextVersion(p)' = NextVersion(p) /\ Live' = Live
      BY <1>1, SameNetwork
    <3>2. \A u \in Live : kind = "core" => u.inputs \cap inputs = {}
      BY DEF Unspent
    <3> QED BY <1>3, <1>4, <3>1, <3>2 DEF FundedInv
  <2> QED BY <1>3, <1>4, <2>1, <2>2 DEF PaymentInv
<1>5. "send" \in Stages /\ "send" \in Locked
  BY DEF Stages, Locked
<1> QED BY <1>2, <1>4, <1>5, TaskQuiet

LEMMA FundByNodeInv == ASSUME IInv, NEW p \in Payments, FundByNode(p) PROVE IInv'
<1> USE DEF FundByNode
<1>1. PICK inputs \in NodeFundings({}, Unspent(Live), NextVersion(p)) :
        Funded(p, NextVersion(p), inputs, Rest(inputs, NextVersion(p)), NodeFee(inputs, NextVersion(p)))
  OBVIOUS
<1>2. inputs # {} /\ inputs \subseteq Unspent(Live)
  BY DEF NodeFundings
<1> QED BY <1>1, <1>2, NewTransactionInv

LEMMA FundByWalletInv == ASSUME IInv, NEW p \in Payments, FundByWallet(p) PROVE IInv'
<1>1. PaymentInv(p) /\ NetworkInv /\ ShapeInv
  BY DEF IInv
<1>2. /\ kind = "light" /\ task[p] = "fund" /\ UNCHANGED <<kind, known, pool, depth>>
      /\ \/ lock' = 0 /\ GoTo(p, "failed") /\ UNCHANGED tx
         \/ /\ \E inputs, change, fee : Funded(p, NextVersion(p), inputs, change, fee)
            /\ GoTo(p, "send") /\ UNCHANGED lock
  BY DEF FundByWallet, FundWith
<1>3. CASE lock' = 0 /\ GoTo(p, "failed") /\ UNCHANGED tx
  <2>1. tx' = [tx EXCEPT ![p] = tx[p]] /\ lock = p
    BY <1>1, <1>2, <1>3 DEF ShapeInv, Locked
  <2>2. ASSUME task'[p] = "failed", tx'[p] = tx[p]
        PROVE  PaymentInv(p)'
    BY <1>1, <2>2 DEF PaymentInv, LiveInv, BumpInv, FundedInv, Unsent, Bumping
  <2>3. "failed" \in Stages /\ "failed" \notin Locked
    BY DEF Stages, Locked
  <2> QED BY <1>2, <1>3, <2>1, <2>2, <2>3, TaskQuiet, PaymentIsPositive
<1>4. CASE /\ \E inputs, change, fee : Funded(p, NextVersion(p), inputs, change, fee)
           /\ GoTo(p, "send") /\ UNCHANGED lock
  BY <1>2, <1>4, NewTransactionInv
<1> QED BY <1>2, <1>3, <1>4

LEMMA FundingFailsInv == ASSUME IInv, NEW p \in Payments, FundingFails(p) PROVE IInv'
<1> USE DEF FundingFails
<1>1. PaymentInv(p) /\ NetworkInv /\ ShapeInv
  BY DEF IInv
<1>2. tx' = [tx EXCEPT ![p] = tx[p]] /\ lock = p
  BY <1>1 DEF ShapeInv, Locked
<1>3. ASSUME task'[p] = "create", tx'[p] = tx[p]
      PROVE  PaymentInv(p)'
  <2>1. LiveInv(p)' /\ BumpInv(p)' /\ FundedInv(p)'
    BY <1>1, <1>3, SameNetwork DEF PaymentInv, LiveInv, BumpInv, FundedInv, Unsent, Bumping
  <2> QED BY <1>1, <1>3, <2>1 DEF PaymentInv
<1>4. lock' = 0 /\ "create" \in Stages /\ "create" \notin Locked
  BY DEF Stages, Locked
<1> QED BY <1>2, <1>3, <1>4, TaskQuiet, PaymentIsPositive

LEMMA SendFailsInv == ASSUME IInv, NEW p \in Payments, SendFails(p) PROVE IInv'
<1> USE DEF SendFails
<1>1. PaymentInv(p) /\ NetworkInv /\ ShapeInv
  BY DEF IInv
<1>2. tx' = [tx EXCEPT ![p] = tx[p]] /\ lock = p
  BY <1>1 DEF ShapeInv, Locked
<1>3. CASE UNCHANGED <<known, pool>>
  <2>1. ASSUME task'[p] = "failed", tx'[p] = tx[p]
        PROVE  PaymentInv(p)'
    BY <1>1, <2>1 DEF PaymentInv, LiveInv, BumpInv, FundedInv, Unsent, Bumping
  <2>2. "failed" \in Stages /\ "failed" \notin Locked
    BY DEF Stages, Locked
  <2> QED BY <1>2, <1>3, <2>1, <2>2, TaskQuiet, PaymentIsPositive
<1>4. CASE Accept(tx[p])
  <2>1. Unsent(p) /\ tx[p].pay = p
    BY <1>1 DEF Unsent, PaymentInv, FundedInv
  <2> QED BY <1>2, <1>4, <2>1, SendInv
<1> QED BY <1>3, <1>4

LEMMA DeliveredInv ==
  ASSUME IInv, NEW p \in Payments, Send(p) \/ Resend(p)
  PROVE  IInv'
<1>1. PaymentInv(p) /\ ShapeInv
  BY DEF IInv
<1>2. /\ Unsent(p) /\ Accept(tx[p]) /\ GoTo(p, "wait") /\ lock' = 0
      /\ UNCHANGED <<kind, tx, depth>>
  BY DEF Send, Resend, Unsent
<1>3. tx' = [tx EXCEPT ![p] = tx[p]] /\ tx[p].pay = p
  BY <1>1, <1>2 DEF ShapeInv, PaymentInv, FundedInv
<1> QED BY <1>2, <1>3, SendInv

LEMMA StartBumpInv == ASSUME IInv, NEW p \in Payments, StartBump(p) PROVE IInv'
<1> USE DEF StartBump
<1> DEFINE stage == IF kind = "core" THEN "bump" ELSE "failed"
<1>1. PaymentInv(p) /\ NetworkInv /\ ShapeInv
  BY DEF IInv
<1>2. tx' = [tx EXCEPT ![p] = tx[p]] /\ lock # p
  BY <1>1 DEF ShapeInv, Locked
<1>3. tx[p] \in Live /\ tx[p] \in known /\ tx[p].pay = p
  <2>1. tx[p] \in Live
    BY DEF is_in_mempool, Live
  <2>2. tx[p].pay \in {0, p} /\ tx[p].pay \in Payments
    BY <1>1, <2>1 DEF PaymentInv, NetworkInv
  <2> QED BY <1>1, <2>1, <2>2, PaymentIsPositive DEF NetworkInv
<1>4. NextVersion(p) > 1
  <2>1. tx[p].version \in 1..(NextVersion(p) - 1)
    BY <1>1, <1>3 DEF NetworkInv
  <2>2. NextVersion(p) \in Nat
    BY <1>1, SameNetwork, NextVersionIsNat DEF NetworkInv
  <2> QED BY <2>1, <2>2
<1>5. ASSUME task'[p] = stage, tx'[p] = tx[p]
      PROVE  PaymentInv(p)'
  <2>1. Live' = Live /\ Coins(Live)' = Coins(Live) /\ NextVersion(p)' = NextVersion(p)
    BY <1>1, SameNetwork
  <2>2. \A t \in Live : t.pay = p => t = tx[p]
    BY <1>1, <1>3 DEF NetworkInv
  <2>3. LiveInv(p)'
    BY <1>5, <2>1, <2>2 DEF LiveInv, Bumping
  <2>4. BumpInv(p)'
    BY <1>3, <1>4, <1>5, <2>1 DEF BumpInv, Bumping
  <2>5. FundedInv(p)'
    BY <1>5 DEF FundedInv, Unsent
  <2> QED BY <1>1, <1>5, <2>3, <2>4, <2>5 DEF PaymentInv
<1>6. stage \in Stages /\ stage \notin Locked
  BY DEF Stages, Locked
<1>7. lock' \in Payments \cup {0} /\ GoTo(p, stage)
  BY <1>1 DEF ShapeInv
<1> HIDE DEF stage
<1> QED BY <1>2, <1>5, <1>6, <1>7, TaskQuiet

\* The replacement keeps all inputs of the old transaction, so that the two cannot
\* both live, and what it adds nobody spends.
LEMMA FundBumpInv == ASSUME IInv, NEW p \in Payments, FundBump(p) PROVE IInv'
<1> USE DEF FundBump
<1>1. PaymentInv(p) /\ NetworkInv /\ ShapeInv
  BY DEF IInv
<1>2. PICK inputs \in Refundings(p) :
        Funded(p, NextVersion(p), inputs, Rest(inputs, NextVersion(p)), NodeFee(inputs, NextVersion(p)))
  OBVIOUS
<1> DEFINE old == tx[p]
           t == [pay |-> p, version |-> NextVersion(p), inputs |-> inputs,
                 change |-> Rest(inputs, NextVersion(p)), fee |-> NodeFee(inputs, NextVersion(p))]
<1>3. tx' = [tx EXCEPT ![p] = t] /\ lock = p
  BY <1>1, <1>2 DEF Funded, ShapeInv, Locked
<1>4. t.pay = p /\ t.version = NextVersion(p) /\ t.inputs = inputs
  OBVIOUS
<1>5. inputs # {} /\ old.inputs \subseteq inputs /\ inputs \subseteq old.inputs \cup Unspent(Live)
  BY <1>2 DEF Refundings, NodeFundings, KeptInputs
<1> HIDE DEF t
<1>6. ASSUME task'[p] = "resend", tx'[p] = t
      PROVE  PaymentInv(p)'
  <2>1. Live' = Live /\ Coins(Live)' = Coins(Live) /\ NextVersion(p)' = NextVersion(p)
    BY <1>1, SameNetwork
  <2>2. LiveInv(p)'
    <3>1. \A u \in Live : u.pay = p => u = old
      BY <1>1 DEF PaymentInv, LiveInv, Bumping
    <3> QED BY <1>4, <1>5, <1>6, <2>1, <3>1 DEF LiveInv, Bumping
  <2>3. BumpInv(p)'
    BY <1>1, <1>6, <2>1 DEF PaymentInv, BumpInv, Bumping
  <2>4. ASSUME inputs \subseteq Coins(Live), NEW u \in Live, u.pay # p
        PROVE  u.inputs \cap inputs = {}
    <3>1. old.inputs \subseteq Coins(Live)
      BY <1>5, <2>4
    <3>2. old \in Live /\ old \in known
      BY <1>1, <3>1 DEF PaymentInv, BumpInv, Bumping
    <3>3. old.pay = p
      BY <1>1, <3>2, PaymentIsPositive DEF PaymentInv, NetworkInv
    <3>4. u.inputs \cap old.inputs = {}
      BY <1>1, <2>4, <3>2, <3>3 DEF NetworkInv
    <3>5. u.inputs \cap Unspent(Live) = {}
      BY DEF Unspent
    <3> QED BY <1>5, <3>4, <3>5
  <2>5. FundedInv(p)'
    BY <1>4, <1>5, <1>6, <2>1, <2>4 DEF FundedInv
  <2> QED BY <1>4, <1>6, <2>2, <2>3, <2>5 DEF PaymentInv
<1>7. "resend" \in Stages /\ "resend" \in Locked
  BY DEF Stages, Locked
<1> QED BY <1>3, <1>6, <1>7, TaskQuiet

LEMMA BumpFailsInv == ASSUME IInv, NEW p \in Payments, BumpFails(p) PROVE IInv'
<1> USE DEF BumpFails
<1>1. PaymentInv(p) /\ NetworkInv /\ ShapeInv
  BY DEF IInv
<1>2. task[p] \in {"refund", "resend"} /\ lock = p
  BY <1>1 DEF ShapeInv, Locked
<1>3. OldTx(p).pay = p
  <2>1. NextVersion(p) \in Nat /\ NextVersion(p) > 1
    BY <1>1, <1>2, NextVersionIsNat DEF PaymentInv, BumpInv, Bumping, NetworkInv
  <2>2. NextVersion(p) - 1 \in 1..(NextVersion(p) - 1)
    BY <2>1
  <2>3. \E t \in known : t.pay = p /\ t.version = NextVersion(p) - 1
    BY <1>1, <2>2 DEF NetworkInv
  <2> QED BY <2>3 DEF OldTx
<1>4. CASE UNCHANGED <<known, pool>>
  <2>1. ASSUME task'[p] = "wait", tx'[p] = OldTx(p)
        PROVE  PaymentInv(p)'
    BY <1>3, <2>1 DEF PaymentInv, LiveInv, BumpInv, FundedInv, Unsent, Bumping
  <2>2. "wait" \in Stages /\ "wait" \notin Locked
    BY DEF Stages, Locked
  <2> QED BY <1>2, <1>4, <2>1, <2>2, TaskQuiet, PaymentIsPositive
<1>5. CASE task[p] = "resend" /\ Accept(tx[p])
  BY <1>3, <1>5, SendInv DEF Unsent
<1> QED BY <1>4, <1>5

LEMMA GetMetadataInv == ASSUME IInv, NEW p \in Payments, GetMetadata(p) PROVE IInv'
<1> USE DEF GetMetadata
<1>1. PaymentInv(p) /\ ShapeInv
  BY DEF IInv
<1>2. tx' = [tx EXCEPT ![p] = tx[p]] /\ lock # p /\ lock' \in Payments \cup {0}
  BY <1>1 DEF ShapeInv, Locked
<1>3. ASSUME task'[p] = "done", tx'[p] = tx[p]
      PROVE  PaymentInv(p)'
  BY <1>1, <1>3 DEF PaymentInv, LiveInv, BumpInv, FundedInv, Unsent, Bumping
<1>4. "done" \in Stages /\ "done" \notin Locked
  BY DEF Stages, Locked
<1> QED BY <1>2, <1>3, <1>4, TaskQuiet

-----------------------------------------------------------------------------
(* The network, and the restart of the service.                            *)

LEMMA NodeRestartsInv ==
  ASSUME IInv, UNCHANGED <<kind, lock, task, tx, known, pool, depth>>
  PROVE  IInv'
<1>1. NetworkInv /\ ShapeInv
  BY DEF IInv
<1>2. Quiet
  BY <1>1 DEF Quiet, Live, Mined, NetworkInv
<1>3. NetworkInv'
  BY <1>1, <1>2, QuietNetwork
<1>4. ShapeInv'
  BY <1>1 DEF ShapeInv
<1>5. \A p \in Payments : PaymentInv(p)'
  BY <1>1, <1>2, QuietOthers DEF IInv
<1> QED BY <1>3, <1>4, <1>5 DEF IInv

LEMMA NewBlockInv == ASSUME IInv, NewBlock PROVE IInv'
<1>1. NetworkInv /\ ShapeInv
  BY DEF IInv
<1>2. PICK new \in {{}} \cup {{t} : t \in pool} :
        /\ depth' = [t \in Mined \cup new |->
                       IF t \in new THEN 1 ELSE Min({depth[t] + 1, num_confirmations + 1})]
        /\ pool' = pool \ new
  BY DEF NewBlock
<1>3. new \subseteq pool
  BY <1>2
<1>4. Mined' = Mined \cup new
  BY <1>2 DEF Mined
<1>5. Quiet
  BY <1>1, <1>2, <1>3, <1>4 DEF Quiet, NewBlock, NetworkInv, Live
<1>6. NetworkInv'
  BY <1>1, <1>5, QuietNetwork
<1>7. ShapeInv'
  BY <1>1 DEF ShapeInv, NewBlock
<1>8. \A p \in Payments : PaymentInv(p)'
  BY <1>1, <1>5, QuietOthers DEF IInv, NewBlock
<1> QED BY <1>6, <1>7, <1>8 DEF IInv

\* What the service finds in the mempool and the chain it waits for; only a
\* payment of which it finds nothing is made again.
LEMMA ServiceRestartsInv == ASSUME IInv, ServiceRestarts PROVE IInv'
<1>1. NetworkInv /\ ShapeInv
  BY DEF IInv
<1>2. /\ \A p \in Payments : task[p] \in {"wait", "failed", "done"}
      /\ UNCHANGED <<kind, lock, known, pool, depth>>
  BY DEF ServiceRestarts
<1>3. PICK found \in [Payments -> Live \cup {NoTx}] :
        /\ \A p \in Payments :
             IF \E t \in Live : t.pay = p THEN found[p].pay = p ELSE found[p] = NoTx
        /\ tx' = [p \in Payments |-> IF task[p] = "done" THEN tx[p] ELSE found[p]]
        /\ task' = [p \in Payments |-> IF task[p] = "done" THEN "done"
                                       ELSE IF found[p] = NoTx THEN "create" ELSE "wait"]
  BY DEF ServiceRestarts
<1>4. NoTx.pay = 0
  BY DEF NoTx
<1>5. Quiet
  BY <1>1, <1>2 DEF Quiet, Live, Mined, NetworkInv
<1>6. NetworkInv'
  BY <1>1, <1>5, QuietNetwork
<1>7. ShapeInv'
  <2>1. task' \in [Payments -> Stages]
    BY <1>3 DEF Stages
  <2>2. tx' = [p \in Payments |-> tx'[p]]
    BY <1>3
  <2>3. \A p \in Payments : lock # p /\ task'[p] \notin Locked
    BY <1>1, <1>2, <1>3 DEF ShapeInv, Locked
  <2> QED BY <1>1, <1>2, <2>1, <2>2, <2>3 DEF ShapeInv
<1>8. ASSUME NEW p \in Payments
      PROVE  PaymentInv(p)'
  <2>1. task'[p] \in {"done", "create", "wait"}
    BY <1>3
  <2>2. BumpInv(p)' /\ FundedInv(p)'
    BY <2>1 DEF BumpInv, FundedInv, Unsent, Bumping
  <2>3. tx'[p].pay \in {0, p}
    BY <1>3, <1>4 DEF IInv, PaymentInv
  <2>4. LiveInv(p)'
    <3>1. SUFFICES ASSUME NEW t \in Live', t.pay = p
                   PROVE  task'[p] # "create"
      BY <2>1 DEF LiveInv, Bumping
    <3>2. t \in Live
      BY <1>5, <3>1 DEF Quiet
    <3>3. found[p].pay = p /\ found[p] # NoTx
      BY <1>3, <1>4, <3>1, <3>2, PaymentIsPositive
    <3> QED BY <1>3, <3>3
  <2> QED BY <2>2, <2>3, <2>4 DEF PaymentInv
<1> QED BY <1>6, <1>7, <1>8 DEF IInv

-----------------------------------------------------------------------------
(* What holds of versions and of the lock.                                 *)

LEMMA InitInv == Init => IInv
<1> SUFFICES ASSUME Init PROVE IInv
  OBVIOUS
<1>1. Live = {} /\ Mined = {}
  BY DEF Init, Live, Mined
<1>2. \A p \in Payments : NextVersion(p) = 1
  <2> SUFFICES ASSUME NEW p \in Payments
               PROVE  NextVersion(p) = 1
    OBVIOUS
  <2>1. {t \in known : t.pay = p} = {}
    BY DEF Init
  <2>2. Cardinality({}) = 0
    BY FS_EmptySet
  <2> QED BY <2>1, <2>2 DEF NextVersion
<1>3. NetworkInv
  <2>1. known = {} /\ pool = {} /\ IsFiniteSet(known)
    BY FS_EmptySet DEF Init
  <2> QED BY <1>1, <1>2, <2>1 DEF NetworkInv
<1>4. ShapeInv
  BY PaymentIsPositive DEF Init, ShapeInv, Stages, Locked
<1>5. \A p \in Payments : PaymentInv(p)
  BY <1>1 DEF Init, PaymentInv, LiveInv, BumpInv, FundedInv, Unsent, Bumping, NoTx
<1> QED BY <1>3, <1>4, <1>5 DEF IInv

LEMMA StepInv == IInv /\ [Next]_vars => IInv'
<1> SUFFICES ASSUME IInv, [Next]_vars PROVE IInv'
  OBVIOUS
<1>1. CASE NewBlock
  BY <1>1, NewBlockInv
<1>2. CASE NodeRestarts
  BY <1>2, NodeRestartsInv DEF NodeRestarts
<1>3. CASE ServiceRestarts
  BY <1>3, ServiceRestartsInv
<1>4. ASSUME NEW p \in Payments, TaskStep(p)
      PROVE  IInv'
  BY <1>4, LockInv, ReloadInv, FundByNodeInv, FundByWalletInv, FundingFailsInv,
     DeliveredInv, FundBumpInv, GetMetadataInv DEF TaskStep
<1>5. ASSUME NEW p \in Payments, Failures(p) \/ StartBump(p)
      PROVE  IInv'
  BY <1>5, SendFailsInv, BumpFailsInv, StartBumpInv DEF Failures
<1>6. CASE UNCHANGED vars
  BY <1>6, NodeRestartsInv DEF vars
<1> QED BY <1>1, <1>2, <1>3, <1>4, <1>5, <1>6 DEF Next

THEOREM Inductive == Spec => []IInv
<1>1. Init => IInv
  BY InitInv
<1>2. IInv /\ [Next]_vars => IInv'
  BY StepInv
<1> QED BY <1>1, <1>2, PTL DEF Spec

\* However often a payment is replaced or made again, after calls that failed but
\* took effect, restarts and evictions, at most one of its transactions is mined.
THEOREM OneVersionMined == Spec => []OnePaymentMined
<1>1. IInv => OnePaymentMined
  BY DEF IInv, NetworkInv, OnePaymentMined, Live
<1> QED BY <1>1, Inductive, PTL

\* The lock that is held from funding to sending keeps two tasks from taking the
\* same coins.
THEOREM FundedStaysFresh == Spec => []FundedIsFresh
<1>1. ASSUME IInv, kind = "core", NEW p \in Payments, Unsent(p),
             tx[p].inputs \subseteq Coins(Live),
             NEW t \in Live \cup {tx[q] : q \in {r \in Payments : Unsent(r)}}, t.pay # p
      PROVE  t.inputs \cap tx[p].inputs = {}
  <2>1. CASE t \in Live
    BY <1>1, <2>1 DEF IInv, PaymentInv, FundedInv
  <2>2. CASE t \notin Live
    <3>1. PICK q \in Payments : Unsent(q) /\ t = tx[q]
      BY <1>1, <2>2
    <3>2. lock = p /\ lock = q
      BY <1>1, <3>1 DEF IInv, ShapeInv, Unsent, Locked
    <3>3. t.pay = p
      BY <1>1, <3>1, <3>2 DEF IInv, PaymentInv, FundedInv
    <3> QED BY <1>1, <3>3
  <2> QED BY <2>1, <2>2
<1>2. IInv => FundedIsFresh
  BY <1>1 DEF FundedIsFresh
<1> QED BY <1>2, Inductive, PTL

-----------------------------------------------------------------------------
(* Sums over finite sets.                                                  *)

\* The function that MapThenSumSet defines by recursion on the subsets.
Pick(s) == CHOOSE x \in s : TRUE
Sums(g, S, sum) ==
  sum = [s \in SUBSET S |-> IF s = {} THEN 0 ELSE g[Pick(s)] + sum[s \ {Pick(s)}]]

LEMMA PickIs == ASSUME NEW s, s # {} PROVE Pick(s) \in s
BY DEF Pick

\* A set of subsets of a finite set that is not empty has one that contains no other.
LEMMA LeastSubset ==
  ASSUME NEW S, IsFiniteSet(S), NEW T \in SUBSET (SUBSET S), T # {}
  PROVE  \E s \in T : \A r \in T : ~(r \subseteq s /\ r # s)
<1> DEFINE R == StrictSubsetOrdering(S)
<1>1. IsWellFoundedOn(R, FiniteSubsetsOf(S))
  BY FS_StrictSubsetOrderingWellFounded
<1>2. T \subseteq FiniteSubsetsOf(S)
  BY FS_Subset DEF FiniteSubsetsOf
<1>3. \E s \in T : \A r \in T : ~ (<<r, s>> \in R)
  <2> HIDE DEF R
  <2> QED BY <1>1, <1>2, WFMin
<1> QED BY <1>3 DEF StrictSubsetOrdering

\* Two such functions agree on what is a subset for both.
LEMMA SumsAgree ==
  ASSUME NEW A, NEW B, IsFiniteSet(A), NEW g, NEW a, NEW b, Sums(g, A, a), Sums(g, B, b),
         NEW r, r \subseteq A, r \subseteq B
  PROVE  a[r] = b[r]
<1> DEFINE T == {s \in SUBSET A : s \subseteq B /\ a[s] # b[s]}
<1>1. SUFFICES T = {}
  OBVIOUS
<1>2. SUFFICES ASSUME T # {} PROVE FALSE
  OBVIOUS
<1>3. PICK s \in T : \A t \in T : ~(t \subseteq s /\ t # s)
  <2>1. T \in SUBSET (SUBSET A)
    OBVIOUS
  <2> HIDE DEF T
  <2> QED BY <1>2, <2>1, LeastSubset
<1>4. s \subseteq A /\ s \subseteq B
  OBVIOUS
<1>5. CASE s = {}
  <2>1. a[s] = 0 /\ b[s] = 0
    BY <1>4, <1>5 DEF Sums
  <2> QED BY <2>1
<1>6. CASE s # {}
  <2> DEFINE t == s \ {Pick(s)}
  <2>1. t \subseteq s /\ t # s
    BY <1>6, PickIs
  <2>2. a[t] = b[t]
    BY <1>3, <1>4, <2>1
  <2>3. a[s] = g[Pick(s)] + a[t] /\ b[s] = g[Pick(s)] + b[t]
    BY <1>4, <1>6 DEF Sums
  <2> QED BY <2>2, <2>3
<1> QED BY <1>5, <1>6

\* There is one: take the least set without.
LEMMA SumsExist ==
  ASSUME NEW S, IsFiniteSet(S), NEW g
  PROVE  \E sum : Sums(g, S, sum)
<1> DEFINE T == {s \in SUBSET S : ~ \E sum : Sums(g, s, sum)}
<1>1. SUFFICES ASSUME T # {} PROVE FALSE
  OBVIOUS
<1>2. PICK A \in T : \A t \in T : ~(t \subseteq A /\ t # A)
  <2>1. T \in SUBSET (SUBSET S)
    OBVIOUS
  <2> HIDE DEF T
  <2> QED BY <1>1, <2>1, LeastSubset
<1> DEFINE Of(s) == CHOOSE sum : Sums(g, s, sum)
           all == [s \in SUBSET A |-> IF s = {} THEN 0
                                      ELSE g[Pick(s)] + Of(s \ {Pick(s)})[s \ {Pick(s)}]]
<1>3. ASSUME NEW s \in SUBSET A, s # A
      PROVE  Sums(g, s, Of(s)) /\ IsFiniteSet(s)
  <2>1. s \notin T /\ s \subseteq S
    BY <1>2, <1>3
  <2>2. \E sum : Sums(g, s, sum)
    BY <2>1
  <2>3. IsFiniteSet(s)
    BY <2>1, FS_Subset
  <2> QED BY <2>2, <2>3
<1> HIDE DEF Of
<1>4. ASSUME NEW s \in SUBSET A, s # A
      PROVE  all[s] = Of(s)[s]
  <2>1. Sums(g, s, Of(s))
    BY <1>3, <1>4
  <2>2. CASE s = {}
    BY <2>1, <2>2 DEF Sums
  <2>3. CASE s # {}
    <3> DEFINE t == s \ {Pick(s)}
    <3>1. t \in SUBSET A /\ t # A /\ t \subseteq s
      BY <1>4
    <3>2. Sums(g, t, Of(t)) /\ IsFiniteSet(t)
      BY <1>3, <3>1
    <3>3. Of(s)[s] = g[Pick(s)] + Of(s)[t]
      BY <2>1, <2>3 DEF Sums
    <3>4. all[s] = g[Pick(s)] + Of(t)[t]
      BY <2>3
    <3>5. Of(s)[t] = Of(t)[t]
      <4> HIDE DEF t
      <4>1. IsFiniteSet(s) /\ t \subseteq t
        BY <1>3, <1>4
      <4> QED BY <2>1, <3>1, <3>2, <4>1, SumsAgree
    <3> QED BY <3>3, <3>4, <3>5
  <2> QED BY <2>2, <2>3
<1>5. ASSUME NEW s \in SUBSET A, s # {}
      PROVE  all[s] = g[Pick(s)] + all[s \ {Pick(s)}]
  <2> DEFINE t == s \ {Pick(s)}
  <2>1. t \in SUBSET A /\ t # A
    BY <1>5, PickIs
  <2>2. all[t] = Of(t)[t]
    <3> HIDE DEF t, all
    <3> QED BY <1>4, <2>1
  <2>3. all[s] = g[Pick(s)] + Of(t)[t]
    BY <1>5
  <2> QED BY <2>2, <2>3
<1>6. Sums(g, A, all)
  <2>1. \A s \in SUBSET A : all[s] = IF s = {} THEN 0 ELSE g[Pick(s)] + all[s \ {Pick(s)}]
    BY <1>5
  <2>2. all = [s \in SUBSET A |-> all[s]]
    OBVIOUS
  <2> HIDE DEF all
  <2> QED BY <2>1, <2>2 DEF Sums
<1> QED BY <1>6

\* The sum of numbers is a number, and grows with them.
LEMMA SumsGrow ==
  ASSUME NEW S, IsFiniteSet(S), NEW g, NEW h, \A x \in S : {g[x], h[x]} \subseteq Nat /\ g[x] <= h[x],
         NEW a, NEW b, Sums(g, S, a), Sums(h, S, b), NEW s \in SUBSET S
  PROVE  {a[s], b[s]} \subseteq Nat /\ a[s] <= b[s]
<1> DEFINE Good(r) == {a[r], b[r]} \subseteq Nat /\ a[r] <= b[r]
           T == {r \in SUBSET S : ~Good(r)}
<1>1. SUFFICES ASSUME T # {} PROVE FALSE
  OBVIOUS
<1>2. PICK r \in T : \A t \in T : ~(t \subseteq r /\ t # r)
  <2>1. T \in SUBSET (SUBSET S)
    OBVIOUS
  <2> HIDE DEF T
  <2> QED BY <1>1, <2>1, LeastSubset
<1>3. CASE r = {}
  <2>1. a[r] = 0 /\ b[r] = 0
    BY <1>3 DEF Sums
  <2> QED BY <2>1
<1>4. CASE r # {}
  <2> DEFINE x == Pick(r)
             t == r \ {x}
  <2>1. t \in SUBSET S /\ t \subseteq r /\ t # r /\ x \in S
    BY <1>4, PickIs
  <2>2. Good(t)
    BY <1>2, <2>1
  <2>3. a[r] = g[x] + a[t] /\ b[r] = h[x] + b[t]
    BY <1>4 DEF Sums
  <2>4. {g[x], h[x]} \subseteq Nat /\ g[x] <= h[x]
    BY <2>1
  <2> HIDE DEF x, t
  <2>5. Good(r)
    BY <2>2, <2>3, <2>4
  <2> QED BY <2>5
<1> QED BY <1>3, <1>4

\* MapThenSumSet is such a function's value for the whole set.
LEMMA SumToIs ==
  ASSUME NEW values, NEW n \in Nat
  PROVE  \E sum : Sums(values, 1..n, sum) /\ SumTo(values, n) = sum[1..n]
<1> DEFINE S == 1..n
           F(sum) == [s \in SUBSET S |-> IF s = {} THEN 0 ELSE values[Pick(s)] + sum[s \ {Pick(s)}]]
           Sum == CHOOSE sum : sum = F(sum)
<1>1. SumTo(values, n) = Sum[S]
  BY DEF SumTo, MapThenSumSet, MapThenFoldSet, Pick
<1>2. \E sum : sum = F(sum)
  <2>1. IsFiniteSet(S)
    BY FS_Interval
  <2> HIDE DEF S
  <2>2. \E sum : Sums(values, S, sum)
    BY <2>1, SumsExist
  <2> QED BY <2>2 DEF Sums
<1>3. Sum = F(Sum)
  <2> HIDE DEF F
  <2> QED BY <1>2
<1> HIDE DEF S, Sum
<1>4. Sums(values, S, Sum)
  BY <1>3 DEF Sums
<1> QED BY <1>1, <1>4 DEF S

LEMMA InputSumIs ==
  ASSUME NEW inputs, IsFiniteSet(inputs), NEW worth, \A c \in inputs : worth[c] = Value(c)
  PROVE  \E sum : Sums(worth, inputs, sum) /\ InputSum(inputs) = sum[inputs]
<1> DEFINE F(sum) == [s \in SUBSET inputs |-> IF s = {} THEN 0 ELSE Value(Pick(s)) + sum[s \ {Pick(s)}]]
           Sum == CHOOSE sum : sum = F(sum)
<1>1. InputSum(inputs) = Sum[inputs]
  BY DEF InputSum, MapThenSumSet, MapThenFoldSet, Pick
<1>2. ASSUME NEW sum PROVE Sums(worth, inputs, sum) <=> sum = F(sum)
  <2> DEFINE G == [s \in SUBSET inputs |-> IF s = {} THEN 0 ELSE worth[Pick(s)] + sum[s \ {Pick(s)}]]
  <2>1. ASSUME NEW s \in SUBSET inputs, s # {} PROVE worth[Pick(s)] = Value(Pick(s))
    BY <2>1, PickIs
  <2>2. \A s \in SUBSET inputs : G[s] = F(sum)[s]
    BY <2>1
  <2>3. G = F(sum)
    BY <2>2
  <2> HIDE DEF F
  <2> QED BY <2>3 DEF Sums
<1> HIDE DEF F
<1>3. \E sum : sum = F(sum)
  BY <1>2, SumsExist
<1>4. Sum = F(Sum)
  BY <1>3
<1> HIDE DEF Sum
<1>5. Sums(worth, inputs, Sum)
  BY <1>2, <1>4
<1> QED BY <1>1, <1>5

\* What the caller of the wallet is owed is a number, if the coins are.
LEMMA SumToGrows ==
  ASSUME NEW n \in Nat, NEW g, NEW h, \A i \in 1..n : {g[i], h[i]} \subseteq Nat /\ g[i] <= h[i]
  PROVE  {SumTo(g, n), SumTo(h, n)} \subseteq Nat /\ SumTo(g, n) <= SumTo(h, n)
<1>1. PICK a : Sums(g, 1..n, a) /\ SumTo(g, n) = a[1..n]
  BY SumToIs
<1>2. PICK b : Sums(h, 1..n, b) /\ SumTo(h, n) = b[1..n]
  BY SumToIs
<1>3. IsFiniteSet(1..n) /\ 1..n \in SUBSET (1..n)
  BY FS_Interval
<1>4. {a[1..n], b[1..n]} \subseteq Nat /\ a[1..n] <= b[1..n]
  <2> DEFINE S == 1..n
  <2> HIDE DEF S
  <2>1. /\ IsFiniteSet(S) /\ S \in SUBSET S /\ Sums(g, S, a) /\ Sums(h, S, b)
        /\ \A i \in S : {g[i], h[i]} \subseteq Nat /\ g[i] <= h[i]
    BY <1>1, <1>2, <1>3 DEF S
  <2>2. {a[S], b[S]} \subseteq Nat /\ a[S] <= b[S]
    BY <2>1, SumsGrow
  <2> QED BY <2>2 DEF S
<1> QED BY <1>1, <1>2, <1>4

LEMMA InputSumIsNat ==
  ASSUME NEW inputs, IsFiniteSet(inputs), \A c \in inputs : Value(c) \in Nat
  PROVE  InputSum(inputs) \in Nat
<1> DEFINE worth == [c \in inputs |-> Value(c)]
<1>1. \A c \in inputs : worth[c] = Value(c) /\ worth[c] \in Nat
  OBVIOUS
<1> HIDE DEF worth
<1>2. PICK sum : Sums(worth, inputs, sum) /\ InputSum(inputs) = sum[inputs]
  BY <1>1, InputSumIs
<1>3. \A c \in inputs : {worth[c], worth[c]} \subseteq Nat /\ worth[c] <= worth[c]
  BY <1>1
<1>4. sum[inputs] \in Nat
  BY <1>2, <1>3, SumsGrow
<1> QED BY <1>2, <1>4

\* Any element may be taken out first.
LEMMA SumsAnyOrder ==
  ASSUME NEW S, IsFiniteSet(S), NEW g, \A x \in S : g[x] \in Nat, NEW sum, Sums(g, S, sum),
         NEW s \in SUBSET S, NEW x \in s
  PROVE  sum[s] = g[x] + sum[s \ {x}]
<1> DEFINE Good(r) == \A y \in r : sum[r] = g[y] + sum[r \ {y}]
           T == {r \in SUBSET S : ~Good(r)}
<1>1. SUFFICES ASSUME T # {} PROVE FALSE
  OBVIOUS
<1>2. PICK r \in T : \A t \in T : ~(t \subseteq r /\ t # r)
  <2>1. T \in SUBSET (SUBSET S)
    OBVIOUS
  <2> HIDE DEF T
  <2> QED BY <1>1, <2>1, LeastSubset
<1>3. \A t \in SUBSET S : sum[t] \in Nat
  <2>1. \A y \in S : {g[y], g[y]} \subseteq Nat /\ g[y] <= g[y]
    OBVIOUS
  <2> QED BY <2>1, SumsGrow
<1>4. ASSUME NEW y \in r PROVE sum[r] = g[y] + sum[r \ {y}]
  <2> DEFINE z == Pick(r)
             ry == r \ {y}
             rz == r \ {z}
             rest == r \ {y, z}
  <2>1. z \in r
    BY PickIs
  <2>2. sum[r] = g[z] + sum[rz]
    BY <1>4 DEF Sums
  <2>3. CASE y = z
    BY <2>2, <2>3
  <2>4. CASE y # z
    <3>1. /\ ry \in SUBSET S /\ ry \subseteq r /\ ry # r /\ z \in ry /\ ry \ {z} = rest
          /\ rz \in SUBSET S /\ rz \subseteq r /\ rz # r /\ y \in rz /\ rz \ {y} = rest
          /\ rest \in SUBSET S /\ y \in S /\ z \in S
      BY <1>4, <2>1, <2>4
    <3>2. Good(ry) /\ Good(rz)
      BY <1>2, <3>1
    <3> HIDE DEF z, ry, rz, rest
    <3>3. sum[ry] = g[z] + sum[rest] /\ sum[rz] = g[y] + sum[rest]
      BY <3>1, <3>2
    <3>4. {g[y], g[z], sum[rest]} \subseteq Nat
      BY <1>3, <3>1
    <3>5. sum[r] = g[y] + sum[ry]
      BY <2>2, <3>3, <3>4
    <3> QED BY <3>5 DEF ry
  <2> QED BY <2>3, <2>4
<1> QED BY <1>4

Image(order, s) == {order[i] : i \in s}
Distinct(order, n) == \A i, j \in 1..n : i # j => order[i] # order[j]

\* The order of the coins does not matter for what they are worth.
LEMMA SumOfImage ==
  ASSUME NEW n \in Nat, NEW order, Distinct(order, n),
         NEW g, NEW worth, \A i \in 1..n : g[i] \in Nat /\ worth[order[i]] = g[i],
         NEW a, Sums(g, 1..n, a),
         NEW b, Sums(worth, Image(order, 1..n), b), IsFiniteSet(Image(order, 1..n))
  PROVE  a[1..n] = b[Image(order, 1..n)]
<1> USE DEF Image, Distinct
<1> DEFINE N == 1..n
           Img(r) == {order[i] : i \in r}
           T == {r \in SUBSET N : a[r] # b[Img(r)]}
<1>1. IsFiniteSet(N)
  BY FS_Interval
<1>2. SUFFICES T = {}
  OBVIOUS
<1>3. SUFFICES ASSUME T # {} PROVE FALSE
  OBVIOUS
<1>4. PICK r \in T : \A t \in T : ~(t \subseteq r /\ t # r)
  <2>1. T \in SUBSET (SUBSET N)
    OBVIOUS
  <2> HIDE DEF T, N
  <2> QED BY <1>1, <1>3, <2>1, LeastSubset
<1>5. CASE r = {}
  <2>1. Img(r) = {} /\ {} \in SUBSET Img(N) /\ r \in SUBSET N
    BY <1>5
  <2>2. a[{}] = 0 /\ b[{}] = 0
    BY DEF Sums
  <2> QED BY <1>5, <2>1, <2>2
<1>6. CASE r # {}
  <2> DEFINE i == Pick(r)
             t == r \ {i}
  <2>1. i \in r /\ i \in N /\ t \in SUBSET N /\ t \subseteq r /\ t # r
    BY <1>6, PickIs
  <2>2. a[t] = b[Img(t)]
    BY <1>4, <2>1
  <2>3. a[r] = g[i] + a[t]
    BY <1>6 DEF Sums
  <2>4. Img(r) \in SUBSET Img(N) /\ order[i] \in Img(r) /\ Img(r) \ {order[i]} = Img(t)
    BY <2>1
  <2>5. b[Img(r)] = worth[order[i]] + b[Img(r) \ {order[i]}]
    <3> DEFINE S == Img(N)
               s == Img(r)
               x == order[i]
    <3>1. \A y \in S : worth[y] \in Nat
      OBVIOUS
    <3>2. IsFiniteSet(S) /\ Sums(worth, S, b) /\ s \in SUBSET S /\ x \in s
      BY <2>4
    <3> HIDE DEF S, s, x
    <3>3. b[s] = worth[x] + b[s \ {x}]
      BY <3>1, <3>2, SumsAnyOrder
    <3> QED BY <3>3 DEF s, x
  <2>6. worth[order[i]] = g[i]
    BY <2>1
  <2> QED BY <2>2, <2>3, <2>4, <2>5, <2>6
<1> QED BY <1>5, <1>6

\* What is missing from every number is missing from the sum as often.
Times(n, cost) == n * cost

LEMMA SumsDiffer ==
  ASSUME NEW S, IsFiniteSet(S), NEW cost \in Nat,
         NEW g, NEW h, \A x \in S : {g[x], h[x]} \subseteq Nat /\ g[x] = h[x] + cost,
         NEW a, NEW b, Sums(g, S, a), Sums(h, S, b), NEW s \in SUBSET S
  PROVE  a[s] = b[s] + Times(Cardinality(s), cost)
<1> USE DEF Times
<1> DEFINE Good(r) == a[r] = b[r] + Cardinality(r) * cost
           T == {r \in SUBSET S : ~Good(r)}
<1>1. SUFFICES ASSUME T # {} PROVE FALSE
  OBVIOUS
<1>2. PICK r \in T : \A t \in T : ~(t \subseteq r /\ t # r)
  <2>1. T \in SUBSET (SUBSET S)
    OBVIOUS
  <2> HIDE DEF T
  <2> QED BY <1>1, <2>1, LeastSubset
<1>3. \A t \in SUBSET S : b[t] \in Nat
  <2>1. \A x \in S : {h[x], h[x]} \subseteq Nat /\ h[x] <= h[x]
    OBVIOUS
  <2> QED BY <2>1, SumsGrow
<1>4. CASE r = {}
  <2>1. a[r] = 0 /\ b[r] = 0 /\ Cardinality(r) = 0
    BY <1>4, FS_EmptySet DEF Sums
  <2> QED BY <2>1
<1>5. CASE r # {}
  <2> DEFINE x == Pick(r)
             t == r \ {x}
  <2>1. t \in SUBSET S /\ t \subseteq r /\ t # r /\ x \in S /\ x \in r
    BY <1>5, PickIs
  <2>2. Good(t)
    BY <1>2, <2>1
  <2>3. a[r] = g[x] + a[t] /\ b[r] = h[x] + b[t]
    BY <1>5 DEF Sums
  <2>4. g[x] = h[x] + cost /\ {h[x], b[t]} \subseteq Nat
    BY <1>3, <2>1
  <2>5. Cardinality(t) \in Nat /\ Cardinality(r) = Cardinality(t) + 1
    <3>1. IsFiniteSet(r) /\ IsFiniteSet(t)
      BY <2>1, FS_Subset
    <3>2. Cardinality(t) = Cardinality(r) - 1
      BY <2>1, <3>1, FS_RemoveElement
    <3> QED BY <3>1, <3>2, FS_CardinalityType
  <2> DEFINE k == Cardinality(t)
  <2>6. (k + 1) * cost = k * cost + cost /\ k * cost \in Nat
    <3> HIDE DEF k
    <3>1. k \in Nat
      BY <2>5 DEF k
    <3> QED BY <3>1
  <2>7. a[t] = b[t] + k * cost
    BY <2>2
  <2> HIDE DEF x, t, k
  <2>8. a[r] = b[r] + (k + 1) * cost
    BY <2>3, <2>4, <2>6, <2>7
  <2> QED BY <2>5, <2>8 DEF k
<1> QED BY <1>4, <1>5

Dearer(g, h, n, cost) ==
  \A i \in 1..n : {g[i], h[i]} \subseteq Nat /\ g[i] = h[i] + cost

LEMMA SumToDiffers ==
  ASSUME NEW n \in Nat, NEW cost \in Nat, NEW g, NEW h, Dearer(g, h, n, cost)
  PROVE  SumTo(g, n) = SumTo(h, n) + Times(n, cost)
<1> DEFINE S == 1..n
<1>1. PICK a : Sums(g, S, a) /\ SumTo(g, n) = a[S]
  BY SumToIs
<1>2. PICK b : Sums(h, S, b) /\ SumTo(h, n) = b[S]
  BY SumToIs
<1>3. IsFiniteSet(S) /\ Cardinality(S) = n /\ S \in SUBSET S
  BY FS_Interval
<1>4. \A i \in S : {g[i], h[i]} \subseteq Nat /\ g[i] = h[i] + cost
  BY DEF Dearer
<1> HIDE DEF S
<1>5. a[S] = b[S] + Times(Cardinality(S), cost)
  BY <1>1, <1>2, <1>3, <1>4, SumsDiffer
<1> QED BY <1>1, <1>2, <1>3, <1>5

-----------------------------------------------------------------------------
(* Fees.                                                                   *)

\* The fee is the least that is enough for the size.
LEMMA GetFeeIs ==
  ASSUME NEW rate \in Nat, NEW bytes \in Nat
  PROVE  /\ get_fee(rate, bytes) \in Nat /\ 1000 * get_fee(rate, bytes) >= rate * bytes
         /\ \A fee \in Nat : 1000 * fee >= rate * bytes => get_fee(rate, bytes) <= fee
<1> DEFINE x == rate * bytes
<1>1. x \in Nat
  OBVIOUS
<1>2. get_fee(rate, bytes) = (x + 1000 - 1) \div 1000
  BY DEF get_fee, DivCeil
<1> HIDE DEF x
<1>3. /\ (x + 1000 - 1) \div 1000 \in Nat /\ 1000 * ((x + 1000 - 1) \div 1000) >= x
      /\ 1000 * ((x + 1000 - 1) \div 1000) <= x + 999
  BY <1>1
<1>4. ASSUME NEW fee \in Nat, 1000 * fee >= x PROVE (x + 1000 - 1) \div 1000 <= fee
  BY <1>1, <1>3, <1>4
<1> QED BY <1>2, <1>3, <1>4 DEF x

LEMMA FeeIsNat == \A rate, bytes \in Nat : get_fee(rate, bytes) \in Nat
BY GetFeeIs

\* A signed transaction is no longer than its parts.
LEMMA SizeIs ==
  ASSUME NEW n \in Nat, NEW outputSize \in Nat
  PROVE  /\ calculate_maximum_signed_tx_size(n, outputSize) \in Nat
         /\ calculate_maximum_signed_tx_size(n, outputSize)
              <= 11 + outputSize + n * calculate_maximum_signed_input_size
         /\ calculate_maximum_signed_input_size \in Nat
<1>1. calculate_maximum_signed_input_size = 68
  <2>1. get_transaction_input_weight = 271
    BY DEF get_transaction_input_weight, TxInSize, WITNESS_SCALE_FACTOR, WitnessSize
  <2> QED BY <2>1 DEF calculate_maximum_signed_input_size, get_virtual_transaction_size, DivCeil,
                      WITNESS_SCALE_FACTOR
<1>2. calculate_maximum_signed_tx_size(n, outputSize) =
        (4 * (4 + 1 + n * 41 + 1 + outputSize + 4) + 2 + n * 107 + 4 - 1) \div 4
  BY DEF calculate_maximum_signed_tx_size, get_virtual_transaction_size, DivCeil, TxInSize,
         WitnessSize, WITNESS_SCALE_FACTOR
<1>3. /\ (4 * (4 + 1 + n * 41 + 1 + outputSize + 4) + 2 + n * 107 + 4 - 1) \div 4 \in Nat
      /\ (4 * (4 + 1 + n * 41 + 1 + outputSize + 4) + 2 + n * 107 + 4 - 1) \div 4
           <= 11 + outputSize + n * 68
  OBVIOUS
<1> QED BY <1>1, <1>2, <1>3

LEMMA FeeForIsNat ==
  ASSUME NEW n \in Nat, NEW withChange \in BOOLEAN, NEW rate \in Nat
  PROVE  FeeFor(n, withChange, rate) \in Nat
<1> DEFINE outputSize == TxOutSize + OpReturnSize + (IF withChange THEN TxOutSize ELSE 0)
<1>1. outputSize \in Nat
  BY DEF TxOutSize, OpReturnSize
<1> HIDE DEF outputSize
<1>2. FeeFor(n, withChange, rate) = get_fee(rate, calculate_maximum_signed_tx_size(n, outputSize))
  BY DEF FeeFor, outputSize
<1>3. calculate_maximum_signed_tx_size(n, outputSize) \in Nat
  BY <1>1, SizeIs
<1> QED BY <1>2, <1>3, GetFeeIs

\* The fee for a transaction is at most the fees for its inputs, for its outputs and
\* what else it has, and for the change, each rounded up.
LEMMA FeesOfParts ==
  ASSUME NEW n \in Nat, NEW rate \in Nat, NEW outputSize \in Nat, NEW changeSize \in Nat
  PROVE  get_fee(rate, calculate_maximum_signed_tx_size(n, outputSize + changeSize))
           <= n * get_fee(rate, calculate_maximum_signed_input_size)
                + get_fee(rate, 10 + 1 + outputSize) + get_fee(rate, changeSize)
<1> DEFINE in == calculate_maximum_signed_input_size
           size == calculate_maximum_signed_tx_size(n, outputSize + changeSize)
           i == get_fee(rate, in)
           o == get_fee(rate, 10 + 1 + outputSize)
           c == get_fee(rate, changeSize)
<1>1. size \in Nat /\ size <= 11 + outputSize + changeSize + n * in /\ in \in Nat
  <2> DEFINE total == outputSize + changeSize
  <2>1. total \in Nat /\ 11 + outputSize + changeSize = 11 + total
    OBVIOUS
  <2> HIDE DEF total
  <2>2. /\ calculate_maximum_signed_tx_size(n, total) \in Nat
        /\ calculate_maximum_signed_tx_size(n, total) <= 11 + total + n * in
        /\ in \in Nat
    BY <2>1, SizeIs
  <2> QED BY <2>1, <2>2 DEF total
<1> HIDE DEF in, size
<1>2. i \in Nat /\ 1000 * i >= rate * in
  BY <1>1, GetFeeIs
<1>3. o \in Nat /\ 1000 * o >= rate * (11 + outputSize)
  <2>1. 10 + 1 + outputSize \in Nat /\ 10 + 1 + outputSize = 11 + outputSize
    OBVIOUS
  <2> QED BY <2>1, GetFeeIs
<1>4. c \in Nat /\ 1000 * c >= rate * changeSize
  BY GetFeeIs
<1> HIDE DEF i, o, c
<1>5. 1000 * (n * i) >= rate * (n * in) /\ n * i \in Nat /\ n * in \in Nat
  <2>1. n * (1000 * i) >= n * (rate * in)
    <3> DEFINE x == 1000 * i
               y == rate * in
    <3>1. x \in Nat /\ y \in Nat /\ x >= y
      BY <1>1, <1>2
    <3> HIDE DEF x, y
    <3>2. n * x >= n * y
      BY <3>1
    <3> QED BY <3>2 DEF x, y
  <2>2. n * (1000 * i) = 1000 * (n * i) /\ n * (rate * in) = rate * (n * in)
    BY <1>1, <1>2
  <2> QED BY <1>1, <1>2, <2>1, <2>2
<1> DEFINE k == n * in
           m == n * i
<1>6. rate * (11 + outputSize + changeSize + k) = rate * (11 + outputSize) + rate * changeSize + rate * k
  <2>1. k \in Nat
    BY <1>5
  <2> HIDE DEF k
  <2> QED BY <2>1
<1>7. rate * size <= rate * (11 + outputSize + changeSize + k)
  <2> DEFINE x == 11 + outputSize + changeSize + k
  <2>1. x \in Nat /\ size <= x
    BY <1>1, <1>5
  <2> HIDE DEF x
  <2>2. rate * size <= rate * x
    BY <1>1, <2>1
  <2> QED BY <2>2 DEF x
<1>8. 1000 * (m + o + c) >= rate * size
  <2> DEFINE a == rate * (11 + outputSize)
             b == rate * changeSize
             d == rate * k
             e == rate * size
  <2>1. {a, b, d, e} \subseteq Nat /\ e <= a + b + d
    BY <1>1, <1>5, <1>6, <1>7
  <2>2. 1000 * m >= d /\ 1000 * o >= a /\ 1000 * c >= b /\ m \in Nat
    BY <1>3, <1>4, <1>5
  <2> HIDE DEF a, b, d, e, m
  <2>3. 1000 * (m + o + c) >= e
    BY <1>3, <1>4, <2>1, <2>2
  <2> QED BY <2>3 DEF e
<1>9. m + o + c \in Nat
  BY <1>3, <1>4, <1>5
<1>10. get_fee(rate, size) <= m + o + c
  <2> HIDE DEF m
  <2> QED BY <1>1, <1>8, <1>9, GetFeeIs
<1> QED BY <1>10 DEF size, i, o, c, in

\* A set of natural numbers that is not empty has a least element.
LEMMA MinIs ==
  ASSUME NEW ns \in SUBSET Nat, ns # {}
  PROVE  Min(ns) \in ns /\ \A n \in ns : Min(ns) <= n
<1> DEFINE R == StrictSubsetOrdering(Nat)
           T == {0..n : n \in ns}
<1>1. IsWellFoundedOn(R, FiniteSubsetsOf(Nat))
  BY FS_StrictSubsetOrderingWellFounded
<1>2. \A n \in ns : 0..n \in FiniteSubsetsOf(Nat)
  BY FS_Interval DEF FiniteSubsetsOf
<1>3. T \subseteq FiniteSubsetsOf(Nat) /\ T # {}
  BY <1>2
<1>4. \E x \in T : \A y \in T : ~ (<<y, x>> \in R)
  <2> HIDE DEF R, T
  <2> QED BY <1>1, <1>3, WFMin
<1>5. PICK n \in ns : \A k \in ns : ~ (<<0..k, 0..n>> \in R)
  BY <1>4
<1>6. \A k \in ns : k < n => <<0..k, 0..n>> \in R
  BY DEF StrictSubsetOrdering
<1>7. \A k \in ns : n <= k
  <2> HIDE DEF R
  <2>1. \A k \in ns : ~ (k < n)
    BY <1>5, <1>6
  <2> QED BY <2>1
<1> QED BY <1>7 DEF Min

LEMMA SaturatingSubIs ==
  ASSUME NEW a \in Nat, NEW b \in Nat
  PROVE  /\ SaturatingSub(a, b) \in Nat /\ SaturatingSub(a, b) <= a
         /\ SaturatingSub(a, b) > 0 => a = SaturatingSub(a, b) + b
         /\ b <= a => a = SaturatingSub(a, b) + b
         /\ SaturatingSub(a, b) + b >= a
BY DEF SaturatingSub

\* What the light wallet's selection returns: coins from the front of the list, of
\* which nothing is lost, and the fee that was asked for if they are worth theirs.
LEMMA FundingIs ==
  ASSUME NEW k \in Nat, NEW values, DOMAIN values = 1..k, \A i \in 1..k : values[i] \in Nat,
         NEW amount \in Nat, NEW rate \in Nat,
         NEW funding, funding = fund_transaction(values, amount, rate), funding # NotEnoughInputs
  PROVE  /\ funding.inputs \in 1..k /\ funding.change \in Nat /\ funding.fee \in Nat
         /\ SumTo(values, funding.inputs) = amount + funding.change + funding.fee
         /\ (\A i \in 1..funding.inputs : get_fee(rate, calculate_maximum_signed_input_size) <= values[i])
              => funding.fee >= FeeFor(funding.inputs, funding.change > 0, rate)
<1> DEFINE outputSize == TxOutSize + OpReturnSize
           in == get_fee(rate, calculate_maximum_signed_input_size)
           out == get_fee(rate, 10 + 1 + outputSize)
           extra == get_fee(rate, TxOutSize)
           target == amount + out
           effective == [i \in DOMAIN values |-> get_effective_value(values[i], rate)]
           enough == {n \in DOMAIN values : SumTo(effective, n) >= target}
           n == Min(enough)
           selected == SumTo(values, n)
           worth == SumTo(effective, n)
           change == get_change(worth, target, extra)
           size == outputSize + (IF change > 0 THEN TxOutSize ELSE 0)
           needed == get_fee(rate, calculate_maximum_signed_tx_size(n, size))
           fee == selected - amount - change
           surplus == IF change > 0 THEN SaturatingSub(fee, needed) ELSE 0
<1>1. enough # {} /\ funding = [inputs |-> n, change |-> change + surplus, fee |-> fee - surplus]
  BY DEF fund_transaction
<1>2. n \in 1..k /\ worth >= target
  <2>1. enough \in SUBSET Nat
    OBVIOUS
  <2> DEFINE e == enough
  <2>2. Min(e) \in e
    <3> HIDE DEF e
    <3>1. e \in SUBSET Nat /\ e # {}
      BY <1>1, <2>1 DEF e
    <3> QED BY <3>1, MinIs
  <2> QED BY <2>2
<1>3. outputSize = 74 /\ TxOutSize = 31
  BY DEF TxOutSize, OpReturnSize
<1>4. in \in Nat /\ out \in Nat /\ extra \in Nat /\ needed \in Nat
  <2>1. calculate_maximum_signed_input_size \in Nat /\ 10 + 1 + outputSize \in Nat /\ TxOutSize \in Nat
    <3>1. calculate_maximum_signed_input_size \in Nat
      BY SizeIs, 0 \in Nat
    <3> QED BY <1>3, <3>1
  <2>2. size \in Nat /\ n \in Nat
    BY <1>2, <1>3
  <2>3. calculate_maximum_signed_tx_size(n, size) \in Nat
    <3> HIDE DEF size, n
    <3> QED BY <2>2, SizeIs
  <2> HIDE DEF size, n, outputSize
  <2>4. \A bytes \in Nat : get_fee(rate, bytes) \in Nat
    BY FeeIsNat
  <2> QED BY <2>1, <2>3, <2>4
<1>5. ASSUME NEW i \in 1..n
      PROVE  /\ {effective[i], values[i]} \subseteq Nat /\ effective[i] <= values[i]
             /\ in <= values[i] => values[i] = effective[i] + in
  <2>1. i \in DOMAIN values /\ values[i] \in Nat
    BY <1>2
  <2>2. effective[i] = SaturatingSub(values[i], in)
    BY <2>1 DEF get_effective_value
  <2> DEFINE v == values[i]
             e == effective[i]
  <2>3. v \in Nat /\ in \in Nat /\ e = SaturatingSub(v, in)
    BY <1>4, <2>1, <2>2
  <2> HIDE DEF in, v, e
  <2>4. e \in Nat /\ e <= v /\ (in <= v => v = e + in)
    BY <2>3, SaturatingSubIs
  <2> QED BY <2>3, <2>4 DEF v, e
<1>6. worth \in Nat /\ selected \in Nat /\ worth <= selected
  <2>1. n \in Nat
    BY <1>2
  <2> HIDE DEF n, effective, in
  <2> QED BY <1>5, <2>1, SumToGrows
<1>7. ASSUME \A i \in 1..n : in <= values[i]
      PROVE  selected = worth + n * in
  <2>1. n \in Nat
    BY <1>2
  <2> DEFINE g == values
             h == effective
  <2>2. Dearer(g, h, n, in)
    BY <1>5, <1>7 DEF Dearer
  <2> HIDE DEF n, in, g, h
  <2>3. in \in Nat
    BY <1>4
  <2>4. SumTo(g, n) = SumTo(h, n) + Times(n, in)
    BY <2>1, <2>2, <2>3, SumToDiffers
  <2> QED BY <2>4 DEF Times, g, h
<1> HIDE DEF n, in, out, extra, needed, worth, selected, outputSize, effective
<1>8. /\ change \in Nat /\ change <= worth - target
      /\ change > 0 => worth = target + extra + change
      /\ target \in Nat
  <2> DEFINE left == SaturatingSub(worth, target)
  <2>1. target \in Nat
    BY <1>4
  <2> HIDE DEF target
  <2>2. left \in Nat /\ worth = left + target
    BY <1>2, <1>6, <2>1, SaturatingSubIs
  <2> HIDE DEF left
  <2>3. change = SaturatingSub(left, extra)
    BY DEF get_change, left
  <2>4. change \in Nat /\ change <= left /\ (change > 0 => left = change + extra)
    BY <1>4, <2>2, <2>3, SaturatingSubIs
  <2> QED BY <1>4, <1>6, <2>1, <2>2, <2>4
<1> HIDE DEF change
<1>9. fee \in Nat /\ fee >= out /\ selected = amount + change + fee
  BY <1>4, <1>6, <1>8
<1> HIDE DEF fee
<1>10. surplus \in Nat /\ surplus <= fee /\ (change = 0 => surplus = 0)
  <2>1. SaturatingSub(fee, needed) \in Nat /\ SaturatingSub(fee, needed) <= fee
    BY <1>4, <1>9, SaturatingSubIs
  <2> QED BY <1>8, <1>9, <2>1
<1>11. surplus > 0 => fee = surplus + needed
  BY <1>4, <1>8, <1>9, SaturatingSubIs
<1>12. ASSUME \A i \in 1..n : in <= values[i]
       PROVE  fee >= needed
  <2>1. selected = worth + n * in /\ n * in \in Nat /\ n \in Nat
    BY <1>2, <1>4, <1>7, <1>12
  <2>2. n \in Nat /\ outputSize \in Nat /\ TxOutSize \in Nat /\ 0 \in Nat
    BY <1>2, <1>3
  <2>3. CASE change > 0
    <3>1. needed = get_fee(rate, calculate_maximum_signed_tx_size(n, outputSize + TxOutSize))
      BY <2>3 DEF needed
    <3>2. needed <= n * in + out + extra
      BY <2>2, <3>1, FeesOfParts DEF in, out, extra
    <3> DEFINE m == n * in
    <3>3. m \in Nat /\ needed <= m + out + extra /\ selected = worth + m
      BY <2>1, <3>2
    <3> HIDE DEF m
    <3> QED BY <1>4, <1>6, <1>8, <1>9, <2>3, <3>3
  <2>4. CASE ~(change > 0)
    <3>1. needed = get_fee(rate, calculate_maximum_signed_tx_size(n, outputSize + 0))
      BY <2>4 DEF needed
    <3>2. needed <= n * in + out + get_fee(rate, 0)
      BY <2>2, <3>1, FeesOfParts DEF in, out
    <3>3. get_fee(rate, 0) = 0
      BY DEF get_fee, DivCeil
    <3> DEFINE m == n * in
    <3>4. m \in Nat /\ needed <= m + out /\ selected = worth + m
      BY <1>4, <2>1, <3>2, <3>3
    <3> HIDE DEF m
    <3>5. change = 0
      BY <1>8, <2>4
    <3> QED BY <1>2, <1>4, <1>6, <1>8, <1>9, <3>4, <3>5
  <2> QED BY <2>3, <2>4
<1>13. needed = FeeFor(n, change + surplus > 0, rate)
  <2>1. change + surplus > 0 <=> change > 0
    BY <1>8, <1>10
  <2> QED BY <2>1 DEF needed, FeeFor, outputSize
<1> HIDE DEF surplus
<1>14. SumTo(values, n) = amount + (change + surplus) + (fee - surplus)
  BY <1>8, <1>9, <1>10 DEF selected
<1>15. fee - surplus \in Nat /\ change + surplus \in Nat
  BY <1>8, <1>9, <1>10
<1>16. ASSUME \A i \in 1..n : in <= values[i]
       PROVE  fee - surplus >= needed
  BY <1>4, <1>9, <1>10, <1>11, <1>12, <1>16
<1> QED BY <1>1, <1>2, <1>13, <1>14, <1>15, <1>16 DEF in

-----------------------------------------------------------------------------
(* Coins and amounts.                                                      *)

\* The change and the fee are amounts, and there are only so many inputs.
Sound(t) == t.change \in Nat /\ t.fee \in Nat /\ IsFiniteSet(t.inputs)

MoneyInv ==
  /\ value \in [1..NumCoins -> Funds]
  /\ \A t \in known : Sound(t)
  /\ \A p \in Payments : Sound(tx[p])

\* A list without repetition is as long as the set of its elements.
LEMMA ImageIs ==
  ASSUME NEW n \in Nat, NEW order, Distinct(order, n)
  PROVE  IsFiniteSet(Image(order, 1..n)) /\ Cardinality(Image(order, 1..n)) = n
<1> USE DEF Image, Distinct
<1> DEFINE S == 1..n
           T == {order[i] : i \in 1..n}
           f == [i \in S |-> order[i]]
<1>1. IsFiniteSet(S) /\ Cardinality(S) = n
  BY FS_Interval
<1>2. f \in Surjection(S, T) /\ f \in Injection(S, T)
  BY DEF Surjection, Injection, IsInjective
<1> HIDE DEF S, T, f
<1>3. IsFiniteSet(T) /\ Cardinality(T) = Cardinality(S)
  BY <1>1, <1>2, FS_Surjection
<1> QED BY <1>1, <1>3 DEF T

LEMMA CoinsAreFinite ==
  ASSUME NEW ts, IsFiniteSet(ts)
  PROVE  IsFiniteSet(Coins(ts))
<1>1. IsFiniteSet(Initial)
  <2> DEFINE S == 1..NumCoins
             f == [i \in S |-> <<0, i>>]
  <2>1. IsFiniteSet(S)
    BY FS_Interval, WalletAssumption
  <2>2. f \in Surjection(S, Initial)
    BY DEF Surjection, Initial
  <2> HIDE DEF S, f
  <2> QED BY <2>1, <2>2, FS_Surjection
<1> DEFINE T == {<<t.pay, t.version>> : t \in ts}
           g == [t \in ts |-> <<t.pay, t.version>>]
<1>2. g \in Surjection(ts, T)
  BY DEF Surjection
<1>3. UNION {Change(t) : t \in ts} \subseteq T
  BY DEF Change
<1> HIDE DEF g, T
<1>4. IsFiniteSet(T)
  BY <1>2, FS_Surjection
<1>5. IsFiniteSet(UNION {Change(t) : t \in ts})
  BY <1>3, <1>4, FS_Subset
<1> QED BY <1>1, <1>5, FS_Union DEF Coins

\* The value of a coin, in terms of what it depends on.
ValueIn(val, ts, coin) ==
  IF coin[1] = 0 THEN val[coin[2]] ELSE (CHOOSE t \in ts : <<t.pay, t.version>> = coin).change

\* A coin is an initial one, or the change of the only transaction with its name.
LEMMA CoinIs ==
  ASSUME NetworkInv, NEW coin \in Coins(known), NEW val
  PROVE  \/ \E i \in 1..NumCoins : coin = <<0, i>> /\ ValueIn(val, known, coin) = val[i]
         \/ \E t \in known : /\ coin = <<t.pay, t.version>> /\ coin[1] # 0
                             /\ ValueIn(val, known, coin) = t.change
<1>1. CASE coin \in Initial
  BY <1>1 DEF Initial, ValueIn
<1>2. CASE coin \notin Initial
  <2>1. PICK t \in known : coin = <<t.pay, t.version>>
    BY <1>2 DEF Coins, Change
  <2>2. coin[1] # 0
    BY <2>1, PaymentIsPositive DEF NetworkInv
  <2> DEFINE u == CHOOSE u \in known : <<u.pay, u.version>> = coin
  <2>3. u \in known /\ <<u.pay, u.version>> = coin
    BY <2>1
  <2> HIDE DEF u
  <2>4. u.pay = t.pay /\ u.version = t.version
    BY <2>1, <2>3
  <2>5. u = t
    BY <2>3, <2>4 DEF NetworkInv
  <2>6. ValueIn(val, known, coin) = t.change
    BY <2>2, <2>5 DEF ValueIn, u
  <2> QED BY <2>1, <2>2, <2>6
<1> QED BY <1>1, <1>2

LEMMA ValueIsNat ==
  ASSUME NetworkInv, MoneyInv, NEW coin \in Coins(known)
  PROVE  Value(coin) \in Nat
<1>1. Value(coin) = ValueIn(value, known, coin)
  BY DEF Value, ValueIn
<1>2. \A i \in 1..NumCoins : value[i] \in Nat
  BY WalletAssumption DEF MoneyInv
<1>3. \A t \in known : t.change \in Nat
  BY DEF MoneyInv, Sound
<1> QED BY <1>1, <1>2, <1>3, CoinIs

-----------------------------------------------------------------------------
(* Funding.                                                                *)

\* What the node or the wallet made of coins that exist or existed.
NodeFunded(t, p) ==
  \E inputs \in SUBSET Coins(known) :
    /\ Rest(inputs, NextVersion(p)) >= 0
    /\ t = [pay |-> p, version |-> NextVersion(p), inputs |-> inputs,
            change |-> Rest(inputs, NextVersion(p)), fee |-> NodeFee(inputs, NextVersion(p))]

WalletFunded(t, p) ==
  \E coins \in SUBSET Coins(known) : \E order \in SetToSeqs(coins) :
    /\ Selected(order, NextVersion(p)) # NotEnoughInputs
    /\ t = [pay |-> p, version |-> NextVersion(p),
            inputs |-> {order[i] : i \in 1..Selected(order, NextVersion(p)).inputs},
            change |-> Selected(order, NextVersion(p)).change,
            fee |-> Selected(order, NextVersion(p)).fee]

LEMMA UnspentIsKnown ==
  ASSUME NetworkInv, NEW ts, ts \subseteq Live, NEW seen
  PROVE  Coins(ts) \subseteq Coins(known) /\ Unspent(seen) \subseteq Coins(known)
<1>1. ts \subseteq known /\ Live \subseteq known
  BY DEF NetworkInv
<1> QED BY <1>1, CoinsGrow DEF Unspent

\* Where a transaction of a task comes from: known before, funded now, or nothing.
LEMMA TxMoves ==
  ASSUME IInv, [Next]_vars, NEW p \in Payments
  PROVE  /\ value' = value /\ kind' = kind /\ known \subseteq known'
         /\ known' \subseteq known \cup {tx[q] : q \in Payments}
         /\ \/ tx'[p] \in known \cup {NoTx, tx[p]}
            \/ NodeFunded(tx'[p], p)
            \/ WalletFunded(tx'[p], p)
         /\ kind = "light" /\ task'[p] = "send" =>
              \/ task[p] = "send" /\ tx'[p] = tx[p]
              \/ WalletFunded(tx'[p], p)
<1> DEFINE Kept == UNCHANGED <<value, kind, known>>
           Sent == /\ UNCHANGED <<value, kind>> /\ known \subseteq known'
                   /\ known' \subseteq known \cup {tx[q] : q \in Payments}
           Other(q) == task'[q] = task[q] /\ tx'[q] = tx[q]
           Goal == /\ Sent
                   /\ \/ tx'[p] \in known \cup {NoTx, tx[p]}
                      \/ NodeFunded(tx'[p], p)
                      \/ WalletFunded(tx'[p], p)
                   /\ kind = "light" /\ task'[p] = "send" =>
                        \/ task[p] = "send" /\ tx'[p] = tx[p]
                        \/ WalletFunded(tx'[p], p)
<1>1. NetworkInv /\ ShapeInv /\ task \in [Payments -> Stages] /\ tx = [q \in Payments |-> tx[q]]
  BY DEF IInv, ShapeInv
<1>2. CASE NewBlock \/ NodeRestarts \/ UNCHANGED vars
  <2>1. Kept /\ UNCHANGED <<task, tx>>
    BY <1>2 DEF NewBlock, NodeRestarts, vars
  <2> QED BY <2>1
<1>3. CASE ServiceRestarts
  <2>1. Kept
    BY <1>3 DEF ServiceRestarts
  <2>2. tx'[p] \in known \cup {NoTx, tx[p]} /\ task'[p] \in {"done", "create", "wait"}
    <3>1. PICK found \in [Payments -> Live \cup {NoTx}] :
            /\ tx' = [q \in Payments |-> IF task[q] = "done" THEN tx[q] ELSE found[q]]
            /\ task' = [q \in Payments |-> IF task[q] = "done" THEN "done"
                                           ELSE IF found[q] = NoTx THEN "create" ELSE "wait"]
      BY <1>3 DEF ServiceRestarts
    <3>2. found[p] \in known \cup {NoTx}
      BY <1>1, <3>1 DEF NetworkInv
    <3> QED BY <3>1, <3>2
  <2> QED BY <2>1, <2>2
<1>4. ASSUME NEW q \in Payments, TaskStep(q) \/ Failures(q) \/ StartBump(q)
      PROVE  Goal
  <2>1. Sent
    <3>1. \/ known' = known
          \/ known' = known \cup {tx[q]}
      BY <1>4 DEF TaskStep, Failures, StartBump, Lock, ReloadWallet, FundByNode, FundByWallet,
         FundingFails, Send, FundBump, Resend, GetMetadata, SendFails, BumpFails, Accept
    <3>2. UNCHANGED <<value, kind>>
      BY <1>4 DEF TaskStep, Failures, StartBump, Lock, ReloadWallet, FundByNode, FundByWallet,
         FundingFails, Send, FundBump, Resend, GetMetadata, SendFails, BumpFails
    <3> QED BY <3>1, <3>2
  <2>2. CASE q # p
    <3>1. UNCHANGED tx \/ \E t : tx' = [tx EXCEPT ![q] = t]
      BY <1>4 DEF TaskStep, Failures, StartBump, Lock, ReloadWallet, FundByNode, FundByWallet, FundWith,
         FundingFails, Send, FundBump, Resend, GetMetadata, SendFails, BumpFails, Funded
    <3>2. \E stage : GoTo(q, stage)
      BY <1>4 DEF TaskStep, Failures, StartBump, Lock, ReloadWallet, FundByNode, FundByWallet, FundWith,
         FundingFails, Send, FundBump, Resend, GetMetadata, SendFails, BumpFails
    <3>3. Other(p)
      BY <1>1, <2>2, <3>1, <3>2 DEF GoTo
    <3> QED BY <2>1, <3>3
  <2>3. CASE q = p
    <3>1. CASE FundByNode(p) \/ FundBump(p)
      <4>1. kind = "core"
        BY <1>1, <3>1 DEF FundByNode, FundBump, IInv, PaymentInv, BumpInv, Bumping
      <4>2. PICK required, inputs :
              /\ inputs \in NodeFundings(required, Unspent(Live), NextVersion(p))
              /\ required \subseteq Coins(known)
              /\ Funded(p, NextVersion(p), inputs, Rest(inputs, NextVersion(p)), NodeFee(inputs, NextVersion(p)))
        <5>1. CASE FundByNode(p)
          BY <5>1 DEF FundByNode
        <5>2. CASE FundBump(p)
          <6>1. tx[p].inputs \subseteq Coins(known)
            BY <1>1, <5>2 DEF FundBump, IInv, PaymentInv, BumpInv, Bumping, NetworkInv
          <6> QED BY <5>2, <6>1 DEF FundBump, Refundings, KeptInputs
        <5> QED BY <3>1, <5>1, <5>2
      <4>3. inputs \subseteq Coins(known) /\ Rest(inputs, NextVersion(p)) >= 0
        <5>1. inputs \subseteq required \cup Unspent(Live) /\ Rest(inputs, NextVersion(p)) >= 0
          BY <4>2 DEF NodeFundings
        <5> QED BY <1>1, <4>2, <5>1, UnspentIsKnown
      <4>4. NodeFunded(tx'[p], p)
        BY <1>1, <4>2, <4>3 DEF NodeFunded, Funded
      <4> QED BY <2>1, <4>1, <4>4
    <3>2. CASE FundByWallet(p)
      <4>1. PICK late : \E order \in SetToSeqs(Unspent(Live \ late)) :
                           FundWith(p, order, Selected(order, NextVersion(p)))
        BY <3>2 DEF FundByWallet
      <4> DEFINE coins == Unspent(Live \ late)
      <4>2. coins \subseteq Coins(known)
        BY <1>1, UnspentIsKnown
      <4>5. PICK order \in SetToSeqs(coins) : FundWith(p, order, Selected(order, NextVersion(p)))
        BY <4>1
      <4> HIDE DEF coins
      <4>3. CASE Selected(order, NextVersion(p)) = NotEnoughInputs
        <5>1. tx'[p] = tx[p] /\ task'[p] = "failed"
          BY <1>1, <4>3, <4>5 DEF FundWith, GoTo
        <5> QED BY <2>1, <5>1
      <4>4. CASE Selected(order, NextVersion(p)) # NotEnoughInputs
        <5>1. WalletFunded(tx'[p], p)
          BY <1>1, <4>2, <4>4, <4>5 DEF WalletFunded, FundWith, Funded
        <5> QED BY <2>1, <5>1
      <4> QED BY <4>3, <4>4
    <3>3. CASE BumpFails(p)
      <4>1. OldTx(p) \in known
        <5>1. NextVersion(p) \in Nat /\ NextVersion(p) > 1
          BY <1>1, <3>3, NextVersionIsNat
             DEF BumpFails, IInv, PaymentInv, BumpInv, Bumping, NetworkInv
        <5>2. NextVersion(p) - 1 \in 1..(NextVersion(p) - 1)
          BY <5>1
        <5>3. \E t \in known : t.pay = p /\ t.version = NextVersion(p) - 1
          BY <1>1, <5>2 DEF NetworkInv
        <5> QED BY <5>3 DEF OldTx
      <4>2. tx'[p] = OldTx(p) /\ task'[p] = "wait"
        BY <1>1, <3>3 DEF BumpFails, GoTo
      <4> QED BY <2>1, <4>1, <4>2
    <3>4. CASE \/ Lock(p) \/ ReloadWallet(p) \/ FundingFails(p) \/ Send(p) \/ Resend(p)
               \/ GetMetadata(p) \/ SendFails(p) \/ StartBump(p)
      <4>1. tx'[p] = tx[p] /\ task'[p] # "send"
        BY <1>1, <3>4 DEF StartBump, Lock, ReloadWallet, FundingFails, Send, Resend, GetMetadata,
           SendFails, GoTo
      <4> QED BY <2>1, <4>1
    <3> QED BY <1>4, <2>3, <3>1, <3>2, <3>3, <3>4 DEF TaskStep, Failures
  <2> QED BY <2>2, <2>3
<1> QED BY <1>2, <1>3, <1>4 DEF Next

-----------------------------------------------------------------------------
(* What is funded is sound, and pays its fee.                              *)

\* What FeeIsPaid says of a transaction whose inputs are worth that much.
Paid(worth, t) ==
  /\ (\A coin \in t.inputs : get_fee(1000 * t.version, calculate_maximum_signed_input_size) <= worth[coin])
       => t.fee >= FeeFor(Cardinality(t.inputs), t.change > 0, 1000 * t.version)
  /\ \E sum : Sums(worth, t.inputs, sum) /\ sum[t.inputs] = Amount + t.change + t.fee

Worth(t) == [coin \in t.inputs |-> Value(coin)]

FeeInv ==
  kind = "light" =>
    \A p \in Payments : task[p] = "send" => tx[p].inputs \subseteq Coins(known) /\ Paid(Worth(tx[p]), tx[p])

LEMMA NodeFundedIsSound ==
  ASSUME NetworkInv, MoneyInv, NEW p \in Payments, NEW t, NodeFunded(t, p)
  PROVE  Sound(t)
<1>1. PICK inputs \in SUBSET Coins(known) :
        /\ Rest(inputs, NextVersion(p)) >= 0
        /\ t = [pay |-> p, version |-> NextVersion(p), inputs |-> inputs,
                change |-> Rest(inputs, NextVersion(p)), fee |-> NodeFee(inputs, NextVersion(p))]
  BY DEF NodeFunded
<1>2. IsFiniteSet(inputs)
  <2>1. IsFiniteSet(Coins(known))
    BY CoinsAreFinite DEF NetworkInv
  <2> QED BY <2>1, FS_Subset
<1>3. InputSum(inputs) \in Nat
  BY <1>2, ValueIsNat, InputSumIsNat
<1>4. NodeFee(inputs, NextVersion(p)) \in Nat
  <2>1. NextVersion(p) \in Nat
    BY NextVersionIsNat DEF NetworkInv
  <2>2. 1000 * NextVersion(p) \in Nat
    BY <2>1
  <2>3. Cardinality(inputs) \in Nat
    BY <1>2, FS_CardinalityType
  <2> DEFINE rate == 1000 * NextVersion(p)
             size == Cardinality(inputs)
  <2>4. rate \in Nat /\ size \in Nat /\ NodeFee(inputs, NextVersion(p)) = FeeFor(size, TRUE, rate)
    BY <2>2, <2>3 DEF NodeFee
  <2> HIDE DEF rate, size
  <2>5. FeeFor(size, TRUE, rate) \in Nat
    BY <2>4, FeeForIsNat
  <2> QED BY <2>4, <2>5
<1>5. Rest(inputs, NextVersion(p)) \in Nat
  BY <1>1, <1>3, <1>4, WalletAssumption DEF Rest
<1> QED BY <1>1, <1>2, <1>4, <1>5 DEF Sound

LEMMA WalletFundedIs ==
  ASSUME NetworkInv, MoneyInv, NEW p \in Payments, NEW t, WalletFunded(t, p)
  PROVE  Sound(t) /\ t.inputs \subseteq Coins(known) /\ Paid(Worth(t), t)
<1> DEFINE rate == 1000 * NextVersion(p)
<1>1. PICK coins, order :
        /\ coins \in SUBSET Coins(known) /\ order \in SetToSeqs(coins)
        /\ Selected(order, NextVersion(p)) # NotEnoughInputs
        /\ t = [pay |-> p, version |-> NextVersion(p),
                inputs |-> {order[i] : i \in 1..Selected(order, NextVersion(p)).inputs},
                change |-> Selected(order, NextVersion(p)).change,
                fee |-> Selected(order, NextVersion(p)).fee]
  BY DEF WalletFunded
<1> DEFINE k == Cardinality(coins)
           values == [i \in DOMAIN order |-> Value(order[i])]
           funding == fund_transaction(values, Amount, rate)
           n == funding.inputs
<1>2. k \in Nat
  <2>1. IsFiniteSet(Coins(known))
    BY CoinsAreFinite DEF NetworkInv
  <2>2. IsFiniteSet(coins)
    BY <1>1, <2>1, FS_Subset
  <2> QED BY <2>2, FS_CardinalityType
<1>3. order \in [1..k -> coins] /\ \A i, j \in 1..k : i # j => order[i] # order[j]
  BY <1>1 DEF SetToSeqs
<1>4. rate \in Nat /\ Amount \in Nat
  <2>1. NextVersion(p) \in Nat
    BY NextVersionIsNat DEF NetworkInv
  <2> QED BY <2>1, WalletAssumption
<1>5. DOMAIN values = 1..k /\ \A i \in 1..k : values[i] = Value(order[i]) /\ values[i] \in Nat
  BY <1>1, <1>3, ValueIsNat
<1>6. funding # NotEnoughInputs /\ t.version = NextVersion(p) /\ t.inputs = Image(order, 1..n)
      /\ t.change = funding.change /\ t.fee = funding.fee
  BY <1>1 DEF Selected, Image
<1> HIDE DEF rate, values, funding, k
<1>7. /\ n \in 1..k /\ funding.change \in Nat /\ funding.fee \in Nat
      /\ SumTo(values, n) = Amount + funding.change + funding.fee
      /\ (\A i \in 1..n : get_fee(rate, calculate_maximum_signed_input_size) <= values[i])
           => funding.fee >= FeeFor(n, funding.change > 0, rate)
  BY <1>2, <1>4, <1>5, <1>6, FundingIs DEF funding
<1>8. n \in Nat /\ 1..n \subseteq 1..k
  BY <1>2, <1>7
<1> HIDE DEF n
<1>9. Distinct(order, n)
  BY <1>3, <1>8 DEF Distinct
<1>10. IsFiniteSet(t.inputs) /\ Cardinality(t.inputs) = n
  BY <1>6, <1>8, <1>9, ImageIs
<1>11. t.inputs \subseteq Coins(known)
  BY <1>1, <1>3, <1>6, <1>8 DEF Image
<1>12. \A i \in 1..n : values[i] \in Nat /\ Worth(t)[order[i]] = values[i]
  BY <1>5, <1>6, <1>8 DEF Worth, Image
<1>13. \E sum : Sums(Worth(t), t.inputs, sum) /\ sum[t.inputs] = SumTo(values, n)
  <2>1. PICK a : Sums(values, 1..n, a) /\ SumTo(values, n) = a[1..n]
    BY <1>8, SumToIs
  <2>2. PICK b : Sums(Worth(t), t.inputs, b)
    BY <1>10, SumsExist
  <2> DEFINE worth == Worth(t)
  <2>3. \A i \in 1..n : values[i] \in Nat /\ worth[order[i]] = values[i]
    BY <1>12
  <2>4. Sums(worth, Image(order, 1..n), b) /\ IsFiniteSet(Image(order, 1..n))
    BY <1>6, <1>10, <2>2
  <2> HIDE DEF worth
  <2>5. a[1..n] = b[Image(order, 1..n)]
    BY <1>8, <1>9, <2>1, <2>3, <2>4, SumOfImage
  <2> QED BY <1>6, <2>1, <2>2, <2>5
<1>14. (\A coin \in t.inputs : get_fee(1000 * t.version, calculate_maximum_signed_input_size) <= Worth(t)[coin])
         => t.fee >= FeeFor(Cardinality(t.inputs), t.change > 0, 1000 * t.version)
  <2>1. 1000 * t.version = rate
    BY <1>6 DEF rate
  <2>2. \A i \in 1..n : order[i] \in t.inputs
    BY <1>6 DEF Image
  <2> QED BY <1>6, <1>7, <1>10, <1>12, <2>1, <2>2 DEF n
<1>15. Sound(t)
  BY <1>6, <1>7, <1>10 DEF Sound
<1>16. Paid(Worth(t), t)
  BY <1>6, <1>7, <1>13, <1>14 DEF Paid
<1> QED BY <1>11, <1>15, <1>16

\* A coin is worth what it was when it was first seen.
LEMMA ValueStays ==
  ASSUME NetworkInv, NetworkInv', value' = value, known \subseteq known', NEW coin \in Coins(known)
  PROVE  Value(coin)' = Value(coin)
<1>1. CASE coin \in Initial
  BY <1>1 DEF Initial, Value
<1>2. CASE coin \notin Initial
  <2>1. PICK t \in known : coin = <<t.pay, t.version>>
    BY <1>2 DEF Coins, Change
  <2>2. coin[1] # 0
    BY <2>1, PaymentIsPositive DEF NetworkInv
  <2> DEFINE u == CHOOSE u \in known : <<u.pay, u.version>> = coin
             w == CHOOSE w \in known' : <<w.pay, w.version>> = coin
  <2>3. u \in known /\ <<u.pay, u.version>> = coin
    BY <2>1
  <2>4. w \in known' /\ <<w.pay, w.version>> = coin
    BY <2>1
  <2>5. Value(coin) = u.change /\ Value(coin)' = w.change
    BY <2>2 DEF Value
  <2> HIDE DEF u, w
  <2>6. u = w
    BY <2>3, <2>4 DEF NetworkInv
  <2> QED BY <2>5, <2>6
<1> QED BY <1>1, <1>2

LEMMA MoneyStep == IInv /\ MoneyInv /\ [Next]_vars => MoneyInv'
<1> SUFFICES ASSUME IInv, MoneyInv, [Next]_vars PROVE MoneyInv'
  OBVIOUS
<1>1. NetworkInv
  BY DEF IInv
<1>2. \A p \in Payments :
        /\ value' = value /\ known' \subseteq known \cup {tx[q] : q \in Payments}
        /\ tx'[p] \in known \cup {NoTx, tx[p]} \/ NodeFunded(tx'[p], p) \/ WalletFunded(tx'[p], p)
  BY TxMoves
<1>3. value' = value /\ known' \subseteq known \cup {tx[q] : q \in Payments}
  <2>1. CASE Payments # {}
    BY <1>2, <2>1
  <2>2. CASE Payments = {}
    BY <2>2 DEF Next, NewBlock, NodeRestarts, ServiceRestarts, vars
  <2> QED BY <2>1, <2>2
<1>4. Sound(NoTx)
  BY FS_EmptySet DEF Sound, NoTx
<1>5. \A p \in Payments : Sound(tx'[p])
  BY <1>1, <1>2, <1>4, NodeFundedIsSound, WalletFundedIs DEF MoneyInv
<1>6. \A t \in known' : Sound(t)
  BY <1>3 DEF MoneyInv
<1> QED BY <1>3, <1>5, <1>6 DEF MoneyInv

LEMMA FeeStep == IInv /\ IInv' /\ MoneyInv /\ FeeInv /\ [Next]_vars => FeeInv'
<1> SUFFICES ASSUME IInv, IInv', MoneyInv, FeeInv, [Next]_vars, kind' = "light",
                    NEW p \in Payments, task'[p] = "send"
             PROVE  tx'[p].inputs \subseteq Coins(known)' /\ Paid(Worth(tx[p])', tx'[p])
  BY DEF FeeInv
<1>1. NetworkInv /\ NetworkInv'
  BY DEF IInv
<1>2. /\ value' = value /\ kind = "light" /\ known \subseteq known'
      /\ \/ task[p] = "send" /\ tx'[p] = tx[p]
         \/ WalletFunded(tx'[p], p)
  BY TxMoves
<1>3. tx'[p].inputs \subseteq Coins(known) /\ Paid(Worth(tx'[p]), tx'[p])
  BY <1>1, <1>2, WalletFundedIs DEF FeeInv
<1>4. Coins(known) \subseteq Coins(known')
  BY <1>2, CoinsGrow
<1>5. Coins(known') = Coins(known)'
  BY DEF Coins, Initial
<1>6. Worth(tx[p])' = Worth(tx'[p])
  BY <1>1, <1>2, <1>3, ValueStays DEF Worth
<1> QED BY <1>3, <1>4, <1>5, <1>6

-----------------------------------------------------------------------------
(* Counters, and what holds of amounts.                                    *)

\* Nobody counts further than anyone asks for.
CountInv ==
  /\ loaded \in BOOLEAN /\ faults \in 0..MaxFaults
  /\ \A t \in Mined : depth[t] \in 1..(num_confirmations + 1)

LEMMA CountStep == CountInv /\ [Next]_vars => CountInv'
<1> SUFFICES ASSUME CountInv, [Next]_vars PROVE CountInv'
  OBVIOUS
<1>1. MaxFaults \in Nat /\ num_confirmations \in Nat
  BY WalletAssumption
<1>2. UNCHANGED faults \/ Fault
  BY DEF Next, NewBlock, NodeRestarts, ServiceRestarts, vars, TaskStep, Failures, StartBump,
     Lock, ReloadWallet, FundByNode, FundByWallet, FundingFails, Send, FundBump, Resend, GetMetadata,
     SendFails, BumpFails
<1>3. loaded' \in {loaded, TRUE, FALSE}
  BY DEF Next, NewBlock, NodeRestarts, ServiceRestarts, vars, TaskStep, Failures, StartBump,
     Lock, ReloadWallet, FundByNode, FundByWallet, FundingFails, Send, FundBump, Resend, GetMetadata,
     SendFails, BumpFails, create_or_load_wallet
<1>4. UNCHANGED depth \/ NewBlock
  BY DEF Next, NodeRestarts, ServiceRestarts, vars, TaskStep, Failures, StartBump,
     Lock, ReloadWallet, FundByNode, FundByWallet, FundingFails, Send, FundBump, Resend, GetMetadata,
     SendFails, BumpFails
<1>5. ASSUME NewBlock, NEW t \in Mined'
      PROVE  depth'[t] \in 1..(num_confirmations + 1)
  <2>1. PICK new :
          depth' = [u \in Mined \cup new |->
                      IF u \in new THEN 1 ELSE Min({depth[u] + 1, num_confirmations + 1})]
    BY <1>5 DEF NewBlock
  <2>2. CASE t \in new
    BY <1>1, <2>1, <2>2
  <2>3. CASE t \notin new
    <3> DEFINE ns == {depth[t] + 1, num_confirmations + 1}
    <3>1. t \in Mined /\ depth'[t] = Min(ns)
      BY <1>5, <2>1, <2>3 DEF Mined
    <3>2. depth[t] \in Nat /\ depth[t] >= 1
      BY <1>1, <3>1 DEF CountInv
    <3>3. ns \in SUBSET Nat /\ ns # {}
      BY <1>1, <3>2
    <3>4. \A n \in ns : n \in Nat /\ n >= 1
      BY <1>1, <3>2
    <3>5. num_confirmations + 1 \in ns
      OBVIOUS
    <3> HIDE DEF ns
    <3>6. Min(ns) \in ns /\ Min(ns) <= num_confirmations + 1
      BY <3>3, <3>5, MinIs
    <3> QED BY <1>1, <3>1, <3>4, <3>6
  <2> QED BY <2>2, <2>3
<1>6. faults' \in 0..MaxFaults
  BY <1>1, <1>2 DEF CountInv, Fault
<1>7. ASSUME UNCHANGED depth, NEW t \in Mined'
      PROVE  depth'[t] \in 1..(num_confirmations + 1)
  BY <1>7 DEF CountInv, Mined
<1>8. loaded' \in BOOLEAN
  BY <1>3 DEF CountInv
<1> QED BY <1>4, <1>5, <1>6, <1>7, <1>8 DEF CountInv

AmountInv == MoneyInv /\ FeeInv /\ CountInv

LEMMA AmountInit == Init => AmountInv
<1> SUFFICES ASSUME Init PROVE AmountInv
  OBVIOUS
<1>1. MoneyInv
  BY FS_EmptySet DEF Init, MoneyInv, Sound, NoTx
<1>2. FeeInv
  BY DEF Init, FeeInv
<1>3. CountInv
  BY WalletAssumption DEF Init, CountInv, Mined
<1> QED BY <1>1, <1>2, <1>3 DEF AmountInv

LEMMA AmountsInductive == Spec => [](IInv /\ AmountInv)
<1>1. Init => IInv /\ AmountInv
  BY InitInv, AmountInit
<1>2. IInv /\ AmountInv /\ [Next]_vars => IInv' /\ AmountInv'
  BY StepInv, MoneyStep, FeeStep, CountStep DEF AmountInv
<1> QED BY <1>1, <1>2, PTL DEF Spec

\* Change and fees are amounts: what funding returns never goes below zero, be it
\* of the node or of the light wallet, and the lock has one holder.
THEOREM WalletTypeCorrect == Spec => []TypeOK
<1>1. ASSUME IInv, AmountInv
      PROVE  TypeOK
  <2>1. /\ kind \in {"core", "light"} /\ task \in [Payments -> Stages] /\ lock \in Payments \cup {0}
        /\ \A p \in Payments : lock = p <=> task[p] \in {"fund", "send", "refund", "resend"}
    BY <1>1 DEF IInv, ShapeInv, Locked
  <2>2. Live \subseteq known /\ pool \cap Mined = {}
    BY <1>1 DEF IInv, NetworkInv
  <2>3. \A p \in Payments : tx[p].pay \in {0, p} /\ tx[p].change \in Nat /\ tx[p].fee \in Nat
    BY <1>1 DEF IInv, PaymentInv, AmountInv, MoneyInv, Sound
  <2>4. value \in [1..NumCoins -> Funds]
    BY <1>1 DEF AmountInv, MoneyInv
  <2> QED BY <1>1, <2>1, <2>2, <2>3, <2>4 DEF TypeOK, AmountInv, CountInv
<1> QED BY <1>1, AmountsInductive, PTL

\* What the light wallet sends pays the fee rate it was asked for if its coins are
\* worth their fee, and loses nothing, in whatever order electrs lists the coins.
THEOREM WalletFeeIsPaid == Spec => []FeeIsPaid
<1>1. ASSUME IInv, AmountInv, kind = "light", NEW p \in Payments, task[p] = "send"
      PROVE  /\ (\A coin \in tx[p].inputs : WorthSpending(coin, 1000 * tx[p].version)) =>
                  tx[p].fee >= FeeFor(Cardinality(tx[p].inputs), tx[p].change > 0, 1000 * tx[p].version)
             /\ InputSum(tx[p].inputs) = Amount + tx[p].change + tx[p].fee
  <2> DEFINE t == tx[p]
             worth == Worth(t)
             inputs == t.inputs
  <2>1. Paid(worth, t) /\ IsFiniteSet(inputs)
    BY <1>1 DEF AmountInv, FeeInv, MoneyInv, Sound
  <2>2. \A coin \in inputs : worth[coin] = Value(coin)
    BY DEF Worth
  <2>3. PICK sum : Sums(worth, inputs, sum) /\ sum[inputs] = Amount + t.change + t.fee
    BY <2>1 DEF Paid
  <2>4. PICK other : Sums(worth, inputs, other) /\ InputSum(inputs) = other[inputs]
    <3> HIDE DEF worth, inputs
    <3> QED BY <2>1, <2>2, InputSumIs
  <2>5. sum[inputs] = other[inputs]
    <3> HIDE DEF worth, inputs
    <3> QED BY <2>1, <2>3, <2>4, SumsAgree
  <2>6. (\A coin \in inputs : WorthSpending(coin, 1000 * t.version)) =>
          t.fee >= FeeFor(Cardinality(inputs), t.change > 0, 1000 * t.version)
    BY <2>1, <2>2 DEF Paid, WorthSpending
  <2> QED BY <2>3, <2>4, <2>5, <2>6
<1>2. IInv /\ AmountInv => FeeIsPaid
  BY <1>1 DEF FeeIsPaid
<1> QED BY <1>2, AmountsInductive, PTL

=============================================================================
