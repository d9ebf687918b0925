---------------------------- MODULE RelayProofs -----------------------------
(***************************************************************************)
(* The relayer submits confirmed blocks only, and submits them where the   *)
(* relay can attach them, for chains, batches and reorganisations of any   *)
(* number.                                                                 *)
(***************************************************************************)
EXTENDS Relay, TLAPS, FiniteSetTheorems, SequenceTheorems

-----------------------------------------------------------------------------
(* Blocks as prefixes of chains.                                           *)

\* The block at a height the chain has is as long as it is high.
LEMMA BlockAtHeight ==
  ASSUME NEW S, NEW chain \in Seq(S), NEW h \in 0..Len(chain)
  PROVE  /\ BlockAt(chain, h) \in Seq(S) /\ Len(BlockAt(chain, h)) = h
         /\ \A i \in 1..h : BlockAt(chain, h)[i] = chain[i]
<1>1. \A i \in 1..h : chain[i] \in S
  BY ElementOfSeq
<1> QED BY <1>1, SubSeqProperties DEF BlockAt

\* A new block leaves those below it where they are.
LEMMA BlockAtSurvives ==
  ASSUME NEW S, NEW chain \in Seq(S), NEW e \in S, NEW h \in 0..Len(chain)
  PROVE  BlockAt(Append(chain, e), h) = BlockAt(chain, h)
<1> DEFINE longer == Append(chain, e)
<1>1. longer \in Seq(S) /\ Len(longer) = Len(chain) + 1
      /\ \A i \in 1..Len(chain) : longer[i] = chain[i]
  OBVIOUS
<1> HIDE DEF longer
<1>2. h \in 0..Len(longer)
  BY <1>1
<1>3. /\ BlockAt(longer, h) \in Seq(S) /\ Len(BlockAt(longer, h)) = h
      /\ \A i \in 1..h : BlockAt(longer, h)[i] = longer[i]
  BY <1>1, <1>2, BlockAtHeight
<1>4. /\ BlockAt(chain, h) \in Seq(S) /\ Len(BlockAt(chain, h)) = h
      /\ \A i \in 1..h : BlockAt(chain, h)[i] = chain[i]
  BY BlockAtHeight
<1>5. BlockAt(longer, h) = BlockAt(chain, h)
  BY <1>1, <1>3, <1>4, SeqEqual
<1> QED BY <1>5 DEF longer

\* The parent of a chain's block is the chain's block below.
LEMMA ParentOnChain ==
  ASSUME NEW S, NEW chain \in Seq(S), NEW h \in 1..Len(chain)
  PROVE  Parent(BlockAt(chain, h)) = BlockAt(chain, h - 1)
<1> DEFINE b == BlockAt(chain, h)
<1>1. b \in Seq(S) /\ Len(b) = h /\ \A i \in 1..h : b[i] = chain[i]
  BY BlockAtHeight
<1> HIDE DEF b
<1>2. /\ BlockAt(b, h - 1) \in Seq(S) /\ Len(BlockAt(b, h - 1)) = h - 1
      /\ \A i \in 1..(h - 1) : BlockAt(b, h - 1)[i] = b[i]
  BY <1>1, BlockAtHeight, h - 1 \in 0..Len(b)
<1>3. /\ BlockAt(chain, h - 1) \in Seq(S) /\ Len(BlockAt(chain, h - 1)) = h - 1
      /\ \A i \in 1..(h - 1) : BlockAt(chain, h - 1)[i] = chain[i]
  BY BlockAtHeight, h - 1 \in 0..Len(chain)
<1>4. BlockAt(b, h - 1) = BlockAt(chain, h - 1)
  BY <1>1, <1>2, <1>3, SeqEqual
<1> QED BY <1>1, <1>4 DEF b, Parent

\* The hash of no block of a chain is the relay's zero hash.
LEMMA BlockHasHash ==
  ASSUME NEW chain \in Seq(Nat \ {0}), NEW h \in 0..Len(chain)
  PROVE  BlockAt(chain, h) # NoHash
<1>1. BlockAt(chain, h) \in Seq(Nat \ {0})
  BY BlockAtHeight
<1>2. NoHash[1] = 0 /\ Len(NoHash) = 1
  BY DEF NoHash
<1>3. ASSUME BlockAt(chain, h) = NoHash PROVE FALSE
  <2>1. NoHash \in Seq(Nat \ {0})
    BY <1>1, <1>3
  <2>2. NoHash[1] \in Nat \ {0}
    BY <1>2, <2>1, ElementOfSeq, 1 \in 1..Len(NoHash)
  <2> QED BY <1>2, <2>2
<1> QED BY <1>3

-----------------------------------------------------------------------------
(* The calls of a batch.                                                   *)

\* A set of natural numbers that is not empty has a least element.
LEMMA LeastOf ==
  ASSUME NEW ns \in SUBSET Nat, ns # {}
  PROVE  \E n \in ns : \A k \in ns : n <= k
<1> DEFINE R == StrictSubsetOrdering(Nat)
           T == {0..n : n \in ns}
<1>1. IsWellFoundedOn(R, FiniteSubsetsOf(Nat))
  BY FS_StrictSubsetOrderingWellFounded
<1>2. \A n \in ns : 0..n \in FiniteSubsetsOf(Nat)
  BY FS_Interval DEF FiniteSubsetsOf
<1>3. T \subseteq FiniteSubsetsOf(Nat) /\ T # {}
  BY <1>2
<1>4. \E x \in T : \A y \in T : ~ (<<y, x>> \in R)
  <2> HIDE DEF R, T
  <2> QED BY <1>1, <1>3, WFMin
<1>5. PICK n \in ns : \A k \in ns : ~ (<<0..k, 0..n>> \in R)
  BY <1>4
<1>6. \A k \in ns : k < n => <<0..k, 0..n>> \in R
  BY DEF StrictSubsetOrdering
<1>7. \A k \in ns : n <= k
  <2> HIDE DEF R
  <2>1. \A k \in ns : ~ (k < n)
    BY <1>5, <1>6
  <2> QED BY <2>1
<1> QED BY <1>7

Pallet == [ok : BOOLEAN, stored : SUBSET Block, main : Block]

\* The function that StoreCalls defines by recursion on the calls exists: take
\* the least number of calls for which it would not.
LEMMA StoreCallsDefined ==
  ASSUME NEW blocks \in Seq(Block)
  PROVE  /\ StoreCalls(blocks)[0] = [ok |-> TRUE, stored |-> stored, main |-> main]
         /\ \A n \in 1..Len(blocks) :
              StoreCalls(blocks)[n] = StoreCall(StoreCalls(blocks)[n - 1], blocks[n])
<1> DEFINE before == [ok |-> TRUE, stored |-> stored, main |-> main]
           Def(g, m) == g = [n \in 0..m |-> IF n = 0 THEN before
                                            ELSE StoreCall(g[n - 1], blocks[n])]
           bad == {m \in Nat : m <= Len(blocks) /\ ~ \E g : Def(g, m)}
<1>1. Len(blocks) \in Nat
  OBVIOUS
<1>2. bad = {}
  <2> SUFFICES ASSUME bad # {} PROVE FALSE
    OBVIOUS
  <2>1. bad \in SUBSET Nat
    OBVIOUS
  <2>2. PICK m \in bad : \A k \in bad : m <= k
    BY <2>1, LeastOf
  <2>3. CASE m = 0
    <3> DEFINE g0 == [n \in 0..0 |-> before]
    <3>1. Def(g0, 0)
      OBVIOUS
    <3> QED BY <2>2, <2>3, <3>1
  <2>4. CASE m # 0
    <3>1. m \in Nat /\ m <= Len(blocks) /\ m - 1 \in Nat /\ m - 1 \notin bad
      <4>1. m \in Nat /\ m <= Len(blocks)
        OBVIOUS
      <4>2. \A k \in bad : m <= k
        BY <2>2
      <4> HIDE DEF bad
      <4> QED BY <2>4, <4>1, <4>2
    <3>2. PICK g : Def(g, m - 1)
      BY <1>1, <3>1
    <3> DEFINE g1 == [n \in 0..m |-> IF n = m THEN StoreCall(g[m - 1], blocks[m]) ELSE g[n]]
    <3>3. \A n \in 0..m : n < m => g1[n] = g[n]
      BY <3>1
    <3>4. \A n \in 0..m : g1[n] = IF n = 0 THEN before ELSE StoreCall(g1[n - 1], blocks[n])
      <4> SUFFICES ASSUME NEW n \in 0..m
                   PROVE  g1[n] = IF n = 0 THEN before ELSE StoreCall(g1[n - 1], blocks[n])
        OBVIOUS
      <4>1. CASE n = m
        <5>1. g1[m - 1] = g[m - 1]
          BY <3>1, <3>3
        <5> QED BY <4>1, <5>1, <2>4
      <4>2. CASE n < m
        <5>1. g1[n] = g[n] /\ n \in 0..(m - 1)
          BY <3>1, <3>3, <4>2
        <5>2. n # 0 => g1[n - 1] = g[n - 1]
          BY <3>1, <3>3, <4>2
        <5>3. g[n] = IF n = 0 THEN before ELSE StoreCall(g[n - 1], blocks[n])
          <6> HIDE DEF before, g1
          <6> QED BY <3>2, <5>1
        <5> QED BY <5>1, <5>2, <5>3
      <4> QED BY <4>1, <4>2, <3>1
    <3>5. Def(g1, m)
      BY <3>4
    <3> QED BY <2>2, <3>5
  <2> QED BY <2>3, <2>4
<1>3. \E g : Def(g, Len(blocks))
  BY <1>1, <1>2
<1>4. Def(StoreCalls(blocks), Len(blocks))
  BY <1>3 DEF StoreCalls
<1> HIDE DEF before
<1>5. \A n \in 0..Len(blocks) : StoreCalls(blocks)[n] =
        IF n = 0 THEN before ELSE StoreCall(StoreCalls(blocks)[n - 1], blocks[n])
  BY <1>4
<1>6. StoreCalls(blocks)[0] = before
  BY <1>1, <1>5
<1>7. ASSUME NEW n \in 1..Len(blocks)
      PROVE  StoreCalls(blocks)[n] = StoreCall(StoreCalls(blocks)[n - 1], blocks[n])
  <2>1. n \in 0..Len(blocks) /\ n # 0
    BY <1>1
  <2> QED BY <1>5, <2>1
<1> QED BY <1>6, <1>7 DEF before

\* A call adds its block, or marks the batch as failed.
LEMMA StoreCallGrows ==
  ASSUME NEW pallet \in Pallet, NEW block \in Block
  PROVE  /\ StoreCall(pallet, block) \in Pallet
         /\ pallet.stored \subseteq StoreCall(pallet, block).stored
<1>1. Extended(pallet.main, block) \in Block
  BY DEF Extended, Pallet
<1>2. CASE pallet.ok /\ Storable(pallet.stored, block)
  <2>1. StoreCall(pallet, block) = [ok |-> TRUE, stored |-> pallet.stored \cup {block},
                                    main |-> Extended(pallet.main, block)]
    BY <1>2 DEF StoreCall
  <2>2. pallet.stored \cup {block} \in SUBSET Block
    BY DEF Pallet
  <2> QED BY <1>1, <2>1, <2>2 DEF Pallet
<1>3. CASE ~ (pallet.ok /\ Storable(pallet.stored, block))
  <2>1. StoreCall(pallet, block) = [pallet EXCEPT !.ok = FALSE]
    BY <1>3 DEF StoreCall
  <2> QED BY <2>1 DEF Pallet
<1> QED BY <1>2, <1>3

\* A batch adds blocks to the relay and takes none away, whichever of its calls
\* fails.
LEMMA StoreAllGrows ==
  ASSUME stored \subseteq Block, main \in Block, NEW blocks \in Seq(Block), StoreAll(blocks)
  PROVE  stored \subseteq stored' /\ stored' \subseteq Block /\ main' \in Block
<1> DEFINE after == StoreCalls(blocks)
           Grown(n) == after[n] \in Pallet /\ stored \subseteq after[n].stored
           bad == {n \in Nat : n <= Len(blocks) /\ ~ Grown(n)}
<1>1. Len(blocks) \in Nat
  OBVIOUS
<1>2. bad = {}
  <2> SUFFICES ASSUME bad # {} PROVE FALSE
    OBVIOUS
  <2>1. PICK m \in bad : \A k \in bad : m <= k
    BY LeastOf
  <2>2. CASE m = 0
    <3>1. after[0] = [ok |-> TRUE, stored |-> stored, main |-> main]
      BY StoreCallsDefined
    <3>2. Grown(0)
      BY <3>1 DEF Pallet
    <3> QED BY <2>1, <2>2, <3>2
  <2>3. CASE m # 0
    <3>1. m \in Nat /\ m <= Len(blocks)
      OBVIOUS
    <3>2. m - 1 \notin bad
      <4>1. \A k \in bad : m <= k
        BY <2>1
      <4> HIDE DEF bad
      <4> QED BY <3>1, <4>1
    <3>3. m - 1 \in Nat /\ m - 1 <= Len(blocks) /\ m \in 1..Len(blocks)
      BY <1>1, <2>3, <3>1
    <3>4. Grown(m - 1)
      BY <3>2, <3>3
    <3>5. blocks[m] \in Block
      BY <3>3, ElementOfSeq
    <3>6. after[m] = StoreCall(after[m - 1], blocks[m])
      BY <3>3, StoreCallsDefined
    <3> HIDE DEF after
    <3>7. Grown(m)
      BY <3>4, <3>5, <3>6, StoreCallGrows
    <3> QED BY <3>7, <2>1
  <2> QED BY <2>2, <2>3
<1>3. Grown(Len(blocks))
  BY <1>1, <1>2
<1> QED BY <1>3 DEF StoreAll, Pallet

-----------------------------------------------------------------------------
(* Invariants and types.                                                   *)

\* No branch has the label of the zero hash, and the chain does not get shorter.
ChainInv == tip \in Seq(Nat \ {0}) /\ InitialHeight <= Len(tip)

\* Where the relayer works with max_height, and where it has headers to submit.
Working == {"best", "relay_hash", "compare", "forward", "stored", "fetch", "check", "submit"}
Collected == {"fetch", "check", "submit"}

\* The batch is planned, and so far collected, within what is confirmed.
PlanInv ==
  /\ pc \in Working => max_height <= get_num_confirmed_blocks
  /\ pc = "start_header" =>
       /\ start_height <= Len(tip)
       /\ StartHeights = {} => start_height <= get_num_confirmed_blocks
  /\ pc = "initialize" =>
       /\ Len(headers) = 1
       /\ StartHeights = {} => Len(headers[1]) <= get_num_confirmed_blocks
  /\ pc \notin Collected \cup {"initialize"} => headers = <<>>
  /\ pc = "fetch" => Len(headers) < batch_size /\ start_height + batch_size <= max_height + 1
  /\ pc \in {"check", "submit"} => headers # <<>>
  /\ pc \in Collected =>
       /\ start_height + Len(headers) <= max_height + 1
       /\ \A i \in 1..Len(headers) : Len(headers[i]) = start_height + i - 1

\* The relay has the block below start_height, or after an error the one at it.
Joined == \/ BlockAt(tip, start_height - 1) \in stored
          \/ cut /\ BlockAt(tip, start_height) \in stored

\* The hash compared is one of a stored block or zero.  Without a reorganisation
\* the pass forwards follows stored blocks of the chain, and the headers are those
\* of the chain that come after; from the last stored one on if the pass was cut.
JoinInv ==
  /\ pc = "compare" => hash \in stored \cup {NoHash}
  /\ pc = "forward" /\ ~reorged =>
       \/ start_height <= Len(tip) /\ BlockAt(tip, start_height) \in stored
       \/ /\ start_height \in 1..(Len(tip) + 1)
          /\ BlockAt(tip, start_height - 1) \in stored
  /\ pc = "stored" =>
       /\ start_height <= Len(tip)
       /\ ~reorged =>
            /\ hash = BlockAt(tip, start_height)
            /\ start_height > 0 => hash \in stored \/ BlockAt(tip, start_height - 1) \in stored
  /\ pc \in Collected /\ ~reorged =>
       /\ start_height > 0 => Joined
       /\ \A i \in 1..Len(headers) : headers[i] = BlockAt(tip, start_height + i - 1)

LEMMA InitTypes == Init => TypeOK /\ ChainInv
<1> SUFFICES ASSUME Init PROVE TypeOK /\ ChainInv
  OBVIOUS
<1>1. InitialHeight \in Nat
  BY RelayAssumption
<1>2. [i \in 1..InitialHeight |-> 1] \in Seq(Nat \ {0})
  BY <1>1
<1>3. tip \in Seq(Nat \ {0}) /\ tip \in Block /\ Len(tip) = InitialHeight
  BY <1>1, <1>2 DEF Init, Block
<1>4. NoHash \in Block /\ Genesis \in Block /\ <<>> \in Seq(Block)
  BY DEF NoHash, Genesis, Block
<1>5. stored \subseteq Block /\ main \in Block /\ hash \in Block /\ headers \in Seq(Block)
  BY <1>4, Zenon DEF Init
<1>6. /\ pc = "init" /\ max_height = 0 /\ start_height = 0 /\ batch_size = 0 /\ faults = 0
      /\ reorged = FALSE /\ reorgs = 0 /\ cut = FALSE
  BY DEF Init
<1>7. TypeOK
  BY <1>3, <1>5, <1>6 DEF TypeOK
<1>8. ChainInv
  BY <1>1, <1>3 DEF ChainInv
<1> QED BY <1>7, <1>8

\* A confirmed block stays confirmed: the chain may be reorganised, but not to
\* one that is shorter.
LEMMA ConfirmedIsNat ==
  ASSUME TypeOK
  PROVE  /\ get_num_confirmed_blocks \in Nat /\ get_num_confirmed_blocks <= Len(tip)
         /\ Len(tip) \in Nat
BY RelayAssumption DEF TypeOK, Block, get_num_confirmed_blocks, SaturatingSub

LEMMA BitcoinGrows ==
  ASSUME TypeOK, ChainInv, Bitcoin
  PROVE  /\ Len(tip') = Len(tip) + 1 /\ ChainInv' /\ tip' \in Block /\ reorgs' \in Nat
         /\ reorged' = TRUE \/ (NewBlock /\ reorged' = reorged)
         /\ UNCHANGED <<palletVars, locals>>
<1>1. Branch \in Nat \ {0} /\ Len(tip) \in Nat /\ InitialHeight \in Nat
  BY RelayAssumption DEF TypeOK, Branch, Block
<1>2. CASE NewBlock
  <2>1. tip' \in Seq(Nat \ {0}) /\ tip' \in Seq(Nat) /\ Len(tip') = Len(tip) + 1
    BY <1>1, <1>2 DEF NewBlock, TypeOK, ChainInv, Block
  <2> QED BY <1>1, <1>2, <2>1 DEF NewBlock, TypeOK, ChainInv, Block
<1>3. CASE Reorg
  <2>1. PICK fork \in 0..(Len(tip) - 1) :
          tip' = [i \in 1..(Len(tip) + 1) |-> IF i <= fork THEN tip[i] ELSE Branch + 1]
    BY <1>3 DEF Reorg
  <2>2. \A i \in 1..Len(tip) : tip[i] \in Nat \ {0}
    BY ElementOfSeq DEF ChainInv
  <2>3. \A i \in 1..(Len(tip) + 1) :
          (IF i <= fork THEN tip[i] ELSE Branch + 1) \in Nat \ {0}
    BY <1>1, <2>2
  <2>4. tip' \in Seq(Nat \ {0}) /\ tip' \in Seq(Nat) /\ Len(tip') = Len(tip) + 1
    BY <1>1, <2>1, <2>3
  <2> QED BY <1>1, <1>3, <2>4 DEF Reorg, TypeOK, ChainInv, Block
<1> QED BY <1>2, <1>3 DEF Bitcoin

\* Of the other vaults the relayer sees that the relay gets blocks.
LEMMA OthersGrow ==
  ASSUME TypeOK, ChainInv, Others
  PROVE  /\ stored \subseteq stored' /\ stored' \subseteq Block /\ main' \in Block
         /\ UNCHANGED <<bitcoinVars, locals, reorged>>
<1>1. CASE OtherStores
  <2>1. PICK h \in 1..(Len(tip) + 1) : StoreAll(<<BlockAt(Append(tip, Branch), h)>>)
    BY <1>1 DEF OtherStores
  <2>2. Append(tip, Branch) \in Seq(Nat) /\ Len(Append(tip, Branch)) = Len(tip) + 1
    BY DEF TypeOK, Block, Branch
  <2>3. h \in 0..Len(Append(tip, Branch))
    BY <2>2
  <2>4. BlockAt(Append(tip, Branch), h) \in Block
    BY <2>2, <2>3, BlockAtHeight DEF Block
  <2>5. <<BlockAt(Append(tip, Branch), h)>> \in Seq(Block)
    BY <2>4
  <2> QED BY <1>1, <2>1, <2>5, StoreAllGrows DEF OtherStores, TypeOK
<1>2. CASE OtherInitializes
  <2>1. main' \in Block
    BY <1>2, ConfirmedIsNat, BlockAtHeight DEF OtherInitializes, TypeOK, Block
  <2> QED BY <1>2, <2>1 DEF OtherInitializes, TypeOK, is_initialized
<1> QED BY <1>1, <1>2 DEF Others

LEMMA StepTypes ==
  ASSUME TypeOK, ChainInv, PlanInv, submit_next \/ RpcFails
  PROVE  TypeOK' /\ stored \subseteq stored'
<1> USE DEF TypeOK
<1>1. Len(tip) \in Nat /\ get_num_confirmed_blocks \in Nat
  BY ConfirmedIsNat
<1>2. <<>> \in Seq(Block) /\ NoHash \in Block /\ Genesis \in Block /\ Len(main) \in Nat
  BY DEF NoHash, Genesis, Block
<1>3. CASE IsInitialized
  BY <1>3 DEF IsInitialized, bitcoinVars, palletVars
<1>4. CASE ChooseStart
  <2>1. StartHeights # {} => (CHOOSE h \in StartHeights : TRUE) \in StartHeights
    OBVIOUS
  <2>2. StartHeights \subseteq Nat
    BY RelayAssumption
  <2> QED BY <1>1, <1>4, <2>1, <2>2 DEF ChooseStart, bitcoinVars, palletVars
<1>5. CASE FetchStart
  <2>1. start_height \in 0..Len(tip)
    BY <1>1, <1>5 DEF FetchStart, PlanInv
  <2>2. BlockAt(tip, start_height) \in Block
    BY <2>1, BlockAtHeight DEF Block
  <2>3. <<BlockAt(tip, start_height)>> \in Seq(Block)
    BY <2>2
  <2> QED BY <1>5, <2>3 DEF FetchStart, bitcoinVars, palletVars
<1>6. CASE Initialize
  <2>1. headers[1] \in Block
    <3>1. 1 \in 1..Len(headers)
      BY <1>6 DEF Initialize, PlanInv
    <3> QED BY <3>1, ElementOfSeq
  <2> QED BY <1>2, <1>6, <2>1 DEF Initialize, bitcoinVars, palletVars, Again, is_initialized
<1>7. CASE GetMaxHeight
  BY <1>1, <1>7 DEF GetMaxHeight, bitcoinVars, palletVars
<1>8. CASE GetBestHeight
  BY <1>2, <1>8 DEF GetBestHeight, bitcoinVars, palletVars
<1>9. CASE GetRelayHash
  <2>1. RelayHash(start_height) \in Block
    BY <1>2, BlockAtHeight DEF RelayHash, Block
  <2> QED BY <1>9, <2>1 DEF GetRelayHash, bitcoinVars, palletVars
<1>10. CASE Compare
  <2>1. /\ headers' \in Seq(Block) /\ reorged' \in BOOLEAN /\ cut' \in BOOLEAN
        /\ pc' \in {"init", "forward", "relay_hash"}
        /\ \/ start_height' = start_height
           \/ start_height' = start_height - 1 /\ start_height > 0
    BY <1>2, <1>10, Zenon DEF Compare, Again
  <2>2. UNCHANGED <<tip, reorgs, stored, main, max_height, hash, batch_size, faults>>
    BY <1>10 DEF Compare, bitcoinVars, palletVars
  <2> QED BY <2>1, <2>2
<1>11. BatchSize(start_height) \in Nat
  BY RelayAssumption DEF BatchSize, SaturatingSub
<1>12. CASE GetForwardHash
  <2>1. start_height <= Len(tip) => BlockAt(tip, start_height) \in Block
    BY <1>1, BlockAtHeight DEF Block
  <2>2. /\ headers' \in Seq(Block) /\ reorged' \in BOOLEAN /\ cut' \in BOOLEAN
        /\ batch_size' \in Nat /\ hash' \in Block /\ pc' \in {"init", "stored", "fetch"}
    <3>1. CASE StartFound(TRUE) \/ StartFound(FALSE)
      BY <1>2, <1>11, <3>1, Zenon DEF StartFound, Again
    <3>2. CASE /\ start_height <= Len(tip) /\ hash' = BlockAt(tip, start_height) /\ pc' = "stored"
               /\ UNCHANGED <<batch_size, headers, faults, reorged, cut>>
      BY <2>1, <3>2
    <3> QED BY <1>12, <3>1, <3>2 DEF GetForwardHash
  <2>3. faults' \in Nat /\ UNCHANGED <<tip, reorgs, stored, main, max_height, start_height>>
    BY <1>12 DEF GetForwardHash, StartFound, Fault, bitcoinVars, palletVars
  <2> QED BY <2>2, <2>3
<1>13. CASE SkipStored
  <2>1. /\ headers' \in Seq(Block) /\ reorged' \in BOOLEAN /\ cut' \in BOOLEAN
        /\ batch_size' \in Nat /\ pc' \in {"init", "forward", "fetch"}
        /\ start_height' = start_height \/ start_height' = start_height + 1
    BY <1>2, <1>11, <1>13, Zenon DEF SkipStored, StartFound, Again
  <2>2. UNCHANGED <<tip, reorgs, stored, main, max_height, hash, faults>>
    BY <1>13 DEF SkipStored, StartFound, bitcoinVars, palletVars
  <2> QED BY <2>1, <2>2
<1>14. CASE FetchHeader
  <2>1. start_height + Len(headers) \in 0..Len(tip)
    BY <1>1, <1>14, ConfirmedIsNat DEF FetchHeader, PlanInv, Working
  <2>2. BlockAt(tip, start_height + Len(headers)) \in Block
    BY <2>1, BlockAtHeight DEF Block
  <2> QED BY <1>14, <2>2 DEF FetchHeader, bitcoinVars, palletVars
<1>15. CASE CheckStored
  BY <1>2, <1>15 DEF CheckStored, bitcoinVars, palletVars, Again
<1>16. CASE Submit
  BY <1>2, <1>16, StoreAllGrows DEF Submit, bitcoinVars, Again
<1>17. CASE RpcFails
  <2>1. pc' = "init" /\ headers' \in Seq(Block) /\ reorged' \in BOOLEAN /\ cut' \in BOOLEAN
    BY <1>2, <1>17, Zenon DEF RpcFails, Again
  <2>2. UNCHANGED <<tip, reorgs, stored, main, max_height, start_height, hash, batch_size>>
        /\ faults' = faults + 1
    BY <1>17 DEF RpcFails, Fault, bitcoinVars, palletVars
  <2> QED BY <2>1, <2>2
<1> QED BY <1>3, <1>4, <1>5, <1>6, <1>7, <1>8, <1>9, <1>10, <1>12, <1>13, <1>14, <1>15,
           <1>16, <1>17 DEF submit_next

-----------------------------------------------------------------------------
(* The batch is planned within what is confirmed.                          *)

\* BatchSize ends the batch with the last confirmed block.
LEMMA BatchWithin ==
  ASSUME TypeOK
  PROVE  /\ BatchSize(start_height) \in Nat
         /\ BatchSize(start_height) # 0 => start_height + BatchSize(start_height) <= max_height + 1
BY RelayAssumption DEF TypeOK, BatchSize, SaturatingSub

\* A new iteration has planned nothing.
LEMMA AgainPlan ==
  ASSUME Again
  PROVE  PlanInv' /\ JoinInv'
BY Zenon DEF Again, PlanInv, JoinInv, Working, Collected

\* The end of compute_start_height leaves a plan, or goes back to sleep.
LEMMA StartFoundPlan ==
  ASSUME TypeOK, PlanInv, pc \in {"forward", "stored"}, NEW failed, StartFound(failed),
         UNCHANGED <<tip, max_height, start_height>>
  PROVE  PlanInv'
<1>1. CASE batch_size' = 0
  BY <1>1, AgainPlan DEF StartFound
<1>2. CASE batch_size' # 0
  <2>1. /\ pc' = "fetch" /\ headers' = headers /\ batch_size' = BatchSize(start_height)
    BY <1>2 DEF StartFound
  <2>2. headers = <<>> /\ max_height <= get_num_confirmed_blocks
    BY DEF PlanInv, Collected, Working
  <2>3. Len(headers') = 0 /\ max_height' <= get_num_confirmed_blocks'
    BY <2>1, <2>2 DEF get_num_confirmed_blocks
  <2>4. start_height' + batch_size' <= max_height' + 1 /\ batch_size' \in Nat \ {0}
    BY <1>2, <2>1, BatchWithin
  <2>5. \A i \in 1..Len(headers') : Len(headers'[i]) = start_height' + i - 1
    BY <2>3
  <2>6. start_height' \in Nat /\ max_height' \in Nat
    BY DEF TypeOK
  <2> QED BY <2>1, <2>3, <2>4, <2>5, <2>6 DEF PlanInv, Working, Collected
<1> QED BY <1>1, <1>2

LEMMA StepPlan ==
  ASSUME TypeOK, TypeOK', ChainInv, PlanInv, submit_next \/ RpcFails
  PROVE  PlanInv'
<1> USE DEF PlanInv, Working, Collected
<1>1. Len(tip) \in Nat /\ get_num_confirmed_blocks \in Nat /\ get_num_confirmed_blocks <= Len(tip)
      /\ start_height \in Nat /\ max_height \in Nat /\ batch_size \in Nat /\ Len(headers) \in Nat
  BY ConfirmedIsNat DEF TypeOK
<1>2. tip' = tip /\ get_num_confirmed_blocks' = get_num_confirmed_blocks
  BY DEF submit_next, RpcFails, IsInitialized, ChooseStart, FetchStart, Initialize, GetMaxHeight,
         GetBestHeight, GetRelayHash, Compare, GetForwardHash, SkipStored, FetchHeader, CheckStored,
         Submit, bitcoinVars, get_num_confirmed_blocks
<1>3. CASE IsInitialized
  BY <1>3 DEF IsInitialized
<1>4. CASE ChooseStart
  <2>1. IF StartHeights = {} THEN start_height' = get_num_confirmed_blocks
        ELSE start_height' \in StartHeights
    BY <1>4, Zenon DEF ChooseStart
  <2>2. StartHeights \subseteq 0..InitialHeight /\ InitialHeight <= Len(tip) /\ InitialHeight \in Nat
    BY RelayAssumption DEF ChainInv
  <2>3. start_height' <= Len(tip) /\ (StartHeights = {} => start_height' = get_num_confirmed_blocks)
    <3>1. CASE StartHeights = {}
      BY <1>1, <2>1, <3>1
    <3>2. CASE StartHeights # {}
      <4>1. start_height' \in 0..InitialHeight
        BY <2>1, <2>2, <3>2, Zenon
      <4>2. start_height' <= Len(tip)
        <5> HIDE DEF PlanInv
        <5> QED BY <1>1, <2>2, <4>1
      <4> QED BY <3>2, <4>2
    <3> QED BY <3>1, <3>2
  <2>4. pc' = "start_header" /\ headers' = <<>>
    BY <1>4 DEF ChooseStart
  <2> QED BY <1>1, <1>2, <2>3, <2>4
<1>5. CASE FetchStart
  <2>1. start_height \in 0..Len(tip) /\ (StartHeights = {} => start_height <= get_num_confirmed_blocks)
    BY <1>1, <1>5 DEF FetchStart
  <2>2. Len(BlockAt(tip, start_height)) = start_height
    BY <2>1, BlockAtHeight DEF TypeOK, Block
  <2>3. pc' = "initialize" /\ Len(headers') = 1 /\ headers'[1] = BlockAt(tip, start_height)
    BY <1>5 DEF FetchStart
  <2> QED BY <1>2, <2>1, <2>2, <2>3
<1>6. CASE Initialize
  <2>1. CASE is_initialized
    BY <1>6, <2>1, AgainPlan DEF Initialize
  <2>2. CASE ~ is_initialized
    BY <1>6, <2>2 DEF Initialize
  <2> QED BY <2>1, <2>2
<1>7. CASE GetMaxHeight
  BY <1>1, <1>2, <1>7 DEF GetMaxHeight
<1>8. CASE GetBestHeight
  BY <1>2, <1>8 DEF GetBestHeight
<1>9. CASE GetRelayHash
  BY <1>2, <1>9 DEF GetRelayHash
<1>10. CASE Compare
  <2>1. CASE Again
    BY <2>1, AgainPlan
  <2>2. CASE pc' \in {"forward", "relay_hash"} /\ headers' = headers
    BY <1>2, <1>10, <2>2 DEF Compare
  <2> QED BY <1>10, <2>1, <2>2 DEF Compare
<1>11. CASE GetForwardHash
  <2>1. CASE pc' = "stored" /\ UNCHANGED headers
    BY <1>2, <1>11, <2>1 DEF GetForwardHash
  <2>2. CASE StartFound(TRUE) \/ StartFound(FALSE)
    BY <1>2, <1>11, <2>2, StartFoundPlan DEF GetForwardHash
  <2> QED BY <1>11, <2>1, <2>2 DEF GetForwardHash
<1>12. CASE SkipStored
  <2>1. CASE is_block_stored(hash)
    BY <1>2, <1>12, <2>1 DEF SkipStored
  <2>2. CASE ~ is_block_stored(hash)
    BY <1>2, <1>12, <2>2, StartFoundPlan DEF SkipStored
  <2> QED BY <2>1, <2>2
<1>13. CASE FetchHeader
  <2>1. start_height + Len(headers) \in 0..Len(tip)
    BY <1>1, <1>13 DEF FetchHeader
  <2>2. Len(BlockAt(tip, start_height + Len(headers))) = start_height + Len(headers)
        /\ BlockAt(tip, start_height + Len(headers)) \in Block
    BY <2>1, BlockAtHeight DEF TypeOK, Block
  <2>3. Len(headers') = Len(headers) + 1
        /\ headers'[Len(headers) + 1] = BlockAt(tip, start_height + Len(headers))
        /\ \A i \in 1..Len(headers) : headers'[i] = headers[i]
    BY <1>13, <2>2 DEF FetchHeader, TypeOK
  <2>4. \A i \in 1..Len(headers') : Len(headers'[i]) = start_height + i - 1
    <3>1. \A i \in 1..Len(headers) : Len(headers[i]) = start_height + i - 1
      BY <1>13 DEF FetchHeader
    <3>2. SUFFICES ASSUME NEW i \in 1..Len(headers') PROVE Len(headers'[i]) = start_height + i - 1
      OBVIOUS
    <3>3. CASE i \in 1..Len(headers)
      BY <2>3, <3>1, <3>3
    <3>4. CASE i = Len(headers) + 1
      BY <1>1, <2>2, <2>3, <3>4
    <3> QED BY <1>1, <2>3, <3>3, <3>4
  <2>5. /\ UNCHANGED <<start_height, batch_size, max_height>>
        /\ pc' \in {"fetch", "check", "submit"} /\ (pc' = "fetch" => Len(headers') < batch_size)
        /\ start_height + batch_size <= max_height + 1 /\ Len(headers) < batch_size
        /\ max_height <= get_num_confirmed_blocks
    BY <1>13 DEF FetchHeader
  <2>6. headers' # <<>>
    BY <1>1, <2>3
  <2>7. start_height' + Len(headers') <= max_height' + 1
    BY <1>1, <2>3, <2>5
  <2> QED BY <1>2, <2>4, <2>5, <2>6, <2>7
<1>14. CASE CheckStored
  <2>1. CASE Again
    BY <2>1, AgainPlan
  <2>2. CASE pc' = "submit" /\ headers' = headers
    BY <1>2, <1>14, <2>2 DEF CheckStored
  <2> QED BY <1>14, <2>1, <2>2 DEF CheckStored
<1>15. CASE Submit
  BY <1>15, AgainPlan DEF Submit
<1>16. CASE RpcFails
  BY <1>16, AgainPlan DEF RpcFails
<1> QED BY <1>3, <1>4, <1>5, <1>6, <1>7, <1>8, <1>9, <1>10, <1>11, <1>12, <1>13, <1>14, <1>15,
           <1>16 DEF submit_next

\* What Bitcoin does leaves a plan within what is confirmed.
LEMMA BitcoinPlan ==
  ASSUME TypeOK, ChainInv, PlanInv, Bitcoin
  PROVE  PlanInv'
<1>1. Len(tip) \in Nat /\ max_height \in Nat /\ start_height \in Nat /\ Len(tip') = Len(tip) + 1
  BY ConfirmedIsNat, BitcoinGrows DEF TypeOK
<1>2. get_num_confirmed_blocks \in Nat /\ get_num_confirmed_blocks' \in Nat
      /\ get_num_confirmed_blocks <= get_num_confirmed_blocks'
  BY <1>1, RelayAssumption DEF get_num_confirmed_blocks, SaturatingSub
<1>3. UNCHANGED <<pc, max_height, start_height, batch_size, headers>>
  BY BitcoinGrows DEF locals
<1>4. pc \in Working => max_height' <= get_num_confirmed_blocks'
  BY <1>1, <1>2, <1>3 DEF PlanInv
<1>5. pc = "start_header" =>
        /\ start_height' <= Len(tip')
        /\ StartHeights = {} => start_height' <= get_num_confirmed_blocks'
  BY <1>1, <1>2, <1>3 DEF PlanInv
<1>6. pc = "initialize" =>
        /\ Len(headers') = 1
        /\ StartHeights = {} => Len(headers'[1]) <= get_num_confirmed_blocks'
  <2>1. SUFFICES ASSUME pc = "initialize"
                 PROVE  /\ Len(headers) = 1
                        /\ StartHeights = {} => Len(headers[1]) <= get_num_confirmed_blocks'
    BY <1>3
  <2>2. Len(headers) = 1 /\ (StartHeights = {} => Len(headers[1]) <= get_num_confirmed_blocks)
    BY <2>1 DEF PlanInv
  <2>3. headers[1] \in Block
    BY <2>2, ElementOfSeq, 1 \in 1..Len(headers) DEF TypeOK
  <2>4. Len(headers[1]) \in Nat
    BY <2>3 DEF Block
  <2> QED BY <1>2, <2>2, <2>4
<1> QED BY <1>3, <1>4, <1>5, <1>6 DEF PlanInv

-----------------------------------------------------------------------------
(* The batch is joined to what the relay has.                              *)

\* Where the pass forwards ends, the relay has the chain's block just below, or
\* the one there if an error ended it.
LEMMA StartFoundJoin ==
  ASSUME TypeOK, PlanInv, pc \in {"forward", "stored"}, NEW failed, StartFound(failed),
         UNCHANGED <<tip, stored, start_height>>,
         start_height <= Len(tip) /\ ~reorged /\ start_height > 0 =>
           \/ BlockAt(tip, start_height - 1) \in stored
           \/ failed = TRUE /\ BlockAt(tip, start_height) \in stored,
         start_height <= Len(tip) \/ start_height > max_height
  PROVE  JoinInv'
<1>1. CASE batch_size' = 0
  BY <1>1, AgainPlan DEF StartFound
<1>2. CASE batch_size' # 0
  <2>1. /\ pc' = "fetch" /\ headers' = headers /\ reorged' = reorged /\ cut' = failed
        /\ batch_size' = BatchSize(start_height)
    BY <1>2 DEF StartFound
  <2>2. headers = <<>>
    BY DEF PlanInv, Collected
  <2>3. Len(headers') = 0
    BY <2>1, <2>2
  <2>4. start_height <= Len(tip)
    <3>1. start_height + BatchSize(start_height) <= max_height + 1 /\ BatchSize(start_height) \in Nat \ {0}
      BY <1>2, <2>1, BatchWithin
    <3> QED BY <3>1 DEF TypeOK
  <2>5. ~reorged' => (start_height' > 0 => Joined')
    BY <2>1, <2>4 DEF Joined
  <2>6. \A i \in 1..Len(headers') : headers'[i] = BlockAt(tip', start_height' + i - 1)
    BY <2>3
  <2> QED BY <2>1, <2>5, <2>6 DEF JoinInv, Collected
<1> QED BY <1>1, <1>2

LEMMA StepJoin ==
  ASSUME TypeOK, TypeOK', ChainInv, PlanInv, JoinInv, submit_next \/ RpcFails
  PROVE  JoinInv'
<1>1. /\ Len(tip) \in Nat /\ Len(headers) \in Nat /\ start_height \in Nat
      /\ max_height \in Nat /\ batch_size \in Nat
  BY ConfirmedIsNat DEF TypeOK
<1>2. tip' = tip
  BY DEF submit_next, RpcFails, IsInitialized, ChooseStart, FetchStart, Initialize, GetMaxHeight,
         GetBestHeight, GetRelayHash, Compare, GetForwardHash, SkipStored, FetchHeader, CheckStored,
         Submit, bitcoinVars
<1>3. CASE pc' \notin Collected \cup {"compare", "forward", "stored"}
  BY <1>3 DEF JoinInv, Collected
<1>4. CASE GetRelayHash
  <2>1. hash' \in stored' \cup {NoHash} /\ pc' = "compare"
    BY <1>4 DEF GetRelayHash, RelayHash, palletVars
  <2> QED BY <2>1 DEF JoinInv, Collected
<1>5. CASE Compare
  <2>1. CASE pc' # "forward"
    BY <1>3, <1>5, <2>1 DEF Compare, Again, Collected
  <2>2. CASE pc' = "forward"
    <3>1. start_height <= Len(tip) /\ hash = BlockAt(tip, start_height) /\ start_height' = start_height
      BY <1>5, <2>2 DEF Compare, Again
    <3>2. hash # NoHash
      BY <1>1, <3>1, BlockHasHash, start_height \in 0..Len(tip) DEF ChainInv
    <3>3. BlockAt(tip, start_height) \in stored /\ stored' = stored
      BY <1>5, <3>1, <3>2 DEF JoinInv, Compare, palletVars
    <3> QED BY <1>2, <2>2, <3>1, <3>3 DEF JoinInv, Collected
  <2> QED BY <2>1, <2>2
<1>6. CASE GetForwardHash
  <2>0. /\ pc = "forward" /\ UNCHANGED <<stored, start_height>>
        /\ \/ start_height <= Len(tip) /\ hash' = BlockAt(tip, start_height) /\ pc' = "stored" /\ reorged' = reorged
           \/ start_height > Len(tip) /\ StartFound(FALSE)
           \/ StartFound(TRUE)
    BY <1>6 DEF GetForwardHash, palletVars
  <2>1. CASE start_height <= Len(tip) /\ hash' = BlockAt(tip, start_height) /\ pc' = "stored" /\ reorged' = reorged
    <3>1. ~reorged => (start_height > 0 => \/ BlockAt(tip, start_height) \in stored
                                           \/ BlockAt(tip, start_height - 1) \in stored)
      BY <2>0 DEF JoinInv
    <3> QED BY <1>2, <2>0, <2>1, <3>1 DEF JoinInv, Collected
  <2>2. start_height <= Len(tip) \/ start_height > max_height
    BY <1>1, <2>0, ConfirmedIsNat DEF PlanInv, Working
  <2>3. CASE start_height > Len(tip) /\ StartFound(FALSE)
    <3>0. start_height > Len(tip) /\ StartFound(FALSE)
      BY <2>3, Zenon
    <3>1. ~ (start_height <= Len(tip)) /\ start_height > max_height
      BY <1>1, <2>2, <3>0
    <3>2. pc \in {"forward", "stored"} /\ UNCHANGED <<tip, stored, start_height>>
      BY <1>2, <2>0
    <3> QED BY <3>0, <3>1, <3>2, StartFoundJoin
  <2>4. CASE StartFound(TRUE)
    <3>1. ~reorged /\ start_height > 0 => \/ BlockAt(tip, start_height - 1) \in stored
                                           \/ BlockAt(tip, start_height) \in stored
      BY <2>0 DEF JoinInv
    <3> QED BY <1>2, <2>0, <2>2, <2>4, <3>1, StartFoundJoin
  <2> QED BY <2>0, <2>1, <2>3, <2>4
<1>7. CASE SkipStored
  <2>1. CASE is_block_stored(hash)
    <3>1. /\ pc = "stored" /\ pc' = "forward" /\ start_height' = start_height + 1
          /\ UNCHANGED <<stored, reorged>> /\ hash \in stored
      BY <1>7, <2>1 DEF SkipStored, palletVars, is_block_stored
    <3>2. start_height <= Len(tip) /\ (~reorged => hash = BlockAt(tip, start_height))
      BY <3>1 DEF JoinInv
    <3>3. start_height' \in 1..(Len(tip) + 1) /\ start_height' - 1 = start_height
      BY <1>1, <3>1, <3>2
    <3> QED BY <1>2, <3>1, <3>2, <3>3 DEF JoinInv, Collected
  <2>2. CASE ~ is_block_stored(hash)
    <3>1. StartFound(FALSE) /\ pc = "stored" /\ UNCHANGED <<stored, start_height>>
      BY <1>7, <2>2 DEF SkipStored, palletVars
    <3>2. start_height <= Len(tip)
      BY <3>1 DEF JoinInv
    <3>3. ~reorged /\ start_height > 0 => BlockAt(tip, start_height - 1) \in stored
      <4>1. SUFFICES ASSUME ~reorged, start_height > 0
                     PROVE  BlockAt(tip, start_height - 1) \in stored
        OBVIOUS
      <4>2. hash = BlockAt(tip, start_height)
            /\ (hash \in stored \/ BlockAt(tip, start_height - 1) \in stored)
        BY <3>1, <4>1 DEF JoinInv
      <4>3. Len(hash) = start_height
        BY <1>1, <3>2, <4>2, BlockAtHeight, start_height \in 0..Len(tip) DEF TypeOK, Block
      <4>4. hash \notin stored
        BY <1>1, <2>2, <4>1, <4>3 DEF is_block_stored
      <4> QED BY <4>2, <4>4
    <3> QED BY <1>2, <3>1, <3>2, <3>3, StartFoundJoin
  <2> QED BY <2>1, <2>2
<1>8. CASE FetchHeader
  <2>1. /\ pc = "fetch" /\ headers' = Append(headers, BlockAt(tip, start_height + Len(headers)))
        /\ UNCHANGED <<start_height, stored, reorged, cut>> /\ pc' \in Collected
    BY <1>8 DEF FetchHeader, palletVars, Collected
  <2>2. ~reorged =>
          /\ start_height > 0 => Joined
          /\ \A i \in 1..Len(headers) : headers[i] = BlockAt(tip, start_height + i - 1)
    BY <2>1 DEF JoinInv, Collected
  <2>3. Len(headers') = Len(headers) + 1
        /\ headers'[Len(headers) + 1] = BlockAt(tip, start_height + Len(headers))
        /\ \A i \in 1..Len(headers) : headers'[i] = headers[i]
    <3>1. headers' \in Seq(Block) /\ headers \in Seq(Block)
      BY DEF TypeOK
    <3> QED BY <1>1, <2>1, <3>1
  <2>4. ~reorged => \A i \in 1..Len(headers') : headers'[i] = BlockAt(tip, start_height + i - 1)
    <3>1. SUFFICES ASSUME ~reorged, NEW i \in 1..Len(headers')
                   PROVE  headers'[i] = BlockAt(tip, start_height + i - 1)
      OBVIOUS
    <3>2. CASE i \in 1..Len(headers)
      BY <2>2, <2>3, <3>1, <3>2
    <3>3. CASE i = Len(headers) + 1
      <4>1. start_height + i - 1 = start_height + Len(headers)
        BY <1>1, <3>3
      <4> QED BY <2>3, <3>3, <4>1
    <3> QED BY <1>1, <2>3, <3>2, <3>3
  <2>5. Joined' <=> Joined
    BY <1>2, <2>1 DEF Joined
  <2> QED BY <1>2, <2>1, <2>2, <2>4, <2>5 DEF JoinInv, Collected
<1>9. CASE CheckStored
  <2>1. CASE Again
    BY <2>1, AgainPlan
  <2>2. CASE pc' = "submit" /\ headers' = headers /\ reorged' = reorged /\ cut' = cut
    <3>1. pc = "check" /\ UNCHANGED <<start_height, stored>>
      BY <1>9 DEF CheckStored, palletVars
    <3>2. Joined' <=> Joined
      BY <1>2, <2>2, <3>1 DEF Joined
    <3> QED BY <1>2, <2>2, <3>1, <3>2 DEF JoinInv, Collected
  <2> QED BY <1>9, <2>1, <2>2 DEF CheckStored
<1>10. CASE Submit \/ RpcFails
  BY <1>10, AgainPlan DEF Submit, RpcFails
<1>11. CASE IsInitialized \/ ChooseStart \/ FetchStart \/ Initialize \/ GetMaxHeight \/ GetBestHeight
  BY <1>3, <1>11 DEF IsInitialized, ChooseStart, FetchStart, Initialize, GetMaxHeight,
                     GetBestHeight, Again, Collected
<1> QED BY <1>4, <1>5, <1>6, <1>7, <1>8, <1>9, <1>10, <1>11 DEF submit_next

\* A block that others store, or that is found, leaves the batch joined; after a
\* reorganisation nothing is claimed.
LEMMA EnvironmentJoin ==
  ASSUME TypeOK, ChainInv, PlanInv, JoinInv, Bitcoin \/ Others
  PROVE  JoinInv'
<1>1. /\ Len(tip) \in Nat /\ Len(headers) \in Nat /\ start_height \in Nat /\ max_height \in Nat
  BY ConfirmedIsNat DEF TypeOK
<1>2. UNCHANGED locals /\ stored \subseteq stored'
  BY BitcoinGrows, OthersGrow DEF palletVars
<1>3. UNCHANGED <<pc, start_height, max_height, hash, headers, cut>>
  BY <1>2 DEF locals
<1>4. Len(tip) <= Len(tip') /\ Len(tip') \in Nat
  <2>1. CASE Bitcoin
    BY <1>1, <2>1, BitcoinGrows
  <2>2. CASE Others
    BY <1>1, <2>2, OthersGrow DEF bitcoinVars
  <2> QED BY <2>1, <2>2
<1>5. ~reorged' => ~reorged /\ \A h \in 0..Len(tip) : BlockAt(tip', h) = BlockAt(tip, h)
  <2>1. CASE NewBlock
    <3>1. tip' = Append(tip, Branch) /\ reorged' = reorged /\ Branch \in Nat
      BY <2>1 DEF NewBlock, TypeOK, Branch
    <3> QED BY <3>1, BlockAtSurvives DEF TypeOK, Block
  <2>2. CASE Reorg
    BY <2>2 DEF Reorg
  <2>3. CASE Others
    BY <2>3, OthersGrow DEF bitcoinVars
  <2> QED BY <2>1, <2>2, <2>3 DEF Bitcoin
<1>6. CASE reorged'
  <2>1. pc = "compare" => hash \in stored' \cup {NoHash}
    BY <1>2 DEF JoinInv
  <2>2. pc = "stored" => start_height <= Len(tip')
    <3>1. pc = "stored" => start_height <= Len(tip)
      BY DEF JoinInv
    <3> QED BY <1>1, <1>4, <3>1
  <2> QED BY <1>3, <1>6, <2>1, <2>2 DEF JoinInv
<1>7. CASE ~reorged'
  <2>1. pc = "compare" => hash' \in stored' \cup {NoHash}
    BY <1>2, <1>3 DEF JoinInv
  <2>2. ~reorged /\ \A h \in 0..Len(tip) : BlockAt(tip', h) = BlockAt(tip, h)
    BY <1>5, <1>7
  <2>3. pc = "forward" =>
          \/ start_height <= Len(tip') /\ BlockAt(tip', start_height) \in stored'
          \/ start_height \in 1..(Len(tip') + 1) /\ BlockAt(tip', start_height - 1) \in stored'
    <3> SUFFICES ASSUME pc = "forward"
                 PROVE  \/ start_height <= Len(tip') /\ BlockAt(tip', start_height) \in stored'
                        \/ /\ start_height \in 1..(Len(tip') + 1)
                           /\ BlockAt(tip', start_height - 1) \in stored'
      OBVIOUS
    <3>1. CASE start_height <= Len(tip) /\ BlockAt(tip, start_height) \in stored
      BY <1>1, <1>2, <1>4, <2>2, <3>1
    <3>2. CASE start_height \in 1..(Len(tip) + 1) /\ BlockAt(tip, start_height - 1) \in stored
      <4>1. start_height - 1 \in 0..Len(tip) /\ start_height \in 1..(Len(tip') + 1)
        BY <1>1, <1>4, <3>2
      <4> QED BY <1>2, <2>2, <3>2, <4>1
    <3> QED BY <2>2, <3>1, <3>2 DEF JoinInv
  <2>4. pc = "stored" =>
          /\ start_height <= Len(tip')
          /\ hash = BlockAt(tip', start_height)
          /\ start_height > 0 => hash \in stored' \/ BlockAt(tip', start_height - 1) \in stored'
    <3> SUFFICES ASSUME pc = "stored"
                 PROVE  /\ start_height <= Len(tip')
                        /\ hash = BlockAt(tip', start_height)
                        /\ start_height > 0 =>
                             hash \in stored' \/ BlockAt(tip', start_height - 1) \in stored'
      OBVIOUS
    <3>1. start_height <= Len(tip) /\ hash = BlockAt(tip, start_height)
          /\ (start_height > 0 => hash \in stored \/ BlockAt(tip, start_height - 1) \in stored)
      BY <2>2 DEF JoinInv
    <3>2. start_height \in 0..Len(tip) /\ (start_height > 0 => start_height - 1 \in 0..Len(tip))
      BY <1>1, <3>1
    <3>3. start_height <= Len(tip')
      BY <1>1, <1>4, <3>1
    <3> QED BY <1>2, <2>2, <3>1, <3>2, <3>3
  <2>5. pc \in Collected =>
          /\ start_height > 0 => Joined'
          /\ \A i \in 1..Len(headers) : headers[i] = BlockAt(tip', start_height + i - 1)
    <3> SUFFICES ASSUME pc \in Collected
                 PROVE  /\ start_height > 0 => Joined'
                        /\ \A i \in 1..Len(headers) :
                             headers[i] = BlockAt(tip', start_height + i - 1)
      OBVIOUS
    <3>1. /\ start_height > 0 => Joined
          /\ \A i \in 1..Len(headers) : headers[i] = BlockAt(tip, start_height + i - 1)
      BY <2>2 DEF JoinInv
    <3>2. start_height + Len(headers) <= max_height + 1 /\ max_height <= Len(tip)
          /\ start_height <= Len(tip) + 1 /\ (headers # <<>> => start_height <= Len(tip))
      BY <1>1, ConfirmedIsNat DEF PlanInv, Working, Collected
    <3>3. start_height > 0 => start_height - 1 \in 0..Len(tip)
      BY <1>1, <3>2
    <3>4. \A i \in 1..Len(headers) : start_height + i - 1 \in 0..Len(tip)
      BY <1>1, <3>2
    <3>5. start_height \in 0..Len(tip)
      BY <1>1, ConfirmedIsNat DEF PlanInv, Working, Collected, TypeOK
    <3>6. start_height > 0 => Joined'
      BY <1>2, <1>3, <2>2, <3>1, <3>3, <3>5 DEF Joined
    <3>7. \A i \in 1..Len(headers) : headers[i] = BlockAt(tip', start_height + i - 1)
      BY <2>2, <3>1, <3>4
    <3> QED BY <3>6, <3>7
  <2> QED BY <1>3, <2>1, <2>3, <2>4, <2>5 DEF JoinInv
<1> QED BY <1>6, <1>7

-----------------------------------------------------------------------------
(* The theorems.                                                           *)

IInv == TypeOK /\ ChainInv /\ PlanInv /\ JoinInv

LEMMA InitInv == Init => IInv
<1> SUFFICES ASSUME Init PROVE PlanInv /\ JoinInv
  BY InitTypes DEF IInv
<1>1. pc = "init" /\ headers = <<>>
  BY DEF Init
<1> QED BY <1>1, Zenon DEF PlanInv, JoinInv, Working, Collected

LEMMA StepInv == IInv /\ [Next]_vars => IInv'
<1> SUFFICES ASSUME IInv, [Next]_vars PROVE IInv'
  OBVIOUS
<1> USE DEF IInv
<1>1. CASE Bitcoin
  <2>1. TypeOK'
    <3>1. UNCHANGED <<stored, main, pc, max_height, start_height, hash, batch_size, headers, faults,
                      cut>>
      BY <1>1, BitcoinGrows DEF palletVars, locals
    <3>2. tip' \in Block /\ reorgs' \in Nat /\ reorged' \in BOOLEAN
      BY <1>1, BitcoinGrows DEF TypeOK
    <3> QED BY <3>1, <3>2 DEF TypeOK
  <2> QED BY <1>1, <2>1, BitcoinGrows, BitcoinPlan, EnvironmentJoin
<1>2. CASE Others
  <2>1. UNCHANGED <<tip, reorgs, pc, max_height, start_height, hash, batch_size, headers, faults,
                    reorged, cut>>
    BY <1>2, OthersGrow DEF bitcoinVars, locals
  <2>2. TypeOK'
    BY <1>2, <2>1, OthersGrow DEF TypeOK
  <2>3. ChainInv' /\ PlanInv'
    BY <2>1 DEF ChainInv, PlanInv, get_num_confirmed_blocks
  <2> QED BY <1>2, <2>2, <2>3, EnvironmentJoin
<1>3. CASE submit_next \/ RpcFails
  <2>1. TypeOK'
    BY <1>3, StepTypes
  <2>2. tip' = tip
    BY <1>3 DEF submit_next, RpcFails, IsInitialized, ChooseStart, FetchStart, Initialize,
         GetMaxHeight, GetBestHeight, GetRelayHash, Compare, GetForwardHash, SkipStored,
         FetchHeader, CheckStored, Submit, bitcoinVars
  <2>3. ChainInv'
    BY <2>2 DEF ChainInv
  <2> QED BY <1>3, <2>1, <2>3, StepPlan, StepJoin
<1>4. CASE UNCHANGED vars
  BY <1>4 DEF vars, bitcoinVars, palletVars, TypeOK, ChainInv, PlanInv, JoinInv, Joined,
              get_num_confirmed_blocks
<1> QED BY <1>1, <1>2, <1>3, <1>4 DEF Next

LEMMA Invariant == Spec => []IInv
BY InitInv, StepInv, PTL DEF Spec

\* The variables of submit_next, the relay pallet and the chain keep their types:
\* a height is never negative, although heights are subtracted from each other.
THEOREM RelayTypeCorrect == Spec => []TypeOK
<1>1. IInv => TypeOK
  BY DEF IInv
<1> QED BY <1>1, Invariant, PTL

\* The relayer holds no header of a block that lacks confirmations, and never asks
\* the node for a block it does not have, however the chain is reorganised between
\* its queries: the plan ends at max_height, which was confirmed when it was read,
\* and a chain is only replaced by a longer one.
THEOREM RelaySubmitsOnlyConfirmed == Spec => []SubmitsOnlyConfirmed
<1>1. IInv => SubmitsOnlyConfirmed
  <2> SUFFICES ASSUME IInv PROVE SubmitsOnlyConfirmed
    OBVIOUS
  <2> USE DEF IInv
  <2>1. /\ Len(tip) \in Nat /\ Len(headers) \in Nat /\ start_height \in Nat
        /\ max_height \in Nat /\ batch_size \in Nat /\ get_num_confirmed_blocks \in Nat
        /\ get_num_confirmed_blocks <= Len(tip)
    BY ConfirmedIsNat DEF TypeOK
  <2>2. ASSUME StartHeights = {} \/ pc # "initialize", NEW i \in 1..Len(headers)
        PROVE  Len(headers[i]) <= get_num_confirmed_blocks
    <3>1. CASE pc = "initialize"
      <4>1. Len(headers) = 1 /\ Len(headers[1]) <= get_num_confirmed_blocks
        BY <2>2, <3>1 DEF PlanInv
      <4>2. i = 1
        BY <4>1
      <4> QED BY <4>1, <4>2
    <3>2. CASE pc \in Collected
      <4>1. start_height + Len(headers) <= max_height + 1 /\ Len(headers[i]) = start_height + i - 1
            /\ max_height <= get_num_confirmed_blocks
        BY <3>2 DEF PlanInv, Working, Collected
      <4> QED BY <2>1, <4>1
    <3>3. CASE pc \notin Collected \cup {"initialize"}
      <4>1. headers = <<>>
        BY <3>3 DEF PlanInv
      <4>2. Len(headers) = 0
        BY <4>1
      <4> QED BY <4>2
    <3> QED BY <3>1, <3>2, <3>3
  <2>3. ASSUME pc = "fetch" PROVE start_height + Len(headers) <= Len(tip)
    <3>1. Len(headers) < batch_size /\ start_height + batch_size <= max_height + 1
          /\ max_height <= get_num_confirmed_blocks
      BY <2>3 DEF PlanInv, Working
    <3> QED BY <2>1, <3>1
  <2> QED BY <2>2, <2>3 DEF SubmitsOnlyConfirmed, get_num_confirmed_blocks
<1> QED BY <1>1, Invariant, PTL

\* What is submitted continues a stored block and is consecutive, unless the chain
\* was reorganised in between: compute_start_height's two passes end right above a
\* stored block of the chain, also if the relay's main chain was a fork of it, and
\* if other vaults store blocks meanwhile.  If an error cuts the second pass short,
\* at whatever height, the batch starts at a block that is stored.
THEOREM RelaySubmissionConnects == Spec => []SubmissionConnects
<1>1. IInv => SubmissionConnects
  <2> SUFFICES ASSUME IInv, pc = "submit", ~reorged
               PROVE  /\ Len(headers[1]) > 0 => \/ Parent(headers[1]) \in stored
                                                \/ cut /\ headers[1] \in stored
                      /\ \A i \in 2..Len(headers) : Parent(headers[i]) = headers[i - 1]
    BY DEF SubmissionConnects
  <2> USE DEF IInv
  <2>1. /\ Len(tip) \in Nat /\ Len(headers) \in Nat /\ start_height \in Nat /\ max_height \in Nat
        /\ get_num_confirmed_blocks \in Nat /\ get_num_confirmed_blocks <= Len(tip)
    BY ConfirmedIsNat DEF TypeOK
  <2>2. /\ headers # <<>> /\ start_height + Len(headers) <= max_height + 1
        /\ max_height <= get_num_confirmed_blocks
        /\ \A i \in 1..Len(headers) : Len(headers[i]) = start_height + i - 1
    BY DEF PlanInv, Working, Collected
  <2>3. /\ start_height > 0 => Joined
        /\ \A i \in 1..Len(headers) : headers[i] = BlockAt(tip, start_height + i - 1)
    BY DEF JoinInv, Collected
  <2>4. 1 \in 1..Len(headers)
    <3>1. headers \in Seq(Block)
      BY DEF TypeOK
    <3>2. Len(headers) \in Nat \ {0}
      BY <2>2, <3>1, EmptySeq
    <3> QED BY <3>2
  <2>5. \A i \in 1..Len(headers) : start_height + i - 1 <= Len(tip)
    BY <2>1, <2>2
  <2>6. ASSUME Len(headers[1]) > 0
        PROVE  Parent(headers[1]) \in stored \/ (cut /\ headers[1] \in stored)
    <3>1. start_height > 0 /\ start_height + 1 - 1 = start_height /\ start_height \in 1..Len(tip)
      BY <2>1, <2>2, <2>4, <2>5, <2>6
    <3>2. headers[1] = BlockAt(tip, start_height)
      BY <2>3, <2>4, <3>1
    <3>3. Parent(headers[1]) = BlockAt(tip, start_height - 1)
      BY <3>1, <3>2, ParentOnChain DEF TypeOK, Block
    <3> QED BY <2>3, <3>1, <3>2, <3>3 DEF Joined
  <2>7. ASSUME NEW i \in 2..Len(headers) PROVE Parent(headers[i]) = headers[i - 1]
    <3>1. i \in 1..Len(headers) /\ i - 1 \in 1..Len(headers)
      BY <2>1
    <3>2. start_height + i - 1 \in 1..Len(tip)
          /\ start_height + (i - 1) - 1 = (start_height + i - 1) - 1
      BY <2>1, <2>5, <3>1
    <3>3. Parent(BlockAt(tip, start_height + i - 1)) = BlockAt(tip, (start_height + i - 1) - 1)
      BY <3>2, ParentOnChain DEF TypeOK, Block
    <3> QED BY <2>3, <3>1, <3>2, <3>3
  <2> QED BY <2>6, <2>7
<1> QED BY <1>1, Invariant, PTL

=============================================================================
