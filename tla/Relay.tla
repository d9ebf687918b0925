------------------------------- MODULE Relay --------------------------------
(***************************************************************************)
(* The Bitcoin header relayer of the vault (vault/src/relay/mod.rs, with   *)
(* the issuing and backing sides of issuing.rs and backing.rs).            *)
(*                                                                         *)
(* A block is the sequence of branch labels from the block after genesis   *)
(* up to it: its height is its length, its ancestors are its prefixes and  *)
(* genesis is the empty sequence.  Every `await' of submit_next is a step  *)
(* boundary, so that Bitcoin may be reorganised, and other vaults may      *)
(* store blocks, between any two of the relayer's queries.                 *)
(***************************************************************************)
EXTENDS Integers, Sequences, SequencesExt

CONSTANTS
  StartHeights,        \* configured start_height: at most one, none if it is unset
  max_batch_size,
  btc_confirmations,
  ForkLead,            \* lead with which a fork becomes the relay's main chain
  InitialHeight,       \* Bitcoin height when the model starts
  MaxHeight,           \* bound: Bitcoin height
  MaxReorgs,           \* bound: reorganisations
  MaxFaults,           \* bound: failing queries and extrinsics
  OtherVaults          \* do other vaults store blocks as well?

ASSUME RelayAssumption ==
  /\ StartHeights \subseteq 0..InitialHeight /\ Cardinality(StartHeights) <= 1
  /\ {max_batch_size, ForkLead} \subseteq Nat \ {0}
  /\ {btc_confirmations, InitialHeight, MaxHeight, MaxReorgs, MaxFaults} \subseteq Nat
  /\ OtherVaults \in BOOLEAN

VARIABLES
  tip, reorgs,                  \* the Bitcoin chain the vault's node follows
  stored, main,                 \* the relay pallet: stored blocks, tip of the main chain
  pc,                           \* the await at which submit_next is
  max_height, start_height,     \* locals of submit_next and compute_start_height
  hash,                         \* the hash fetched last
  batch_size, headers,
  faults,
  reorged,                      \* history: was the chain reorganised in this iteration?
  cut                           \* history: did an error end this iteration's forward pass?

bitcoinVars == <<tip, reorgs>>
palletVars == <<stored, main>>
vars == <<bitcoinVars, palletVars, pc, max_height, start_height, hash, batch_size, headers,
          faults, reorged, cut>>

-----------------------------------------------------------------------------

Genesis == <<>>
BlockAt(chain, h) == SubSeq(chain, 1, h)
Parent(block) == BlockAt(block, Len(block) - 1)
Branch == reorgs + 1

\* Mutant: a subtraction that goes below zero.
UncheckedSub(a, b) == a - b

SaturatingSub(a, b) == IF a >= b THEN a - b ELSE 0

\* get_num_confirmed_blocks
get_num_confirmed_blocks == SaturatingSub(Len(tip), btc_confirmations)

-----------------------------------------------------------------------------
(* The relay pallet, as the extrinsics and storage queries show it.        *)

\* is_initialized: the best block is not zero.
is_initialized == stored # {}

\* chains_hashes(0, h): zero outside the main chain.
NoHash == <<0>>
RelayHash(h) ==
  IF h <= Len(main) /\ BlockAt(main, h) \in stored THEN BlockAt(main, h) ELSE NoHash

\* Mutant: a hash always counts as new.
NothingIsStored(block) == FALSE

\* The header of an unknown hash is the default one, of height 0.
is_block_stored(block) == block \in stored /\ Len(block) > 0

\* store_block_header fails on a duplicate and on an unknown parent.  A block that
\* extends the main chain, or a fork with the lead, becomes the main chain's tip.
Storable(known, block) == block \notin known /\ Len(block) > 0 /\ Parent(block) \in known
Extended(best, block) ==
  IF Parent(block) = best \/ Len(block) >= Len(best) + ForkLead THEN block ELSE best

\* One call of a batch: the calls run in order up to the first that fails, and
\* those before it stand.
StoreCall(pallet, block) ==
  IF pallet.ok /\ Storable(pallet.stored, block)
  THEN [ok |-> TRUE, stored |-> pallet.stored \cup {block}, main |-> Extended(pallet.main, block)]
  ELSE [pallet EXCEPT !.ok = FALSE]

\* The pallet after the first n of the calls, for each n.
StoreCalls(blocks) ==
  LET after[n \in 0..Len(blocks)] ==
        IF n = 0 THEN [ok |-> TRUE, stored |-> stored, main |-> main]
        ELSE StoreCall(after[n - 1], blocks[n])
  IN after

StoreAll(blocks) ==
  LET pallet == StoreCalls(blocks)[Len(blocks)]
  IN stored' = pallet.stored /\ main' = pallet.main

Init ==
  /\ tip = [i \in 1..InitialHeight |-> 1] /\ reorgs = 0
  /\ stored = {} /\ main = Genesis
  /\ pc = "init" /\ max_height = 0 /\ start_height = 0 /\ hash = NoHash
  /\ batch_size = 0 /\ headers = <<>>
  /\ faults = 0 /\ reorged = FALSE /\ cut = FALSE

-----------------------------------------------------------------------------
(* Bitcoin and the other vaults.                                           *)

locals == <<pc, max_height, start_height, hash, batch_size, headers, faults, cut>>

NewBlock ==
  /\ Len(tip) < MaxHeight
  /\ tip' = Append(tip, Branch)
  /\ UNCHANGED <<reorgs, palletVars, locals, reorged>>

\* A longer branch from a common block replaces the chain's end.
Reorg ==
  /\ reorgs < MaxReorgs /\ Len(tip) < MaxHeight
  /\ \E fork \in 0..(Len(tip) - 1) :
       tip' = [i \in 1..(Len(tip) + 1) |-> IF i <= fork THEN tip[i] ELSE Branch + 1]
  /\ reorgs' = reorgs + 1 /\ reorged' = TRUE
  /\ UNCHANGED <<palletVars, locals>>

\* Another vault, whose node may be one block ahead, stores a block.
OtherStores ==
  /\ OtherVaults
  /\ \E h \in 1..(Len(tip) + 1) :
       LET block == BlockAt(Append(tip, Branch), h)
       IN Storable(stored, block) /\ StoreAll(<<block>>)
  /\ UNCHANGED <<bitcoinVars, locals, reorged>>

OtherInitializes ==
  /\ OtherVaults /\ ~is_initialized
  /\ main' = BlockAt(tip, get_num_confirmed_blocks) /\ stored' = {main'}
  /\ UNCHANGED <<bitcoinVars, locals, reorged>>

-----------------------------------------------------------------------------
(* submit_next: initialisation.                                            *)

\* A new iteration of run_relayer.
Again == pc' = "init" /\ headers' = <<>> /\ reorged' = FALSE /\ cut' = FALSE

IsInitialized ==
  /\ pc = "init"
  /\ pc' = IF is_initialized THEN "max" ELSE "start"
  /\ UNCHANGED <<bitcoinVars, palletVars, max_height, start_height, hash, batch_size, headers,
                 faults, reorged, cut>>

\* unwrap_or evaluates its argument, the number of confirmed blocks, first.
ChooseStart ==
  /\ pc = "start" /\ pc' = "start_header"
  /\ start_height' = IF StartHeights = {} THEN get_num_confirmed_blocks
                     ELSE CHOOSE h \in StartHeights : TRUE
  /\ UNCHANGED <<bitcoinVars, palletVars, max_height, hash, batch_size, headers, faults, reorged,
                 cut>>

FetchStart ==
  /\ pc = "start_header" /\ pc' = "initialize"
  /\ headers' = <<BlockAt(tip, start_height)>>
  /\ UNCHANGED <<bitcoinVars, palletVars, max_height, start_height, hash, batch_size, faults, reorged,
                 cut>>

\* Refused if another vault was faster.
Initialize ==
  /\ pc = "initialize"
  /\ IF is_initialized
     THEN Again /\ UNCHANGED palletVars
     ELSE /\ stored' = {headers[1]} /\ main' = headers[1]
          /\ pc' = "max" /\ headers' = <<>> /\ UNCHANGED <<reorged, cut>>
  /\ UNCHANGED <<bitcoinVars, max_height, start_height, hash, batch_size, faults>>

-----------------------------------------------------------------------------
(* compute_start_height.                                                   *)

GetMaxHeight ==
  /\ pc = "max" /\ pc' = "best"
  /\ max_height' = get_num_confirmed_blocks
  /\ UNCHANGED <<bitcoinVars, palletVars, start_height, hash, batch_size, headers, faults,
                 reorged, cut>>

GetBestHeight ==
  /\ pc = "best" /\ pc' = "relay_hash"
  /\ start_height' = Len(main)
  /\ UNCHANGED <<bitcoinVars, palletVars, max_height, hash, batch_size, headers, faults, reorged,
                 cut>>

GetRelayHash ==
  /\ pc = "relay_hash" /\ pc' = "compare"
  /\ hash' = RelayHash(start_height)
  /\ UNCHANGED <<bitcoinVars, palletVars, max_height, start_height, batch_size, headers, faults,
                 reorged, cut>>

\* The backwards pass ends where the two chains agree; it fails below the
\* relay's first block, and where the node has no block of that height.
Compare ==
  /\ pc = "compare"
  /\ \/ /\ start_height <= Len(tip) /\ hash = BlockAt(tip, start_height)
        /\ pc' = "forward" /\ UNCHANGED <<start_height, headers, reorged, cut>>
     \/ /\ start_height <= Len(tip) /\ hash # BlockAt(tip, start_height) /\ start_height > 0
        /\ start_height' = start_height - 1
        /\ pc' = "relay_hash" /\ UNCHANGED <<headers, reorged, cut>>
     \/ /\ \/ start_height > Len(tip)
           \/ hash # Genesis /\ start_height = 0
        /\ Again /\ UNCHANGED start_height
  /\ UNCHANGED <<bitcoinVars, palletVars, max_height, hash, batch_size, faults>>

\* Mutant: one block too many.
BatchPastConfirmed(current) ==
  IF current + max_batch_size > max_height + 1
  THEN SaturatingSub(max_height + 2, current) ELSE max_batch_size

\* Mutant: the last confirmed block is left out.
BatchBelowConfirmed(current) ==
  IF current + max_batch_size > max_height
  THEN SaturatingSub(max_height, current) ELSE max_batch_size

\* How many blocks to submit from current_height on.
BatchSize(current) ==
  IF current + max_batch_size > max_height
  THEN SaturatingSub(max_height + 1, current) ELSE max_batch_size

\* The end of compute_start_height, with or without an error of the last query;
\* with nothing to submit the relayer sleeps.
StartFound(failed) ==
  /\ batch_size' = BatchSize(start_height)
  /\ IF batch_size' = 0 THEN Again
     ELSE pc' = "fetch" /\ cut' = failed /\ UNCHANGED <<headers, reorged>>
  /\ UNCHANGED hash

\* One more query or extrinsic fails.
Fault == faults < MaxFaults /\ faults' = faults + 1

\* The forward pass: the hash at start_height, if the node has that block.  Any
\* error ends the pass, at a block that the relay may have, and the relayer goes
\* on to submit from there.
GetForwardHash ==
  /\ pc = "forward"
  /\ \/ /\ start_height <= Len(tip)
        /\ hash' = BlockAt(tip, start_height) /\ pc' = "stored"
        /\ UNCHANGED <<batch_size, headers, faults, reorged, cut>>
     \/ start_height > Len(tip) /\ StartFound(FALSE) /\ UNCHANGED faults
     \/ Fault /\ StartFound(TRUE)
  /\ UNCHANGED <<bitcoinVars, palletVars, max_height, start_height>>

\* A block the relay has is skipped.
SkipStored ==
  /\ pc = "stored"
  /\ IF is_block_stored(hash)
     THEN /\ start_height' = start_height + 1 /\ pc' = "forward"
          /\ UNCHANGED <<hash, batch_size, headers, reorged, cut>>
     ELSE StartFound(FALSE) /\ UNCHANGED start_height
  /\ UNCHANGED <<bitcoinVars, palletVars, max_height, faults>>

-----------------------------------------------------------------------------
(* Collecting and submitting headers.                                      *)

\* collect_headers, and get_block_header for a single block: one header per
\* step.  The node has it, because the chain never gets shorter.
FetchHeader ==
  /\ pc = "fetch"
  /\ headers' = Append(headers, BlockAt(tip, start_height + Len(headers)))
  /\ pc' = IF Len(headers') < batch_size THEN "fetch"
           ELSE IF batch_size = 1 THEN "check" ELSE "submit"
  /\ UNCHANGED <<bitcoinVars, palletVars, max_height, start_height, hash, batch_size, faults, reorged,
                 cut>>

\* submit_block_header, after the random delay: another vault may have done it.
CheckStored ==
  /\ pc = "check"
  /\ IF is_block_stored(headers[1])
     THEN Again
     ELSE pc' = "submit" /\ UNCHANGED <<headers, reorged, cut>>
  /\ UNCHANGED <<bitcoinVars, palletVars, max_height, start_height, hash, batch_size, faults>>

\* One extrinsic: the single header, or a utility.batch of the headers.
Submit ==
  /\ pc = "submit"
  /\ StoreAll(headers) /\ Again
  /\ UNCHANGED <<bitcoinVars, max_height, start_height, hash, batch_size, faults>>

\* Any other query or extrinsic fails.  run_relayer logs the error and starts
\* over; after a transport error the restarted service does.
RpcFails ==
  /\ pc \notin {"init", "forward"} /\ Fault /\ Again
  /\ UNCHANGED <<bitcoinVars, palletVars, max_height, start_height, hash, batch_size>>

-----------------------------------------------------------------------------

Bitcoin == NewBlock \/ Reorg
Others == OtherStores \/ OtherInitializes

submit_next == \/ IsInitialized \/ ChooseStart \/ FetchStart \/ Initialize
               \/ GetMaxHeight \/ GetBestHeight \/ GetRelayHash \/ Compare
               \/ GetForwardHash \/ SkipStored
               \/ FetchHeader \/ CheckStored \/ Submit

Next == Bitcoin \/ Others \/ submit_next \/ RpcFails

Spec == Init /\ [][Next]_vars

\* run_relayer is a loop: its task is polled again and again.
FairSpec == Spec /\ WF_vars(submit_next)

-----------------------------------------------------------------------------
(* Properties.                                                             *)

Block == Seq(Nat)

TypeOK ==
  /\ tip \in Block /\ reorgs \in Nat
  /\ stored \subseteq Block /\ main \in Block
  /\ pc \in {"init", "start", "start_header", "initialize", "max", "best", "relay_hash",
             "compare", "forward", "stored", "fetch", "check", "submit"}
  /\ max_height \in Nat /\ start_height \in Nat /\ hash \in Block
  /\ batch_size \in Nat /\ headers \in Seq(Block)
  /\ faults \in Nat /\ reorged \in BOOLEAN /\ cut \in BOOLEAN

\* The relayer holds no header of a block with too few confirmations ("this
\* block has not been confirmed yet, so we should not have submitted it", the
\* tests at mod.rs:496, 530 and 565), and so never asks the node for a block it
\* does not have, where collect_headers would panic (mod.rs:22).
SubmitsOnlyConfirmed ==
  /\ StartHeights = {} \/ pc # "initialize" =>
       \A i \in 1..Len(headers) : Len(headers[i]) <= SaturatingSub(Len(tip), btc_confirmations)
  /\ pc = "fetch" => start_height + Len(headers) <= Len(tip)

\* Unless a reorganisation came in between, what is submitted is consecutive and
\* leaves no gap: it continues a stored block.  compute_start_height finds "the
\* next block after the highest block stored" (mod.rs:28-30) also when the relay
\* has only a fork of the chain's blocks; a pass cut short by an error
\* (mod.rs:46-53) ends at a block that is itself stored, and then the batch is
\* refused at its first call.
SubmissionConnects ==
  pc = "submit" /\ ~reorged =>
    /\ Len(headers[1]) > 0 => \/ Parent(headers[1]) \in stored
                              \/ cut /\ headers[1] \in stored
    /\ \A i \in 2..Len(headers) : Parent(headers[i]) = headers[i - 1]

\* The relay and the Bitcoin chain share a block.
SharesBlock == \E block \in stored : IsPrefix(block, tip)

\* The relay catches up with the confirmed part of the chain, again and again,
\* whatever the reorganisations, the other vaults and the faults, unless the
\* chain has left even the block the relay was initialised with: the backwards
\* pass of compute_start_height (mod.rs:34-43) finds nothing to build on then.
RelayCatchesUp ==
  []<>(\/ BlockAt(tip, get_num_confirmed_blocks) \in stored
       \/ is_initialized /\ ~SharesBlock)

=============================================================================
