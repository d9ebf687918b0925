---------------------------- MODULE Cancellation ----------------------------
(***************************************************************************)
(* The cancellation scheduler of the vault (vault/src/cancellation.rs) and *)
(* the four listeners that feed it: Opened and Executed notices, active    *)
(* parachain blocks and Bitcoin blocks stored in the relay.  The vault     *)
(* runs one scheduler for issue and one for replace requests; they differ  *)
(* only in the pallet calls they make, so one module stands for both.      *)
(*                                                                         *)
(* Every `await' of process_event is a step boundary: the chain, the       *)
(* listeners and a restart of the service interleave with it.              *)
(***************************************************************************)
EXTENDS Integers, Sequences, FiniteSets

CONSTANTS
  Requests,            \* request identifiers (H256), each used at most once
  OpenAtStart,         \* the requests already pending when the process starts
  EarlierPeriod,       \* the period they were opened under
  Periods,             \* values the on-chain request period can take
  StartPeriod,         \* its value when the process starts
  Ratio,               \* parachain blocks per Bitcoin block interval (600s / 12s)
  U32Max,              \* largest value of a u32 height
  MaxActiveHeight,     \* bound: active parachain height
  MaxBitcoinHeight,    \* bound: Bitcoin height in the relay
  MaxOpenHeight,       \* bound: Bitcoin height at which requests are still opened
  MaxInactive,         \* bound: chain height minus active height at startup
  ChannelCapacity,     \* buffer of the mpsc channel plus one slot per listener
  MaxPeriodChanges,    \* bound: governance changes of the period
  MaxFaults,           \* bound: failing storage queries, cancel extrinsics whose answer is an
                       \* error, and restarts other than the periodic one, together
  RestartInterval,     \* Bitcoin blocks handled before the restart timer fires (0: it does not)
  LateSubscription     \* may the scheduler handle events before all listeners subscribed?

ASSUME CancellationAssumption ==
  /\ OpenAtStart \subseteq Requests
  /\ Periods \subseteq Nat /\ {EarlierPeriod, StartPeriod} \subseteq Periods
  /\ Ratio \in Nat \ {0}
  /\ {U32Max, MaxActiveHeight, MaxBitcoinHeight, MaxOpenHeight, MaxInactive, ChannelCapacity, MaxPeriodChanges,
      MaxFaults, RestartInterval} \subseteq Nat
  /\ LateSubscription \in BOOLEAN

VARIABLES
  \* the parachain
  status,              \* lifecycle of every request
  openTime,            \* opentime / accept_time, btc_height and period of every request
  period,              \* issue_period / replace_period
  activeHeight,        \* active block number
  relayHeight,         \* best Bitcoin height in the relay
  periodChanges,
  \* the listeners of this vault process
  listening,           \* are the subscriptions of the notice listeners established?
  unsentOpened,        \* opened requests whose notice is still with the listener
  unsentExecuted,      \* executed requests whose notice is still with the listener
  channel,             \* event_listener: Receiver<Event>
  \* the scheduler
  parachain_height, bitcoin_height, active_requests, list_state,
  pc,                  \* the await at which handle_cancellation is
  event,               \* the event being processed (NoEvent between two events)
  queryFailed,         \* did this iteration's query of open requests fail?
  open_requests,       \* answer of T::get_open_requests
  cancellable_requests,
  ticks,               \* Bitcoin blocks handled since the start, up to RestartInterval
  faults,              \* faults so far
  \* history
  forgotten,           \* requests the scheduler was given no way to list
  listPeriod,          \* global period the list was computed with
  heightIsActive       \* was parachain_height an active height when it was set?

chainVars == <<status, openTime, period, activeHeight, relayHeight, periodChanges>>
noticeVars == <<listening, unsentOpened, unsentExecuted>>
listVars == <<active_requests, list_state, queryFailed, open_requests, listPeriod>>
schedulerVars == <<parachain_height, bitcoin_height, listVars, pc, event, cancellable_requests,
                   ticks, heightIsActive>>
vars == <<chainVars, noticeVars, channel, schedulerVars, faults, forgotten>>

-----------------------------------------------------------------------------
(* Events, requests and deadlines.                                         *)

\* enum Event; `id' is used by Executed and `height' by the two block events.
Opened == [type |-> "Opened", ids |-> {}, height |-> 0]
Executed(r) == [type |-> "Executed", ids |-> {r}, height |-> 0]
ParachainBlock(h) == [type |-> "ParachainBlock", ids |-> {}, height |-> h]
BitcoinBlock(h) == [type |-> "BitcoinBlock", ids |-> {}, height |-> h]
Event == [type : {"Opened", "Executed", "ParachainBlock", "BitcoinBlock"},
          ids : SUBSET Requests, height : Nat]
NoEvent == Opened

ActiveRequest == [id : Requests, parachain_deadline_height : Nat, bitcoin_deadline_height : Nat]

Maximum(a, b) == IF a >= b THEN a ELSE b

\* Mutant: a ceiling that goes wrong at zero.
BlocksRoundedUpBeforeZero(blocks) == (blocks - 1) \div Ratio + IF blocks = 0 THEN 0 ELSE 1

\* ceil(blocks * MILLISECS_PER_BLOCK / BITCOIN_BLOCK_INTERVAL)
parachain_blocks_to_bitcoin_blocks_rounded_up(blocks) == (blocks + Ratio - 1) \div Ratio

\* The two deadlines of request r when the global period is p.
Deadline(r, p) ==
  LET longest == Maximum(p, openTime[r].period)
  IN [id |-> r,
      parachain_deadline_height |-> openTime[r].parachain + longest,
      bitcoin_deadline_height |->
        openTime[r].bitcoin + parachain_blocks_to_bitcoin_blocks_rounded_up(longest)]

\* checked_add of a u32
Overflows(d) == d.parachain_deadline_height > U32Max \/ d.bitcoin_deadline_height > U32Max

\* Mutant: one chain past its deadline is enough.
HasExpiredOnEither(d, parachainHeight, bitcoinHeight) ==
  \/ parachainHeight > d.parachain_deadline_height
  \/ bitcoinHeight > d.bitcoin_deadline_height

\* The condition of drain_expired: both chains must have passed their deadline.
HasExpired(d, parachainHeight, bitcoinHeight) ==
  /\ parachainHeight > d.parachain_deadline_height
  /\ bitcoinHeight > d.bitcoin_deadline_height

\* The pallet accepts a cancel of a pending request whose period, the longer of
\* the current one and the one at its opening, is over on both chains.
ExpiredOnChain(r) ==
  \A p \in {period, openTime[r].period} :
    /\ activeHeight > openTime[r].parachain + p
    /\ Ratio * (relayHeight - openTime[r].bitcoin - 1) >= p
CancelAccepted(r) == status[r] = "Pending" /\ ExpiredOnChain(r)

Pending == {r \in Requests : status[r] = "Pending"}
Listed == {d.id : d \in active_requests}

-----------------------------------------------------------------------------
(* Initial state: a vault process that has just started.                   *)

\* The heights a fresh process reads: the chain height, not the active height,
\* and the best relay height, or 0 when get_best_block_height fails.
startup_height == activeHeight..(activeHeight + MaxInactive)
initial_btc_height == {0, relayHeight}

\* Mutant: the list of a fresh process counts as up to date.
FreshListIsValid == "Valid"

\* The state of the empty list handle_cancellation starts with.
FreshListState == "Invalid"

Init ==
  /\ period = StartPeriod
  /\ status = [r \in Requests |-> IF r \in OpenAtStart THEN "Pending" ELSE "None"]
  /\ openTime = [r \in Requests |-> [parachain |-> 0, bitcoin |-> 0, period |-> EarlierPeriod]]
  /\ activeHeight = 0 /\ relayHeight = 0 /\ periodChanges = 0
  /\ listening = ~LateSubscription
  /\ unsentOpened = {} /\ unsentExecuted = {}
  /\ channel = <<>>
  /\ parachain_height \in startup_height /\ bitcoin_height \in initial_btc_height
  /\ active_requests = {} /\ list_state = FreshListState
  /\ pc = "next" /\ event = NoEvent /\ queryFailed = FALSE
  /\ open_requests = {} /\ cancellable_requests = {} /\ ticks = 0
  /\ faults = 0
  /\ forgotten = {} /\ listPeriod = 0 /\ heightIsActive = (parachain_height <= activeHeight)

-----------------------------------------------------------------------------
(* The parachain.                                                          *)

\* A request is opened; the listener hears of it if it has subscribed.
OpenRequest(r) ==
  /\ status[r] = "None" /\ relayHeight <= MaxOpenHeight
  /\ status' = [status EXCEPT ![r] = "Pending"]
  /\ openTime' = [openTime EXCEPT ![r] = [parachain |-> activeHeight, bitcoin |-> relayHeight,
                                          period |-> period]]
  /\ IF listening
     THEN unsentOpened' = unsentOpened \cup {r} /\ UNCHANGED forgotten
     ELSE forgotten' = forgotten \cup {r} /\ UNCHANGED unsentOpened
  /\ UNCHANGED <<period, activeHeight, relayHeight, periodChanges, listening, unsentExecuted,
                 channel, schedulerVars, faults>>

\* A pending request is executed.
ExecuteRequest(r) ==
  /\ status[r] = "Pending"
  /\ status' = [status EXCEPT ![r] = "Executed"]
  /\ unsentExecuted' = IF listening THEN unsentExecuted \cup {r} ELSE unsentExecuted
  /\ UNCHANGED <<openTime, period, activeHeight, relayHeight, periodChanges, listening,
                 unsentOpened, channel, schedulerVars, faults, forgotten>>

\* Somebody else cancels an expired request; the scheduler is not told.
CancelByOther(r) ==
  /\ CancelAccepted(r)
  /\ status' = [status EXCEPT ![r] = "Cancelled"]
  /\ UNCHANGED <<openTime, period, activeHeight, relayHeight, periodChanges, noticeVars,
                 channel, schedulerVars, faults, forgotten>>

ChangePeriod ==
  /\ periodChanges < MaxPeriodChanges
  /\ periodChanges' = periodChanges + 1
  /\ period' \in Periods \ {period}
  /\ UNCHANGED <<status, openTime, activeHeight, relayHeight, noticeVars, channel,
                 schedulerVars, faults, forgotten>>

NewParachainBlock ==
  /\ activeHeight < MaxActiveHeight
  /\ activeHeight' = activeHeight + 1
  /\ UNCHANGED <<status, openTime, period, relayHeight, periodChanges, noticeVars,
                 channel, schedulerVars, faults, forgotten>>

NewBitcoinBlock ==
  /\ relayHeight < MaxBitcoinHeight
  /\ relayHeight' = relayHeight + 1
  /\ UNCHANGED <<status, openTime, period, activeHeight, periodChanges, noticeVars,
                 channel, schedulerVars, faults, forgotten>>

-----------------------------------------------------------------------------
(* The listeners.  Each sends its own events in order; nothing orders the  *)
(* events of one listener relative to those of another.                    *)

Subscribe ==
  /\ ~listening /\ listening' = TRUE
  /\ UNCHANGED <<chainVars, unsentOpened, unsentExecuted, channel, schedulerVars, faults,
                 forgotten>>

Send(e) ==
  /\ Len(channel) < ChannelCapacity
  /\ channel' = Append(channel, e)
  /\ UNCHANGED <<chainVars, listening, schedulerVars, faults, forgotten>>

SendOpened ==
  \E r \in unsentOpened :
    /\ Send(Opened)
    /\ unsentOpened' = unsentOpened \ {r}
    /\ UNCHANGED unsentExecuted

\* The request listener returns before it sends Opened: it has no wallet for the
\* vault of an issue, or accept_replace returned an error although the pallet
\* took the call.
SkipOpened ==
  \E r \in unsentOpened :
    /\ unsentOpened' = unsentOpened \ {r}
    /\ forgotten' = forgotten \cup {r}
    /\ UNCHANGED <<chainVars, listening, unsentExecuted, channel, schedulerVars, faults>>

SendExecuted ==
  \E r \in unsentExecuted :
    /\ Send(Executed(r))
    /\ unsentExecuted' = unsentExecuted \ {r}
    /\ UNCHANGED unsentOpened

\* The listener sends every block; blocks whose events arrive together are one
\* step here.  At the bound the same height is sent again: it stands for the
\* blocks beyond.
active_block_listener ==
  Send(ParachainBlock(activeHeight)) /\ UNCHANGED <<unsentOpened, unsentExecuted>>

\* Mutant: the listener is not among the tasks of the service.
NoRelayListener == FALSE /\ UNCHANGED vars

relay_block_listener ==
  Send(BitcoinBlock(relayHeight)) /\ UNCHANGED <<unsentOpened, unsentExecuted>>

-----------------------------------------------------------------------------
(* The scheduler.                                                          *)

\* Mutant: every outcome of process_event leaves the list valid.
ReturnValid(state) == list_state' = "Valid" /\ pc' = "next"

\* process_event returns the state of the list.
Return(state) == list_state' = state /\ pc' = "next"

\* cancel_requests: drain_expired takes the expired requests out of the list
\* before any is cancelled; with nothing to cancel the handler returns at once.
CancelRequests(list, parachainHeight, bitcoinHeight) ==
  LET expired == {d \in list : HasExpired(d, parachainHeight, bitcoinHeight)}
  IN /\ cancellable_requests' = expired
     /\ active_requests' = list \ expired
     /\ IF expired = {}
        THEN Return("Valid")
        ELSE list_state' = list_state /\ pc' = "cancel"

\* The four branches of process_event, once the list is the given one.
ProcessEvent(e, list) ==
  /\ event' = NoEvent
  /\ CASE e.type = "ParachainBlock" ->
            /\ parachain_height' = e.height /\ heightIsActive' = TRUE
            /\ CancelRequests(list, e.height, bitcoin_height)
            /\ UNCHANGED bitcoin_height
       [] e.type = "BitcoinBlock" ->
            /\ bitcoin_height' = e.height
            /\ CancelRequests(list, parachain_height, e.height)
            /\ UNCHANGED <<parachain_height, heightIsActive>>
       [] e.type = "Executed" ->
            /\ active_requests' = {d \in list : d.id \notin e.ids}
            /\ Return("Valid")
            /\ UNCHANGED <<parachain_height, bitcoin_height, heightIsActive, cancellable_requests>>
       [] e.type = "Opened" ->
            /\ active_requests' = list
            /\ Return("Invalid")
            /\ UNCHANGED <<parachain_height, bitcoin_height, heightIsActive, cancellable_requests>>

\* handle_cancellation: take the next event; process_event starts by querying
\* the open requests if the list is invalid.
NextEvent ==
  /\ pc = "next" /\ channel # <<>>
  /\ channel' = Tail(channel)
  /\ queryFailed' = FALSE
  /\ ticks' = IF Head(channel).type = "BitcoinBlock" /\ ticks < RestartInterval
              THEN ticks + 1 ELSE ticks
  /\ IF list_state = "Valid"
     THEN ProcessEvent(Head(channel), active_requests)
     ELSE /\ event' = Head(channel) /\ pc' = "list"
          /\ UNCHANGED <<parachain_height, bitcoin_height, active_requests, list_state,
                         cancellable_requests, heightIsActive>>
  /\ UNCHANGED <<chainVars, noticeVars, open_requests, listPeriod, faults, forgotten>>

\* A call to the chain fails, or the process does.
Fault == faults < MaxFaults /\ faults' = faults + 1

\* get_open_requests failed: the list is cleared and processing goes on.
QueryFailed ==
  /\ queryFailed' = TRUE
  /\ forgotten' = Pending
  /\ open_requests' = {}
  /\ ProcessEvent(event, {})
  /\ UNCHANGED listPeriod

\* T::get_open_requests; no open request, no second query.
QueryRequests ==
  /\ pc = "list"
  /\ \/ /\ forgotten' = {}
        /\ IF Pending = {}
           THEN ProcessEvent(event, {})
           ELSE /\ pc' = "period"
                /\ UNCHANGED <<parachain_height, bitcoin_height, active_requests, list_state, event,
                               cancellable_requests, heightIsActive>>
        /\ open_requests' = Pending
        /\ UNCHANGED <<queryFailed, faults, listPeriod>>
     \/ Fault /\ QueryFailed
  /\ UNCHANGED <<chainVars, noticeVars, channel, ticks>>

\* T::get_period and the deadlines; the overflow of one deadline fails them all.
QueryPeriod ==
  /\ pc = "period"
  /\ LET list == {Deadline(r, period) : r \in open_requests}
     IN \/ /\ \A d \in list : ~Overflows(d)
           /\ ProcessEvent(event, list)
           /\ open_requests' = {} /\ listPeriod' = period
           /\ UNCHANGED <<queryFailed, faults, forgotten>>
        \/ (\E d \in list : Overflows(d)) /\ QueryFailed /\ UNCHANGED faults
        \/ Fault /\ QueryFailed
  /\ UNCHANGED <<chainVars, noticeVars, channel, ticks>>

\* The loop of cancel_requests makes one call at a time.
CancelSucceeds ==
  \E d \in cancellable_requests :
    /\ pc = "cancel" /\ CancelAccepted(d.id)
    /\ status' = [status EXCEPT ![d.id] = "Cancelled"]
    /\ cancellable_requests' = cancellable_requests \ {d}
    /\ IF cancellable_requests = {d}
       THEN Return("Valid")
       ELSE UNCHANGED <<list_state, pc>>
    /\ UNCHANGED <<openTime, period, activeHeight, relayHeight, periodChanges, noticeVars, channel,
                   parachain_height, bitcoin_height, active_requests, queryFailed, open_requests,
                   listPeriod, event, ticks, heightIsActive, faults, forgotten>>

\* The first error ends the loop; the requests not reached are dropped with
\* the promise of a fresh list in the next iteration.  The error may be the
\* pallet's, or a fault (a timeout, say) of a call that may have taken effect.
CancelFails ==
  \E d \in cancellable_requests :
    /\ pc = "cancel"
    /\ \/ ~CancelAccepted(d.id) /\ UNCHANGED <<status, faults>>
       \/ Fault /\ CancelAccepted(d.id) /\ status' = [status EXCEPT ![d.id] = "Cancelled"]
       \/ Fault /\ UNCHANGED status
    /\ cancellable_requests' = {}
    /\ Return("Invalid")
    /\ UNCHANGED <<openTime, period, activeHeight, relayHeight, periodChanges, noticeVars, channel,
                   parachain_height, bitcoin_height, active_requests, queryFailed, open_requests,
                   listPeriod, event, ticks, heightIsActive, forgotten>>

-----------------------------------------------------------------------------
(* The service restarts the whole process state: on the restart timer, or  *)
(* because some other task ended.                                          *)

Restart ==
  /\ parachain_height' \in startup_height /\ bitcoin_height' \in initial_btc_height
  /\ active_requests' = {} /\ list_state' = FreshListState
  /\ listening' = ~LateSubscription
  /\ unsentOpened' = {} /\ unsentExecuted' = {}
  /\ channel' = <<>>
  /\ pc' = "next" /\ event' = NoEvent /\ queryFailed' = FALSE
  /\ open_requests' = {} /\ cancellable_requests' = {} /\ ticks' = 0
  /\ listPeriod' = 0 /\ forgotten' = {}
  /\ heightIsActive' = (parachain_height' <= activeHeight)
  /\ UNCHANGED chainVars

\* The restart timer.  It runs for three hours, so that many Bitcoin blocks are
\* handled before it fires and no handler is under way for all that time; a
\* restart in the middle of a handler is CrashRestart's.
PeriodicRestart ==
  /\ RestartInterval > 0 /\ ticks >= RestartInterval /\ pc = "next"
  /\ Restart /\ UNCHANGED faults

CrashRestart == Fault /\ Restart

-----------------------------------------------------------------------------

Chain == \/ \E r \in Requests : OpenRequest(r) \/ ExecuteRequest(r) \/ CancelByOther(r)
         \/ ChangePeriod \/ NewParachainBlock \/ NewBitcoinBlock

Listeners == \/ Subscribe \/ SendOpened \/ SkipOpened \/ SendExecuted
             \/ active_block_listener \/ relay_block_listener

Scheduler == NextEvent \/ QueryRequests \/ QueryPeriod \/ CancelSucceeds \/ CancelFails

Next == Chain \/ Listeners \/ Scheduler \/ PeriodicRestart \/ CrashRestart

Spec == Init /\ [][Next]_vars

\* Both chains keep producing blocks, subscriptions deliver, the scheduler's
\* task is polled and the restart timer fires.
Fairness ==
  /\ WF_vars(NewParachainBlock) /\ WF_vars(NewBitcoinBlock)
  /\ WF_vars(Subscribe)
  /\ WF_vars(SendOpened \/ SkipOpened)
  /\ SF_vars(active_block_listener) /\ SF_vars(relay_block_listener)
  /\ WF_vars(Scheduler) /\ WF_vars(PeriodicRestart)

FairSpec == Spec /\ Fairness

-----------------------------------------------------------------------------
(* Properties.                                                             *)

TypeOK ==
  /\ status \in [Requests -> {"None", "Pending", "Executed", "Cancelled"}]
  /\ openTime \in [Requests -> [parachain : Nat, bitcoin : Nat, period : Nat]]
  /\ period \in Periods /\ activeHeight \in Nat /\ relayHeight \in Nat /\ periodChanges \in Nat
  /\ listening \in BOOLEAN
  /\ unsentOpened \subseteq Requests /\ unsentExecuted \subseteq Requests
  /\ channel \in Seq(Event)
  /\ parachain_height \in Nat /\ bitcoin_height \in Nat
  /\ active_requests \subseteq ActiveRequest /\ cancellable_requests \subseteq ActiveRequest
  /\ list_state \in {"Valid", "Invalid"}
  /\ pc \in {"next", "list", "period", "cancel"}
  /\ event \in Event /\ queryFailed \in BOOLEAN
  /\ open_requests \subseteq Requests /\ forgotten \subseteq Requests
  /\ ticks \in Nat /\ faults \in Nat
  /\ listPeriod \in Nat /\ heightIsActive \in BOOLEAN

\* An Opened notice is waiting in the channel.
OpenedQueued == \E i \in 1..Len(channel) : channel[i].type = "Opened"

\* Between two events, a list the scheduler holds for valid accounts for every
\* pending request: it is listed, or its Opened notice is still on its way, or
\* it is one of those the process was given no way to list.  Those are the
\* requests opened before the request listener subscribed, those whose notice
\* the listener did not send (issue.rs:282-291, replace.rs:116-127), and those
\* pending when the query failed and the list was cleared (cancellation.rs:239);
\* neither an execution, nor an error of a cancel call, nor the order of the
\* events adds to them.
ValidListIsComplete ==
  pc = "next" /\ list_state = "Valid" =>
    OpenedQueued \/ Pending \subseteq Listed \cup unsentOpened \cup forgotten

\* What drain_expired hands to cancel_requests has expired on the chain too,
\* if the height it was drained at was an active one and unless the period was raised
\* after the list was read (cancellation.rs:154-169, 293-301): the scheduler's
\* copies of the heights lag behind the chain, never ahead.
CancelsOnlyExpired ==
  pc = "cancel" /\ heightIsActive /\ period <= listPeriod =>
    \A d \in cancellable_requests : ExpiredOnChain(d.id)

\* The deadline of some pending request does not fit its u32: until that
\* request is settled every query of the open requests fails.
DeadlineOverflows == \E r \in Pending : Overflows(Deadline(r, period))

\* No request stays pending for ever once it has expired: "when the issue
\* period has expired without the issue having been executed, this function
\* will attempt to call cancel_event" (cancellation.rs:187-189).  The code does
\* so unless the deadline of some pending request, this or another, overflows
\* (cancellation.rs:293-310): then the list is lost in every start.
ExpiredRequestIsSettled ==
  \A r \in Requests : ~<>[](status[r] = "Pending" /\ ExpiredOnChain(r) /\ ~DeadlineOverflows)

\* "If we fail to get the issue list, we return Invalid, but not Err"
\* (cancellation.rs:669, the comment of test_process_event_timeout).
FailedQueryLeavesListInvalid ==
  pc = "next" /\ queryFailed => list_state = "Invalid"

=============================================================================
