------------------------- MODULE CancellationProofs -------------------------
(***************************************************************************)
(* Proofs about the cancellation scheduler, for all values of the          *)
(* constants: its types, and that a valid list accounts for every pending  *)
(* request.                                                                *)
(***************************************************************************)
EXTENDS Cancellation, TLAPS

USE DEF CancellationAssumption

-----------------------------------------------------------------------------
(* Deadlines and events.                                                   *)

\* The rounded-up quotient of parachain_blocks_to_bitcoin_blocks_rounded_up is
\* a natural number.
LEMMA RoundedUpType ==
  ASSUME NEW blocks \in Nat
  PROVE  parachain_blocks_to_bitcoin_blocks_rounded_up(blocks) \in Nat
<1> DEFINE n == blocks + Ratio - 1
<1>1. n \in Nat /\ Ratio \in Nat /\ Ratio > 0
  BY CancellationAssumption
<1>2. n \div Ratio \in Nat
  <2> HIDE DEF n
  <2> QED BY <1>1, Z3
<1> QED BY <1>2 DEF parachain_blocks_to_bitcoin_blocks_rounded_up

\* The deadlines of get_open_requests are those of an active request.
LEMMA DeadlineType ==
  ASSUME TypeOK, NEW r \in Requests, NEW p \in Nat
  PROVE  Deadline(r, p) \in ActiveRequest
<1> DEFINE longest == Maximum(p, openTime[r].period)
<1>1. /\ openTime[r].parachain \in Nat
      /\ openTime[r].bitcoin \in Nat
      /\ openTime[r].period \in Nat
  BY DEF TypeOK
<1>2. longest \in Nat
  BY <1>1 DEF Maximum
<1>3. parachain_blocks_to_bitcoin_blocks_rounded_up(longest) \in Nat
  BY <1>2, RoundedUpType
<1>4. /\ openTime[r].parachain + longest \in Nat
      /\ openTime[r].bitcoin + parachain_blocks_to_bitcoin_blocks_rounded_up(longest) \in Nat
  <2> HIDE DEF longest
  <2> QED BY <1>1, <1>2, <1>3
<1> QED BY <1>4 DEF Deadline, ActiveRequest

\* The events the listeners send are events.
LEMMA EventType ==
  /\ Opened \in Event /\ NoEvent \in Event
  /\ \A r \in Requests : Executed(r) \in Event
  /\ \A h \in Nat : ParachainBlock(h) \in Event /\ BitcoinBlock(h) \in Event
BY DEF Event, Opened, NoEvent, Executed, ParachainBlock, BitcoinBlock

\* process_event keeps the types of what it assigns.
LEMMA ProcessEventType ==
  ASSUME TypeOK, NEW e \in Event, NEW list \in SUBSET ActiveRequest, ProcessEvent(e, list)
  PROVE  /\ event' \in Event
         /\ parachain_height' \in Nat /\ bitcoin_height' \in Nat /\ heightIsActive' \in BOOLEAN
         /\ active_requests' \subseteq ActiveRequest /\ cancellable_requests' \subseteq ActiveRequest
         /\ list_state' \in {"Valid", "Invalid"} /\ pc' \in {"next", "list", "period", "cancel"}
<1>1. e.type \in {"Opened", "Executed", "ParachainBlock", "BitcoinBlock"} /\ e.height \in Nat
  BY DEF Event
<1>2. event' \in Event
  BY EventType DEF ProcessEvent
<1>3. CASE e.type = "ParachainBlock"
  BY <1>1, <1>2, <1>3 DEF ProcessEvent, CancelRequests, Return, TypeOK
<1>4. CASE e.type = "BitcoinBlock"
  BY <1>1, <1>2, <1>4 DEF ProcessEvent, CancelRequests, Return, TypeOK
<1>5. CASE e.type = "Executed"
  BY <1>1, <1>2, <1>5 DEF ProcessEvent, Return, TypeOK
<1>6. CASE e.type = "Opened"
  BY <1>1, <1>2, <1>6 DEF ProcessEvent, Return, TypeOK
<1> QED BY <1>1, <1>3, <1>4, <1>5, <1>6

-----------------------------------------------------------------------------
(* Type correctness.                                                       *)

\* The initial state is well typed.
LEMMA InitType == Init => TypeOK
<1> SUFFICES ASSUME Init PROVE TypeOK
  OBVIOUS
<1>1. parachain_height \in Nat /\ bitcoin_height \in Nat
  BY CancellationAssumption DEF Init, startup_height, initial_btc_height
<1>2. event \in Event /\ channel \in Seq(Event)
  BY EventType DEF Init
<1>3. status \in [Requests -> {"None", "Pending", "Executed", "Cancelled"}]
  BY DEF Init
<1>4. openTime \in [Requests -> [parachain : Nat, bitcoin : Nat, period : Nat]]
  BY CancellationAssumption DEF Init
<1>5. heightIsActive \in BOOLEAN
  BY DEF Init
<1> QED BY <1>1, <1>2, <1>3, <1>4, <1>5, CancellationAssumption DEF Init, TypeOK, FreshListState

\* Steps of the chains keep the types.
LEMMA ChainType == TypeOK /\ Chain => TypeOK'
<1> SUFFICES ASSUME TypeOK, Chain PROVE TypeOK'
  OBVIOUS
<1> USE DEF noticeVars, listVars, schedulerVars
<1>1. ASSUME NEW r \in Requests, OpenRequest(r) PROVE TypeOK'
  BY <1>1, CancellationAssumption DEF OpenRequest, TypeOK
<1>2. ASSUME NEW r \in Requests, ExecuteRequest(r) PROVE TypeOK'
  BY <1>2 DEF ExecuteRequest, TypeOK
<1>3. ASSUME NEW r \in Requests, CancelByOther(r) PROVE TypeOK'
  BY <1>3 DEF CancelByOther, TypeOK
<1>4. CASE ChangePeriod
  BY <1>4 DEF ChangePeriod, TypeOK
<1>5. CASE NewParachainBlock
  BY <1>5 DEF NewParachainBlock, TypeOK
<1>6. CASE NewBitcoinBlock
  BY <1>6 DEF NewBitcoinBlock, TypeOK
<1> QED BY <1>1, <1>2, <1>3, <1>4, <1>5, <1>6 DEF Chain

\* Steps of the listeners keep the types.
LEMMA ListenersType == TypeOK /\ Listeners => TypeOK'
<1> SUFFICES ASSUME TypeOK, Listeners PROVE TypeOK'
  OBVIOUS
<1> USE DEF chainVars, noticeVars, listVars, schedulerVars
<1>1. ASSUME NEW e \in Event, Send(e) PROVE channel' \in Seq(Event)
  BY <1>1 DEF Send, TypeOK
<1>2. CASE Subscribe
  BY <1>2 DEF Subscribe, TypeOK
<1>3. CASE SendOpened
  <2>1. channel' \in Seq(Event)
    BY <1>1, <1>3, EventType DEF SendOpened
  <2> QED BY <1>3, <2>1 DEF SendOpened, Send, TypeOK
<1>7. CASE SkipOpened
  BY <1>7 DEF SkipOpened, TypeOK
<1>4. CASE SendExecuted
  <2>1. channel' \in Seq(Event)
    BY <1>1, <1>4, EventType DEF SendExecuted, TypeOK
  <2> QED BY <1>4, <2>1 DEF SendExecuted, Send, TypeOK
<1>5. CASE active_block_listener
  <2>1. channel' \in Seq(Event)
    BY <1>1, <1>5, EventType DEF active_block_listener, TypeOK
  <2> QED BY <1>5, <2>1 DEF active_block_listener, Send, TypeOK
<1>6. CASE relay_block_listener
  <2>1. channel' \in Seq(Event)
    BY <1>1, <1>6, EventType DEF relay_block_listener, TypeOK
  <2> QED BY <1>6, <2>1 DEF relay_block_listener, Send, TypeOK
<1> QED BY <1>2, <1>3, <1>4, <1>5, <1>6, <1>7 DEF Listeners

\* The answers of get_open_requests, and what a failure leaves behind, are typed.
LEMMA QueryOutcomeType ==
  ASSUME TypeOK,
         \/ forgotten' = {} /\ open_requests' = Pending /\ UNCHANGED <<queryFailed, faults, listPeriod>>
         \/ open_requests' = {} /\ listPeriod' = period /\ UNCHANGED <<queryFailed, faults, forgotten>>
         \/ QueryFailed /\ (UNCHANGED faults \/ Fault)
  PROVE  /\ forgotten' \subseteq Requests /\ open_requests' \subseteq Requests
         /\ queryFailed' \in BOOLEAN /\ faults' \in Nat /\ listPeriod' \in Nat
<1>1. Pending \subseteq Requests /\ period \in Nat
  BY CancellationAssumption DEF Pending, TypeOK
<1>2. QueryFailed => queryFailed' = TRUE /\ forgotten' = Pending /\ open_requests' = {} /\ listPeriod' = listPeriod
  BY DEF QueryFailed
<1>3. Fault => faults' = faults + 1
  BY DEF Fault
<1>4. forgotten \subseteq Requests /\ faults \in Nat /\ listPeriod \in Nat
  BY DEF TypeOK
<1>5. queryFailed \in BOOLEAN
  BY DEF TypeOK
<1>6. queryFailed' \in BOOLEAN
  BY <1>2, <1>5
<1> QED BY <1>1, <1>2, <1>3, <1>4, <1>6

\* Steps of the scheduler keep the types.
LEMMA SchedulerType == TypeOK /\ Scheduler => TypeOK'
<1> SUFFICES ASSUME TypeOK, Scheduler PROVE TypeOK'
  OBVIOUS
<1> USE DEF chainVars, noticeVars
<1>0. {} \in SUBSET ActiveRequest /\ active_requests \in SUBSET ActiveRequest
  BY DEF TypeOK
<1>1. CASE NextEvent
  <2>1. Head(channel) \in Event /\ Tail(channel) \in Seq(Event)
    BY <1>1 DEF NextEvent, TypeOK
  <2>2. /\ event' \in Event
        /\ parachain_height' \in Nat /\ bitcoin_height' \in Nat /\ heightIsActive' \in BOOLEAN
        /\ active_requests' \subseteq ActiveRequest /\ cancellable_requests' \subseteq ActiveRequest
        /\ list_state' \in {"Valid", "Invalid"} /\ pc' \in {"next", "list", "period", "cancel"}
    <3>1. CASE list_state = "Valid"
      BY <1>0, <1>1, <2>1, <3>1, ProcessEventType DEF NextEvent
    <3>2. CASE list_state # "Valid"
      BY <1>1, <2>1, <3>2 DEF NextEvent, TypeOK
    <3> QED BY <3>1, <3>2
  <2>3. ticks' \in Nat
    BY <1>1 DEF NextEvent, TypeOK
  <2> QED BY <1>1, <2>1, <2>2, <2>3 DEF NextEvent, TypeOK
<1>2. CASE QueryRequests
  <2>1. /\ event' \in Event
        /\ parachain_height' \in Nat /\ bitcoin_height' \in Nat /\ heightIsActive' \in BOOLEAN
        /\ active_requests' \subseteq ActiveRequest /\ cancellable_requests' \subseteq ActiveRequest
        /\ list_state' \in {"Valid", "Invalid"} /\ pc' \in {"next", "list", "period", "cancel"}
    <3>1. CASE ProcessEvent(event, {})
      BY <1>0, <3>1, ProcessEventType DEF TypeOK
    <3>2. CASE ~ProcessEvent(event, {})
      BY <1>2, <3>2 DEF QueryRequests, QueryFailed, TypeOK
    <3> QED BY <3>1, <3>2
  <2>2. /\ forgotten' \subseteq Requests /\ open_requests' \subseteq Requests
        /\ queryFailed' \in BOOLEAN /\ faults' \in Nat /\ listPeriod' \in Nat
    <3>1. \/ forgotten' = {} /\ open_requests' = Pending /\ UNCHANGED <<queryFailed, faults, listPeriod>>
          \/ Fault /\ QueryFailed
      BY <1>2 DEF QueryRequests
    <3> QED BY <3>1, QueryOutcomeType
  <2> QED BY <1>2, <2>1, <2>2 DEF QueryRequests, TypeOK
<1>3. CASE QueryPeriod
  <2> DEFINE list == {Deadline(r, period) : r \in open_requests}
  <2>1. list \in SUBSET ActiveRequest
    <3>1. period \in Nat /\ open_requests \subseteq Requests
      BY CancellationAssumption DEF TypeOK
    <3> QED BY <3>1, DeadlineType
  <2>2. ProcessEvent(event, list) \/ ProcessEvent(event, {})
    BY <1>3 DEF QueryPeriod, QueryFailed
  <2>3. /\ event' \in Event
        /\ parachain_height' \in Nat /\ bitcoin_height' \in Nat /\ heightIsActive' \in BOOLEAN
        /\ active_requests' \subseteq ActiveRequest /\ cancellable_requests' \subseteq ActiveRequest
        /\ list_state' \in {"Valid", "Invalid"} /\ pc' \in {"next", "list", "period", "cancel"}
    <3> HIDE DEF list
    <3>1. event \in Event
      BY DEF TypeOK
    <3> QED BY <1>0, <2>1, <2>2, <3>1, ProcessEventType
  <2>4. /\ forgotten' \subseteq Requests /\ open_requests' \subseteq Requests
        /\ queryFailed' \in BOOLEAN /\ faults' \in Nat /\ listPeriod' \in Nat
    <3>1. \/ open_requests' = {} /\ listPeriod' = period /\ UNCHANGED <<queryFailed, faults, forgotten>>
          \/ QueryFailed /\ (UNCHANGED faults \/ Fault)
      BY <1>3 DEF QueryPeriod
    <3> QED BY <3>1, QueryOutcomeType
  <2> QED BY <1>3, <2>3, <2>4 DEF QueryPeriod, TypeOK
<1>4. CASE CancelSucceeds
  BY <1>4 DEF CancelSucceeds, Return, TypeOK, ActiveRequest
<1>5. CASE CancelFails
  <2>1. status' \in [Requests -> {"None", "Pending", "Executed", "Cancelled"}] /\ faults' \in Nat
    <3>1. PICK d \in cancellable_requests :
            /\ faults' = faults \/ faults' = faults + 1
            /\ status' = status \/ status' = [status EXCEPT ![d.id] = "Cancelled"]
      BY <1>5 DEF CancelFails, Fault
    <3> QED BY <3>1 DEF TypeOK
  <2> QED BY <1>5, <2>1 DEF CancelFails, Return, TypeOK
<1> QED BY <1>1, <1>2, <1>3, <1>4, <1>5 DEF Scheduler

\* A restart keeps the types.
LEMMA RestartType == TypeOK /\ (PeriodicRestart \/ CrashRestart) => TypeOK'
<1> SUFFICES ASSUME TypeOK, PeriodicRestart \/ CrashRestart PROVE TypeOK'
  OBVIOUS
<1>1. Restart /\ faults' \in Nat
  BY DEF PeriodicRestart, CrashRestart, Fault, TypeOK
<1>2. parachain_height' \in Nat /\ bitcoin_height' \in Nat
  <2>1. activeHeight \in Nat /\ relayHeight \in Nat /\ MaxInactive \in Nat
    BY CancellationAssumption DEF TypeOK
  <2>2. parachain_height' \in activeHeight..(activeHeight + MaxInactive) /\ bitcoin_height' \in {0, relayHeight}
    BY <1>1 DEF Restart, startup_height, initial_btc_height
  <2> QED BY <2>1, <2>2
<1>3. event' \in Event /\ channel' \in Seq(Event)
  BY <1>1, EventType DEF Restart
<1>4. heightIsActive' \in BOOLEAN
  BY <1>1 DEF Restart
<1> QED BY <1>1, <1>2, <1>3, <1>4 DEF Restart, FreshListState, chainVars, TypeOK

\* Whatever the chain, the listeners, the faults and the restarts do, the
\* scheduler's state keeps its types: deadlines are natural numbers, and the
\* list, the answer of the query and the requests to cancel hold requests only.
THEOREM TypeCorrect == Spec => []TypeOK
<1>1. TypeOK /\ [Next]_vars => TypeOK'
  <2> SUFFICES ASSUME TypeOK, [Next]_vars PROVE TypeOK'
    OBVIOUS
  <2>1. CASE UNCHANGED vars
    BY <2>1 DEF vars, chainVars, noticeVars, listVars, schedulerVars, TypeOK
  <2> QED BY <2>1, ChainType, ListenersType, SchedulerType, RestartType DEF Next
<1> QED BY <1>1, InitType, PTL DEF Spec

-----------------------------------------------------------------------------
(* A valid list is complete.  The property is not inductive: it speaks of  *)
(* the moments between two events only, and an Executed notice removes the *)
(* request it names from the list.  The strengthening says that notices    *)
(* are true and follows the requests through the awaits of process_event.  *)

\* A notice of an execution, wherever it is, is about an executed request.
NoticesAreTrue ==
  /\ \A r \in unsentExecuted : status[r] = "Executed"
  /\ \A i \in 1..Len(channel) : \A r \in channel[i].ids : status[r] = "Executed"
  /\ \A r \in event.ids : status[r] = "Executed"

\* Every pending request is among ids, announced, or lost to the scheduler.
AccountedFor(ids) == OpenedQueued \/ Pending \subseteq ids \cup unsentOpened \cup forgotten

Cancellable == {d.id : d \in cancellable_requests}

ListInv ==
  /\ pc = "next" /\ list_state = "Valid" => AccountedFor(Listed)
  /\ pc = "period" /\ event.type # "Opened" => AccountedFor(open_requests)
  /\ pc = "cancel" => AccountedFor(Listed \cup Cancellable)

Inv == TypeOK /\ NoticesAreTrue /\ ListInv

\* The branches of process_event keep what the list accounts for.
LEMMA ProcessEventAccounts ==
  ASSUME NEW e \in Event, NEW list \in SUBSET ActiveRequest, ProcessEvent(e, list),
         \A r \in e.ids : status'[r] = "Executed",
         e.type # "Opened" =>
           OpenedQueued' \/ Pending' \subseteq {d.id : d \in list} \cup unsentOpened' \cup forgotten'
  PROVE  ListInv'
<1>1. e.type \in {"Opened", "Executed", "ParachainBlock", "BitcoinBlock"}
  BY DEF Event
<1>2. ASSUME NEW p, NEW b, CancelRequests(list, p, b), e.type # "Opened"
      PROVE  ListInv'
  <2> DEFINE expired == {d \in list : HasExpired(d, p, b)}
  <2>1. cancellable_requests' = expired /\ active_requests' = list \ expired
    BY <1>2 DEF CancelRequests
  <2>2. {d.id : d \in list} = (Listed \cup Cancellable)'
    BY <2>1 DEF Listed, Cancellable
  <2>3. CASE expired = {}
    <3>1. {d.id : d \in list} = Listed' /\ pc' = "next"
      BY <1>2, <2>1, <2>3 DEF Listed, CancelRequests, Return
    <3> QED BY <1>2, <3>1 DEF ListInv, AccountedFor
  <2>4. CASE expired # {}
    <3>1. pc' = "cancel"
      BY <1>2, <2>4 DEF CancelRequests
    <3> QED BY <1>2, <2>2, <3>1 DEF ListInv, AccountedFor
  <2> QED BY <2>3, <2>4
<1>3. CASE e.type \in {"ParachainBlock", "BitcoinBlock"}
  BY <1>2, <1>3 DEF ProcessEvent
<1>4. CASE e.type = "Executed"
  <2>1. active_requests' = {d \in list : d.id \notin e.ids} /\ pc' = "next"
    BY <1>4 DEF ProcessEvent, Return
  <2>2. Pending' \cap {d.id : d \in list} \subseteq Listed'
    BY <2>1 DEF Pending, Listed
  <2>3. AccountedFor(Listed)'
    BY <1>4, <2>2 DEF AccountedFor
  <2> QED BY <1>4, <2>1, <2>3 DEF ListInv
<1>5. CASE e.type = "Opened"
  BY <1>5 DEF ProcessEvent, Return, ListInv
<1> QED BY <1>1, <1>3, <1>4, <1>5

\* Notices name requests.
LEMMA NoticeIds ==
  ASSUME TypeOK
  PROVE  /\ unsentExecuted \subseteq Requests
         /\ \A i \in 1..Len(channel) : channel[i].ids \subseteq Requests
         /\ event.ids \subseteq Requests
<1>1. \A e \in Event : e.ids \subseteq Requests
  BY DEF Event
<1>2. \A i \in 1..Len(channel) : channel[i] \in Event
  BY DEF TypeOK
<1> QED BY <1>1, <1>2 DEF TypeOK

\* Initially no notice is unsent or queued.
LEMMA NoticesInit == Init => NoticesAreTrue
BY DEF Init, NoticesAreTrue, NoEvent, Opened

\* Every step keeps notices about opened requests only.
LEMMA NoticesStep == TypeOK /\ NoticesAreTrue /\ [Next]_vars => NoticesAreTrue'
<1> SUFFICES ASSUME TypeOK, NoticesAreTrue, [Next]_vars PROVE NoticesAreTrue'
  OBVIOUS
<1> USE DEF chainVars, noticeVars, listVars, schedulerVars
<1>1. ASSUME UNCHANGED <<unsentExecuted, channel, event>>,
             \A r \in Requests : status[r] = "Executed" => status'[r] = "Executed"
      PROVE  NoticesAreTrue'
  <2>1. /\ unsentExecuted \subseteq Requests
        /\ \A i \in 1..Len(channel) : channel[i].ids \subseteq Requests
        /\ event.ids \subseteq Requests
    BY NoticeIds
  <2> QED BY <1>1, <2>1 DEF NoticesAreTrue
<1>2. CASE Chain
  <2>1. ASSUME NEW r \in Requests, ExecuteRequest(r) PROVE NoticesAreTrue'
    <3>1. /\ status' = [status EXCEPT ![r] = "Executed"]
          /\ unsentExecuted' \subseteq unsentExecuted \cup {r}
          /\ UNCHANGED <<channel, event>>
      BY <2>1 DEF ExecuteRequest
    <3>2. /\ unsentExecuted \subseteq Requests
          /\ \A i \in 1..Len(channel) : channel[i].ids \subseteq Requests
          /\ event.ids \subseteq Requests
      BY NoticeIds
    <3>3. \A q \in Requests : status[q] = "Executed" \/ q = r => status'[q] = "Executed"
      BY <3>1 DEF TypeOK
    <3> QED BY <3>1, <3>2, <3>3 DEF NoticesAreTrue
  <2>2. ASSUME NEW r \in Requests, OpenRequest(r) \/ CancelByOther(r) PROVE NoticesAreTrue'
    BY <1>1, <2>2 DEF OpenRequest, CancelByOther, CancelAccepted, TypeOK
  <2>3. CASE ChangePeriod \/ NewParachainBlock \/ NewBitcoinBlock
    BY <1>1, <2>3 DEF ChangePeriod, NewParachainBlock, NewBitcoinBlock
  <2> QED BY <1>2, <2>1, <2>2, <2>3 DEF Chain
<1>3. CASE Listeners
  <2>1. ASSUME NEW e \in Event, Send(e), unsentExecuted' \subseteq unsentExecuted,
               \A r \in e.ids : status[r] = "Executed"
        PROVE  NoticesAreTrue'
    <3>1. channel' = Append(channel, e) /\ UNCHANGED <<status, event>>
      BY <2>1 DEF Send
    <3>2. \A i \in 1..Len(channel') :
            (i \in 1..Len(channel) /\ channel'[i] = channel[i]) \/ channel'[i] = e
      BY <3>1 DEF TypeOK
    <3> QED BY <2>1, <3>1, <3>2 DEF NoticesAreTrue
  <2>2. CASE Subscribe
    BY <1>1, <2>2 DEF Subscribe
  <2>3. CASE SendOpened
    <3>1. Opened.ids = {} /\ Opened \in Event
      BY EventType DEF Opened
    <3> QED BY <2>1, <2>3, <3>1 DEF SendOpened
  <2>7. CASE SkipOpened
    BY <1>1, <2>7 DEF SkipOpened
  <2>4. CASE SendExecuted
    <3>1. PICK r \in unsentExecuted : Send(Executed(r)) /\ unsentExecuted' = unsentExecuted \ {r}
      BY <2>4 DEF SendExecuted
    <3>2. Executed(r).ids = {r} /\ Executed(r) \in Event
      BY EventType DEF Executed, TypeOK
    <3> QED BY <2>1, <3>1, <3>2 DEF NoticesAreTrue
  <2>5. CASE active_block_listener
    <3>1. ParachainBlock(activeHeight).ids = {} /\ ParachainBlock(activeHeight) \in Event
      BY EventType DEF ParachainBlock, TypeOK
    <3> QED BY <2>1, <2>5, <3>1 DEF active_block_listener
  <2>6. CASE relay_block_listener
    <3>1. BitcoinBlock(relayHeight).ids = {} /\ BitcoinBlock(relayHeight) \in Event
      BY EventType DEF BitcoinBlock, TypeOK
    <3> QED BY <2>1, <2>6, <3>1 DEF relay_block_listener
  <2> QED BY <1>3, <2>2, <2>3, <2>4, <2>5, <2>6, <2>7 DEF Listeners
<1>4. CASE Scheduler
  <2>1. NoEvent.ids = {}
    BY DEF NoEvent, Opened
  <2>2. CASE NextEvent
    <3>1. /\ channel # <<>> /\ channel' = Tail(channel)
          /\ event' = Head(channel) \/ event' = NoEvent
          /\ UNCHANGED <<status, unsentExecuted>>
      BY <2>2 DEF NextEvent, ProcessEvent
    <3>2. /\ Len(channel) > 0 /\ Head(channel) = channel[1]
          /\ \A i \in 1..Len(channel') : i + 1 \in 1..Len(channel) /\ channel'[i] = channel[i + 1]
      BY <3>1 DEF TypeOK
    <3> QED BY <2>1, <3>1, <3>2 DEF NoticesAreTrue
  <2>3. CASE QueryRequests \/ QueryPeriod
    <3>1. /\ event' = event \/ event' = NoEvent
          /\ UNCHANGED <<status, unsentExecuted, channel>>
      BY <2>3 DEF QueryRequests, QueryPeriod, QueryFailed, ProcessEvent
    <3> QED BY <2>1, <3>1 DEF NoticesAreTrue
  <2>4. CASE CancelSucceeds \/ CancelFails
    <3>1. PICK d \in cancellable_requests :
            \/ status' = status
            \/ status[d.id] = "Pending" /\ status' = [status EXCEPT ![d.id] = "Cancelled"]
      BY <2>4 DEF CancelSucceeds, CancelFails, CancelAccepted
    <3>2. UNCHANGED <<unsentExecuted, channel, event>>
      BY <2>4 DEF CancelSucceeds, CancelFails
    <3> QED BY <1>1, <3>1, <3>2 DEF TypeOK
  <2> QED BY <1>4, <2>2, <2>3, <2>4 DEF Scheduler
<1>5. CASE PeriodicRestart \/ CrashRestart
  BY <1>5 DEF PeriodicRestart, CrashRestart, Restart, NoticesAreTrue, NoEvent, Opened
<1>6. CASE UNCHANGED vars
  BY <1>1, <1>6 DEF vars
<1> QED BY <1>2, <1>3, <1>4, <1>5, <1>6 DEF Next

\* What is accounted for stays so while the pending requests and the announced
\* ones only trade places.
LEMMA AccountedForStep ==
  ASSUME TypeOK, NEW ids, AccountedFor(ids),
         OpenedQueued => OpenedQueued',
         Pending' \subseteq Pending \cup unsentOpened' \cup forgotten',
         OpenedQueued' \/ unsentOpened \cup forgotten \subseteq unsentOpened' \cup forgotten'
  PROVE  OpenedQueued' \/ Pending' \subseteq ids \cup unsentOpened' \cup forgotten'
BY DEF AccountedFor

\* Chain and listener steps leave the scheduler alone.
LEMMA EnvironmentKeepsList ==
  ASSUME TypeOK, ListInv, UNCHANGED schedulerVars,
         OpenedQueued => OpenedQueued',
         Pending' \subseteq Pending \cup unsentOpened' \cup forgotten',
         OpenedQueued' \/ unsentOpened \cup forgotten \subseteq unsentOpened' \cup forgotten'
  PROVE  ListInv'
<1>1. UNCHANGED <<pc, list_state, event, open_requests, Listed, Cancellable>>
  BY DEF schedulerVars, listVars, Listed, Cancellable
<1>2. ASSUME NEW ids, AccountedFor(ids)
      PROVE  OpenedQueued' \/ Pending' \subseteq ids \cup unsentOpened' \cup forgotten'
  BY <1>2, AccountedForStep
<1>3. (pc = "next" /\ list_state = "Valid" => AccountedFor(Listed))'
  <2> SUFFICES ASSUME pc' = "next", list_state' = "Valid" PROVE AccountedFor(Listed)'
    OBVIOUS
  <2>1. AccountedFor(Listed)
    BY <1>1 DEF ListInv
  <2> QED BY <1>1, <1>2, <2>1 DEF AccountedFor
<1>4. (pc = "period" /\ event.type # "Opened" => AccountedFor(open_requests))'
  <2> SUFFICES ASSUME pc' = "period", event.type' # "Opened" PROVE AccountedFor(open_requests)'
    OBVIOUS
  <2>1. AccountedFor(open_requests)
    BY <1>1 DEF ListInv
  <2> QED BY <1>1, <1>2, <2>1 DEF AccountedFor
<1>5. (pc = "cancel" => AccountedFor(Listed \cup Cancellable))'
  <2> SUFFICES ASSUME pc' = "cancel" PROVE AccountedFor(Listed \cup Cancellable)'
    OBVIOUS
  <2>1. AccountedFor(Listed \cup Cancellable)
    BY <1>1 DEF ListInv
  <2>2. OpenedQueued' \/ Pending' \subseteq (Listed \cup Cancellable) \cup unsentOpened' \cup forgotten'
    BY <1>2, <2>1
  <2> QED BY <1>1, <2>2 DEF AccountedFor
<1> QED BY <1>3, <1>4, <1>5 DEF ListInv

\* A request opened on the chain is announced, so the list stays complete.
LEMMA ListChain == TypeOK /\ ListInv /\ Chain => ListInv'
<1> SUFFICES ASSUME TypeOK, ListInv, Chain PROVE ListInv'
  OBVIOUS
<1>1. UNCHANGED schedulerVars /\ UNCHANGED channel
  BY DEF Chain, OpenRequest, ExecuteRequest, CancelByOther, ChangePeriod, NewParachainBlock,
         NewBitcoinBlock
<1>2. OpenedQueued => OpenedQueued'
  BY <1>1 DEF OpenedQueued
<1>3. ASSUME NEW r \in Requests, OpenRequest(r) PROVE ListInv'
  <2>1. Pending' \subseteq Pending \cup {r}
    BY <1>3 DEF OpenRequest, Pending, TypeOK
  <2>2. {r} \cup unsentOpened \cup forgotten \subseteq unsentOpened' \cup forgotten'
    BY <1>3 DEF OpenRequest
  <2> QED BY <1>1, <1>2, <2>1, <2>2, EnvironmentKeepsList
<1>4. ASSUME UNCHANGED <<unsentOpened, forgotten>>, Pending' \subseteq Pending PROVE ListInv'
  BY <1>1, <1>2, <1>4, EnvironmentKeepsList
<1>5. ASSUME NEW r \in Requests, ExecuteRequest(r) \/ CancelByOther(r) PROVE ListInv'
  <2>1. Pending' \subseteq Pending
    BY <1>5 DEF ExecuteRequest, CancelByOther, Pending, TypeOK
  <2> QED BY <1>4, <1>5, <2>1 DEF ExecuteRequest, CancelByOther, noticeVars
<1>6. CASE ChangePeriod \/ NewParachainBlock \/ NewBitcoinBlock
  BY <1>4, <1>6 DEF ChangePeriod, NewParachainBlock, NewBitcoinBlock, noticeVars, Pending
<1> QED BY <1>3, <1>5, <1>6 DEF Chain

\* Sending a notice moves it from the listener to the channel.
LEMMA ListListeners == TypeOK /\ ListInv /\ Listeners => ListInv'
<1> SUFFICES ASSUME TypeOK, ListInv, Listeners PROVE ListInv'
  OBVIOUS
<1>1. /\ UNCHANGED schedulerVars /\ Pending' = Pending
      /\ UNCHANGED forgotten \/ SkipOpened
  BY DEF Listeners, Subscribe, SendOpened, SkipOpened, SendExecuted, active_block_listener,
         relay_block_listener, Send, chainVars, Pending
<1>2. ASSUME NEW e, Send(e) PROVE OpenedQueued \/ e.type = "Opened" => OpenedQueued'
  <2>1. channel' = Append(channel, e) /\ channel \in Seq(Event)
    BY <1>2 DEF Send, TypeOK
  <2>2. /\ Len(channel') = Len(channel) + 1 /\ Len(channel) \in Nat
        /\ \A i \in 1..Len(channel) : channel'[i] = channel[i]
        /\ channel'[Len(channel) + 1] = e
    BY <2>1
  <2> QED BY <2>2 DEF OpenedQueued
<1>3. CASE SendOpened
  <2>1. Send(Opened) /\ Opened.type = "Opened"
    BY <1>3 DEF SendOpened, Opened
  <2>2. OpenedQueued'
    BY <1>2, <2>1
  <2>3. UNCHANGED forgotten
    BY <2>1 DEF Send
  <2> QED BY <1>1, <2>2, <2>3, EnvironmentKeepsList
<1>6. CASE SkipOpened
  BY <1>1, <1>6, EnvironmentKeepsList DEF SkipOpened, OpenedQueued
<1>4. CASE Subscribe
  BY <1>1, <1>4, EnvironmentKeepsList DEF Subscribe, OpenedQueued
<1>5. CASE SendExecuted \/ active_block_listener \/ relay_block_listener
  <2>1. OpenedQueued => OpenedQueued'
    BY <1>2, <1>5 DEF SendExecuted, active_block_listener, relay_block_listener
  <2>2. UNCHANGED forgotten
    BY <1>5 DEF SendExecuted, active_block_listener, relay_block_listener, Send
  <2> QED BY <1>1, <1>5, <2>1, <2>2, EnvironmentKeepsList
          DEF SendExecuted, active_block_listener, relay_block_listener
<1> QED BY <1>3, <1>4, <1>5, <1>6 DEF Listeners

\* The scheduler drops a pending request only as forgotten, or with the list invalid.
LEMMA ListScheduler == TypeOK /\ NoticesAreTrue /\ ListInv /\ Scheduler => ListInv'
<1> SUFFICES ASSUME TypeOK, NoticesAreTrue, ListInv, Scheduler PROVE ListInv'
  OBVIOUS
<1> USE DEF chainVars, noticeVars
<1>1. CASE NextEvent
  <2>1. /\ channel # <<>> /\ channel' = Tail(channel) /\ Pending' = Pending
        /\ UNCHANGED <<status, unsentOpened, forgotten>>
    BY <1>1 DEF NextEvent, Pending
  <2>2. /\ Len(channel) \in Nat /\ Len(channel) > 0
        /\ Head(channel) = channel[1] /\ Head(channel) \in Event
        /\ Len(channel') = Len(channel) - 1
        /\ \A i \in 1..Len(channel') : channel'[i] = channel[i + 1]
    BY <2>1 DEF TypeOK
  <2>3. CASE list_state # "Valid"
    BY <1>1, <2>3 DEF NextEvent, ListInv
  <2>4. CASE list_state = "Valid"
    <3>1. ProcessEvent(Head(channel), active_requests) /\ active_requests \in SUBSET ActiveRequest
      BY <1>1, <2>4 DEF NextEvent, TypeOK
    <3>2. \A r \in Head(channel).ids : status'[r] = "Executed"
      BY <2>1, <2>2 DEF NoticesAreTrue
    <3>3. ASSUME Head(channel).type # "Opened", OpenedQueued PROVE OpenedQueued'
      <4>1. PICK i \in 1..Len(channel) : channel[i].type = "Opened"
        BY <3>3 DEF OpenedQueued
      <4>2. i # 1
        BY <2>2, <3>3, <4>1
      <4>3. i - 1 \in 1..Len(channel') /\ channel'[i - 1] = channel[i]
        BY <2>2, <4>2
      <4> QED BY <4>1, <4>3 DEF OpenedQueued
    <3>4. AccountedFor(Listed)
      BY <1>1, <2>4 DEF NextEvent, ListInv
    <3>5. Head(channel).type # "Opened" =>
            OpenedQueued' \/ Pending' \subseteq {d.id : d \in active_requests} \cup unsentOpened' \cup forgotten'
      BY <2>1, <3>3, <3>4 DEF AccountedFor, Listed
    <3> QED BY <2>2, <3>1, <3>2, <3>5, ProcessEventAccounts
  <2> QED BY <2>3, <2>4
<1>2. ASSUME ProcessEvent(event, {}), Pending' \subseteq forgotten', UNCHANGED status PROVE ListInv'
  <2>1. event \in Event /\ {} \in SUBSET ActiveRequest
    BY DEF TypeOK
  <2>2. \A r \in event.ids : status'[r] = "Executed"
    BY <1>2 DEF NoticesAreTrue
  <2> QED BY <1>2, <2>1, <2>2, ProcessEventAccounts
<1>3. QueryFailed /\ UNCHANGED status => ListInv'
  BY <1>2 DEF QueryFailed, Pending
<1>4. CASE QueryRequests
  <2>1. UNCHANGED status
    BY <1>4 DEF QueryRequests
  <2>2. CASE QueryFailed
    BY <1>3, <2>1, <2>2
  <2>3. CASE ~QueryFailed /\ Pending = {}
    BY <1>2, <1>4, <2>1, <2>3 DEF QueryRequests, Pending
  <2>4. CASE ~QueryFailed /\ Pending # {}
    <3>1. pc' = "period" /\ open_requests' = Pending /\ Pending' = Pending
      BY <1>4, <2>1, <2>4 DEF QueryRequests, Pending
    <3> QED BY <3>1 DEF ListInv, AccountedFor
  <2> QED BY <2>2, <2>3, <2>4
<1>5. CASE QueryPeriod
  <2> DEFINE list == {Deadline(r, period) : r \in open_requests}
  <2>1. UNCHANGED <<status, unsentOpened, channel>>
    BY <1>5 DEF QueryPeriod
  <2>2. CASE QueryFailed
    BY <1>3, <2>1, <2>2
  <2>3. CASE ~QueryFailed
    <3>1. ProcessEvent(event, list) /\ UNCHANGED forgotten /\ pc = "period"
      BY <1>5, <2>3 DEF QueryPeriod
    <3>2. list \in SUBSET ActiveRequest
      <4>1. period \in Nat /\ open_requests \subseteq Requests
        BY CancellationAssumption DEF TypeOK
      <4> QED BY <4>1, DeadlineType
    <3>3. {d.id : d \in list} = open_requests
      <4>1. \A r \in open_requests : Deadline(r, period).id = r
        BY DEF Deadline
      <4> QED BY <4>1
    <3>4. event.type # "Opened" =>
            OpenedQueued' \/ Pending' \subseteq open_requests \cup unsentOpened' \cup forgotten'
      BY <2>1, <3>1 DEF ListInv, AccountedFor, OpenedQueued, Pending
    <3>5. event \in Event /\ \A r \in event.ids : status'[r] = "Executed"
      BY <2>1 DEF NoticesAreTrue, TypeOK
    <3> HIDE DEF list
    <3> QED BY <3>1, <3>2, <3>3, <3>4, <3>5, ProcessEventAccounts
  <2> QED BY <2>2, <2>3
<1>6. CASE CancelSucceeds
  <2>1. PICK d \in cancellable_requests :
          /\ pc = "cancel" /\ status' = [status EXCEPT ![d.id] = "Cancelled"]
          /\ cancellable_requests' = cancellable_requests \ {d}
          /\ IF cancellable_requests = {d} THEN pc' = "next" ELSE pc' = pc
          /\ UNCHANGED <<active_requests, unsentOpened, forgotten, channel>>
    BY <1>6 DEF CancelSucceeds, Return
  <2>2. d.id \in Requests
    BY DEF TypeOK, ActiveRequest
  <2>3. Pending' \subseteq Pending \ {d.id}
    BY <2>1, <2>2 DEF Pending, TypeOK
  <2>4. Cancellable \subseteq Cancellable' \cup {d.id} /\ Listed' = Listed
    BY <2>1 DEF Cancellable, Listed
  <2>5. OpenedQueued' = OpenedQueued
    BY <2>1 DEF OpenedQueued
  <2>6. AccountedFor(Listed \cup Cancellable)'
    BY <2>1, <2>3, <2>4, <2>5 DEF ListInv, AccountedFor
  <2>7. CASE cancellable_requests = {d}
    <3>1. Cancellable' = {} /\ pc' = "next"
      BY <2>1, <2>7 DEF Cancellable
    <3> QED BY <2>6, <3>1 DEF ListInv, AccountedFor
  <2>8. CASE cancellable_requests # {d}
    BY <2>1, <2>6, <2>8 DEF ListInv
  <2> QED BY <2>7, <2>8
<1>7. CASE CancelFails
  BY <1>7 DEF CancelFails, Return, ListInv
<1> QED BY <1>1, <1>4, <1>5, <1>6, <1>7 DEF Scheduler

\* Whatever is opened, executed, cancelled, delayed, lost or restarted, a list
\* that the scheduler holds for valid accounts for every pending request but
\* those it was given no way to list: opened before the listener subscribed,
\* not announced by it, or pending when a query failed.  Nothing the scheduler
\* does with its list loses another.
THEOREM ValidListComplete == Spec => []ValidListIsComplete
<1>1. Init => Inv
  BY InitType, NoticesInit DEF Init, FreshListState, ListInv, Inv
<1>2. Inv /\ [Next]_vars => Inv'
  <2> SUFFICES ASSUME Inv, [Next]_vars PROVE Inv'
    OBVIOUS
  <2>1. TypeOK'
    <3>1. CASE UNCHANGED vars
      BY <3>1 DEF vars, chainVars, noticeVars, listVars, schedulerVars, Inv, TypeOK
    <3> QED BY <3>1, ChainType, ListenersType, SchedulerType, RestartType DEF Next, Inv
  <2>2. NoticesAreTrue'
    BY NoticesStep DEF Inv
  <2>3. ListInv'
    <3>1. CASE PeriodicRestart \/ CrashRestart
      BY <3>1 DEF PeriodicRestart, CrashRestart, Restart, FreshListState, ListInv
    <3>2. CASE UNCHANGED vars
      BY <3>2, EnvironmentKeepsList DEF Inv, vars, chainVars, noticeVars, OpenedQueued, Pending
    <3> QED BY <3>1, <3>2, ListChain, ListListeners, ListScheduler DEF Next, Inv
  <2> QED BY <2>1, <2>2, <2>3 DEF Inv
<1>3. Inv => ValidListIsComplete
  BY DEF Inv, ListInv, AccountedFor, ValidListIsComplete
<1> QED BY <1>1, <1>2, <1>3, PTL DEF Spec

-----------------------------------------------------------------------------
(* Only expired requests are cancelled.  The strengthening: heights the    *)
(* scheduler was told lag behind the chain's, also those still on their    *)
(* way; and the deadlines in the list are those of the period it was read  *)
(* with, since the opening time of a request never changes.                *)

EventLags(e) ==
  /\ e.type = "ParachainBlock" => e.height <= activeHeight
  /\ e.type = "BitcoinBlock" => e.height <= relayHeight

HeightsLag ==
  /\ heightIsActive => parachain_height <= activeHeight
  /\ bitcoin_height <= relayHeight
  /\ EventLags(event)
  /\ \A i \in 1..Len(channel) : EventLags(channel[i])

\* d is the entry that get_open_requests made for an opened request.
IsCurrent(d) == status[d.id] # "None" /\ d = Deadline(d.id, listPeriod)

DeadlinesCurrent ==
  /\ \A r \in open_requests : status[r] # "None"
  /\ \A d \in active_requests \cup cancellable_requests : IsCurrent(d)
  /\ \A d \in cancellable_requests : HasExpired(d, parachain_height, bitcoin_height)
  /\ pc # "cancel" => cancellable_requests = {}

ExpiryInv == HeightsLag /\ DeadlinesCurrent

\* The rounded-up number of Bitcoin blocks is long enough.
LEMMA RoundedUpCovers ==
  ASSUME NEW blocks \in Nat
  PROVE  Ratio * parachain_blocks_to_bitcoin_blocks_rounded_up(blocks) >= blocks
<1> DEFINE n == blocks + Ratio - 1
<1>1. n \in Nat /\ Ratio \in Nat /\ Ratio > 0 /\ blocks = n - Ratio + 1
  BY CancellationAssumption
<1>2. Ratio * (n \div Ratio) > n - Ratio /\ n \div Ratio \in Nat
  <2> HIDE DEF n
  <2> QED BY <1>1, Z3
<1>3. Ratio * (n \div Ratio) \in Int
  <2> HIDE DEF n
  <2> QED BY <1>1, <1>2
<1>4. Ratio * (n \div Ratio) >= blocks
  <2> DEFINE product == Ratio * (n \div Ratio)
  <2> HIDE DEF n, product
  <2> QED BY <1>1, <1>2, <1>3 DEF product
<1> QED BY <1>4 DEF parachain_blocks_to_bitcoin_blocks_rounded_up

\* Multiplication by a natural number keeps the order.
LEMMA ProductMonotonic ==
  ASSUME NEW a \in Int, NEW b \in Int, NEW k \in Nat, a >= b
  PROVE  k * a >= k * b
BY Z3

\* A request past both of its deadlines, by heights the chain has reached, is
\* expired on the chain.
LEMMA PastDeadlineIsExpired ==
  ASSUME TypeOK, NEW r \in Requests, NEW p \in Nat, period <= p,
         HasExpired(Deadline(r, p), activeHeight, relayHeight)
  PROVE  ExpiredOnChain(r)
<1> DEFINE longest == Maximum(p, openTime[r].period)
           rounded == parachain_blocks_to_bitcoin_blocks_rounded_up(longest)
<1>1. /\ openTime[r].parachain \in Nat /\ openTime[r].bitcoin \in Nat /\ openTime[r].period \in Nat
      /\ period \in Nat /\ activeHeight \in Nat /\ relayHeight \in Nat /\ Ratio \in Nat
  BY CancellationAssumption DEF TypeOK
<1>2. longest \in Nat /\ p <= longest /\ openTime[r].period <= longest
  BY <1>1 DEF Maximum
<1>3. rounded \in Nat /\ Ratio * rounded >= longest
  <2> HIDE DEF longest
  <2> QED BY <1>2, RoundedUpType, RoundedUpCovers
<1>4. /\ activeHeight > openTime[r].parachain + longest
      /\ relayHeight > openTime[r].bitcoin + rounded
  BY DEF HasExpired, Deadline
<1>5. SUFFICES ASSUME NEW q \in {period, openTime[r].period}
               PROVE  /\ activeHeight > openTime[r].parachain + q
                      /\ Ratio * (relayHeight - openTime[r].bitcoin - 1) >= q
  BY DEF ExpiredOnChain
<1>6. q \in Nat /\ q <= longest
  <2> HIDE DEF longest
  <2> QED BY <1>1, <1>2
<1> DEFINE passed == relayHeight - openTime[r].bitcoin - 1
<1> HIDE DEF longest, rounded
<1>7. passed \in Int /\ passed >= rounded
  BY <1>1, <1>3, <1>4
<1>8. Ratio * passed >= Ratio * rounded /\ Ratio * passed \in Int /\ Ratio * rounded \in Int
  <2> HIDE DEF passed
  <2> QED BY <1>1, <1>3, <1>7, ProductMonotonic
<1>9. Ratio * passed >= q
  <2> DEFINE x == Ratio * passed
             y == Ratio * rounded
  <2>1. x >= y /\ x \in Int /\ y \in Int /\ y >= longest
    BY <1>3, <1>8
  <2> HIDE DEF x, y
  <2>2. x >= q
    BY <1>2, <1>6, <2>1
  <2> QED BY <2>2 DEF x
<1> QED BY <1>1, <1>2, <1>4, <1>6, <1>9

\* Deadlines of an opened request stay current as long as its opening time and
\* the period the list was read with do.
LEMMA CurrentStays ==
  ASSUME NEW d, IsCurrent(d), d.id \in Requests, listPeriod' = listPeriod,
         \A r \in Requests :
           status[r] # "None" => status'[r] # "None" /\ openTime'[r] = openTime[r]
  PROVE  IsCurrent(d)'
BY DEF IsCurrent, Deadline

\* Initially the scheduler holds no height above the chain's and no deadline.
LEMMA ExpiryInit == Init => ExpiryInv
<1> SUFFICES ASSUME Init PROVE ExpiryInv
  OBVIOUS
<1>1. HeightsLag
  <2>1. relayHeight = 0 /\ bitcoin_height = 0
    BY DEF Init, initial_btc_height
  <2>2. heightIsActive => parachain_height <= activeHeight
    BY DEF Init
  <2>3. channel = <<>> /\ event.type = "Opened"
    BY DEF Init, NoEvent, Opened
  <2> QED BY <2>1, <2>2, <2>3 DEF HeightsLag, EventLags
<1>2. DeadlinesCurrent
  BY DEF Init, DeadlinesCurrent
<1> QED BY <1>1, <1>2 DEF ExpiryInv

\* Time passes and requests change while the scheduler does nothing.
LEMMA ExpiryChain == TypeOK /\ ExpiryInv /\ Chain => ExpiryInv'
<1> SUFFICES ASSUME TypeOK, ExpiryInv, Chain PROVE ExpiryInv'
  OBVIOUS
<1> USE DEF chainVars, noticeVars, listVars, schedulerVars
<1>1. UNCHANGED schedulerVars /\ UNCHANGED channel
  BY DEF Chain, OpenRequest, ExecuteRequest, CancelByOther, ChangePeriod, NewParachainBlock,
         NewBitcoinBlock
<1>2. /\ activeHeight \in Nat /\ activeHeight' \in Nat /\ activeHeight' >= activeHeight
      /\ relayHeight \in Nat /\ relayHeight' \in Nat /\ relayHeight' >= relayHeight
  BY DEF Chain, OpenRequest, ExecuteRequest, CancelByOther, ChangePeriod, NewParachainBlock,
         NewBitcoinBlock, TypeOK
<1>3. \A r \in Requests :
        status[r] # "None" => status'[r] # "None" /\ openTime'[r] = openTime[r]
  <2>1. CASE \E r \in Requests : OpenRequest(r)
    BY <2>1 DEF OpenRequest, TypeOK
  <2>2. CASE \E r \in Requests : ExecuteRequest(r) \/ CancelByOther(r)
    BY <2>2 DEF ExecuteRequest, CancelByOther, TypeOK
  <2>3. CASE ChangePeriod \/ NewParachainBlock \/ NewBitcoinBlock
    BY <2>3 DEF ChangePeriod, NewParachainBlock, NewBitcoinBlock
  <2> QED BY <2>1, <2>2, <2>3 DEF Chain
<1>4. HeightsLag'
  <2>1. ASSUME NEW e \in Event, EventLags(e) PROVE EventLags(e)'
    <3>1. e.height \in Nat
      BY DEF Event
    <3> QED BY <1>2, <2>1, <3>1 DEF EventLags
  <2>2. event \in Event /\ \A i \in 1..Len(channel) : channel[i] \in Event
    BY DEF TypeOK
  <2>3. EventLags(event)' /\ \A i \in 1..Len(channel) : EventLags(channel[i])'
    BY <1>1, <2>1, <2>2 DEF ExpiryInv, HeightsLag, EventLags
  <2>4. parachain_height \in Nat /\ bitcoin_height \in Nat
    BY DEF TypeOK
  <2> QED BY <1>1, <1>2, <2>3, <2>4 DEF ExpiryInv, HeightsLag
<1>5. DeadlinesCurrent'
  <2>1. ASSUME NEW d \in active_requests \cup cancellable_requests PROVE IsCurrent(d)'
    BY <1>1, <1>3, CurrentStays DEF ExpiryInv, DeadlinesCurrent, TypeOK, ActiveRequest
  <2>2. open_requests \subseteq Requests
    BY DEF TypeOK
  <2> QED BY <1>1, <1>3, <2>1, <2>2 DEF ExpiryInv, DeadlinesCurrent
<1> QED BY <1>4, <1>5 DEF ExpiryInv

\* The listeners send heights the chain has reached.
LEMMA ExpiryListeners == TypeOK /\ ExpiryInv /\ Listeners => ExpiryInv'
<1> SUFFICES ASSUME TypeOK, ExpiryInv, Listeners PROVE ExpiryInv'
  OBVIOUS
<1>1. UNCHANGED <<chainVars, schedulerVars>>
  BY DEF Listeners, Subscribe, SendOpened, SkipOpened, SendExecuted, active_block_listener,
         relay_block_listener, Send
<1>2. DeadlinesCurrent'
  BY <1>1 DEF chainVars, listVars, schedulerVars, ExpiryInv, DeadlinesCurrent, IsCurrent, Deadline
<1>3. ASSUME NEW e \in Event, Send(e), EventLags(e) PROVE HeightsLag'
  <2>1. channel' = Append(channel, e)
    BY <1>3 DEF Send
  <2>2. \A i \in 1..Len(channel') :
          (i \in 1..Len(channel) /\ channel'[i] = channel[i]) \/ channel'[i] = e
    BY <2>1 DEF TypeOK
  <2>3. \A i \in 1..Len(channel') : EventLags(channel'[i])
    BY <1>3, <2>2 DEF ExpiryInv, HeightsLag
  <2> QED BY <1>1, <2>3 DEF chainVars, schedulerVars, ExpiryInv, HeightsLag, EventLags
<1>4. CASE Subscribe
  BY <1>1, <1>2, <1>4 DEF Subscribe, chainVars, schedulerVars, ExpiryInv, HeightsLag, EventLags
<1>5. CASE SendOpened
  <2>1. Opened \in Event /\ EventLags(Opened)
    BY EventType DEF EventLags, Opened
  <2> QED BY <1>2, <1>3, <1>5, <2>1 DEF SendOpened, ExpiryInv
<1>9. CASE SkipOpened
  BY <1>1, <1>2, <1>9 DEF SkipOpened, chainVars, schedulerVars, ExpiryInv, HeightsLag, EventLags
<1>6. CASE SendExecuted
  <2>1. \A r \in unsentExecuted : Executed(r) \in Event /\ EventLags(Executed(r))
    BY EventType DEF EventLags, Executed, TypeOK
  <2> QED BY <1>2, <1>3, <1>6, <2>1 DEF SendExecuted, ExpiryInv
<1>7. CASE active_block_listener
  <2>1. ParachainBlock(activeHeight) \in Event /\ EventLags(ParachainBlock(activeHeight))
    BY EventType DEF EventLags, ParachainBlock, TypeOK
  <2> QED BY <1>2, <1>3, <1>7, <2>1 DEF active_block_listener, ExpiryInv
<1>8. CASE relay_block_listener
  <2>1. BitcoinBlock(relayHeight) \in Event /\ EventLags(BitcoinBlock(relayHeight))
    BY EventType DEF EventLags, BitcoinBlock, TypeOK
  <2> QED BY <1>2, <1>3, <1>8, <2>1 DEF relay_block_listener, ExpiryInv
<1> QED BY <1>4, <1>5, <1>6, <1>7, <1>8, <1>9 DEF Listeners

\* process_event on a list that is current: heights come from the event, and
\* what is drained has passed them.
LEMMA ProcessEventExpiry ==
  ASSUME NEW e \in Event, NEW list \in SUBSET ActiveRequest, ProcessEvent(e, list),
         HeightsLag, EventLags(e), UNCHANGED chainVars, cancellable_requests = {},
         \A d \in list : IsCurrent(d)',
         \A r \in open_requests' : status'[r] # "None",
         \A i \in 1..Len(channel') : EventLags(channel'[i])
  PROVE  ExpiryInv'
<1>1. e.type \in {"Opened", "Executed", "ParachainBlock", "BitcoinBlock"} /\ e.height \in Nat
  BY DEF Event
<1>2. UNCHANGED <<activeHeight, relayHeight>> /\ event' = NoEvent
  BY DEF chainVars, ProcessEvent
<1>3. EventLags(event)' /\ \A i \in 1..Len(channel') : EventLags(channel[i])'
  BY <1>2 DEF EventLags, NoEvent, Opened
<1>4. ASSUME CancelRequests(list, parachain_height', bitcoin_height') PROVE DeadlinesCurrent'
  <2>1. /\ active_requests' \cup cancellable_requests' \subseteq list
        /\ \A d \in cancellable_requests' : HasExpired(d, parachain_height', bitcoin_height')
        /\ pc' # "cancel" => cancellable_requests' = {}
    BY <1>4 DEF CancelRequests, Return
  <2> QED BY <2>1 DEF DeadlinesCurrent, HasExpired
<1>5. CASE e.type = "ParachainBlock"
  <2>1. /\ parachain_height' = e.height /\ bitcoin_height' = bitcoin_height
        /\ CancelRequests(list, parachain_height', bitcoin_height')
    BY <1>5 DEF ProcessEvent
  <2> QED BY <1>2, <1>3, <1>4, <1>5, <2>1 DEF ExpiryInv, HeightsLag, EventLags
<1>6. CASE e.type = "BitcoinBlock"
  <2>1. /\ parachain_height' = parachain_height /\ bitcoin_height' = e.height
        /\ heightIsActive' = heightIsActive
        /\ CancelRequests(list, parachain_height', bitcoin_height')
    BY <1>6 DEF ProcessEvent
  <2> QED BY <1>2, <1>3, <1>4, <1>6, <2>1 DEF ExpiryInv, HeightsLag, EventLags
<1>7. CASE e.type \in {"Executed", "Opened"}
  <2>1. /\ UNCHANGED <<parachain_height, bitcoin_height, heightIsActive, cancellable_requests>>
        /\ active_requests' \subseteq list
    BY <1>7 DEF ProcessEvent
  <2> QED BY <1>2, <1>3, <2>1 DEF ExpiryInv, HeightsLag, DeadlinesCurrent
<1> QED BY <1>1, <1>5, <1>6, <1>7

\* Every deadline the scheduler lists is computed from the period it read.
LEMMA ExpiryScheduler == TypeOK /\ ExpiryInv /\ Scheduler => ExpiryInv'
<1> SUFFICES ASSUME TypeOK, ExpiryInv, Scheduler PROVE ExpiryInv'
  OBVIOUS
<1>0. HeightsLag /\ EventLags(event) /\ event \in Event /\ {} \in SUBSET ActiveRequest
  BY DEF ExpiryInv, HeightsLag, TypeOK
<1>1. CASE NextEvent
  <2>1. /\ channel # <<>> /\ channel' = Tail(channel) /\ cancellable_requests = {}
        /\ UNCHANGED chainVars /\ UNCHANGED <<listPeriod, open_requests>>
    BY <1>1 DEF NextEvent, ExpiryInv, DeadlinesCurrent
  <2>2. /\ Len(channel) \in Nat /\ Len(channel) > 0 /\ Head(channel) = channel[1]
        /\ Head(channel) \in Event
        /\ \A i \in 1..Len(channel') : i + 1 \in 1..Len(channel) /\ channel'[i] = channel[i + 1]
    BY <2>1 DEF TypeOK
  <2>3. EventLags(Head(channel)) /\ \A i \in 1..Len(channel') : EventLags(channel'[i])
    BY <2>2 DEF ExpiryInv, HeightsLag
  <2>4. \A d \in active_requests : IsCurrent(d)'
    BY <2>1 DEF ExpiryInv, DeadlinesCurrent, chainVars, IsCurrent, Deadline
  <2>5. \A r \in open_requests' : status'[r] # "None"
    BY <2>1 DEF chainVars, ExpiryInv, DeadlinesCurrent
  <2>6. CASE list_state = "Valid"
    <3>1. ProcessEvent(Head(channel), active_requests) /\ active_requests \in SUBSET ActiveRequest
      BY <1>1, <2>6 DEF NextEvent, TypeOK
    <3> QED BY <1>0, <2>1, <2>2, <2>3, <2>4, <2>5, <3>1, ProcessEventExpiry
  <2>7. CASE list_state # "Valid"
    <3>1. /\ event' = Head(channel) /\ pc' = "list"
          /\ UNCHANGED <<parachain_height, bitcoin_height, active_requests, cancellable_requests, heightIsActive>>
      BY <1>1, <2>7 DEF NextEvent
    <3>2. HeightsLag'
      BY <1>0, <2>1, <2>3, <3>1 DEF chainVars, HeightsLag, EventLags
    <3>3. DeadlinesCurrent'
      BY <2>1, <2>4, <2>5, <3>1 DEF DeadlinesCurrent
    <3> QED BY <3>2, <3>3 DEF ExpiryInv
  <2> QED BY <2>6, <2>7
<1>2. CASE QueryRequests
  <2>1. /\ UNCHANGED <<chainVars, channel, listPeriod>> /\ cancellable_requests = {}
        /\ open_requests' \subseteq Pending
    BY <1>2 DEF QueryRequests, QueryFailed, ExpiryInv, DeadlinesCurrent
  <2>2. \A r \in open_requests' : status'[r] # "None"
    BY <2>1 DEF chainVars, Pending
  <2>3. \A i \in 1..Len(channel') : EventLags(channel'[i])
    BY <2>1 DEF ExpiryInv, HeightsLag
  <2>4. CASE ProcessEvent(event, {})
    BY <1>0, <2>1, <2>2, <2>3, <2>4, ProcessEventExpiry
  <2>5. CASE ~ProcessEvent(event, {})
    <3>1. /\ UNCHANGED <<parachain_height, bitcoin_height, active_requests, event, cancellable_requests, heightIsActive>>
          /\ pc' = "period"
      BY <1>2, <2>5 DEF QueryRequests, QueryFailed
    <3>2. HeightsLag'
      BY <1>0, <2>1, <3>1 DEF chainVars, HeightsLag, EventLags
    <3>3. DeadlinesCurrent'
      BY <2>1, <2>2, <3>1 DEF chainVars, ExpiryInv, DeadlinesCurrent, IsCurrent, Deadline
    <3> QED BY <3>2, <3>3 DEF ExpiryInv
  <2> QED BY <2>4, <2>5
<1>3. CASE QueryPeriod
  <2> DEFINE list == {Deadline(r, period) : r \in open_requests}
  <2>1. /\ UNCHANGED chainVars /\ UNCHANGED channel /\ cancellable_requests = {}
        /\ open_requests' = {}
    BY <1>3 DEF QueryPeriod, QueryFailed, ExpiryInv, DeadlinesCurrent
  <2>2. \A i \in 1..Len(channel') : EventLags(channel'[i])
    BY <2>1 DEF ExpiryInv, HeightsLag
  <2>3. CASE QueryFailed
    <3>1. ProcessEvent(event, {})
      BY <2>3 DEF QueryFailed
    <3> QED BY <1>0, <2>1, <2>2, <3>1, ProcessEventExpiry
  <2>4. CASE ~QueryFailed
    <3>1. ProcessEvent(event, list) /\ listPeriod' = period
      BY <1>3, <2>4 DEF QueryPeriod
    <3>2. list \in SUBSET ActiveRequest
      <4>1. period \in Nat /\ open_requests \subseteq Requests
        BY CancellationAssumption DEF TypeOK
      <4> QED BY <4>1, DeadlineType
    <3>3. ASSUME NEW d \in list PROVE IsCurrent(d)'
      <4>1. PICK r \in open_requests : d = Deadline(r, period)
        OBVIOUS
      <4>2. d.id = r
        BY <4>1 DEF Deadline
      <4>3. status'[d.id] # "None"
        BY <2>1, <4>2 DEF chainVars, ExpiryInv, DeadlinesCurrent
      <4>4. d = Deadline(d.id, listPeriod)'
        BY <2>1, <3>1, <4>1, <4>2 DEF chainVars, Deadline
      <4> QED BY <4>3, <4>4 DEF IsCurrent
    <3> HIDE DEF list
    <3> QED BY <1>0, <2>1, <2>2, <3>1, <3>2, <3>3, ProcessEventExpiry
  <2> QED BY <2>3, <2>4
<1>4. CASE CancelSucceeds \/ CancelFails
  <2>1. /\ UNCHANGED <<openTime, activeHeight, relayHeight, channel, parachain_height, bitcoin_height,
                       active_requests, open_requests, listPeriod, event, heightIsActive>>
        /\ cancellable_requests' \subseteq cancellable_requests
        /\ pc' # "cancel" => cancellable_requests' = {}
    BY <1>4 DEF CancelSucceeds, CancelFails, Return
  <2>2. \A r \in Requests : status[r] # "None" => status'[r] # "None"
    <3>1. PICK d : status' = status \/ status' = [status EXCEPT ![d.id] = "Cancelled"]
      BY <1>4 DEF CancelSucceeds, CancelFails
    <3> QED BY <3>1 DEF TypeOK
  <2>3. HeightsLag'
    BY <1>0, <2>1 DEF HeightsLag, EventLags
  <2>4. \A d \in active_requests \cup cancellable_requests : IsCurrent(d)'
    BY <2>1, <2>2, CurrentStays DEF ExpiryInv, DeadlinesCurrent, TypeOK, ActiveRequest
  <2>5. open_requests \subseteq Requests
    BY DEF TypeOK
  <2>6. DeadlinesCurrent'
    BY <2>1, <2>2, <2>4, <2>5 DEF ExpiryInv, DeadlinesCurrent
  <2> QED BY <2>3, <2>6 DEF ExpiryInv
<1> QED BY <1>1, <1>2, <1>3, <1>4 DEF Scheduler

\* The scheduler never asks to cancel a request that has not expired, once an
\* active height has been received and unless the period was raised after the
\* list was read, for any ratio of the block intervals, any periods and any
\* delay of the events.
THEOREM OnlyExpiredCancelled == Spec => []CancelsOnlyExpired
<1>1. TypeOK /\ ExpiryInv /\ [Next]_vars => ExpiryInv'
  <2> SUFFICES ASSUME TypeOK, ExpiryInv, [Next]_vars PROVE ExpiryInv'
    OBVIOUS
  <2>1. CASE PeriodicRestart \/ CrashRestart
    <3>1. Restart
      BY <2>1 DEF PeriodicRestart, CrashRestart
    <3>2. HeightsLag'
      <4>1. relayHeight \in Nat /\ relayHeight' = relayHeight /\ bitcoin_height' \in {0, relayHeight}
        BY <3>1 DEF Restart, chainVars, initial_btc_height, TypeOK
      <4>2. heightIsActive' => parachain_height' <= activeHeight'
        BY <3>1 DEF Restart, chainVars
      <4>3. channel' = <<>> /\ event'.type = "Opened"
        BY <3>1 DEF Restart, NoEvent, Opened
      <4> QED BY <4>1, <4>2, <4>3 DEF HeightsLag, EventLags
    <3>3. DeadlinesCurrent'
      BY <3>1 DEF Restart, DeadlinesCurrent
    <3> QED BY <3>2, <3>3 DEF ExpiryInv
  <2>2. CASE UNCHANGED vars
    BY <2>2 DEF vars, chainVars, listVars, schedulerVars, ExpiryInv, HeightsLag, EventLags,
                DeadlinesCurrent, IsCurrent, Deadline, HasExpired
  <2> QED BY <2>1, <2>2, ExpiryChain, ExpiryListeners, ExpiryScheduler DEF Next
<1>2. TypeOK /\ ExpiryInv => CancelsOnlyExpired
  <2> SUFFICES ASSUME TypeOK, ExpiryInv, heightIsActive, period <= listPeriod,
                      NEW d \in cancellable_requests
               PROVE  ExpiredOnChain(d.id)
    BY DEF CancelsOnlyExpired
  <2>1. /\ d = Deadline(d.id, listPeriod) /\ HasExpired(d, parachain_height, bitcoin_height)
        /\ parachain_height <= activeHeight /\ bitcoin_height <= relayHeight
    BY DEF ExpiryInv, HeightsLag, DeadlinesCurrent, IsCurrent
  <2>2. /\ d \in ActiveRequest /\ listPeriod \in Nat
        /\ parachain_height \in Nat /\ bitcoin_height \in Nat /\ activeHeight \in Nat /\ relayHeight \in Nat
    BY DEF TypeOK
  <2>3. d.id \in Requests /\ d.parachain_deadline_height \in Nat /\ d.bitcoin_deadline_height \in Nat
    BY <2>2 DEF ActiveRequest
  <2>4. HasExpired(d, activeHeight, relayHeight)
    BY <2>1, <2>2, <2>3 DEF HasExpired
  <2> QED BY <2>1, <2>2, <2>3, <2>4, PastDeadlineIsExpired
<1> QED BY <1>1, <1>2, ExpiryInit, TypeCorrect, PTL DEF Spec

=============================================================================
