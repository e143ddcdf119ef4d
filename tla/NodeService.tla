---------------------------- MODULE NodeService ----------------------------
(***************************************************************************)
(* The service of src/node (the `service start` command of the relayer     *)
(* binary): the same Event Bridge loop as the example relayer, a Tenure    *)
(* Controller without debounce whose submit_stacks_transaction only        *)
(* encodes a contract call (nonce 0, fee 0) and never posts it, and the    *)
(* Clock threads of utils.rs.  When the observer's event channel breaks,   *)
(* start_bridge_service returns Ok, main returns, and the process ends     *)
(* with every thread in it.                                                *)
(***************************************************************************)
EXTENDS Naturals, Sequences

CONSTANTS
    Heights,      \* block indices the chain observer may report
    NoBlock,      \* a chain event whose latest block identifier is None
    StartBlock,   \* config.stacks.start_block
    MaxEvents,    \* bound: observer events handled by the Event Bridge
    MaxQueue,     \* bound: length of the (unbounded) tenure command channel
    PriceUpdatesPerMinute  \* config.bridge.price_updates_per_minute

ASSUME NodeServiceAssumption ==
    /\ Heights \subseteq Nat
    /\ NoBlock \notin Heights
    /\ StartBlock \in Nat
    /\ MaxEvents \in Nat
    /\ MaxQueue \in Nat \ {0}
    /\ PriceUpdatesPerMinute \in Nat

VARIABLES
    running,      \* the process is alive (start_bridge_service has not returned)
    tenureQueue,  \* tenure_cmd channel: Seq of commands, FIFO
    eventsSeen,   \* observer events consumed by the Event Bridge
    ctrl,         \* Controller: "recv" | "exited"
    clock_stop,   \* index of the clock whose stop sender is held; 0 = None
    clocks,       \* Seq of clock threads: [pc, terminate]
    txBuilt       \* history: contract calls encoded since the last Start, capped

vars == <<running, tenureQueue, eventsSeen, ctrl, clock_stop, clocks, txBuilt>>

Blocks == Heights \cup {NoBlock}

\* BridgeTenureCommand.
Commands == [kind : {"Start", "Micro"}, block : Heights]
              \cup [kind : {"Tick", "Stop"}, block : {NoBlock}]
Cmd(k, b) == [kind |-> k, block |-> b]

\* StacksChainEvent variants; the microblock ones yield a microblock command.
ChainKinds == {"Blocks", "Reorg", "Microblocks", "MicroblocksReorg"}
MicroKinds == {"Microblocks", "MicroblocksReorg"}

ClockPcs == {"sleep", "send", "exited"}
ClockRec == [pc : ClockPcs, terminate : BOOLEAN]
NewClock == [pc |-> "sleep", terminate |-> FALSE]

\* The history counter tells 0, 1 and "two or more" apart.
BuiltCap == 2

\* fetch_pyth_price_feeds: the HTTP call, the JSON body or a base64 decode
\* fails (Err), or every VAA is returned.
FetchResults == {"Ok", "Err"}
\* submit_stacks_transaction: buff_from, list_from or encode_contract_call
\* fails, or the call is encoded and Ok(vec![]) returned unsent.
SubmitResults == {"Ok", "Err"}

-----------------------------------------------------------------------------
(* Helpers                                                                 *)

\* let _ = tenure_cmd_tx.send(..): dropped once the Controller's receiver is
\* gone; the bound MaxQueue makes a sender wait.
SendTenure(cmd) ==
    IF ctrl = "exited"
    THEN UNCHANGED tenureQueue
    ELSE /\ Len(tenureQueue) < MaxQueue
         /\ tenureQueue' = Append(tenureQueue, cmd)

\* Mutant: both filters of the Event Bridge dropped.
Admitted_Unfiltered(b) == TRUE

\* A latest block identifier exists and is not below start_block.
Admitted(b) == b # NoBlock /\ b >= StartBlock

\* Mutant: the previous clock is never told to terminate.
StopPreviousClock_Skip(cs, c) == cs

\* if let Some(previous_clock) = clock_stop { previous_clock.send(Terminate) }
StopPreviousClock(cs, c) ==
    IF c = 0 THEN cs ELSE [cs EXCEPT ![c].terminate = TRUE]

\* Duration::from_secs(60 / updates_per_min) panics for a rate of 0.
SleepPanics == PriceUpdatesPerMinute = 0

-----------------------------------------------------------------------------

\* start_bridge_service: channels created, observer and Controller spawned.
Init ==
    /\ running = TRUE
    /\ tenureQueue = <<>>
    /\ eventsSeen = 0
    /\ ctrl = "recv"
    /\ clock_stop = 0
    /\ clocks = <<>>
    /\ txBuilt = 0

\* ObserverEvent::StacksChainEvent.
StacksChainEvent(k, b) ==
    /\ running
    /\ eventsSeen < MaxEvents
    /\ eventsSeen' = eventsSeen + 1
    /\ IF Admitted(b)
       THEN SendTenure(Cmd(IF k \in MicroKinds THEN "Micro" ELSE "Start", b))
       ELSE UNCHANGED tenureQueue
    /\ UNCHANGED <<running, ctrl, clock_stop, clocks, txBuilt>>

\* ObserverEvent::Terminate: a Stop command; the Bridge loop goes on.
ObserverTerminate ==
    /\ running
    /\ eventsSeen < MaxEvents
    /\ eventsSeen' = eventsSeen + 1
    /\ SendTenure(Cmd("Stop", NoBlock))
    /\ UNCHANGED <<running, ctrl, clock_stop, clocks, txBuilt>>

OtherObserverEvent ==
    /\ running
    /\ eventsSeen < MaxEvents
    /\ eventsSeen' = eventsSeen + 1
    /\ UNCHANGED <<running, tenureQueue, ctrl, clock_stop, clocks, txBuilt>>

\* observer_event_rx.recv() fails: break, start_bridge_service returns
\* Ok(()), handle_command and main return, and the process exits, ending
\* the Controller and every clock wherever they are.
ObserverChannelBroken ==
    /\ running
    /\ running' = FALSE
    /\ ctrl' = "exited"
    /\ clocks' = [c \in DOMAIN clocks |-> [clocks[c] EXCEPT !.pc = "exited"]]
    /\ UNCHANGED <<tenureQueue, eventsSeen, clock_stop, txBuilt>>

Recv(k) ==
    /\ running
    /\ ctrl = "recv"
    /\ tenureQueue # <<>>
    /\ Head(tenureQueue).kind = k

\* StartPriceFeedBlockUpdates: Terminate to the previous clock, a new one.
StartPriceFeedBlockUpdates ==
    /\ Recv("Start")
    /\ tenureQueue' = Tail(tenureQueue)
    /\ clocks' = Append(StopPreviousClock(clocks, clock_stop), NewClock)
    /\ clock_stop' = Len(clocks) + 1
    /\ txBuilt' = 0
    /\ UNCHANGED <<running, eventsSeen, ctrl>>

\* PriceFeedBlockUpdatesTick: fetch (continue on Err), then
\* `let _ = submit_stacks_transaction(..)`; no debounce of any kind.
PriceFeedBlockUpdatesTick(fetched, submitted) ==
    /\ Recv("Tick")
    /\ tenureQueue' = Tail(tenureQueue)
    /\ txBuilt' = IF fetched = "Ok" /\ submitted = "Ok" /\ txBuilt < BuiltCap
                  THEN txBuilt + 1 ELSE txBuilt
    /\ UNCHANGED <<running, eventsSeen, ctrl, clock_stop, clocks>>

PerformPriceFeedMicroblockUpdate ==
    /\ Recv("Micro")
    /\ tenureQueue' = Tail(tenureQueue)
    /\ UNCHANGED <<running, eventsSeen, ctrl, clock_stop, clocks, txBuilt>>

\* StopPriceFeedBlockUpdates: break; no Terminate to the running clock.
StopPriceFeedBlockUpdates ==
    /\ Recv("Stop")
    /\ ctrl' = "exited"
    /\ tenureQueue' = <<>>
    /\ UNCHANGED <<running, eventsSeen, clock_stop, clocks, txBuilt>>

\* The sleep (a panic for a rate of 0), then try_recv of a Terminate.
ClockWake(c) ==
    /\ running
    /\ clocks[c].pc = "sleep"
    /\ clocks' = [clocks EXCEPT ![c].pc =
                    IF SleepPanics \/ clocks[c].terminate
                    THEN "exited" ELSE "send"]
    /\ UNCHANGED <<running, tenureQueue, eventsSeen, ctrl, clock_stop, txBuilt>>

\* Send a tick, sleep again.
ClockTick(c) ==
    /\ running
    /\ clocks[c].pc = "send"
    /\ SendTenure(Cmd("Tick", NoBlock))
    /\ clocks' = [clocks EXCEPT ![c].pc = "sleep"]
    /\ UNCHANGED <<running, eventsSeen, ctrl, clock_stop, txBuilt>>

-----------------------------------------------------------------------------

BridgeNext ==
    \/ \E k \in ChainKinds, b \in Blocks : StacksChainEvent(k, b)
    \/ ObserverTerminate
    \/ OtherObserverEvent
    \/ ObserverChannelBroken

ControllerNext ==
    \/ StartPriceFeedBlockUpdates
    \/ \E f \in FetchResults, s \in SubmitResults :
          PriceFeedBlockUpdatesTick(f, s)
    \/ PerformPriceFeedMicroblockUpdate
    \/ StopPriceFeedBlockUpdates

ClockNext(c) == c \in DOMAIN clocks /\ (ClockWake(c) \/ ClockTick(c))

Next ==
    \/ BridgeNext
    \/ ControllerNext
    \/ \E c \in 1..Len(clocks) : ClockNext(c)

Spec == Init /\ [][Next]_vars

\* The OS schedules the Controller and each clock; a clock's send waits
\* only for the model's bound on the channel, hence strong fairness.  The
\* observer (and so the process exit) gets none.
FairSpec ==
    /\ Spec
    /\ WF_vars(ControllerNext)
    /\ \A c \in 1..MaxEvents : SF_vars(ClockNext(c))

-----------------------------------------------------------------------------
(* Properties                                                              *)

TypeOK ==
    /\ running \in BOOLEAN
    /\ tenureQueue \in Seq(Commands)
    /\ Len(tenureQueue) <= MaxQueue
    /\ eventsSeen \in 0..MaxEvents
    /\ ctrl \in {"recv", "exited"}
    /\ clock_stop \in 0..Len(clocks)
    /\ clocks \in Seq(ClockRec)
    /\ txBuilt \in 0..BuiltCap

\* Every clock superseded by a later Start eventually ends its thread,
\* by its own try_recv or by the process exiting.
SupersededClocksExit ==
    \A c \in 1..MaxEvents :
        [](c < Len(clocks) => <>(c <= Len(clocks) /\ clocks[c].pc = "exited"))

\* Spec section 4.3: while RBF is off, a tenure submits at most one
\* transaction (ticks after a successful submission are debounced).
OneSubmissionPerTenure ==
    txBuilt <= 1

=============================================================================
