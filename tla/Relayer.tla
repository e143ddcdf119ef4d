------------------------------ MODULE Relayer ------------------------------
(***************************************************************************)
(* The bridge relay engine of stacks-pyth-bridge: the Event Bridge loop    *)
(* (start_bridge_service), the Tenure Controller loop                      *)
(* (start_bridge_runloop, with submit_stacks_transaction and its RBF       *)
(* tracker), the Clock threads (start_new_clock), and, as environment, the *)
(* Stacks node's account nonce and mempool.  The three loops only share    *)
(* the unbounded tenure command channel and the per-clock stop channels.   *)
(***************************************************************************)
EXTENDS Naturals, Sequences

CONSTANTS
    Heights,      \* block indices the chain observer may report
    NoBlock,      \* a chain event whose latest block identifier is None
    StartBlock,   \* config.stacks.start_block
    Estimates,    \* fees estimate_transaction_fee may return
    MaxNonce,     \* bound: confirmations of the relayer's account
    MaxEvents,    \* bound: observer events handled by the Event Bridge
    MaxQueue,     \* bound: length of the (unbounded) tenure command channel
    PriceUpdatesPerMinute  \* config.bridge.price_updates_per_minute

ASSUME RelayerAssumption ==
    /\ Heights \subseteq Nat
    /\ NoBlock \notin Heights
    /\ StartBlock \in Nat
    /\ Estimates \subseteq Nat
    /\ MaxNonce \in Nat
    /\ MaxEvents \in Nat
    /\ MaxQueue \in Nat \ {0}
    /\ PriceUpdatesPerMinute \in Nat

VARIABLES
    tenureQueue,        \* tenure_cmd channel: Seq of commands, FIFO
    eventsSeen,         \* observer events consumed by the Event Bridge
    ctrl,               \* Controller: "recv" | "post" (awaiting post_transaction) | "exited"
    price_updated,      \* start_bridge_runloop's price_updated
    rbf_tracking,       \* HashMap<u64,u64>: nonce -> fee
    clock_stop,         \* index of the clock whose stop sender is held; 0 = None
    tx,                 \* the signed transaction being posted: [nonce, fee]
    clocks,             \* Seq of clock threads: [pc, terminate]
    chainNonce,         \* the account nonce get_nonce returns (confirmed txs)
    mempool,            \* the node's pending transactions of the account
    postsThisTenure,    \* history: post_transaction calls since the last Start
    acceptedThisTenure, \* history: a post since the last Start was accepted
    lastFee             \* history: fee of the last post per nonce (0: none)

vars == <<tenureQueue, eventsSeen, ctrl, price_updated, rbf_tracking,
          clock_stop, tx, clocks, chainNonce, mempool,
          postsThisTenure, acceptedThisTenure, lastFee>>

ctrlVars == <<ctrl, price_updated, rbf_tracking, clock_stop, tx>>
histVars == <<postsThisTenure, acceptedThisTenure, lastFee>>
chainVars == <<chainNonce, mempool>>

-----------------------------------------------------------------------------
(* Data                                                                    *)

Nonces == 0..MaxNonce
Blocks == Heights \cup {NoBlock}

\* BridgeTenureCommand; Start and Micro carry a BlockIdentifier, Tick and
\* Stop none.
Commands == [kind : {"Start", "Micro"}, block : Heights]
              \cup [kind : {"Tick", "Stop"}, block : {NoBlock}]
Cmd(k, b) == [kind |-> k, block |-> b]

\* StacksChainEvent variants; the microblock ones yield a microblock command.
ChainKinds == {"Blocks", "Reorg", "Microblocks", "MicroblocksReorg"}
MicroKinds == {"Microblocks", "MicroblocksReorg"}

\* The fee literals of submit_stacks_transaction.
RbfBump == 10
DefaultFee == 10000
EstimatorResults == Estimates \cup {DefaultFee}

ClockPcs == {"sleep", "send", "exited"}
ClockRec == [pc : ClockPcs, terminate : BOOLEAN]
NewClock == [pc |-> "sleep", terminate |-> FALSE]

EmptyTracking == [n \in {} |-> 0]

\* let rbf_enabled = false;  (the configured enable_rbf is not read)
rbf_enabled == FALSE

-----------------------------------------------------------------------------
(* Helpers                                                                 *)

\* A send on tenure_cmd_tx: dropped when the receiver (the Controller) is
\* gone, the error being ignored; the bound MaxQueue makes a sender wait.
SendTenure(cmd) ==
    IF ctrl = "exited"
    THEN UNCHANGED tenureQueue
    ELSE /\ Len(tenureQueue) < MaxQueue
         /\ tenureQueue' = Append(tenureQueue, cmd)

\* Mutant: both filters of the Event Bridge dropped.
Admitted_Unfiltered(b) == TRUE

\* The chain event carries a block that passes the start height filter.
Admitted(b) == b # NoBlock /\ b >= StartBlock

\* Mutant: the previous clock is never told to terminate.
StopPreviousClock_Skip(cs, c) == cs

\* if let Some(previous_clock) = clock_stop { previous_clock.send(Terminate) }
StopPreviousClock(cs, c) ==
    IF c = 0 THEN cs ELSE [cs EXCEPT ![c].terminate = TRUE]

\* The fee: the tracked fee plus the bump, or the estimate (or the default).
NextFee(n, est) ==
    IF n \in DOMAIN rbf_tracking THEN rbf_tracking[n] + RbfBump ELSE est

\* The tracker after the lookup: cleared when the nonce is unknown; the
\* computed fee is never inserted.
RbfAfterLookup(n) ==
    IF n \in DOMAIN rbf_tracking THEN rbf_tracking ELSE EmptyTracking

\* Mutant: the debounce guard dropped.
Debounced_Never == FALSE
\* Mutant: || for && in the debounce guard.
Debounced_Or == price_updated \/ ~rbf_enabled

\* if price_updated && !rbf_enabled { continue; }
Debounced == price_updated /\ ~rbf_enabled

\* stacks_rpc.get_nonce(&address): the account's next nonce.
ReadNonce == chainNonce

\* The node takes a transaction whose nonce is not yet confirmed and that
\* pays more than the pending one of the same nonce (replace-by-fee).
NodeAccepts(t) ==
    /\ t.nonce >= chainNonce
    /\ \A m \in mempool : m.nonce = t.nonce => m.fee < t.fee

-----------------------------------------------------------------------------
(* Initial state                                                           *)

\* start_bridge_service: the tenure channel is created empty and the
\* Controller thread is spawned; no clock runs yet.
BridgeInit ==
    /\ tenureQueue = <<>>
    /\ eventsSeen = 0
    /\ clocks = <<>>

\* The locals start_bridge_runloop declares before its loop.
ControllerInit ==
    /\ ctrl = "recv"
    /\ price_updated = FALSE
    /\ rbf_tracking = EmptyTracking
    /\ clock_stop = 0
    /\ tx = [nonce |-> 0, fee |-> 0]

Init ==
    /\ BridgeInit
    /\ ControllerInit
    /\ chainNonce = 0
    /\ mempool = {}
    /\ postsThisTenure = 0
    /\ acceptedThisTenure = FALSE
    /\ lastFee = [n \in Nonces |-> 0]

-----------------------------------------------------------------------------
(* Event Bridge: the loop of start_bridge_service                          *)

\* ObserverEvent::StacksChainEvent: dropped without a block identifier or
\* below start_block, else one Micro or Start command.
StacksChainEvent(k, b) ==
    /\ eventsSeen < MaxEvents
    /\ eventsSeen' = eventsSeen + 1
    /\ IF Admitted(b)
       THEN SendTenure(Cmd(IF k \in MicroKinds THEN "Micro" ELSE "Start", b))
       ELSE UNCHANGED tenureQueue
    /\ UNCHANGED <<ctrlVars, clocks, chainVars, histVars>>

\* ObserverEvent::Terminate: a Stop command.
ObserverTerminate ==
    /\ eventsSeen < MaxEvents
    /\ eventsSeen' = eventsSeen + 1
    /\ SendTenure(Cmd("Stop", NoBlock))
    /\ UNCHANGED <<ctrlVars, clocks, chainVars, histVars>>

\* Any other ObserverEvent: ignored.
OtherObserverEvent ==
    /\ eventsSeen < MaxEvents
    /\ eventsSeen' = eventsSeen + 1
    /\ UNCHANGED <<tenureQueue, ctrlVars, clocks, chainVars, histVars>>

-----------------------------------------------------------------------------
(* Tenure Controller: the loop of start_bridge_runloop                     *)

Recv(k) ==
    /\ ctrl = "recv"
    /\ tenureQueue # <<>>
    /\ Head(tenureQueue).kind = k

\* StartPriceFeedBlockUpdates: stop the previous clock, start a new one,
\* reset price_updated.
StartPriceFeedBlockUpdates ==
    /\ Recv("Start")
    /\ tenureQueue' = Tail(tenureQueue)
    /\ clocks' = Append(StopPreviousClock(clocks, clock_stop), NewClock)
    /\ clock_stop' = Len(clocks) + 1
    /\ price_updated' = FALSE
    /\ postsThisTenure' = 0
    /\ acceptedThisTenure' = FALSE
    /\ UNCHANGED <<eventsSeen, ctrl, rbf_tracking, tx, chainVars, lastFee>>

\* PriceFeedBlockUpdatesTick while price_updated and RBF is off: continue.
TickDebounced ==
    /\ Recv("Tick")
    /\ Debounced
    /\ tenureQueue' = Tail(tenureQueue)
    /\ UNCHANGED <<eventsSeen, ctrlVars, clocks, chainVars, histVars>>

\* The fetch of the price feeds fails, or encoding the VAAs as Clarity
\* buffers fails: the handler returns before the nonce is read.
TickAborted ==
    /\ Recv("Tick")
    /\ ~Debounced
    /\ tenureQueue' = Tail(tenureQueue)
    /\ UNCHANGED <<eventsSeen, ctrlVars, clocks, chainVars, histVars>>

\* get_nonce fails: .expect panics and the Controller thread dies, dropping
\* the channel's receiver with the commands still in it.
TickNonceFailed ==
    /\ Recv("Tick")
    /\ ~Debounced
    /\ ctrl' = "exited"
    /\ tenureQueue' = <<>>
    /\ UNCHANGED <<eventsSeen, price_updated, rbf_tracking, clock_stop, tx,
                   clocks, chainVars, histVars>>

\* The nonce is read, the fee taken from the tracker or the estimator, and
\* the transaction signed; signing fails (Err, price_updated untouched) or
\* the Controller goes on to post it.
TickSubmit(est, signed) ==
    /\ Recv("Tick")
    /\ ~Debounced
    /\ tenureQueue' = Tail(tenureQueue)
    /\ rbf_tracking' = RbfAfterLookup(ReadNonce)
    /\ IF signed
       THEN /\ ctrl' = "post"
            /\ tx' = [nonce |-> ReadNonce, fee |-> NextFee(ReadNonce, est)]
       ELSE UNCHANGED <<ctrl, tx>>
    /\ UNCHANGED <<eventsSeen, price_updated, clock_stop, clocks, chainVars,
                   histVars>>

\* post_transaction: its result is only logged, submit_stacks_transaction
\* returns Ok and price_updated is set, whether or not the node took it.
Posted ==
    /\ ctrl' = "recv"
    /\ price_updated' = TRUE
    /\ postsThisTenure' = postsThisTenure + 1
    /\ lastFee' = [lastFee EXCEPT ![tx.nonce] = tx.fee]

PostAccepted ==
    /\ ctrl = "post"
    /\ NodeAccepts(tx)
    /\ mempool' = {m \in mempool : m.nonce # tx.nonce} \cup {tx}
    /\ acceptedThisTenure' = TRUE
    /\ Posted
    /\ UNCHANGED <<tenureQueue, eventsSeen, rbf_tracking, clock_stop, tx,
                   clocks, chainNonce>>

\* The node rejects it (stale nonce, fee not higher) or the call fails.
PostFailed ==
    /\ ctrl = "post"
    /\ Posted
    /\ UNCHANGED <<tenureQueue, eventsSeen, rbf_tracking, clock_stop, tx,
                   clocks, chainVars, acceptedThisTenure>>

\* PerformPriceFeedMicroblockUpdate: a no-op.
PerformPriceFeedMicroblockUpdate ==
    /\ Recv("Micro")
    /\ tenureQueue' = Tail(tenureQueue)
    /\ UNCHANGED <<eventsSeen, ctrlVars, clocks, chainVars, histVars>>

\* StopPriceFeedBlockUpdates: break; the receiver and the clock's stop
\* sender are dropped, no Terminate is sent.
StopPriceFeedBlockUpdates ==
    /\ Recv("Stop")
    /\ ctrl' = "exited"
    /\ tenureQueue' = <<>>
    /\ UNCHANGED <<eventsSeen, price_updated, rbf_tracking, clock_stop, tx,
                   clocks, chainVars, histVars>>

-----------------------------------------------------------------------------
(* Clock threads: the loop of start_new_clock                              *)

\* Duration::from_secs(60 / updates_per_min): the u64 division panics for
\* a rate of 0, which from_config_file copies from the file unchecked.
SleepPanics == PriceUpdatesPerMinute = 0

\* The sleep (the thread dies if it panics), then try_recv: a pending
\* Terminate ends the thread; an empty or disconnected stop channel does not.
ClockWake(c) ==
    /\ clocks[c].pc = "sleep"
    /\ clocks' = [clocks EXCEPT ![c].pc =
                    IF SleepPanics \/ clocks[c].terminate
                    THEN "exited" ELSE "send"]
    /\ UNCHANGED <<tenureQueue, eventsSeen, ctrlVars, chainVars, histVars>>

\* Send a tick (ignored error when the Controller is gone), sleep again.
ClockTick(c) ==
    /\ clocks[c].pc = "send"
    /\ SendTenure(Cmd("Tick", NoBlock))
    /\ clocks' = [clocks EXCEPT ![c].pc = "sleep"]
    /\ UNCHANGED <<eventsSeen, ctrlVars, chainVars, histVars>>

-----------------------------------------------------------------------------
(* Environment: the Stacks node                                            *)

\* The pending transaction with the account's next nonce is mined.
Confirm ==
    /\ chainNonce < MaxNonce
    /\ \E m \in mempool :
          /\ m.nonce = chainNonce
          /\ chainNonce' = chainNonce + 1
          /\ mempool' = mempool \ {m}
    /\ UNCHANGED <<tenureQueue, eventsSeen, ctrlVars, clocks, histVars>>

\* A pending transaction is evicted from the mempool.
Evict ==
    /\ \E m \in mempool : mempool' = mempool \ {m}
    /\ UNCHANGED <<tenureQueue, eventsSeen, ctrlVars, clocks, chainNonce,
                   histVars>>

-----------------------------------------------------------------------------

BridgeNext ==
    \/ \E k \in ChainKinds, b \in Blocks : StacksChainEvent(k, b)
    \/ ObserverTerminate
    \/ OtherObserverEvent

TickSubmitted == \E est \in EstimatorResults : TickSubmit(est, TRUE)

ControllerNext ==
    \/ StartPriceFeedBlockUpdates
    \/ TickDebounced
    \/ TickAborted
    \/ TickNonceFailed
    \/ \E est \in EstimatorResults, signed \in BOOLEAN : TickSubmit(est, signed)
    \/ PostAccepted
    \/ PostFailed
    \/ PerformPriceFeedMicroblockUpdate
    \/ StopPriceFeedBlockUpdates

ClockNext(c) == c \in DOMAIN clocks /\ (ClockWake(c) \/ ClockTick(c))

Next ==
    \/ BridgeNext
    \/ ControllerNext
    \/ \E c \in 1..Len(clocks) : ClockNext(c)
    \/ Confirm
    \/ Evict

Spec == Init /\ [][Next]_vars

\* Every thread that can step eventually does (the OS schedules the
\* Controller and the clocks); the price service, the node and the signer
\* do not fail forever, so a tick that is not debounced eventually gets a
\* transaction signed.  A clock's send never blocks in the code (the
\* channel is unbounded); it waits here only for the bound MaxQueue, so its
\* steps get strong fairness.  The observer and the chain get no fairness.
FairSpec ==
    /\ Spec
    /\ WF_vars(ControllerNext)
    /\ SF_vars(TickSubmitted)
    /\ \A c \in 1..MaxEvents : SF_vars(ClockNext(c))

-----------------------------------------------------------------------------
(* Properties                                                              *)

TypeOK ==
    /\ tenureQueue \in Seq(Commands)
    /\ Len(tenureQueue) <= MaxQueue
    /\ eventsSeen \in 0..MaxEvents
    /\ ctrl \in {"recv", "post", "exited"}
    /\ price_updated \in BOOLEAN
    /\ DOMAIN rbf_tracking \subseteq Nonces
    /\ \A n \in DOMAIN rbf_tracking : rbf_tracking[n] \in Nat
    /\ clock_stop \in 0..Len(clocks)
    /\ tx \in [nonce : Nonces, fee : Nat]
    /\ clocks \in Seq(ClockRec)
    /\ chainNonce \in Nonces
    /\ mempool \subseteq [nonce : Nonces, fee : Nat]
    /\ postsThisTenure \in Nat
    /\ acceptedThisTenure \in BOOLEAN
    /\ lastFee \in [Nonces -> Nat]

\* The per-tenure debounce of start_bridge_runloop: between two
\* StartPriceFeedBlockUpdates the Controller calls post_transaction at most
\* once, and it regards the tenure as served (price_updated) exactly when
\* it has done so -- whatever ticks of old and new clocks interleave.
DebounceExact ==
    /\ postsThisTenure <= 1
    /\ price_updated <=> postsThisTenure = 1

\* Every clock replaced by a newer one (a later StartPriceFeedBlockUpdates)
\* eventually ends its thread.
SupersededClocksExit ==
    \A c \in 1..MaxEvents :
        [](c < Len(clocks) => <>(c <= Len(clocks) /\ clocks[c].pc = "exited"))

\* A tenure that is started gets its price update posted, unless a newer
\* tenure starts or the Controller exits first.
TenureServed ==
    \A k \in 1..MaxEvents :
        (Len(clocks) = k /\ ctrl # "exited")
            ~> (Len(clocks) # k \/ price_updated \/ ctrl = "exited")

\* Spec sections 4.3 and 7: a failed submission leaves price_updated false,
\* so the next tick retries; price_updated means the node took a
\* transaction in this tenure.
UpdatedOnlyIfAccepted ==
    price_updated => acceptedThisTenure

\* Spec section 3: the fees posted for one nonce never decrease (the RBF
\* tracker bumps the stored fee of a known nonce).
FeeNeverDecreases ==
    [][ctrl = "post" /\ ctrl' = "recv" => tx.fee >= lastFee[tx.nonce]]_vars

\* Spec section 4.3: after StopPriceFeedBlockUpdates the clock task must not
\* leak; every clock thread eventually ends once the Controller is gone.
ClocksStopAfterExit ==
    (ctrl = "exited") ~> (\A c \in 1..Len(clocks) : clocks[c].pc = "exited")

-----------------------------------------------------------------------------
(* Refinement                                                              *)

\* The Controller seen through TenureAbstract: a tenure per clock started,
\* the update flag, the post_transaction calls made in the tenure, and the
\* loop's exit (by Stop or by a panic).
Abs == INSTANCE TenureAbstract
           WITH tenure <- Len(clocks),
                updated <- price_updated,
                posts <- postsThisTenure,
                stopped <- (ctrl = "exited")

\* start_bridge_runloop implements TenureAbstract: each Start opens a tenure
\* with price_updated reset; every post_transaction call is the one update
\* of its tenure and sets price_updated in the same handler, so a second
\* post in a tenure (a tick judged against a stale flag) is no step of the
\* abstract spec; nothing changes after the loop breaks or panics, whatever
\* the clocks and the node do meanwhile.
TenureRefinement == Abs!Spec

=============================================================================
