--------------------------- MODULE RelayerProofs ---------------------------
(***************************************************************************)
(* Proofs about the relay engine of module Relayer, for every value of the *)
(* constants allowed by RelayerAssumption.                                 *)
(***************************************************************************)
EXTENDS Relayer, SequenceTheorems, TLAPS

USE RelayerAssumption

-----------------------------------------------------------------------------
(* Lemmas on the helpers                                                   *)

\* A send on the tenure channel keeps it a bounded sequence of commands.
LEMMA SendTenureType ==
    ASSUME TypeOK, NEW cmd \in Commands, SendTenure(cmd)
    PROVE  /\ tenureQueue' \in Seq(Commands)
           /\ Len(tenureQueue') <= MaxQueue
<1>1. CASE ctrl = "exited"
  BY <1>1 DEF TypeOK, SendTenure
<1>2. CASE ctrl # "exited"
  <2>1. /\ Len(tenureQueue) < MaxQueue
        /\ tenureQueue' = Append(tenureQueue, cmd)
    BY <1>2 DEF SendTenure
  <2>2. /\ Append(tenureQueue, cmd) \in Seq(Commands)
        /\ Len(Append(tenureQueue, cmd)) = Len(tenureQueue) + 1
    BY AppendProperties DEF TypeOK
  <2>3. Len(tenureQueue) \in Nat
    BY LenProperties DEF TypeOK
  <2>. QED BY <2>1, <2>2, <2>3
<1>. QED BY <1>1, <1>2

\* The command the Event Bridge forwards for an admitted chain event.
LEMMA ChainCommandType ==
    ASSUME NEW k \in ChainKinds, NEW b \in Blocks, Admitted(b)
    PROVE  Cmd(IF k \in MicroKinds THEN "Micro" ELSE "Start", b) \in Commands
<1>1. b \in Heights
  BY DEF Admitted, Blocks
<1>. QED BY <1>1 DEF Commands, Cmd

\* The fee chosen for a transaction is a natural number.
LEMMA NextFeeType ==
    ASSUME TypeOK, NEW n \in Nonces, NEW est \in EstimatorResults
    PROVE  NextFee(n, est) \in Nat
<1>1. CASE n \in DOMAIN rbf_tracking
  BY <1>1 DEF TypeOK, NextFee, RbfBump
<1>2. CASE n \notin DOMAIN rbf_tracking
  BY <1>2 DEF NextFee, EstimatorResults, DefaultFee
<1>. QED BY <1>1, <1>2

\* Setting the program point of one clock keeps the clocks a sequence of
\* clock records of the same length.
LEMMA ClockSetPc ==
    ASSUME NEW cs \in Seq(ClockRec), NEW c \in 1..Len(cs), NEW v \in ClockPcs
    PROVE  /\ [cs EXCEPT ![c].pc = v] \in Seq(ClockRec)
           /\ Len([cs EXCEPT ![c].pc = v]) = Len(cs)
<1>1. cs[c] \in ClockRec
  BY ElementOfSeq
<1>2. [cs[c] EXCEPT !.pc = v] \in ClockRec
  BY <1>1 DEF ClockRec
<1>3. [cs EXCEPT ![c].pc = v] = [cs EXCEPT ![c] = [cs[c] EXCEPT !.pc = v]]
  OBVIOUS
<1>. QED BY <1>2, <1>3, ExceptSeq

\* Telling the previous clock to terminate keeps the clocks well typed.
LEMMA StopPreviousClockType ==
    ASSUME NEW cs \in Seq(ClockRec), NEW c \in 0..Len(cs)
    PROVE  /\ StopPreviousClock(cs, c) \in Seq(ClockRec)
           /\ Len(StopPreviousClock(cs, c)) = Len(cs)
<1>1. CASE c = 0
  BY <1>1 DEF StopPreviousClock
<1>2. CASE c # 0
  <2>1. c \in 1..Len(cs)
    BY <1>2
  <2>2. cs[c] \in ClockRec
    BY <2>1, ElementOfSeq
  <2>3. [cs[c] EXCEPT !.terminate = TRUE] \in ClockRec
    BY <2>2 DEF ClockRec
  <2>4. StopPreviousClock(cs, c)
          = [cs EXCEPT ![c] = [cs[c] EXCEPT !.terminate = TRUE]]
    BY <1>2 DEF StopPreviousClock
  <2>. QED BY <2>1, <2>3, <2>4, ExceptSeq
<1>. QED BY <1>1, <1>2

-----------------------------------------------------------------------------
(* Type correctness                                                        *)

\* TypeOK is inductive.
LEMMA TypeInit == Init => TypeOK
<1> SUFFICES ASSUME Init PROVE TypeOK
  OBVIOUS
<1>1. /\ tenureQueue \in Seq(Commands) /\ Len(tenureQueue) = 0
      /\ clocks \in Seq(ClockRec) /\ Len(clocks) = 0
  BY EmptySeq DEF Init, BridgeInit, ControllerInit
<1>2. 0 \in Nonces
  BY DEF Nonces
<1>3. /\ DOMAIN rbf_tracking \subseteq Nonces
      /\ \A n \in DOMAIN rbf_tracking : rbf_tracking[n] \in Nat
  BY DEF Init, BridgeInit, ControllerInit, EmptyTracking
<1>4. /\ tx \in [nonce : Nonces, fee : Nat]
      /\ lastFee \in [Nonces -> Nat]
      /\ clock_stop \in 0..Len(clocks)
  BY <1>1, <1>2 DEF Init, BridgeInit, ControllerInit
<1>. QED BY <1>1, <1>2, <1>3, <1>4 DEF Init, BridgeInit, ControllerInit, TypeOK

LEMMA TypeStep == TypeOK /\ [Next]_vars => TypeOK'
<1> SUFFICES ASSUME TypeOK, [Next]_vars PROVE TypeOK'
  OBVIOUS
<1>1. ASSUME NEW k \in ChainKinds, NEW b \in Blocks, StacksChainEvent(k, b)
      PROVE  TypeOK'
  <2>1. CASE Admitted(b)
    BY <1>1, <2>1, ChainCommandType, SendTenureType
       DEF StacksChainEvent, TypeOK, ctrlVars, chainVars, histVars
  <2>2. CASE ~Admitted(b)
    BY <1>1, <2>2 DEF StacksChainEvent, TypeOK, ctrlVars, chainVars, histVars
  <2>. QED BY <2>1, <2>2
<1>2. CASE ObserverTerminate
  <2>1. Cmd("Stop", NoBlock) \in Commands
    BY DEF Cmd, Commands
  <2>. QED
    BY <1>2, <2>1, SendTenureType
       DEF ObserverTerminate, TypeOK, ctrlVars, chainVars, histVars
<1>3. CASE OtherObserverEvent
  BY <1>3 DEF OtherObserverEvent, TypeOK, ctrlVars, chainVars, histVars
<1>4. CASE StartPriceFeedBlockUpdates
  <2>1. /\ StopPreviousClock(clocks, clock_stop) \in Seq(ClockRec)
        /\ Len(StopPreviousClock(clocks, clock_stop)) = Len(clocks)
    BY StopPreviousClockType DEF TypeOK
  <2>2. NewClock \in ClockRec
    BY DEF NewClock, ClockRec, ClockPcs
  <2>3. /\ clocks' \in Seq(ClockRec)
        /\ Len(clocks') = Len(clocks) + 1
    BY <1>4, <2>1, <2>2, AppendProperties DEF StartPriceFeedBlockUpdates
  <2>4. /\ tenureQueue' \in Seq(Commands)
        /\ Len(tenureQueue') <= MaxQueue
    BY <1>4, HeadTailProperties DEF StartPriceFeedBlockUpdates, Recv, TypeOK
  <2>5. Len(clocks) \in Nat
    BY LenProperties DEF TypeOK
  <2>6. clock_stop' \in 0..Len(clocks')
    BY <1>4, <2>3, <2>5 DEF StartPriceFeedBlockUpdates
  <2>. QED
    BY <1>4, <2>3, <2>4, <2>6
       DEF StartPriceFeedBlockUpdates, Recv, TypeOK, chainVars
<1>5. CASE TickDebounced
  BY <1>5 DEF TickDebounced, Recv, TypeOK, ctrlVars, chainVars, histVars
<1>6. CASE TickAborted
  BY <1>6 DEF TickAborted, Recv, TypeOK, ctrlVars, chainVars, histVars
<1>7. CASE TickNonceFailed
  BY <1>7 DEF TickNonceFailed, TypeOK, chainVars, histVars
<1>8. ASSUME NEW est \in EstimatorResults, NEW signed \in BOOLEAN,
             TickSubmit(est, signed)
      PROVE  TypeOK'
  <2>1. NextFee(chainNonce, est) \in Nat
    BY NextFeeType DEF TypeOK
  <2>2. DOMAIN rbf_tracking' \subseteq Nonces
        /\ \A n \in DOMAIN rbf_tracking' : rbf_tracking'[n] \in Nat
    BY <1>8 DEF TickSubmit, RbfAfterLookup, EmptyTracking, TypeOK
  <2>. QED
    BY <1>8, <2>1, <2>2
       DEF TickSubmit, Recv, ReadNonce, TypeOK, chainVars, histVars
<1>9. CASE PostAccepted
  BY <1>9 DEF PostAccepted, Posted, TypeOK
<1>10. CASE PostFailed
  BY <1>10 DEF PostFailed, Posted, TypeOK, chainVars
<1>11. CASE PerformPriceFeedMicroblockUpdate
  BY <1>11 DEF PerformPriceFeedMicroblockUpdate, Recv, TypeOK, ctrlVars,
               chainVars, histVars
<1>12. CASE StopPriceFeedBlockUpdates
  BY <1>12 DEF StopPriceFeedBlockUpdates, TypeOK, chainVars, histVars
<1>13. ASSUME NEW c \in 1..Len(clocks), ClockWake(c)
       PROVE  TypeOK'
  <2>0. clocks[c] \in ClockRec
    BY ElementOfSeq DEF TypeOK
  <2>1. clocks[c].terminate \in BOOLEAN
    BY <2>0 DEF ClockRec
  <2>3. clocks' \in Seq(ClockRec) /\ Len(clocks') = Len(clocks)
    BY <1>13, <2>1, ClockSetPc DEF ClockWake, TypeOK, ClockPcs
  <2>. QED
    BY <1>13, <2>3 DEF ClockWake, TypeOK, ctrlVars, chainVars, histVars
<1>14. ASSUME NEW c \in 1..Len(clocks), ClockTick(c)
       PROVE  TypeOK'
  <2>1. Cmd("Tick", NoBlock) \in Commands
    BY DEF Cmd, Commands
  <2>5. clocks' \in Seq(ClockRec) /\ Len(clocks') = Len(clocks)
    BY <1>14, ClockSetPc DEF ClockTick, TypeOK, ClockPcs
  <2>. QED
    BY <1>14, <2>1, <2>5, SendTenureType
       DEF ClockTick, TypeOK, ctrlVars, chainVars, histVars
<1>15. CASE Confirm
  BY <1>15 DEF Confirm, TypeOK, Nonces, ctrlVars, histVars
<1>16. CASE Evict
  BY <1>16 DEF Evict, TypeOK, ctrlVars, histVars
<1>17. CASE UNCHANGED vars
  BY <1>17 DEF vars, TypeOK
<1>. QED
  BY <1>1, <1>2, <1>3, <1>4, <1>5, <1>6, <1>7, <1>8, <1>9, <1>10, <1>11,
     <1>12, <1>13, <1>14, <1>15, <1>16, <1>17
     DEF Next, BridgeNext, ControllerNext, ClockNext

\* TypeOK holds in every reachable state: the channel stays a bounded
\* sequence of well-formed commands, clock_stop names an existing clock,
\* and nonces and fees stay in range.
THEOREM TypeCorrect == Spec => []TypeOK
BY TypeInit, TypeStep, PTL DEF Spec

-----------------------------------------------------------------------------
(* The per-tenure debounce                                                 *)

\* A transaction is only ever being posted in a tenure that has posted none.
PostOnlyUndebounced == ctrl = "post" => postsThisTenure = 0

\* DebounceExact alone is not inductive: a post step from a tenure that has
\* already posted would break it.  The Controller only reaches "post" from
\* a tick that was not debounced, and it handles no Start while posting.
DebounceInv == TypeOK /\ DebounceExact /\ PostOnlyUndebounced

\* In a tenure that is not yet served, no transaction has been posted.
LEMMA NotUpdatedNoPost ==
    ASSUME TypeOK, DebounceExact, ~price_updated
    PROVE  postsThisTenure = 0
BY DEF TypeOK, DebounceExact

LEMMA DebounceInit == Init => DebounceInv
BY TypeInit DEF Init, BridgeInit, ControllerInit, DebounceInv, DebounceExact, PostOnlyUndebounced

LEMMA DebounceStep == DebounceInv /\ [Next]_vars => DebounceInv'
<1> SUFFICES ASSUME DebounceInv, [Next]_vars
             PROVE  DebounceExact' /\ PostOnlyUndebounced'
  BY TypeStep DEF DebounceInv
<1> USE DEF DebounceInv
\* The steps that leave the Controller's state and the history alone.
<1>1. CASE UNCHANGED <<ctrl, price_updated, postsThisTenure>>
  BY <1>1 DEF DebounceExact, PostOnlyUndebounced
<1>2. CASE StartPriceFeedBlockUpdates
  BY <1>2 DEF StartPriceFeedBlockUpdates, Recv, DebounceExact,
              PostOnlyUndebounced
<1>3. ASSUME NEW est \in EstimatorResults, NEW signed \in BOOLEAN,
             TickSubmit(est, signed)
      PROVE  DebounceExact' /\ PostOnlyUndebounced'
  <2>1. ~price_updated
    BY <1>3 DEF TickSubmit, Debounced, rbf_enabled
  <2>2. postsThisTenure = 0
    BY <2>1, NotUpdatedNoPost
  <2>. QED
    BY <1>3, <2>1, <2>2 DEF TickSubmit, DebounceExact, PostOnlyUndebounced,
                            histVars
<1>4. CASE PostAccepted \/ PostFailed
  <2>1. postsThisTenure = 0
    BY <1>4 DEF PostAccepted, PostFailed, PostOnlyUndebounced
  <2>. QED
    BY <1>4, <2>1 DEF PostAccepted, PostFailed, Posted, DebounceExact,
                      PostOnlyUndebounced
<1>5. CASE TickNonceFailed \/ StopPriceFeedBlockUpdates
  BY <1>5 DEF TickNonceFailed, StopPriceFeedBlockUpdates, DebounceExact,
              PostOnlyUndebounced, histVars
<1>6. CASE UNCHANGED vars
  BY <1>6, <1>1 DEF vars
<1>. QED
  <2>1. CASE BridgeNext
    BY <2>1, <1>1 DEF BridgeNext, StacksChainEvent, ObserverTerminate,
                      OtherObserverEvent, ctrlVars, histVars
  <2>2. CASE \E c \in 1..Len(clocks) : ClockNext(c)
    BY <2>2, <1>1 DEF ClockNext, ClockWake, ClockTick, ctrlVars, histVars
  <2>3. CASE Confirm \/ Evict
    BY <2>3, <1>1 DEF Confirm, Evict, ctrlVars, histVars
  <2>4. CASE TickDebounced \/ TickAborted \/ PerformPriceFeedMicroblockUpdate
    BY <2>4, <1>1 DEF TickDebounced, TickAborted,
                      PerformPriceFeedMicroblockUpdate, ctrlVars, histVars
  <2>. QED
    BY <1>2, <1>3, <1>4, <1>5, <1>6, <2>1, <2>2, <2>3, <2>4
       DEF Next, ControllerNext

\* The debounce of start_bridge_runloop holds in every reachable state: at
\* most one post_transaction call per tenure, and price_updated exactly when
\* there was one (see DebounceExact).
THEOREM DebounceCorrect == Spec => []DebounceExact
<1>1. DebounceInv => DebounceExact
  BY DEF DebounceInv
<1>. QED
  BY <1>1, DebounceInit, DebounceStep, PTL DEF Spec

-----------------------------------------------------------------------------
(* Refinement of TenureAbstract                                            *)

\* The Controller starts in the abstract initial state: no tenure, not
\* updated, no post, not stopped.
LEMMA RefineInit == Init => Abs!Init
<1> SUFFICES ASSUME Init PROVE Abs!Init
  OBVIOUS
<1>1. Len(clocks) = 0
  BY EmptySeq DEF Init, BridgeInit
<1>. QED
  BY <1>1 DEF Init, ControllerInit, Abs!Init

\* A clock's step leaves the number of clocks alone.
LEMMA ClockStepKeepsLen ==
    ASSUME TypeOK, NEW c \in 1..Len(clocks), ClockWake(c) \/ ClockTick(c)
    PROVE  Len(clocks') = Len(clocks)
<1>1. clocks \in Seq(ClockRec)
  BY DEF TypeOK
<1>2. CASE ClockWake(c)
  BY <1>1, <1>2, ClockSetPc DEF ClockWake, ClockPcs
<1>3. CASE ClockTick(c)
  BY <1>1, <1>3, ClockSetPc DEF ClockTick, ClockPcs
<1>. QED BY <1>2, <1>3

\* Every step of the relay engine is a step of TenureAbstract or leaves
\* (number of clocks, price_updated, posts this tenure, exited) alone.  The
\* post step is an Update only because DebounceInv keeps price_updated
\* false and the tenure without a post while a post is in flight.
LEMMA RefineStep == DebounceInv /\ [Next]_vars => [Abs!Next]_Abs!vars
<1> SUFFICES ASSUME DebounceInv, [Next]_vars
             PROVE  [Abs!Next]_Abs!vars
  OBVIOUS
<1> USE DEF DebounceInv
<1>1. CASE UNCHANGED <<clocks, price_updated, ctrl, postsThisTenure>>
  BY <1>1 DEF Abs!vars
<1>2. CASE StartPriceFeedBlockUpdates
  <2>1. clock_stop \in 0..Len(clocks) /\ clocks \in Seq(ClockRec)
    BY DEF TypeOK
  <2>2. Len(StopPreviousClock(clocks, clock_stop)) = Len(clocks)
        /\ StopPreviousClock(clocks, clock_stop) \in Seq(ClockRec)
    BY <2>1, StopPreviousClockType
  <2>3. Len(clocks') = Len(clocks) + 1
    BY <1>2, <2>2, AppendProperties DEF StartPriceFeedBlockUpdates
  <2>. QED
    BY <1>2, <2>3 DEF StartPriceFeedBlockUpdates, Recv, Abs!Next,
                      Abs!NewTenure
<1>3. CASE PostAccepted \/ PostFailed
  <2>1. ctrl = "post" /\ ~price_updated /\ postsThisTenure = 0
    BY <1>3 DEF PostAccepted, PostFailed, PostOnlyUndebounced,
                DebounceExact
  <2>. QED
    BY <1>3, <2>1 DEF PostAccepted, PostFailed, Posted, Abs!Next, Abs!Update
<1>4. CASE TickNonceFailed \/ StopPriceFeedBlockUpdates
  BY <1>4 DEF TickNonceFailed, StopPriceFeedBlockUpdates, Recv, histVars,
              Abs!Next, Abs!Stop
<1>5. ASSUME NEW est \in EstimatorResults, NEW signed \in BOOLEAN,
             TickSubmit(est, signed)
      PROVE  [Abs!Next]_Abs!vars
  BY <1>5 DEF TickSubmit, Recv, histVars, Abs!vars
<1>6. ASSUME NEW c \in 1..Len(clocks), ClockNext(c)
      PROVE  [Abs!Next]_Abs!vars
  <2>1. Len(clocks') = Len(clocks)
    BY <1>6, ClockStepKeepsLen DEF ClockNext
  <2>. QED
    BY <1>6, <2>1 DEF ClockNext, ClockWake, ClockTick, ctrlVars, histVars,
                      Abs!vars
<1>. QED
  <2>1. CASE BridgeNext
    BY <2>1, <1>1 DEF BridgeNext, StacksChainEvent, ObserverTerminate,
                      OtherObserverEvent, ctrlVars, histVars
  <2>2. CASE Confirm \/ Evict
    BY <2>2, <1>1 DEF Confirm, Evict, ctrlVars, histVars
  <2>3. CASE TickDebounced \/ TickAborted \/ PerformPriceFeedMicroblockUpdate
    BY <2>3, <1>1 DEF TickDebounced, TickAborted,
                      PerformPriceFeedMicroblockUpdate, ctrlVars, histVars
  <2>4. CASE UNCHANGED vars
    BY <2>4, <1>1 DEF vars
  <2>. QED
    BY <1>2, <1>3, <1>4, <1>5, <1>6, <2>1, <2>2, <2>3, <2>4
       DEF Next, ControllerNext

\* start_bridge_runloop implements TenureAbstract under the mapping of
\* Relayer's Abs: each Start opens a tenure with price_updated reset, every
\* post_transaction call is the single update of its tenure and is marked
\* by price_updated, and nothing changes after the Controller's loop breaks
\* or panics (see TenureRefinement).
THEOREM TenureRefines == Spec => TenureRefinement
<1>. QED
  BY RefineInit, RefineStep, DebounceInit, DebounceStep, PTL
     DEF Spec, TenureRefinement, Abs!Spec
=============================================================================
