------------------------- MODULE NodeServiceProofs -------------------------
(***************************************************************************)
(* Proofs about the legacy service of module NodeService, for every value  *)
(* of the constants allowed by NodeServiceAssumption.                      *)
(***************************************************************************)
EXTENDS NodeService, SequenceTheorems, TLAPS

USE NodeServiceAssumption

-----------------------------------------------------------------------------
(* Lemmas on the helpers                                                   *)

\* A send on the tenure channel keeps it a bounded sequence of commands.
LEMMA SendTenureType ==
    ASSUME TypeOK, NEW cmd \in Commands, SendTenure(cmd)
    PROVE  /\ tenureQueue' \in Seq(Commands)
           /\ Len(tenureQueue') <= MaxQueue
<1>1. CASE ctrl = "exited"
  BY <1>1 DEF TypeOK, SendTenure
<1>2. CASE ctrl # "exited"
  <2>1. /\ Len(tenureQueue) < MaxQueue
        /\ tenureQueue' = Append(tenureQueue, cmd)
    BY <1>2 DEF SendTenure
  <2>2. /\ Append(tenureQueue, cmd) \in Seq(Commands)
        /\ Len(Append(tenureQueue, cmd)) = Len(tenureQueue) + 1
    BY AppendProperties DEF TypeOK
  <2>3. Len(tenureQueue) \in Nat
    BY LenProperties DEF TypeOK
  <2>. QED BY <2>1, <2>2, <2>3
<1>. QED BY <1>1, <1>2

\* The command the Event Bridge forwards for an admitted chain event.
LEMMA ChainCommandType ==
    ASSUME NEW k \in ChainKinds, NEW b \in Blocks, Admitted(b)
    PROVE  Cmd(IF k \in MicroKinds THEN "Micro" ELSE "Start", b) \in Commands
<1>1. b \in Heights
  BY DEF Admitted, Blocks
<1>. QED BY <1>1 DEF Commands, Cmd

\* Replacing one clock by a clock record keeps the clocks a sequence of
\* clock records of the same length.
LEMMA ClockReplace ==
    ASSUME NEW cs \in Seq(ClockRec), NEW c \in 1..Len(cs), NEW r \in ClockRec
    PROVE  /\ [cs EXCEPT ![c] = r] \in Seq(ClockRec)
           /\ Len([cs EXCEPT ![c] = r]) = Len(cs)
BY ExceptSeq

\* Telling the previous clock to terminate keeps the clocks well typed.
LEMMA StopPreviousClockType ==
    ASSUME NEW cs \in Seq(ClockRec), NEW c \in 0..Len(cs)
    PROVE  /\ StopPreviousClock(cs, c) \in Seq(ClockRec)
           /\ Len(StopPreviousClock(cs, c)) = Len(cs)
<1>1. CASE c = 0
  BY <1>1 DEF StopPreviousClock
<1>2. CASE c # 0
  <2>1. c \in 1..Len(cs)
    BY <1>2
  <2>2. [cs[c] EXCEPT !.terminate = TRUE] \in ClockRec
    <3>1. cs[c] \in ClockRec
      BY <2>1, ElementOfSeq
    <3>. QED BY <3>1, Zenon DEF ClockRec
  <2>3. StopPreviousClock(cs, c)
          = [cs EXCEPT ![c] = [cs[c] EXCEPT !.terminate = TRUE]]
    BY <1>2 DEF StopPreviousClock
  <2>. QED BY <2>1, <2>2, <2>3, ClockReplace
<1>. QED BY <1>1, <1>2

\* The process exit ends every clock thread: the clocks stay records of
\* the same number, each one "exited" and otherwise unchanged.
AllExited(cs) == [c \in DOMAIN cs |-> [cs[c] EXCEPT !.pc = "exited"]]

LEMMA ExitAllClocks ==
    ASSUME NEW cs \in Seq(ClockRec)
    PROVE  /\ AllExited(cs) \in Seq(ClockRec)
           /\ Len(AllExited(cs)) = Len(cs)
           /\ \A c \in 1..Len(cs) :
                 AllExited(cs)[c] = [cs[c] EXCEPT !.pc = "exited"]
<1>1. DOMAIN cs = 1..Len(cs) /\ Len(cs) \in Nat
  BY LenProperties
<1>2. \A c \in 1..Len(cs) : [cs[c] EXCEPT !.pc = "exited"] \in ClockRec
  <2>1. SUFFICES ASSUME NEW c \in 1..Len(cs)
                 PROVE  [cs[c] EXCEPT !.pc = "exited"] \in ClockRec
    OBVIOUS
  <2>2. cs[c] \in ClockRec
    BY ElementOfSeq
  <2>. QED BY <2>2 DEF ClockRec, ClockPcs
<1>3. [c \in 1..Len(cs) |-> [cs[c] EXCEPT !.pc = "exited"]] \in Seq(ClockRec)
  BY <1>1, <1>2, IsASeq
<1>. QED BY <1>1, <1>3 DEF AllExited

-----------------------------------------------------------------------------
(* Type correctness                                                        *)

LEMMA TypeInit == Init => TypeOK
<1> SUFFICES ASSUME Init PROVE TypeOK
  OBVIOUS
<1>1. /\ tenureQueue \in Seq(Commands) /\ Len(tenureQueue) = 0
      /\ clocks \in Seq(ClockRec) /\ Len(clocks) = 0
  BY EmptySeq DEF Init
<1>. QED BY <1>1 DEF Init, TypeOK, BuiltCap

LEMMA TypeStep == TypeOK /\ [Next]_vars => TypeOK'
<1> SUFFICES ASSUME TypeOK, [Next]_vars PROVE TypeOK'
  OBVIOUS
<1>0. Len(clocks) \in Nat /\ Len(tenureQueue) \in Nat
  BY LenProperties DEF TypeOK
<1>1. ASSUME NEW k \in ChainKinds, NEW b \in Blocks, StacksChainEvent(k, b)
      PROVE  TypeOK'
  <2>1. CASE Admitted(b)
    BY <1>1, <2>1, ChainCommandType, SendTenureType DEF StacksChainEvent, TypeOK
  <2>2. CASE ~Admitted(b)
    BY <1>1, <2>2 DEF StacksChainEvent, TypeOK
  <2>. QED BY <2>1, <2>2
<1>2. CASE ObserverTerminate
  <2>1. Cmd("Stop", NoBlock) \in Commands
    BY DEF Cmd, Commands
  <2>. QED BY <1>2, <2>1, SendTenureType DEF ObserverTerminate, TypeOK
<1>3. CASE OtherObserverEvent
  BY <1>3 DEF OtherObserverEvent, TypeOK
<1>4. CASE ObserverChannelBroken
  <2>0. clocks' = AllExited(clocks)
    BY <1>4 DEF ObserverChannelBroken, AllExited
  <2>1. clocks' \in Seq(ClockRec) /\ Len(clocks') = Len(clocks)
    BY <2>0, ExitAllClocks DEF TypeOK
  <2>2. /\ running' = FALSE /\ ctrl' = "exited"
        /\ UNCHANGED <<tenureQueue, eventsSeen, clock_stop, txBuilt>>
    BY <1>4 DEF ObserverChannelBroken
  <2>3. clock_stop' \in 0..Len(clocks')
    BY <2>1, <2>2 DEF TypeOK
  <2>4. running' \in BOOLEAN /\ ctrl' \in {"recv", "exited"}
    BY <2>2, Zenon
  <2>. QED BY <2>1, <2>2, <2>3, <2>4 DEF TypeOK
<1>5. CASE StartPriceFeedBlockUpdates
  <2>1. /\ StopPreviousClock(clocks, clock_stop) \in Seq(ClockRec)
        /\ Len(StopPreviousClock(clocks, clock_stop)) = Len(clocks)
    BY StopPreviousClockType DEF TypeOK
  <2>2. NewClock \in ClockRec
    BY DEF NewClock, ClockRec, ClockPcs
  <2>3. /\ clocks' \in Seq(ClockRec)
        /\ Len(clocks') = Len(clocks) + 1
    BY <1>5, <2>1, <2>2, AppendProperties DEF StartPriceFeedBlockUpdates
  <2>4. /\ tenureQueue' \in Seq(Commands)
        /\ Len(tenureQueue') <= MaxQueue
    BY <1>5, HeadTailProperties DEF StartPriceFeedBlockUpdates, Recv, TypeOK
  <2>5. clock_stop' \in 0..Len(clocks')
    BY <1>0, <1>5, <2>3 DEF StartPriceFeedBlockUpdates
  <2>. QED
    BY <1>5, <2>3, <2>4, <2>5 DEF StartPriceFeedBlockUpdates, Recv, TypeOK,
                                  BuiltCap
<1>6. ASSUME NEW f \in FetchResults, NEW s \in SubmitResults,
             PriceFeedBlockUpdatesTick(f, s)
      PROVE  TypeOK'
  <2>1. /\ tenureQueue' \in Seq(Commands)
        /\ Len(tenureQueue') <= MaxQueue
    BY <1>6, HeadTailProperties DEF PriceFeedBlockUpdatesTick, Recv, TypeOK
  <2>. QED BY <1>6, <2>1 DEF PriceFeedBlockUpdatesTick, TypeOK, BuiltCap
<1>7. CASE PerformPriceFeedMicroblockUpdate
  <2>1. /\ tenureQueue' \in Seq(Commands)
        /\ Len(tenureQueue') <= MaxQueue
    BY <1>7, HeadTailProperties DEF PerformPriceFeedMicroblockUpdate, Recv,
                                    TypeOK
  <2>. QED BY <1>7, <2>1 DEF PerformPriceFeedMicroblockUpdate, TypeOK
<1>8. CASE StopPriceFeedBlockUpdates
  BY <1>8, EmptySeq DEF StopPriceFeedBlockUpdates, TypeOK
<1>9. ASSUME NEW c \in 1..Len(clocks), ClockWake(c)
      PROVE  TypeOK'
  <2>1. clocks[c] \in ClockRec
    BY ElementOfSeq DEF TypeOK
  <2>2. [clocks[c] EXCEPT !.pc = IF SleepPanics \/ clocks[c].terminate
                                 THEN "exited" ELSE "send"] \in ClockRec
    BY <2>1, Zenon DEF ClockRec, ClockPcs
  <2>3. clocks' \in Seq(ClockRec) /\ Len(clocks') = Len(clocks)
    BY <1>9, <2>2, ClockReplace DEF ClockWake, TypeOK
  <2>. QED BY <1>9, <2>3 DEF ClockWake, TypeOK
<1>10. ASSUME NEW c \in 1..Len(clocks), ClockTick(c)
       PROVE  TypeOK'
  <2>1. Cmd("Tick", NoBlock) \in Commands
    BY DEF Cmd, Commands
  <2>2. clocks[c] \in ClockRec
    BY ElementOfSeq DEF TypeOK
  <2>3. [clocks[c] EXCEPT !.pc = "sleep"] \in ClockRec
    BY <2>2, Zenon DEF ClockRec, ClockPcs
  <2>4. clocks' = [clocks EXCEPT ![c] = [clocks[c] EXCEPT !.pc = "sleep"]]
    <3>1. c \in DOMAIN clocks
      BY DEF TypeOK
    <3>. QED BY <1>10, <3>1, Zenon DEF ClockTick
  <2>5. clocks' \in Seq(ClockRec) /\ Len(clocks') = Len(clocks)
    BY <2>3, <2>4, ClockReplace DEF TypeOK
  <2>. QED BY <1>10, <2>1, <2>5, SendTenureType DEF ClockTick, TypeOK
<1>11. CASE UNCHANGED vars
  BY <1>11 DEF vars, TypeOK
<1>. QED
  BY <1>1, <1>2, <1>3, <1>4, <1>5, <1>6, <1>7, <1>8, <1>9, <1>10, <1>11
     DEF Next, BridgeNext, ControllerNext, ClockNext

\* TypeOK of the legacy service holds in every reachable state: the tenure
\* channel stays a bounded sequence of well-formed commands, clock_stop
\* names an existing clock, and the clocks stay well-formed records,
\* including across the process exit that ends every clock thread.
THEOREM TypeCorrect == Spec => []TypeOK
BY TypeInit, TypeStep, PTL DEF Spec

=============================================================================
