----------------------------- MODULE VoyageProofs -----------------------------
(***************************************************************************)
(* The skipper and what it learns, for every value of the constants.  The  *)
(* ring of a statistics timer implements the stop watch, and its           *)
(* statistics are those of the last cycles; the skipper answers the newest *)
(* input, and a bearing that it found safe keeps clear of the ships; an    *)
(* AIS message that is decoded was sent like that, and the file of them    *)
(* holds those that are fresh.  The line buffer is at the end.             *)
(***************************************************************************)
EXTENDS MCVoyage, Counting, FiniteSetTheorems, SequenceTheorems, TLAPS

Calls == BOOLEAN \X ClockTimes

ClockType ==
  /\ count \in Nat /\ tickRet \in Int /\ calls \in Seq(Calls)
  /\ ticks \in [0..(2 * Events - 1) -> ClockTimes]

\* Calls alternate, and the last 2 * Events of them are in the ring.
InTheRing ==
  /\ Len(calls) = count
  /\ \A i \in 1..count : calls[i][1] = (i % 2 = 1)
  /\ \A i \in 1..count : i > count - 2 * Events => ticks[(i - 1) % (2 * Events)] = calls[i][2]

ClockInv == ClockType /\ InTheRing

mcVars == <<subject, vars, timerVars, aivdmVars, aisbufVars, skipperVars>>

-----------------------------------------------------------------------------
(* A call.                                                                 *)

\* The slot of a call that alternates with the last one is the next one of the ring, and
\* the other of its pair is what it is measured from.
LEMMA SlotIsNext ==
  ASSUME NEW c \in Nat
  PROVE  /\ c % 2 \in {0, 1}
         /\ Clock!Slot(c, c % 2 # 1) = c % (2 * Events)
         /\ c % 2 = 0 => Clock!EvenSlot(c - 1) = (c - 2) % (2 * Events)
         /\ c % 2 = 1 => Clock!EvenSlot(c - 1) = (c - 1) % (2 * Events)
         /\ c % (2 * Events) \in 0..(2 * Events - 1)
         /\ (c - 1) % (2 * Events) \in 0..(2 * Events - 1)
         /\ (c - 2) % (2 * Events) \in 0..(2 * Events - 1)
         /\ c % (2 * Events) # (c - 1) % (2 * Events)
<1> DEFINE m == 2 * Events
           k == c \div 2
           b == c % 2
<1>0. Events \in Nat \ {0} /\ m \in Nat \ {0} /\ m >= 2
  BY ClockAssumption
<1>01. Clock!Ring = m
  BY DEF Clock!Ring
<1>1. k \in Int /\ b \in {0, 1} /\ c = 2 * k + b
  OBVIOUS
<1> HIDE DEF k, b
<1>02. \A x \in Int : x % Events \in Int
  BY <1>0, DivMod
<1>2. c % m = 2 * (k % Events) + b /\ 2 * ((c % m) \div 2) = 2 * (k % Events)
  BY <1>0, <1>1, ModPairs
<1>3. ASSUME b = 0
      PROVE  c % 2 = 0 /\ Clock!Slot(c, TRUE) = c % m /\ Clock!EvenSlot(c - 1) = (c - 2) % m
  <2>1. k - 1 \in Int /\ c - 1 = 2 * (k - 1) + 1 /\ c - 2 = 2 * (k - 1) + 0
    BY <1>1, <1>3
  <2>2. 2 * (((c - 1) % m) \div 2) = 2 * ((k - 1) % Events)
    BY <1>0, <2>1, ModPairs
  <2>3. (c - 2) % m = 2 * ((k - 1) % Events) + 0
    BY <1>0, <2>1, ModPairs
  <2> HIDE DEF m
  <2>4. Clock!EvenSlot(c - 1) = (c - 2) % m
    BY <1>01, <1>02, <2>1, <2>2, <2>3 DEF Clock!EvenSlot
  <2>5. Clock!Slot(c, TRUE) = c % m
    BY <1>01, <1>2, <1>3 DEF Clock!Slot, Clock!EvenSlot
  <2> HIDE DEF m
  <2>6. c % 2 = 0
    BY <1>3 DEF b
  <2> QED
    BY <2>4, <2>5, <2>6
<1>4. ASSUME b = 1
      PROVE  c % 2 = 1 /\ Clock!Slot(c, FALSE) = c % m /\ Clock!EvenSlot(c - 1) = (c - 1) % m
  <2>1. c - 1 = 2 * k + 0
    BY <1>1, <1>4
  <2>2. 2 * (((c - 1) % m) \div 2) = 2 * (k % Events) /\ (c - 1) % m = 2 * (k % Events) + 0
    BY <1>0, <1>1, <2>1, ModPairs
  <2> HIDE DEF m
  <2>4. Clock!EvenSlot(c - 1) = (c - 1) % m
    BY <1>01, <1>02, <1>1, <2>2 DEF Clock!EvenSlot
  <2>5. Clock!Slot(c, FALSE) = c % m
    BY <1>01, <1>2, <1>4 DEF Clock!Slot, Clock!EvenSlot
  <2>6. c % 2 = 1
    BY <1>4 DEF b
  <2> QED
    BY <2>4, <2>5, <2>6
<1>5. \A x \in Int : x % m \in 0..(m - 1)
  BY <1>0, DivMod
<1>6. (c - 1) % m # c % m
  BY <1>0, ModApart
<1> HIDE DEF m
<1>7. (c % m \in 0..(m - 1)) /\ (c - 1) % m \in 0..(m - 1) /\ (c - 2) % m \in 0..(m - 1)
  BY <1>5
<1>8. Clock!Slot(c, c % 2 # 1) = c % m
  <2>1. (b = 0 => c % 2 # 1) /\ (b = 1 => ~ (c % 2 # 1))
    BY <1>1 DEF b
  <2> QED
    BY <1>1, <1>3, <1>4, <2>1
<1>9. c % 2 \in {0, 1} /\ (c % 2 = 0 => b = 0) /\ (c % 2 = 1 => b = 1)
  BY <1>1 DEF b
<1>10. /\ c % 2 = 0 => Clock!EvenSlot(c - 1) = (c - 2) % m
       /\ c % 2 = 1 => Clock!EvenSlot(c - 1) = (c - 1) % m
  BY <1>3, <1>4, <1>9
<1> QED
  BY <1>6, <1>7, <1>8, <1>9, <1>10 DEF m

\* A tick appends its call and writes its slot, the next one of the ring.
LEMMA TickShape ==
  ASSUME ClockInv, NEW t \in ClockTimes, NEW start \in BOOLEAN, Clock!TimerTick(t, start)
  PROVE  /\ start = (count % 2 # 1)
         /\ calls' = Append(calls, <<start, t>>) /\ count' = count + 1
         /\ ticks' = [ticks EXCEPT ![count % (2 * Events)] = t]
         /\ tickRet' = t - (IF count = 0 THEN t
                            ELSE ticks[(IF count % 2 = 1 THEN count - 1 ELSE count - 2) % (2 * Events)])
<1>1. start = ~ (count % 2 = 1) /\ count \in Nat
  BY DEF Clock!TimerTick, Clock!Running, ClockInv, ClockType
<1>2. ~ Clock!Dropped(start)
  BY DEF Clock!Dropped
<1>3. /\ calls' = Append(calls, <<start, t>>) /\ count' = count + 1
      /\ ticks' = [ticks EXCEPT ![Clock!Slot(count, start)] = t]
      /\ tickRet' = t - (IF count = 0 THEN t ELSE ticks[Clock!EvenSlot(count - 1)])
  BY <1>2 DEF Clock!TimerTick
<1>4. Clock!Slot(count, start) = count % (2 * Events)
  BY <1>1, SlotIsNext
<1>5. Clock!EvenSlot(count - 1) = (IF count % 2 = 1 THEN count - 1 ELSE count - 2) % (2 * Events)
  BY <1>1, SlotIsNext
<1> QED
  BY <1>1, <1>3, <1>4, <1>5

LEMMA NextParity ==
  ASSUME NEW c \in Int
  PROVE  (c + 1) % 2 = (IF c % 2 = 1 THEN 0 ELSE 1) /\ c % 2 \in {0, 1}
OBVIOUS

LEMMA TickKeepsClock ==
  ASSUME ClockInv, NEW t \in ClockTimes, NEW start \in BOOLEAN, Clock!TimerTick(t, start)
  PROVE  ClockInv'
<1> DEFINE m == 2 * Events
           call == <<start, t>>
<1>0. m \in Nat \ {0} /\ Events \in Nat \ {0} /\ ClockTimes \subseteq Int
  BY ClockAssumption
<1>1. /\ start = (count % 2 # 1)
      /\ calls' = Append(calls, call) /\ count' = count + 1
      /\ ticks' = [ticks EXCEPT ![count % m] = t]
      /\ tickRet' = t - (IF count = 0 THEN t
                         ELSE ticks[(IF count % 2 = 1 THEN count - 1 ELSE count - 2) % m])
  BY TickShape
<1>2. /\ count \in Nat /\ tickRet \in Int /\ calls \in Seq(Calls) /\ ticks \in [0..(m - 1) -> ClockTimes]
      /\ Len(calls) = count
      /\ \A i \in 1..count : calls[i][1] = (i % 2 = 1)
      /\ \A i \in 1..count : i > count - m => ticks[(i - 1) % m] = calls[i][2]
  BY DEF ClockInv, ClockType, InTheRing
<1>3. call \in Calls /\ call[1] = start /\ call[2] = t
  BY DEF Calls
<1>4. \A x \in Int : x % m \in 0..(m - 1)
  BY <1>0, DivMod
<1> HIDE DEF m, call
<1>5. /\ calls' \in Seq(Calls) /\ Len(calls') = count + 1 /\ calls'[count + 1] = call
      /\ \A i \in 1..count : calls'[i] = calls[i]
  BY <1>1, <1>2, <1>3
<1>6. /\ ticks' \in [0..(m - 1) -> ClockTimes] /\ ticks'[count % m] = t
      /\ \A j \in 0..(m - 1) : j # count % m => ticks'[j] = ticks[j]
  <2>1. PICK s \in 0..(m - 1) : s = count % m
    BY <1>2, <1>4
  <2> QED
    BY <1>1, <1>2, <2>1
<1>7. tickRet' \in Int
  <2>1. CASE count = 0
    BY <1>0, <1>1, <2>1
  <2>2. CASE count # 0
    <3>1. PICK c \in Int : c = IF count % 2 = 1 THEN count - 1 ELSE count - 2
      BY <1>2
    <3>2. ticks[c % m] \in ClockTimes
      BY <1>2, <1>4
    <3> QED
      BY <1>0, <1>1, <2>2, <3>1, <3>2
  <2> QED
    BY <2>1, <2>2
<1>8. \A i \in 1..(count + 1) : calls'[i][1] = (i % 2 = 1)
  <2> SUFFICES ASSUME NEW i \in 1..(count + 1) PROVE calls'[i][1] = (i % 2 = 1)
    OBVIOUS
  <2>1. CASE i = count + 1
    <3>1. start = (i % 2 = 1)
      <4>1. (count % 2 # 1) <=> ((count + 1) % 2 = 1)
        BY <1>2, NextParity
      <4> QED
        BY <1>1, <2>1, <4>1
    <3> QED
      BY <1>3, <1>5, <2>1, <3>1
  <2>2. CASE i # count + 1
    <3>1. i \in 1..count
      BY <1>2, <2>2
    <3> QED
      BY <1>2, <1>5, <3>1
  <2> QED
    BY <2>1, <2>2
<1>9. \A i \in 1..(count + 1) : i > (count + 1) - m => ticks'[(i - 1) % m] = calls'[i][2]
  <2> SUFFICES ASSUME NEW i \in 1..(count + 1), i > (count + 1) - m
               PROVE  ticks'[(i - 1) % m] = calls'[i][2]
    OBVIOUS
  <2>1. CASE i = count + 1
    <3>1. i - 1 = count
      BY <1>2, <2>1
    <3> QED
      BY <1>3, <1>5, <1>6, <2>1, <3>1
  <2>2. CASE i # count + 1
    <3>1. i \in 1..count /\ i > count - m /\ i - 1 \in Int /\ i - 1 < count /\ count < (i - 1) + m
      BY <1>0, <1>2, <2>2
    <3>2. PICK x \in Int : x = i - 1
      BY <3>1
    <3>3. count \in Int /\ x < count /\ count < x + m
      BY <1>2, <3>1, <3>2
    <3>4. x % m # count % m
      BY <1>0, <3>3, ModApart
    <3> QED
      BY <1>2, <1>4, <1>5, <1>6, <3>1, <3>2, <3>4
  <2> QED
    BY <2>1, <2>2
<1>10. count' \in Nat
  BY <1>1, <1>2
<1> QED
  BY <1>1, <1>5, <1>6, <1>7, <1>8, <1>9, <1>10 DEF ClockInv, ClockType, InTheRing, m

\* What the timer's steps are.
LEMMA ClockMoves ==
  ASSUME [Moves /\ UNCHANGED subject]_mcVars
  PROVE  \/ \E t \in ClockTimes, start \in BOOLEAN : Clock!TimerTick(t, start)
         \/ Clock!TimerReset
         \/ UNCHANGED timerVars
BY DEF Moves, LineMoves, TimerMoves, AivdmMoves, AisBufMoves, SkipperMoves, mcVars, Clock!Next,
       Clock!Tick

LEMMA ClockInitial ==
  ASSUME MCInit
  PROVE  ClockInv
<1>1. count = 0 /\ calls = <<>> /\ tickRet = 0 /\ ticks = [i \in 0..(2 * Events - 1) |-> 0]
  BY DEF MCInit, Clock!Init, Clock!Ring
<1>2. 0 \in ClockTimes /\ Events \in Nat \ {0}
  BY ClockAssumption
<1> QED
  BY <1>1, <1>2 DEF ClockInv, ClockType, InTheRing

LEMMA ClockStep ==
  ASSUME ClockInv, [Moves /\ UNCHANGED subject]_mcVars
  PROVE  ClockInv'
<1>1. CASE \E t \in ClockTimes, start \in BOOLEAN : Clock!TimerTick(t, start)
  BY <1>1, TickKeepsClock
<1>2. CASE Clock!TimerReset
  <2>1. count' = 0 /\ calls' = <<>> /\ ticks' = ticks /\ tickRet' = tickRet
    BY <1>2 DEF Clock!TimerReset
  <2> QED
    BY <2>1 DEF ClockInv, ClockType, InTheRing
<1>3. CASE UNCHANGED timerVars
  BY <1>3 DEF timerVars, ClockInv, ClockType, InTheRing
<1> QED
  BY <1>1, <1>2, <1>3, ClockMoves

LEMMA ClockAlways == MCSpec => []ClockInv
<1>1. MCInit => ClockInv
  BY ClockInitial
<1>2. ClockInv /\ [Moves /\ UNCHANGED subject]_mcVars => ClockInv'
  BY ClockStep
<1> QED
  BY <1>1, <1>2, PTL DEF MCSpec, mcVars

-----------------------------------------------------------------------------
(* The ring implements the stop watch.                                     *)

LEMMA TickIsWatch ==
  ASSUME ClockInv, NEW t \in ClockTimes, NEW start \in BOOLEAN, Clock!TimerTick(t, start)
  PROVE  IF start THEN Clock!Watch!Start(t) ELSE Clock!Watch!Stop(t)
<1> DEFINE m == 2 * Events
<1>0. m \in Nat \ {0} /\ Events \in Nat \ {0} /\ ClockTimes \subseteq Int
  BY ClockAssumption
<1>1. /\ start = (count % 2 # 1)
      /\ count' = count + 1
      /\ ticks' = [ticks EXCEPT ![count % m] = t]
      /\ tickRet' = t - (IF count = 0 THEN t
                         ELSE ticks[(IF count % 2 = 1 THEN count - 1 ELSE count - 2) % m])
  BY TickShape
<1>2. count \in Nat /\ ticks \in [0..(m - 1) -> ClockTimes]
  BY DEF ClockInv, ClockType
<1>3. count % m \in 0..(m - 1) /\ (count - 1) % m \in 0..(m - 1) /\ count % m # (count - 1) % m
  BY <1>2, SlotIsNext
<1>4. Clock!Ring = m
  BY DEF Clock!Ring
<1> HIDE DEF m
<1>5. ticks'[count % m] = t /\ ticks'[(count - 1) % m] = ticks[(count - 1) % m]
  BY <1>1, <1>2, <1>3
<1>6. (count + 1) % 2 = (IF count % 2 = 1 THEN 0 ELSE 1) /\ count % 2 \in {0, 1}
  BY <1>2, NextParity
<1>7. (count + 1) - 1 = count /\ (count + 1) - 2 = count - 1
  BY <1>2
<1>8. CASE start
  <2>1. count % 2 = 0 /\ (count + 1) % 2 = 1
    BY <1>1, <1>6, <1>8
  <2>2. ~ Clock!Running /\ Clock!Running'
    BY <1>1, <2>1 DEF Clock!Running
  <2>3. Clock!LastOfParity(1)' = t
    BY <1>1, <1>4, <1>5, <1>7, <2>1 DEF Clock!LastOfParity
  <2>4. Clock!LastOfParity(0)' = Clock!LastOfParity(0)
    BY <1>1, <1>4, <1>5, <1>7, <2>1 DEF Clock!LastOfParity
  <2>5. Clock!Cycles' = Clock!Cycles /\ (Clock!Cycles = 0 <=> count = 0)
    <3>1. (count + 1) \div 2 = count \div 2 /\ (count \div 2 = 0 <=> count = 0)
      BY <1>2, <2>1
    <3> QED
      BY <1>1, <3>1 DEF Clock!Cycles
  <2>6. tickRet' = IF Clock!Cycles = 0 THEN 0 ELSE t - Clock!LastOfParity(1)
    <3>1. Clock!LastOfParity(1) = ticks[(count - 2) % m]
      BY <1>4, <2>1 DEF Clock!LastOfParity
    <3>2. t - t = 0
      BY <1>0
    <3> QED
      BY <1>1, <2>1, <2>5, <3>1, <3>2
  <2> QED
    BY <1>8, <2>2, <2>3, <2>4, <2>5, <2>6 DEF Clock!Watch!Start
<1>9. CASE ~ start
  <2>1. count % 2 = 1 /\ (count + 1) % 2 = 0 /\ count # 0
    <3>1. count % 2 = 1
      BY <1>1, <1>9
    <3> QED
      BY <1>2, <1>6, <3>1
  <2>2. Clock!Running /\ ~ Clock!Running'
    BY <1>1, <2>1 DEF Clock!Running
  <2>3. Clock!LastOfParity(0)' = t
    BY <1>1, <1>4, <1>5, <1>7, <2>1 DEF Clock!LastOfParity
  <2>4. Clock!LastOfParity(1)' = Clock!LastOfParity(1)
    BY <1>1, <1>4, <1>5, <1>7, <2>1 DEF Clock!LastOfParity
  <2>5. Clock!Cycles' = Clock!Cycles + 1
    <3>1. (count + 1) \div 2 = (count \div 2) + 1
      BY <1>2, <2>1
    <3> QED
      BY <1>1, <3>1 DEF Clock!Cycles
  <2>6. tickRet' = t - Clock!LastOfParity(1)
    BY <1>1, <1>4, <2>1 DEF Clock!LastOfParity
  <2> QED
    BY <1>9, <2>2, <2>3, <2>4, <2>5, <2>6 DEF Clock!Watch!Stop
<1> QED
  BY <1>8, <1>9

\* A reset leaves the ring as it is: what the watch then takes for its last start and stop
\* are some of the times in it.
LEMMA ResetIsWatch ==
  ASSUME ClockInv, Clock!TimerReset
  PROVE  Clock!Watch!Reset
<1>1. count' = 0 /\ ticks' = ticks /\ tickRet' = tickRet
  BY DEF Clock!TimerReset
<1>2. ticks \in [0..(2 * Events - 1) -> ClockTimes] /\ Clock!Ring = 2 * Events
  BY DEF ClockInv, ClockType, Clock!Ring
<1>3. \A c \in Int : c % Clock!Ring \in 0..(2 * Events - 1)
  <2>1. 2 * Events \in Nat \ {0}
    BY ClockAssumption
  <2> QED
    BY <1>2, <2>1, DivMod
<1>4. \A p \in {0, 1} : Clock!LastOfParity(p)' \in ClockTimes
  <2> SUFFICES ASSUME NEW p \in {0, 1} PROVE Clock!LastOfParity(p)' \in ClockTimes
    OBVIOUS
  <2>1. PICK c \in Int : c = IF count' % 2 = p THEN count' - 1 ELSE count' - 2
    BY <1>1
  <2>2. Clock!LastOfParity(p)' = ticks'[c % Clock!Ring]
    BY <2>1 DEF Clock!LastOfParity, Clock!Ring
  <2> QED
    BY <1>1, <1>2, <1>3, <2>2
<1>5. ~ Clock!Running' /\ Clock!Cycles' = 0
  BY <1>1 DEF Clock!Running, Clock!Cycles
<1> QED
  BY <1>1, <1>4, <1>5 DEF Clock!Watch!Reset

LEMMA ClockStartsAsWatch ==
  ASSUME MCInit
  PROVE  Clock!Watch!Init
<1>1. count = 0 /\ tickRet = 0 /\ ticks = [i \in 0..(2 * Events - 1) |-> 0] /\ Clock!Ring = 2 * Events
  BY DEF MCInit, Clock!Init, Clock!Ring
<1>2. \A c \in Int : c % Clock!Ring \in 0..(2 * Events - 1)
  <2>1. 2 * Events \in Nat \ {0}
    BY ClockAssumption
  <2> QED
    BY <1>1, <2>1, DivMod
<1>3. \A p \in {0, 1} : Clock!LastOfParity(p) = 0
  <2> SUFFICES ASSUME NEW p \in {0, 1} PROVE Clock!LastOfParity(p) = 0
    OBVIOUS
  <2>1. PICK c \in Int : c = IF count % 2 = p THEN count - 1 ELSE count - 2
    BY <1>1
  <2>2. Clock!LastOfParity(p) = ticks[c % Clock!Ring]
    BY <2>1 DEF Clock!LastOfParity, Clock!Ring
  <2> QED
    BY <1>1, <1>2, <2>2
<1>4. ~ Clock!Running /\ Clock!Cycles = 0
  BY <1>1 DEF Clock!Running, Clock!Cycles
<1> QED
  BY <1>1, <1>3, <1>4 DEF Clock!Watch!Init

\* The ring buffer of timer.c implements the stop watch timer.h promises, whatever the
\* number of events it keeps: the parity of its counter is the running flag, what a call
\* returns is the time since the last start, and the slots read for the last start and the
\* last stop hold them.
THEOREM RingIsWatch == MCSpec => ImplementsStopWatch
<1>1. MCInit => Clock!Watch!Init
  BY ClockStartsAsWatch
<1>2. ClockInv /\ [Moves /\ UNCHANGED subject]_mcVars => [Clock!Watch!Next]_(Clock!Watch!vars)
  <2> SUFFICES ASSUME ClockInv, [Moves /\ UNCHANGED subject]_mcVars
               PROVE  [Clock!Watch!Next]_(Clock!Watch!vars)
    OBVIOUS
  <2>1. ASSUME NEW t \in ClockTimes, NEW start \in BOOLEAN, Clock!TimerTick(t, start)
        PROVE  Clock!Watch!Next
    BY <2>1, TickIsWatch DEF Clock!Watch!Next
  <2>2. CASE Clock!TimerReset
    BY <2>2, ResetIsWatch DEF Clock!Watch!Next
  <2>3. CASE UNCHANGED timerVars
    BY <2>3 DEF timerVars, Clock!Watch!vars, Clock!Running, Clock!LastOfParity, Clock!Cycles
  <2> QED
    BY <2>1, <2>2, <2>3, ClockMoves
<1> QED
  BY <1>1, <1>2, ClockAlways, PTL DEF MCSpec, mcVars, ImplementsStopWatch,
     Clock!ImplementsStopWatch, Clock!Watch!Spec

-----------------------------------------------------------------------------
(* The statistics are of the last cycles.                                  *)

\* The starts (o = 1) are the odd calls, the stops (o = 0) the even ones.
LEMMA TimesOfCalls ==
  ASSUME ClockInv, NEW o \in {0, 1}
  PROVE  /\ Clock!TimesOf(o = 1) \in Seq(ClockTimes)
         /\ Len(Clock!TimesOf(o = 1)) = (count + o) \div 2
         /\ \A j \in 1..((count + o) \div 2) : Clock!TimesOf(o = 1)[j] = calls[2 * j - o][2]
<1> DEFINE n == Len(calls)
           Body(g) == [k \in 0..n |-> IF k = 0 THEN <<>>
                                      ELSE IF calls[k][1] = (o = 1) THEN Append(g[k - 1], calls[k][2])
                                      ELSE g[k - 1]]
           X == Seq(ClockTimes)
           Step == [k \in 1..n |-> [x \in X |-> IF calls[k][1] = (o = 1) THEN Append(x, calls[k][2]) ELSE x]]
           times == CHOOSE g : g = Body(g)
           s == <<>>
<1>0. n \in Nat /\ n = count /\ \A i \in 1..n : calls[i][1] = (i % 2 = 1) /\ calls[i][2] \in ClockTimes
  BY DEF ClockInv, ClockType, InTheRing, Calls
<1>1. Clock!TimesOf(o = 1) = times[n]
  BY DEF Clock!TimesOf
<1>2. Step \in [1..n -> [X -> X]] /\ s \in X
  BY <1>0
<1>3. PICK g \in [0..n -> X] : \A k \in 0..n : g[k] = IF k = 0 THEN s ELSE Step[k][g[k - 1]]
  <2>1. PICK len \in Nat : len = n
    BY <1>0
  <2>2. PICK By \in [1..len -> [X -> X]] : By = Step
    BY <1>2, <2>1
  <2>3. s \in X
    OBVIOUS
  <2> HIDE DEF Step, X, n, s
  <2>4. Steps(len, X, s, By)
    BY <2>2, <2>3 DEF Steps
  <2>5. PICK g : Taken(g, len, X, s, By)
    BY <2>4, StepByStep
  <2> QED
    BY <2>1, <2>2, <2>5 DEF Taken
<1>4. g = Body(g)
  <2>1. \A k \in 1..n : \A x \in X : Step[k][x] = IF calls[k][1] = (o = 1) THEN Append(x, calls[k][2]) ELSE x
    OBVIOUS
  <2> HIDE DEF Step, X, n
  <2>2. ASSUME NEW k \in 0..n
        PROVE  g[k] = IF k = 0 THEN <<>>
                      ELSE IF calls[k][1] = (o = 1) THEN Append(g[k - 1], calls[k][2]) ELSE g[k - 1]
    <3>1. CASE k = 0
      BY <1>3, <3>1
    <3>2. CASE k # 0
      <4>1. k \in 1..n /\ k - 1 \in 0..n
        BY <1>0, <3>2
      <4>2. g[k - 1] \in X
        BY <1>3, <4>1
      <4> QED
        BY <1>3, <2>1, <3>2, <4>1, <4>2
    <3> QED
      BY <3>1, <3>2
  <2> QED
    BY <1>3, <2>2
<1>5. times = Body(times)
  <2>1. \E h : h = Body(h)
    BY <1>4
  <2> HIDE DEF Body
  <2> QED
    BY <2>1
<1> HIDE DEF times, n
<1>6. /\ times[0] = <<>>
      /\ \A k \in 0..(n - 1) : times[k + 1] = IF calls[k + 1][1] = (o = 1) THEN Append(times[k], calls[k + 1][2])
                                              ELSE times[k]
  <2>1. \A k \in 0..(n - 1) : k + 1 \in 0..n /\ k + 1 # 0 /\ (k + 1) - 1 = k
    BY <1>0
  <2>2. times = [k \in 0..n |-> IF k = 0 THEN <<>>
                                ELSE IF calls[k][1] = (o = 1) THEN Append(times[k - 1], calls[k][2])
                                ELSE times[k - 1]]
    BY <1>5
  <2>3. 0 \in 0..n
    BY <1>0
  <2>4. \A k \in 0..n : times[k] = IF k = 0 THEN <<>>
                                   ELSE IF calls[k][1] = (o = 1) THEN Append(times[k - 1], calls[k][2])
                                   ELSE times[k - 1]
    BY ONLY <2>2
  <2> QED
    BY <2>1, <2>3, <2>4
<1> DEFINE Good == {k \in 0..n : /\ times[k] \in X /\ Len(times[k]) = (k + o) \div 2
                                 /\ \A j \in 1..((k + o) \div 2) : times[k][j] = calls[2 * j - o][2]}
<1>7. 0 \in Good
  <2>1. (0 + o) \div 2 = 0
    OBVIOUS
  <2>2. Len(times[0]) = 0 /\ times[0] \in X /\ 0 \in 0..n
    BY <1>0, <1>2, <1>6
  <2> HIDE DEF X
  <2> QED
    BY <2>1, <2>2
<1>8. ASSUME NEW k \in 0..(n - 1), k \in Good PROVE k + 1 \in Good
  <2>1. k + 1 \in 1..n /\ k \in Nat /\ k + 1 \in 0..n
    BY <1>0
  <2>2. times[k] \in X /\ Len(times[k]) = (k + o) \div 2
        /\ \A j \in 1..((k + o) \div 2) : times[k][j] = calls[2 * j - o][2]
    BY <1>8
  <2>3. calls[k + 1][1] = ((k + 1) % 2 = 1) /\ calls[k + 1][2] \in ClockTimes
    BY <1>0, <2>1
  <2> DEFINE len == (k + o) \div 2
  <2>4. CASE ((k + 1) % 2 = 1) = (o = 1)
    <3>1. len \in Nat /\ ((k + 1) + o) \div 2 = len + 1 /\ 2 * (len + 1) - o = k + 1
      BY <2>1, <2>4
    <3>2. times[k + 1] = Append(times[k], calls[k + 1][2])
      BY <1>6, <2>3, <2>4
    <3> HIDE DEF len
    <3>3. /\ times[k + 1] \in X /\ Len(times[k + 1]) = len + 1
          /\ times[k + 1][len + 1] = calls[k + 1][2]
          /\ \A j \in 1..len : times[k + 1][j] = times[k][j]
      BY <2>2, <2>3, <3>1, <3>2 DEF len
    <3>4. \A j \in 1..(len + 1) : times[k + 1][j] = calls[2 * j - o][2]
      <4> SUFFICES ASSUME NEW j \in 1..(len + 1) PROVE times[k + 1][j] = calls[2 * j - o][2]
        OBVIOUS
      <4>1. CASE j = len + 1
        BY <3>1, <3>3, <4>1
      <4>2. CASE j # len + 1
        <5>1. j \in 1..len
          BY <3>1, <4>2
        <5> QED
          BY <2>2, <3>3, <5>1 DEF len
      <4> QED
        BY <4>1, <4>2
    <3> QED
      BY <2>1, <3>1, <3>3, <3>4
  <2>5. CASE ~ (((k + 1) % 2 = 1) = (o = 1))
    <3>1. ((k + 1) + o) \div 2 = len
      BY <2>1, <2>5
    <3>2. times[k + 1] = times[k]
      BY <1>6, <2>3, <2>5
    <3> QED
      BY <2>1, <2>2, <3>1, <3>2
  <2> QED
    BY <2>4, <2>5
<1>9. n \in Good
  <2> HIDE DEF Good
  <2>1. \A k \in 0..n : k \in Good
    BY <1>0, <1>7, <1>8, CountUp
  <2> QED
    BY <1>0, <2>1
<1> QED
  BY <1>0, <1>1, <1>9

\* What timer_stats reads are the times of the last InRing starts and stops.
LEMMA StatsOfLast ==
  ASSUME ClockInv
  PROVE  Clock!StatsOverLastCycles
<1> SUFFICES ASSUME Clock!HasStats PROVE Clock!StatsOverLastCycles
  BY DEF Clock!StatsOverLastCycles
<1> DEFINE C == count \div 2
           e == Events
           n == IF C < e THEN C ELSE e
           S == Clock!TimesOf(TRUE)
           T == Clock!TimesOf(FALSE)
           starts == SubSeq(S, (Len(S) - n) + 1, Len(S))
           stops == SubSeq(T, (Len(T) - n) + 1, Len(T))
           place(i) == Place(C, e, n, i)
<1>0. e \in Nat \ {0} /\ count \in Nat /\ ticks \in [0..(2 * e - 1) -> ClockTimes] /\ ClockTimes \subseteq Int
  BY ClockAssumption DEF ClockInv, ClockType
<1>1. C >= 2 /\ count = 2 * C /\ C \in Nat
  BY <1>0 DEF Clock!HasStats, Clock!Cycles, Clock!Running
<1>2. \A j \in 1..count : j > count - 2 * e => ticks[(j - 1) % (2 * e)] = calls[j][2]
  BY DEF ClockInv, InTheRing
<1>3. S \in Seq(ClockTimes) /\ Len(S) = C /\ \A j \in 1..C : S[j] = calls[2 * j - 1][2]
  <2>1. (count + 1) \div 2 = C /\ (1 = 1) = TRUE
    BY <1>1
  <2> QED
    BY <2>1, TimesOfCalls
<1>4. T \in Seq(ClockTimes) /\ Len(T) = C /\ \A j \in 1..C : T[j] = calls[2 * j - 0][2]
  <2>1. (count + 0) \div 2 = C /\ (0 = 1) = FALSE
    BY <1>0, <1>1
  <2> QED
    BY <2>1, TimesOfCalls
<1> HIDE DEF C, e, S, T
<1>5. n \in 1..C /\ n <= e /\ C - n \in Nat /\ (n = C \/ n = e)
  BY <1>0, <1>1
<1>6. /\ \A i \in 1..n : place(i) \in 0..(n - 1)
      /\ \A j \in 0..(n - 1) : \E i \in 1..n : place(i) = j
      /\ place(n) = (C - 1) % e
      /\ place(1) = IF C < e THEN 0 ELSE C % e
      /\ \A i \in 1..(n - 1) : place(i) # (C - 1) % e /\ (place(i) + 1) % e = place(i + 1)
  <2>1. PICK c \in Nat \ {0} : c = C
    BY <1>1
  <2>2. PICK k : k = n /\ Held(c, e, k)
    BY <1>0, <2>1 DEF Held
  <2>3. /\ \A i \in 1..k : Place(c, e, k, i) \in 0..(k - 1)
        /\ \A j \in 0..(k - 1) : \E i \in 1..k : Place(c, e, k, i) = j
        /\ Place(c, e, k, k) = (c - 1) % e
        /\ Place(c, e, k, 1) = IF c < e THEN 0 ELSE c % e
        /\ \A i \in 1..(k - 1) : /\ Place(c, e, k, i) # (c - 1) % e
                                 /\ (Place(c, e, k, i) + 1) % e = Place(c, e, k, i + 1)
    BY <2>2, LastInRing
  <2> QED
    BY <2>1, <2>2, <2>3
<1>7. ASSUME NEW i \in 1..n
      PROVE  ticks[2 * place(i)] = starts[i] /\ ticks[2 * place(i) + 1] = stops[i]
  <2>1. PICK k \in Nat : k = ((C - n) + i) - 1
    BY <1>5
  <2>2. /\ k + 1 \in 1..C /\ (C - n) + i = k + 1
        /\ 2 * k + 1 \in 1..count /\ 2 * k + 1 > count - 2 * e /\ (2 * k + 1) - 1 = 2 * k + 0
        /\ 2 * k + 2 \in 1..count /\ 2 * k + 2 > count - 2 * e /\ (2 * k + 2) - 1 = 2 * k + 1
        /\ 2 * (k + 1) - 1 = 2 * k + 1 /\ 2 * (k + 1) - 0 = 2 * k + 2
    BY <1>0, <1>1, <1>5, <2>1
  <2>3. starts[i] = S[(C - n) + i] /\ stops[i] = T[(C - n) + i]
    <3>1. \A s \in Seq(ClockTimes) : \A a \in 1..Len(s) : \A x \in 1..((Len(s) - a) + 1) :
             SubSeq(s, a, Len(s))[x] = s[(a + x) - 1]
      OBVIOUS
    <3>2. PICK a \in 1..C : a = (C - n) + 1
      BY <1>1, <1>5
    <3>3. i \in 1..((C - a) + 1) /\ (a + i) - 1 = (C - n) + i
      BY <1>1, <1>5, <3>2
    <3> HIDE DEF n
    <3> QED
      BY <1>3, <1>4, <3>1, <3>2, <3>3
  <2>4. starts[i] = calls[2 * k + 1][2] /\ stops[i] = calls[2 * k + 2][2]
    BY <1>3, <1>4, <2>2, <2>3
  <2>5. (2 * k + 0) % (2 * e) = 2 * (k % e) + 0 /\ (2 * k + 1) % (2 * e) = 2 * (k % e) + 1
    <3>1. \A b \in {0, 1} : (2 * k + b) % (2 * e) = 2 * (k % e) + b
      <4>1. k \in Int /\ e \in Nat \ {0}
        BY <1>0
      <4> QED
        BY <4>1, ModPairs
    <3> QED
      BY <3>1
  <2>6. place(i) = k % e /\ k % e \in Int
    <3>1. k % e \in 0..(e - 1)
      <4>1. k \in Int /\ e \in Nat \ {0}
        BY <1>0
      <4> QED
        BY <4>1, DivMod
    <3> QED
      BY <2>1, <3>1 DEF Place
  <2>7. ticks[(2 * k + 0) % (2 * e)] = calls[2 * k + 1][2] /\ ticks[(2 * k + 1) % (2 * e)] = calls[2 * k + 2][2]
    BY <1>2, <2>2
  <2> HIDE DEF place, starts, stops
  <2> QED
    BY <2>4, <2>5, <2>6, <2>7
<1>8. /\ Clock!InRing = n /\ Clock!LastIdx = (C - 1) % e
      /\ Clock!FirstIdx = IF C < e THEN 0 ELSE C % e
  BY DEF Clock!InRing, Clock!LastIdx, Clock!FirstIdx, Clock!Cycles, C, e
<1>9. Clock!LastN(S, Clock!InRing) = starts /\ Clock!LastN(T, Clock!InRing) = stops
  BY <1>8 DEF Clock!LastN
<1> HIDE DEF n, place, starts, stops
<1>10. Clock!Runs = {stops[i] - starts[i] : i \in 1..n}
  <2>1. Clock!Runs = {ticks[2 * j + 1] - ticks[2 * j] : j \in 0..(n - 1)}
    BY <1>8 DEF Clock!Runs
  <2> QED
    BY <1>6, <1>7, <2>1
<1>11. Clock!Periods = {starts[i + 1] - starts[i] : i \in 1..(n - 1)}
  <2>1. Clock!Periods = {ticks[2 * ((j + 1) % e)] - ticks[2 * j] : j \in (0..(n - 1)) \ {place(n)}}
    BY <1>6, <1>8 DEF Clock!Periods, e
  <2>2. ASSUME NEW i \in 1..(n - 1)
        PROVE  /\ i \in 1..n /\ place(i) \in (0..(n - 1)) \ {place(n)}
               /\ ticks[2 * ((place(i) + 1) % e)] - ticks[2 * place(i)] = starts[i + 1] - starts[i]
    <3>1. i \in 1..n /\ i + 1 \in 1..n
      BY <1>5
    <3>2. (place(i) + 1) % e = place(i + 1) /\ place(i) # place(n)
      BY <1>6
    <3> QED
      BY <1>6, <1>7, <3>1, <3>2
  <2>3. ASSUME NEW j \in (0..(n - 1)) \ {place(n)} PROVE \E i \in 1..(n - 1) : place(i) = j
    <3>1. PICK i \in 1..n : place(i) = j
      BY <1>6
    <3>2. i \in 1..(n - 1)
      BY <1>5, <3>1
    <3> QED
      BY <3>1, <3>2
  <2> QED
    BY <2>1, <2>2, <2>3
<1>12. Clock!PeriodSpan = starts[n] - starts[1]
  <2>1. Clock!PeriodSpan = ticks[2 * place(n)] - ticks[2 * place(1)] /\ n \in 1..n /\ 1 \in 1..n
    BY <1>5, <1>6, <1>8 DEF Clock!PeriodSpan
  <2> QED
    BY <1>7, <2>1
<1> QED
  BY <1>8, <1>9, <1>10, <1>11, <1>12 DEF Clock!StatsOverLastCycles, S, T

\* timer_stats covers exactly the last Events cycles, for a ring of any size and however
\* often it wrapped: no run and no period is left out, read twice or taken across the seam.
THEOREM StatsAreOfLastCycles == MCSpec => []StatsOverLastCycles
<1>1. ClockInv => StatsOverLastCycles
  BY StatsOfLast DEF StatsOverLastCycles
<1> QED
  BY <1>1, ClockAlways, PTL

-----------------------------------------------------------------------------
(* The skipper: what a safe bearing is worth.                              *)

LEMMA Squares ==
  ASSUME NEW x \in Int
  PROVE  x * x \in Nat /\ (x * x = 0 => x = 0)
<1>1. CASE x >= 0
  BY <1>1
<1>2. CASE x < 0
  <2>1. PICK y \in Nat \ {0} : y = -x
    BY <1>2
  <2>2. x * x = y * y /\ y * y \in Nat \ {0}
    BY <2>1
  <2> QED
    BY <2>2
<1> QED
  BY <1>1, <1>2

\* A product that is not negative has a factor that is not, if the other one is positive.
LEMMA NotNegative ==
  ASSUME NEW x \in Int, NEW y \in Nat \ {0}, x * y >= 0
  PROVE  x >= 0
<1> SUFFICES ASSUME x < 0 PROVE FALSE
  OBVIOUS
<1>1. PICK z \in Nat \ {0} : z = -x
  OBVIOUS
<1>2. z * y \in Nat \ {0} /\ x * y = -(z * y)
  BY <1>1
<1> QED
  BY <1>2

LEMMA Products ==
  ASSUME NEW d \in Places, NEW p \in Places
  PROVE  /\ Voyage!Dot(d, p) \in Int /\ Voyage!Dot(p, p) \in Nat
         /\ Voyage!Dot(p, p) = 0 => Voyage!Dot(d, p) = 0
<1>1. PICK x \in Int, y \in Int, a \in Int, b \in Int : d = <<x, y>> /\ p = <<a, b>>
  BY DEF Places
<1>2. Voyage!Dot(d, p) = x * a + y * b /\ Voyage!Dot(p, p) = a * a + b * b
  BY <1>1 DEF Voyage!Dot
<1>3. a * a \in Nat /\ b * b \in Nat /\ (a * a = 0 => a = 0) /\ (b * b = 0 => b = 0)
  BY Squares
<1>4. Voyage!Dot(p, p) = 0 => a = 0 /\ b = 0
  BY <1>2, <1>3
<1>5. x * a \in Int /\ y * b \in Int /\ (a = 0 => x * a = 0) /\ (b = 0 => y * b = 0)
  OBVIOUS
<1> QED
  BY <1>2, <1>3, <1>4, <1>5

\* Going on by t times p from d away.
LEMMA SquareAfter ==
  ASSUME NEW d \in Places, NEW p \in Places, NEW t \in Nat
  PROVE  LET e == Voyage!Minus(d, <<t * p[1], t * p[2]>>)
         IN  /\ e \in Places
             /\ Voyage!Dot(e, e) = Voyage!Dot(d, d) - 2 * t * Voyage!Dot(d, p) + t * t * Voyage!Dot(p, p)
<1>1. PICK x \in Int, y \in Int, a \in Int, b \in Int : d = <<x, y>> /\ p = <<a, b>>
  BY DEF Places
<1> DEFINE e == Voyage!Minus(d, <<t * p[1], t * p[2]>>)
<1>2. e = <<x - t * a, y - t * b>>
  BY <1>1 DEF Voyage!Minus
<1>3. PICK u \in Int, v \in Int : u = t * a /\ v = t * b
  OBVIOUS
<1>4. Voyage!Dot(e, e) = (x - u) * (x - u) + (y - v) * (y - v)
  BY <1>2, <1>3 DEF Voyage!Dot
<1>5. (x - u) * (x - u) = x * x - 2 * (x * u) + u * u /\ (y - v) * (y - v) = y * y - 2 * (y * v) + v * v
  OBVIOUS
<1>6. x * u = t * (x * a) /\ y * v = t * (y * b) /\ u * u = t * t * (a * a) /\ v * v = t * t * (b * b)
  BY <1>3
<1>7. /\ Voyage!Dot(d, d) = x * x + y * y
      /\ Voyage!Dot(d, p) = x * a + y * b
      /\ Voyage!Dot(p, p) = a * a + b * b
  BY <1>1 DEF Voyage!Dot
<1>8. e \in Places
  BY <1>2 DEF Places
<1>9. Voyage!Dot(e, e) = Voyage!Dot(d, d) - 2 * t * Voyage!Dot(d, p) + t * t * Voyage!Dot(p, p)
  <2>1. /\ 2 * t * (x * a + y * b) = 2 * (t * (x * a)) + 2 * (t * (y * b))
        /\ t * t * (a * a + b * b) = t * t * (a * a) + t * t * (b * b)
    OBVIOUS
  <2>2. /\ x * x \in Int /\ y * y \in Int /\ u * u \in Int /\ v * v \in Int
        /\ x * u \in Int /\ y * v \in Int
    OBVIOUS
  <2> QED
    BY <1>4, <1>5, <1>6, <1>7, <2>1, <2>2
<1> QED
  BY <1>8, <1>9

\* Two that keep their velocities u and v are as far apart after one unit of time as a test
\* for a longer time asked for (vskipper/util.cc: MinDistance).
LEMMA SafeAfterOne ==
  ASSUME NEW u \in Places, NEW v \in Places, NEW d \in Places, NEW t \in Nat \ {0},
         SafeDistance \in Nat, Voyage!MinDistanceSafe(u, v, d, t)
  PROVE  LET e == Voyage!Minus(d, Voyage!Minus(u, v))
         IN  Voyage!Dot(e, e) >= SafeDistance * SafeDistance
<1>0. Voyage!Minus(u, v) \in Places
  BY DEF Voyage!Minus, Places
<1>1. PICK p \in Places : p = Voyage!Minus(u, v)
  BY <1>0
<1>2. PICK D \in Nat, N \in Int, P \in Nat, S \in Nat :
         /\ D = Voyage!Dot(d, d) /\ N = Voyage!Dot(d, p) /\ P = Voyage!Dot(p, p)
         /\ S = SafeDistance * SafeDistance
  <2>1. SafeDistance * SafeDistance \in Nat
    BY Squares
  <2> QED
    BY <2>1, Products
<1> DEFINE e == Voyage!Minus(d, p)
           far == Voyage!Minus(d, <<t * p[1], t * p[2]>>)
<1>3. Voyage!Dot(e, e) = D - 2 * N + P
  <2>1. <<1 * p[1], 1 * p[2]>> = p
    BY DEF Places
  <2>2. Voyage!Dot(e, e) = D - 2 * 1 * N + 1 * 1 * P
    BY <1>2, <2>1, SquareAfter
  <2> QED
    BY <2>2
<1>4. Voyage!Dot(far, far) = D - 2 * t * N + t * t * P
  BY <1>2, SquareAfter
<1>5. CASE N <= 0 /\ D >= S
  BY <1>1, <1>2, <1>3, <1>5
<1>6. CASE N >= t * P /\ Voyage!Dot(far, far) >= S
  <2>1. PICK k \in Nat : t = k + 1
    <3>1. t - 1 \in Nat /\ t = (t - 1) + 1
      OBVIOUS
    <3> QED
      BY <3>1
  <2>2. PICK r \in Nat : N = t * P + r
    <3>1. t * P \in Int /\ N - t * P \in Nat
      BY <1>6
    <3>2. N = t * P + (N - t * P)
      BY <3>1
    <3> QED
      BY <3>1, <3>2
  <2>3. PICK kP \in Nat, kr \in Nat, kkP \in Nat : kP = k * P /\ kr = k * r /\ kkP = k * kP
    OBVIOUS
  <2>4. t * P = kP + P /\ t * t * P = kkP + 2 * kP + P
    <3>1. t * P = k * P + P /\ t * t * P = k * (k * P) + 2 * (k * P) + P
      BY <2>1
    <3> QED
      BY <2>3, <3>1
  <2>5. t * N = kkP + 2 * kP + P + kr + r
    <3>1. t * N = t * (t * P) + t * r /\ t * (t * P) = t * t * P /\ t * r = k * r + r
      BY <2>1, <2>2
    <3> QED
      BY <2>3, <2>4, <3>1
  <2>6. 2 * t * N = 2 * (t * N)
    OBVIOUS
  <2>7. D - 2 * N + P = (D - 2 * t * N + t * t * P) + kkP + 2 * kr
    BY <2>2, <2>4, <2>5, <2>6
  <2> QED
    BY <1>1, <1>2, <1>3, <1>4, <1>6, <2>7
<1>7. CASE N > 0 /\ D * P - N * N >= S * P
  <2>1. P # 0
    BY <1>2, <1>7, Products
  <2>2. PICK x \in Int : x = D - 2 * N + P - S
    OBVIOUS
  <2>3. x * P = (D * P - N * N - S * P) + (N - P) * (N - P)
    BY <2>2
  <2>4. (N - P) * (N - P) \in Nat
    BY Squares
  <2>5. x * P >= 0
    BY <1>7, <2>3, <2>4
  <2>6. x >= 0
    BY <2>1, <2>5, NotNegative
  <2> QED
    BY <1>1, <1>2, <1>3, <2>2, <2>6
<1> QED
  BY <1>1, <1>2, <1>5, <1>6, <1>7 DEF Voyage!MinDistanceSafe

-----------------------------------------------------------------------------
(* The skipper: what it knows, and what it answers.                        *)

Winds == [angle : Int, speed : Int, known : BOOLEAN]
Inputs == [pos : Places, wind : Winds, fix : BOOLEAN, valid : BOOLEAN]
Members == [initialized : BOOLEAN, chain : {"none", "full", "simple"}, alpha_star : Int,
            old_alpha_star : Int, wind_strength : {"calm", "normal", "storm"},
            storm : BOOLEAN, plus : BOOLEAN, full_plan : BOOLEAN]

LEMMA Moves2D ==
  ASSUME NEW p \in Places, NEW q \in Places, NEW b \in Int, NEW n \in Int
  PROVE  /\ Voyage!Ahead(b, n) \in Places /\ Voyage!Plus(p, q) \in Places /\ Voyage!Minus(p, q) \in Places
         /\ p[1] \in Int /\ p[2] \in Int
BY DEF Voyage!Ahead, Voyage!Plus, Voyage!Minus, Places

LEMMA Compass ==
  ASSUME NEW a \in Int
  PROVE  Voyage!NormalizeDeg(a) \in 0 .. 7 /\ Voyage!SymmetricDeg(a) \in Int
BY DEF Voyage!NormalizeDeg, Voyage!SymmetricDeg

\* The chosen bearing is one of the safe ones, if there is one.
LEMMA ChosenIsSafe ==
  ASSUME NEW target \in Int, NEW safe, safe \subseteq 0 .. 7, safe # {}
  PROVE  Voyage!SkipperImpl(target, safe) \in safe
<1> DEFINE at(k) == Voyage!NormalizeDeg(target + Voyage!BetterBearing[k])
           found == {k \in 1 .. 8 : at(k) \in safe}
<1>1. \A b \in 0 .. 7 : \E k \in 1 .. 8 : at(k) = b
  <2> TAKE b \in 0 .. 7
  <2>1. PICK r \in 0 .. 7 : r = (b - target) % 8
    OBVIOUS
  <2>2. (target + r) % 8 = b
    BY <2>1
  <2>3. \A c \in 0 .. 7 : \E k \in 1 .. 8 : Voyage!BetterBearing[k] = c
    <3>1. /\ Voyage!BetterBearing[1] = 0 /\ Voyage!BetterBearing[2] = 1 /\ Voyage!BetterBearing[3] = 7
          /\ Voyage!BetterBearing[4] = 2 /\ Voyage!BetterBearing[5] = 6 /\ Voyage!BetterBearing[6] = 3
          /\ Voyage!BetterBearing[7] = 5 /\ Voyage!BetterBearing[8] = 4
      BY DEF Voyage!BetterBearing
    <3> TAKE c \in 0 .. 7
    <3>2. c = 0 \/ c = 1 \/ c = 2 \/ c = 3 \/ c = 4 \/ c = 5 \/ c = 6 \/ c = 7
      OBVIOUS
    <3> QED
      BY <3>1, <3>2
  <2>4. PICK k \in 1 .. 8 : Voyage!BetterBearing[k] = r
    BY <2>1, <2>3
  <2>5. at(k) = b
    BY <2>2, <2>4 DEF Voyage!NormalizeDeg
  <2> QED
    BY <2>5
<1> HIDE DEF at
<1>2. found # {} /\ found \subseteq Nat
  <2>1. PICK b \in safe : b \in 0 .. 7
    OBVIOUS
  <2>2. PICK k \in 1 .. 8 : at(k) = b
    BY <1>1, <2>1
  <2>3. k \in found
    BY <2>1, <2>2
  <2> QED
    BY <2>3
<1>3. PICK k \in found : \A j \in found : k <= j
  <2> HIDE DEF found
  <2> QED
    BY <1>2, LeastNumber
<1>4. \E n \in 1 .. 8 : at(n) \in safe /\ \A j \in 1 .. n - 1 : ~ (at(j) \in safe)
  BY <1>3
<1>5. PICK n \in 1 .. 8 : /\ at(n) \in safe
                          /\ n = CHOOSE i \in 1 .. 8 : at(i) \in safe /\ \A j \in 1 .. i - 1 : ~ (at(j) \in safe)
  BY <1>4
<1>6. Voyage!SkipperImpl(target, safe) = at(n)
  BY <1>5 DEF Voyage!SkipperImpl, at
<1> QED
  BY <1>5, <1>6

LEMMA RanIsSafe ==
  ASSUME NEW us, NEW wnd, NEW reports, NEW target \in Int
  PROVE  /\ Voyage!RunVSkipper(us, wnd, reports, target) \in 0 .. 7
         /\ (\E t \in TimeWindows : Voyage!SafeFor(us, wnd, reports, t) # {}) =>
              \E t \in TimeWindows : Voyage!RunVSkipper(us, wnd, reports, target) \in Voyage!SafeFor(us, wnd, reports, t)
<1> DEFINE safe(t) == Voyage!SafeFor(us, wnd, reports, t)
           found == {t \in TimeWindows : safe(t) # {}}
           longest == CHOOSE t \in found : \A u \in found : u <= t
<1>1. \A t : safe(t) \subseteq 0 .. 7
  BY DEF Voyage!SafeFor, Voyage!Bearings
<1> HIDE DEF safe
<1>2. CASE found = {}
  <2>1. Voyage!RunVSkipper(us, wnd, reports, target) = Voyage!NormalizeDeg(Voyage!kVSkipperNoWay)
    BY <1>2 DEF Voyage!RunVSkipper, safe
  <2>2. Voyage!kVSkipperNoWay \in Int
    BY DEF Voyage!kVSkipperNoWay
  <2>3. ~ \E t \in TimeWindows : safe(t) # {}
    BY <1>2
  <2> QED
    BY <2>1, <2>2, <2>3, Compass DEF safe
<1>3. CASE found # {}
  <2>1. PICK w \in TimeWindows : w \in Nat /\ \A t \in TimeWindows : t \in Nat /\ t <= w
    BY SkipperAssumption
  <2>2. PICK m \in found : \A u \in found : u <= m
    <3> DEFINE short == {w - t : t \in found}
    <3>1. short \subseteq Nat /\ short # {}
      <4>1. \A t \in found : w - t \in Nat
        BY <2>1
      <4>2. PICK t \in found : TRUE
        BY <1>3
      <4>3. w - t \in short
        BY <4>2
      <4> QED
        BY <4>1, <4>3
    <3>2. PICK x \in short : \A y \in short : x <= y
      <4> HIDE DEF short
      <4> QED
        BY <3>1, LeastNumber
    <3>3. PICK m \in found : x = w - m
      BY <3>2
    <3>4. \A u \in found : w - m <= w - u
      BY <3>2, <3>3
    <3>5. \A u \in found : u <= m
      BY <2>1, <3>3, <3>4
    <3> QED
      BY <3>3, <3>5
  <2>3. longest \in found
    <3> HIDE DEF found
    <3> QED
      BY <2>2
  <2>4. Voyage!RunVSkipper(us, wnd, reports, target) = Voyage!SkipperImpl(target, safe(longest))
    BY <1>3 DEF Voyage!RunVSkipper, safe
  <2>5. longest \in TimeWindows /\ safe(longest) # {} /\ safe(longest) \subseteq 0 .. 7
    <3> HIDE DEF longest
    <3> QED
      BY <1>1, <2>3
  <2>6. Voyage!SkipperImpl(target, safe(longest)) \in safe(longest)
    <3> HIDE DEF longest
    <3> QED
      BY <2>5, ChosenIsSafe
  <2> HIDE DEF longest
  <2> QED
    BY <2>4, <2>5, <2>6 DEF safe
<1> QED
  BY <1>2, <1>3

LEMMA ToDegIsAngle ==
  ASSUME NEW c \in Circles, NEW p \in Places
  PROVE  Voyage!ToDeg(c, p) \in 0 .. 7
<1>1. PICK x \in Int, y \in Int : Voyage!Minus(c.lat_lon, p) = <<x, y>>
  BY DEF Circles, Places, Voyage!Minus
<1> QED
  BY <1>1 DEF Voyage!ToDeg

\* Whichever circle leads, the way to it is an angle.
LEMMA CascadeIsAngle ==
  ASSUME NEW chain \in Seq(Circles), NEW p \in Places
  PROVE  Voyage!CascadeToDeg(chain, p) \in Int
<1> DEFINE I == DOMAIN chain
           inside == {i \in I : Voyage!In(chain[i], p)}
<1>1. I \subseteq Nat /\ \A i \in I : chain[i] \in Circles
  OBVIOUS
<1>2. CASE chain = <<>>
  BY <1>2 DEF Voyage!CascadeToDeg, Voyage!kDefaultDirection
<1>3. CASE inside # {}
  <2>1. inside \subseteq Nat
    BY <1>1
  <2>2. PICK i \in inside : \A j \in inside : i <= j
    <3> HIDE DEF inside
    <3> QED
      BY <1>3, <2>1, LeastNumber
  <2>3. Voyage!First(chain, p) \in I
    <3>1. Voyage!In(chain[i], p) /\ \A j \in DOMAIN chain : Voyage!In(chain[j], p) => i <= j
      BY <2>2
    <3> QED
      BY <2>2, <3>1 DEF Voyage!First
  <2>4. Voyage!CascadeToDeg(chain, p) = Voyage!ToDeg(chain[Voyage!First(chain, p)], p)
    BY <1>3 DEF Voyage!CascadeToDeg
  <2>5. chain[Voyage!First(chain, p)] \in Circles
    BY <1>1, <2>3
  <2> QED
    BY <2>4, <2>5, ToDegIsAngle
<1>4. CASE chain # <<>> /\ inside = {}
  <2> DEFINE far(i) == Voyage!DistanceSquared(chain[i], p)
             R == {far(i) : i \in I}
  <2>1. \A i \in I : far(i) \in Nat
    <3> TAKE i \in I
    <3>1. PICK d \in Places : d = Voyage!Minus(chain[i].lat_lon, p)
      <4>1. chain[i].lat_lon \in Places
        BY <1>1 DEF Circles
      <4>2. Voyage!Minus(chain[i].lat_lon, p) \in Places
        BY <4>1, Moves2D, 0 \in Int
      <4> QED
        BY <4>2
    <3> QED
      BY <3>1, Products DEF Voyage!DistanceSquared
  <2> HIDE DEF far
  <2>2. R \subseteq Nat /\ R # {}
    <3>1. 1 \in I
      BY <1>4
    <3> QED
      BY <2>1, <3>1
  <2>3. PICK r \in R : \A q \in R : r <= q
    <3> HIDE DEF R
    <3> QED
      BY <2>2, LeastNumber
  <2> DEFINE T == {i \in I : far(i) = r}
  <2>4. PICK i \in T : \A j \in T : i <= j
    <3>1. T \subseteq Nat /\ T # {}
      BY <1>1, <2>3
    <3> HIDE DEF T
    <3> QED
      BY <3>1, LeastNumber
  <2>5. i \in I /\ \A j \in I : far(i) < far(j) \/ (far(i) = far(j) /\ i <= j)
    <3>1. i \in I /\ far(i) = r
      BY <2>4
    <3> SUFFICES ASSUME NEW j \in I PROVE far(i) < far(j) \/ (far(i) = far(j) /\ i <= j)
      BY <3>1
    <3>2. r <= far(j) /\ far(j) \in Nat /\ r \in Nat
      BY <2>1, <2>2, <2>3
    <3>3. far(j) = r => i <= j
      BY <2>4
    <3> QED
      BY <3>1, <3>2, <3>3
  <2>6. Voyage!Nearest(chain, p) \in I
    BY <2>5 DEF Voyage!Nearest, far
  <2>7. Voyage!CascadeToDeg(chain, p) = Voyage!ToDeg(chain[Voyage!Nearest(chain, p)], p)
    BY <1>4 DEF Voyage!CascadeToDeg
  <2>8. chain[Voyage!Nearest(chain, p)] \in Circles
    BY <1>1, <2>6
  <2> QED
    BY <2>7, <2>8, ToDegIsAngle
<1> QED
  BY <1>2, <1>3, <1>4

LEMMA ChainsAreCircles == \A s : Voyage!Chain(s) \in Seq(Circles)
<1>1. [lat_lon |-> SimpleTarget, radius |-> 3] \in Circles /\ [lat_lon |-> SimpleTarget, radius |-> 100] \in Circles
  BY SkipperAssumption DEF Circles
<1>2. Voyage!SimplePlan \in Seq(Circles)
  BY <1>1 DEF Voyage!SimplePlan
<1> QED
  BY <1>2, SkipperAssumption DEF Voyage!Chain

LEMMA PlannedIsAngle ==
  ASSUME NEW s \in Members, NEW p \in Places, NEW turn \in BOOLEAN
  PROVE  Voyage!PlannerToDeg(s, p, turn) \in Members
<1> DEFINE i == IF s.initialized THEN s ELSE [s EXCEPT !.chain = "full", !.initialized = TRUE]
<1>1. i \in Members
  BY DEF Members
<1> HIDE DEF i
<1>2. [i EXCEPT !.alpha_star = Voyage!CascadeToDeg(Voyage!Chain(i), p)] \in Members
  <2>1. Voyage!CascadeToDeg(Voyage!Chain(i), p) \in Int
    BY ChainsAreCircles, CascadeIsAngle
  <2> QED
    BY <1>1, <2>1 DEF Members
<1>3. [i EXCEPT !.alpha_star = Voyage!NormalizeDeg(@ - Voyage!kTurn)] \in Members
  <2>1. i.alpha_star - Voyage!kTurn \in Int
    BY <1>1 DEF Members, Voyage!kTurn
  <2>2. Voyage!NormalizeDeg(i.alpha_star - Voyage!kTurn) \in Int
    BY <2>1, Compass
  <2> QED
    BY <1>1, <2>2 DEF Members
<1> QED
  BY <1>1, <1>2, <1>3 DEF Voyage!PlannerToDeg, i

LEMMA FileIsRead ==
  ASSUME NEW s \in Members, planFile \in Files
  PROVE  Voyage!ReadSimplePlanFile(s) \in Members
BY DEF Voyage!ReadSimplePlanFile, Voyage!Reset, Members, Files

LEMMA StormIsHandled ==
  ASSUME NEW s \in Members, NEW angle \in Int, NEW planned \in Int, NEW speed \in Int
  PROVE  /\ Voyage!WindStrength(s, speed) \in {"calm", "normal", "storm"}
         /\ Voyage!HandleStorm(s, angle, planned) \in Members
         /\ Voyage!HandleStorm(s, angle, planned).alpha_star = s.alpha_star
         /\ Voyage!StormBearing(s, angle, planned) \in Int
<1>1. Voyage!WindStrength(s, speed) \in {"calm", "normal", "storm"}
  BY DEF Voyage!WindStrength, Members
<1> DEFINE plus == Voyage!AbsDeg(angle + Voyage!kStormAngle - planned)
                     < Voyage!AbsDeg(angle - Voyage!kStormAngle - planned)
<1>2. plus \in BOOLEAN
  <2>1. \A a \in Int : Voyage!AbsDeg(a) \in Int
    BY Compass DEF Voyage!AbsDeg
  <2>2. angle + Voyage!kStormAngle - planned \in Int /\ angle - Voyage!kStormAngle - planned \in Int
    BY DEF Voyage!kStormAngle
  <2>3. /\ Voyage!AbsDeg(angle + Voyage!kStormAngle - planned) \in Int
        /\ Voyage!AbsDeg(angle - Voyage!kStormAngle - planned) \in Int
    BY <2>1, <2>2
  <2> QED
    BY <2>3
<1>3. Voyage!HandleStorm(s, angle, planned) \in
        {s, [s EXCEPT !.storm = FALSE], [s EXCEPT !.storm = TRUE, !.plus = plus]}
  BY DEF Voyage!HandleStorm
<1> HIDE DEF plus
<1>4. \A h \in {s, [s EXCEPT !.storm = FALSE], [s EXCEPT !.storm = TRUE, !.plus = plus]} :
         h \in Members /\ h.alpha_star = s.alpha_star
  BY <1>2 DEF Members
<1>5. Voyage!StormBearing(s, angle, planned) \in Int
  <2>1. angle + Voyage!kStormAngle \in Int /\ angle - Voyage!kStormAngle \in Int
    BY DEF Voyage!kStormAngle
  <2>2. /\ Voyage!NormalizeDeg(angle + Voyage!kStormAngle) \in Int
        /\ Voyage!NormalizeDeg(angle - Voyage!kStormAngle) \in Int
    BY <2>1, Compass
  <2> QED
    BY <2>2 DEF Voyage!StormBearing
<1> QED
  BY <1>1, <1>3, <1>4, <1>5

LEMMA SailableIsAngle ==
  ASSUME NEW a \in Int, NEW angle \in Int
  PROVE  Voyage!BestSailableHeadingDeg(a, angle) \in Int
<1>1. Voyage!NormalizeDeg(a + 1) \in Int
  BY Compass
<1> QED
  BY <1>1 DEF Voyage!BestSailableHeadingDeg

\* What a run leaves and answers; with a wind and a fix the bearing kept is that of the
\* vskipper, and safe if it finds a safe one.
LEMMA RunAnswers ==
  ASSUME sk \in Members, planFile \in Files, NEW in \in Inputs, NEW turn \in BOOLEAN
  PROVE  LET a == Voyage!Run(in, turn)
         IN  /\ a.sk \in Members /\ a.told \in Int
             /\ in.wind.known /\ in.fix =>
                  \E planned \in Int : a.sk.old_alpha_star =
                      Voyage!RunVSkipper(in.pos, in.wind.speed, Voyage!AisReports(ships), planned)
<1> DEFINE s1 == Voyage!ReadSimplePlanFile(sk)
           s2 == [s1 EXCEPT !.wind_strength = Voyage!WindStrength(s1, in.wind.speed)]
           kept == Voyage!HandleStorm(s2, in.wind.angle, s2.old_alpha_star)
           s3 == Voyage!PlannerToDeg(s2, in.pos, turn)
           s4 == Voyage!HandleStorm(s3, in.wind.angle, s3.alpha_star)
           planned == Voyage!StormBearing(s4, in.wind.angle, s4.alpha_star)
           safe == Voyage!RunCollisionAvoider(s4, planned, in)
           held == Voyage!BestSailableHeadingDeg(
                       Voyage!StormBearing(kept, in.wind.angle, s2.old_alpha_star), in.wind.angle)
<1>0. in.wind.angle \in Int /\ in.wind.speed \in Int /\ in.pos \in Places
  BY DEF Inputs, Winds
<1>1. s1 \in Members
  BY FileIsRead
<1>2. s2 \in Members
  <2> HIDE DEF s1
  <2>1. 0 \in Int
    OBVIOUS
  <2>2. Voyage!WindStrength(s1, in.wind.speed) \in {"calm", "normal", "storm"}
    BY <1>0, <1>1, <2>1, StormIsHandled
  <2> QED
    BY <1>1, <2>2 DEF Members
<1> HIDE DEF s2
<1>3. s2.old_alpha_star \in Int
  BY <1>2 DEF Members
<1>4. kept \in Members
  BY <1>0, <1>2, <1>3, StormIsHandled
<1>5. s3 \in Members
  BY <1>0, <1>2, PlannedIsAngle
<1> HIDE DEF s3, kept
<1>6. s3.alpha_star \in Int
  BY <1>5 DEF Members
<1>7. s4 \in Members
  BY <1>0, <1>5, <1>6, StormIsHandled
<1> HIDE DEF s4
<1>8. s4.alpha_star \in Int
  BY <1>7 DEF Members
<1>9. planned \in Int
  BY <1>0, <1>7, <1>8, StormIsHandled
<1> HIDE DEF planned
<1>10. safe = Voyage!RunVSkipper(in.pos, in.wind.speed, Voyage!AisReports(ships), planned) /\ safe \in Int
  <2>1. Voyage!RunVSkipper(in.pos, in.wind.speed, Voyage!AisReports(ships), planned) \in 0 .. 7
    BY <1>9, RanIsSafe
  <2> QED
    BY <2>1 DEF Voyage!RunCollisionAvoider, Voyage!kVSkipperNoWay
<1> HIDE DEF safe
<1>11. held \in Int /\ Voyage!BestSailableHeadingDeg(safe, in.wind.angle) \in Int
  <2>1. Voyage!StormBearing(kept, in.wind.angle, s2.old_alpha_star) \in Int
    BY <1>0, <1>3, <1>4, StormIsHandled
  <2> QED
    BY <1>0, <1>10, <2>1, SailableIsAngle
<1>12. [s4 EXCEPT !.old_alpha_star = safe] \in Members /\ [s4 EXCEPT !.old_alpha_star = safe].old_alpha_star = safe
  BY <1>7, <1>10 DEF Members
<1>13. Voyage!Run(in, turn) =
         IF ~in.wind.known THEN Voyage!Answer(sk, Voyage!kDefaultDirection)
         ELSE IF ~in.fix /\ ~s2.initialized THEN Voyage!Answer(s2, Voyage!kDefaultDirection)
         ELSE IF ~in.fix THEN Voyage!Answer(kept, held)
         ELSE Voyage!Answer([s4 EXCEPT !.old_alpha_star = safe], Voyage!BestSailableHeadingDeg(safe, in.wind.angle))
  BY DEF Voyage!Run, s2, s3, s4, kept, planned, safe
<1> HIDE DEF held, s1
<1>14. Voyage!kDefaultDirection \in Int
  BY DEF Voyage!kDefaultDirection
<1>15. \A s, b : Voyage!Answer(s, b).sk = s /\ Voyage!Answer(s, b).told = b
  BY DEF Voyage!Answer
<1>16. CASE ~in.wind.known
  BY <1>13, <1>14, <1>15, <1>16
<1>17. CASE in.wind.known /\ ~in.fix
  BY <1>2, <1>4, <1>11, <1>13, <1>14, <1>15, <1>17
<1>18. CASE in.wind.known /\ in.fix
  <2>1. Voyage!Run(in, turn) =
          Voyage!Answer([s4 EXCEPT !.old_alpha_star = safe], Voyage!BestSailableHeadingDeg(safe, in.wind.angle))
    BY <1>13, <1>18
  <2>2. /\ Voyage!Run(in, turn).sk = [s4 EXCEPT !.old_alpha_star = safe]
        /\ Voyage!Run(in, turn).told = Voyage!BestSailableHeadingDeg(safe, in.wind.angle)
    BY <1>15, <2>1
  <2>3. Voyage!Run(in, turn).sk.old_alpha_star = Voyage!RunVSkipper(in.pos, in.wind.speed, Voyage!AisReports(ships), planned)
    BY <1>10, <1>12, <2>2
  <2> QED
    BY <1>9, <1>11, <1>12, <2>2, <2>3
<1> QED
  BY <1>16, <1>17, <1>18

-----------------------------------------------------------------------------
(* The skipper: what holds throughout its voyages.                         *)

\* In the interval before the next run the boat is told a bearing that is safe; in the one
\* after it has sailed there, and is clear of all ships.
SafeHere == \E t \in TimeWindows : told \in Voyage!SafeFor(pos, wind.speed, Voyage!AisReports(ships), t)
FarFrom(s, p) == LET d == Voyage!Minus(s.position, p) IN Voyage!Dot(d, d) >= SafeDistance * SafeDistance
Clear == \A i \in DOMAIN ships : FarFrom(ships[i], pos)
Promised == way = "safe" =>
    IF pipe = <<>> THEN ships # <<>> /\ Voyage!Newest(ships) = 0 /\ SafeHere ELSE Clear

Told == ships # <<>> => \A i \in DOMAIN pipe : pipe[i].pos = pos /\ pipe[i].wind.speed = wind.speed
VoyageType ==
    /\ scenario \in DOMAIN Scenarios
    /\ pos \in Places /\ wind \in Winds /\ planFile \in Files
    /\ ships \in Seq(Reported) /\ Len(ships) = Len(Scenarios[scenario].ships)
    /\ pipe \in Seq(Inputs) /\ lbuf \in Seq(Inputs) /\ sk \in Members /\ told \in Int
    /\ lag \in Nat /\ late \in Nat
\* main leaves no more behind than what came in excess of two lines a turn: it answers the
\* first valid one and drops the next.  With other ships around nothing is left behind.
FewLeft ==
    /\ Len(lbuf) <= late /\ lag <= 1 + late
    /\ ships # <<>> => Len(pipe) <= 1 /\ late = 0
VoyageInv == VoyageType /\ FewLeft /\ Told /\ Promised

LEMMA VoyageInitial == MCInit => VoyageInv
<1> SUFFICES ASSUME Voyage!Init PROVE VoyageInv
  BY DEF MCInit
<1>0. /\ scenario \in DOMAIN Scenarios
      /\ pos \in Voyage!Voyage.starts /\ ships = Voyage!Voyage.ships /\ planFile \in Voyage!Voyage.files
      /\ pipe = <<>> /\ lbuf = <<>> /\ told = Voyage!kDefaultDirection /\ lag = 0 /\ late = 0 /\ way = "other"
  BY DEF Voyage!Init
<1>1. scenario \in DOMAIN Scenarios /\ Sound(Scenarios[scenario])
  BY <1>0, SkipperAssumption
<1>2. VoyageType
  <2>1. pos \in Places /\ planFile \in Files /\ ships \in Seq(Reported) /\ Len(ships) = Len(Scenarios[scenario].ships)
    BY <1>0, <1>1 DEF Sound, Voyage!Voyage
  <2>2. wind \in Winds
    <3>1. PICK a \in Voyage!Voyage.angles, v \in Voyage!Voyage.winds : wind = [angle |-> a, speed |-> v, known |-> TRUE]
      BY DEF Voyage!Init
    <3>2. a \in Int /\ v \in Int
      BY <1>1 DEF Sound, Voyage!Voyage
    <3> QED
      BY <3>1, <3>2 DEF Winds
  <2>3. sk \in Members
    <3>1. sk = [initialized |-> FALSE, chain |-> "none", alpha_star |-> Voyage!kDefaultDirection,
                old_alpha_star |-> Voyage!kDefaultDirection, wind_strength |-> "calm",
                storm |-> FALSE, plus |-> FALSE, full_plan |-> TRUE]
      BY DEF Voyage!Init
    <3>2. Voyage!kDefaultDirection \in Int
      BY DEF Voyage!kDefaultDirection
    <3> QED
      BY <3>1, <3>2 DEF Members
  <2>4. told \in Int /\ pipe \in Seq(Inputs) /\ lbuf \in Seq(Inputs) /\ lag \in Nat /\ late \in Nat
    BY <1>0 DEF Voyage!kDefaultDirection
  <2> QED
    BY <1>0, <2>1, <2>2, <2>3, <2>4 DEF VoyageType
<1>3. FewLeft /\ Told /\ Promised
  BY <1>0, <1>1 DEF FewLeft, Told, Promised
<1> QED
  BY <1>2, <1>3 DEF VoyageInv

\* With a new report among them the others are extrapolated to now: where the ships are.
LEMMA ReportsAreTrue ==
  ASSUME NEW s \in Seq(Reported), Voyage!Newest(s) = 0, NEW i \in DOMAIN s
  PROVE  /\ i \in DOMAIN Voyage!AisReports(s)
         /\ Voyage!AisReports(s)[i].bearing = s[i].bearing /\ Voyage!AisReports(s)[i].speed = s[i].speed
         /\ Voyage!LocalAis(Voyage!AisReports(s), Voyage!AisReports(s)[i]) = s[i].position
<1> DEFINE R == Voyage!AisReports(s)
<1>0. \A j \in DOMAIN s : s[j] \in Reported
  OBVIOUS
<1>1. DOMAIN R = DOMAIN s /\ \A j \in DOMAIN s :
        R[j] = [s[j] EXCEPT !.position = Voyage!Minus(s[j].position, Voyage!Ahead(s[j].bearing, s[j].speed * s[j].age))]
  BY DEF Voyage!AisReports
<1> HIDE DEF R
<1>2. \A j \in DOMAIN s : R[j].age = s[j].age /\ R[j].bearing = s[j].bearing /\ R[j].speed = s[j].speed
  BY <1>0, <1>1 DEF Reported
<1>3. {R[j].age : j \in DOMAIN R} = {s[j].age : j \in DOMAIN s}
  BY <1>1, <1>2
<1>4. Voyage!Newest(R) = 0
  BY <1>3 DEF Voyage!Newest
<1>5. s[i].bearing \in Int /\ s[i].speed \in Int /\ s[i].age \in Int /\ s[i].position \in Places
  BY <1>0 DEF Reported
<1>6. PICK n \in Int : n = s[i].speed * s[i].age
  BY <1>5
<1>7. R[i].position = Voyage!Minus(s[i].position, Voyage!Ahead(s[i].bearing, n))
  BY <1>0, <1>1, <1>6 DEF Reported
<1>8. s[i].speed * (s[i].age - 0) = n
  BY <1>5, <1>6
<1>9. Voyage!LocalAis(R, R[i]) = Voyage!Plus(R[i].position, Voyage!Ahead(s[i].bearing, n))
  BY <1>2, <1>4, <1>8 DEF Voyage!LocalAis
<1>10. Voyage!Ahead(s[i].bearing, n) \in Places
  BY <1>5, <1>6 DEF Voyage!Ahead, Places
<1>11. \A p, q \in Places : Voyage!Plus(Voyage!Minus(p, q), q) = p
  BY DEF Voyage!Plus, Voyage!Minus, Places
<1> QED
  BY <1>1, <1>2, <1>5, <1>7, <1>9, <1>10, <1>11 DEF R

\* The lines a turn finds, and those it leaves behind.
LEMMA LinesFound ==
  ASSUME lbuf \in Seq(Inputs), pipe \in Seq(Inputs), NEW n \in 0 .. Len(pipe)
  PROVE  /\ lbuf \o SubSeq(pipe, 1, n) \in Seq(Inputs)
         /\ Len(lbuf \o SubSeq(pipe, 1, n)) = Len(lbuf) + n
         /\ SubSeq(pipe, n + 1, Len(pipe)) \in Seq(Inputs)
         /\ Len(SubSeq(pipe, n + 1, Len(pipe))) = Len(pipe) - n
<1>1. Len(pipe) \in Nat /\ n \in Nat /\ n <= Len(pipe)
  OBVIOUS
<1>2. SubSeq(pipe, 1, n) \in Seq(Inputs) /\ Len(SubSeq(pipe, 1, n)) = n
  BY <1>1
<1> QED
  BY <1>1, <1>2

LEMMA LinesLeft ==
  ASSUME NEW lines \in Seq(Inputs), NEW i \in DOMAIN lines
  PROVE  /\ Voyage!Left(lines, i) \in Seq(Inputs)
         /\ \/ Len(Voyage!Left(lines, i)) = 0
            \/ Len(Voyage!Left(lines, i)) <= Len(lines) - 2
         /\ Len(lines) - i \in Nat /\ Len(lines) - i <= Len(lines) - 1
<1>1. i \in 1 .. Len(lines) /\ Len(lines) \in Nat
  OBVIOUS
<1>2. Voyage!Left(lines, i) = SubSeq(lines, i + 2, Len(lines))
  BY DEF Voyage!Left
<1>3. CASE i + 2 <= Len(lines)
  <2>1. SubSeq(lines, i + 2, Len(lines)) \in Seq(Inputs) /\ Len(SubSeq(lines, i + 2, Len(lines))) = Len(lines) - i - 1
    BY <1>1, <1>3
  <2> QED
    BY <1>1, <1>2, <1>3, <2>1
<1>4. CASE i + 2 > Len(lines)
  <2>1. SubSeq(lines, i + 2, Len(lines)) = <<>>
    BY <1>1, <1>4
  <2> QED
    BY <1>1, <1>2, <2>1
<1> QED
  BY <1>1, <1>3, <1>4

\* A turn of the skipper's main loop.
LEMMA WakeKeeps ==
  ASSUME VoyageInv, Voyage!Wake
  PROVE  VoyageInv' /\ (way = "safe" => Clear)
<1>0. /\ VoyageType /\ FewLeft /\ Told /\ Promised
  BY DEF VoyageInv
<1>1. PICK n \in 0 .. Len(pipe) :
         LET lines == lbuf \o SubSeq(pipe, 1, n)
         IN  /\ n = 0 => pipe = <<>> /\ lbuf # <<>>
             /\ pipe' = SubSeq(pipe, n + 1, Len(pipe))
             /\ \/ /\ \A i \in DOMAIN lines : ~lines[i].valid
                   /\ lbuf' = <<>> /\ way' = "other" /\ UNCHANGED <<told, sk, lag, late>>
                \/ \E i \in DOMAIN lines, turn \in BOOLEAN :
                     LET a == Voyage!Run(lines[i], turn)
                     IN  /\ Voyage!Found(lines, i)
                         /\ lbuf' = Voyage!Left(lines, i) /\ lag' = Len(lines) - i
                         /\ late' = Voyage!Excess(late + n)
                         /\ sk' = a.sk /\ told' = a.told /\ way' = Voyage!WayOf(lines[i], a)
             /\ UNCHANGED Voyage!env
  BY DEF Voyage!Wake
<1>2. UNCHANGED <<scenario, pos, wind, ships, planFile>>
  BY <1>1 DEF Voyage!env
<1>3. PICK lines : lines = lbuf \o SubSeq(pipe, 1, n)
  OBVIOUS
<1>4. lbuf \in Seq(Inputs) /\ pipe \in Seq(Inputs) /\ late \in Nat /\ lag \in Nat /\ ships \in Seq(Reported)
  BY <1>0 DEF VoyageType
<1>5. /\ lines \in Seq(Inputs) /\ Len(lines) = Len(lbuf) + n
      /\ pipe' \in Seq(Inputs) /\ Len(pipe') = Len(pipe) - n
  BY <1>1, <1>3, <1>4, LinesFound
\* With other ships around it is the one line that waits.
<1>6. ASSUME ships # <<>>
      PROVE  pipe # <<>> /\ pipe' = <<>> /\ n = 1 /\ late = 0 /\ \A i \in DOMAIN lines : lines[i] = pipe[i] /\ i \in DOMAIN pipe
  <2>1. Len(pipe) <= 1 /\ late = 0 /\ Len(lbuf) <= late
    BY <1>0, <1>6 DEF FewLeft
  <2>2. lbuf = <<>>
    BY <1>4, <2>1
  <2>3. n = 1 /\ Len(pipe) = 1
    <3>1. PICK p \in Nat : p = Len(pipe)
      BY <1>4
    <3>2. n \in 0 .. p /\ p <= 1 /\ n # 0
      BY <1>1, <2>1, <2>2, <3>1
    <3> QED
      BY <3>1, <3>2
  <2>4. lines = SubSeq(pipe, 1, 1) /\ DOMAIN lines = 1 .. 1 /\ DOMAIN pipe = 1 .. 1
    <3>1. SubSeq(pipe, 1, 1) \in Seq(Inputs)
      BY <1>4, <2>3
    <3> QED
      BY <1>3, <1>4, <1>5, <2>2, <2>3, <3>1
  <2>5. lines[1] = pipe[1]
    BY <1>4, <2>3, <2>4
  <2>6. pipe # <<>>
    BY <2>3
  <2>7. pipe' = <<>>
    BY <1>5, <2>3
  <2> QED
    BY <2>1, <2>3, <2>4, <2>5, <2>6, <2>7
<1>7. way = "safe" => Clear
  <2>1. ships = <<>> => Clear
    BY DEF Clear
  <2> QED
    BY <1>0, <1>6, <2>1 DEF Promised
<1>8. Told'
  BY <1>2, <1>6 DEF Told
<1>9. CASE lbuf' = <<>> /\ way' = "other" /\ UNCHANGED <<told, sk, lag, late>>
  <2>1. VoyageType'
    BY <1>0, <1>2, <1>5, <1>9 DEF VoyageType
  <2>2. FewLeft'
    BY <1>0, <1>2, <1>4, <1>6, <1>9 DEF FewLeft
  <2>3. Promised'
    BY <1>9 DEF Promised
  <2> QED
    BY <1>7, <1>8, <2>1, <2>2, <2>3 DEF VoyageInv
<1>10. ASSUME NEW i \in DOMAIN lines, NEW turn \in BOOLEAN,
             lbuf' = Voyage!Left(lines, i), lag' = Len(lines) - i, late' = Voyage!Excess(late + n),
             sk' = Voyage!Run(lines[i], turn).sk, told' = Voyage!Run(lines[i], turn).told,
             way' = Voyage!WayOf(lines[i], Voyage!Run(lines[i], turn))
       PROVE VoyageInv' /\ (way = "safe" => Clear)
  <2>1. lines[i] \in Inputs
    BY <1>5
  <2> DEFINE a == Voyage!Run(lines[i], turn)
  <2>2. /\ a.sk \in Members /\ a.told \in Int
        /\ lines[i].wind.known /\ lines[i].fix =>
             \E planned \in Int : a.sk.old_alpha_star =
                 Voyage!RunVSkipper(lines[i].pos, lines[i].wind.speed, Voyage!AisReports(ships), planned)
    BY <1>0, <2>1, RunAnswers DEF VoyageType
  <2> HIDE DEF a
  <2>3. /\ lbuf' \in Seq(Inputs) /\ lag' \in Nat /\ late' \in Nat
        /\ Len(lbuf') <= late' /\ lag' <= 1 + late'
    <3>1. PICK l \in Nat : l = Len(lbuf)
      BY <1>4
    <3>2. n \in Nat /\ Len(lines) = l + n /\ l <= late
      BY <1>0, <1>4, <1>5, <3>1 DEF FewLeft
    <3>3. /\ lbuf' \in Seq(Inputs) /\ lag' \in Nat /\ lag' <= l + n - 1
          /\ Len(lbuf') = 0 \/ Len(lbuf') <= l + n - 2
      BY <1>5, <1>10, <3>2, LinesLeft
    <3>4. late' \in Nat /\ late' >= late + n - 2
      BY <1>4, <1>10, <3>2 DEF Voyage!Excess
    <3>5. PICK m \in Nat : m = Len(lbuf') /\ (m = 0 \/ m <= l + n - 2)
      BY <3>3
    <3>6. \A k, e, f, g \in Nat : /\ l <= k /\ e >= k + n - 2 /\ g <= l + n - 1 /\ (f = 0 \/ f <= l + n - 2)
                                 => f <= e /\ g <= 1 + e
      BY <3>2
    <3>7. m <= late' /\ lag' <= 1 + late'
      BY <1>4, <3>2, <3>3, <3>4, <3>5, <3>6
    <3> QED
      BY <3>3, <3>4, <3>5, <3>7
  <2>4. VoyageType'
    BY <1>0, <1>2, <1>5, <1>10, <2>2, <2>3 DEF VoyageType, a
  <2>5. FewLeft'
    <3>1. ships # <<>> => Len(pipe') <= 1 /\ late' = 0
      BY <1>6, <1>10 DEF Voyage!Excess
    <3> QED
      BY <1>2, <2>3, <3>1 DEF FewLeft
  <2>6. Promised'
    <3> SUFFICES ASSUME Voyage!WayOf(lines[i], a) = "safe"
                 PROVE  ships # <<>> /\ pipe' = <<>> /\ Voyage!Newest(ships) = 0 /\ SafeHere'
      BY <1>2, <1>10 DEF Promised, a
    <3>1. /\ lines[i].wind.known /\ lines[i].fix
          /\ ships = <<>> \/ \E t \in TimeWindows :
               Voyage!SafeFor(lines[i].pos, lines[i].wind.speed, Voyage!AisReports(ships), t) # {}
          /\ a.told = a.sk.old_alpha_star /\ ships # <<>> /\ Voyage!Newest(ships) = 0
      BY DEF Voyage!WayOf
    <3>2. lines[i].pos = pos /\ lines[i].wind.speed = wind.speed /\ pipe' = <<>>
      BY <1>0, <1>6, <3>1 DEF Told
    <3>3. \E t \in TimeWindows : Voyage!SafeFor(pos, wind.speed, Voyage!AisReports(ships), t) # {}
      BY <3>1, <3>2
    <3>4. PICK planned \in Int : a.told = Voyage!RunVSkipper(pos, wind.speed, Voyage!AisReports(ships), planned)
      BY <2>2, <3>1, <3>2
    <3>5. \E t \in TimeWindows : a.told \in Voyage!SafeFor(pos, wind.speed, Voyage!AisReports(ships), t)
      BY <3>3, <3>4, RanIsSafe
    <3>6. SafeHere'
      BY <1>2, <1>10, <3>5 DEF SafeHere, a, Voyage!AisReports
    <3> QED
      BY <3>1, <3>2, <3>6
  <2> QED
    BY <1>7, <1>8, <2>4, <2>5, <2>6 DEF VoyageInv
<1>11. \/ lbuf' = <<>> /\ way' = "other" /\ UNCHANGED <<told, sk, lag, late>>
       \/ \E i \in DOMAIN lines, turn \in BOOLEAN :
              /\ lbuf' = Voyage!Left(lines, i) /\ lag' = Len(lines) - i /\ late' = Voyage!Excess(late + n)
              /\ sk' = Voyage!Run(lines[i], turn).sk /\ told' = Voyage!Run(lines[i], turn).told
              /\ way' = Voyage!WayOf(lines[i], Voyage!Run(lines[i], turn))
  BY <1>1, <1>3
<1> QED
  BY <1>9, <1>10, <1>11

\* A minute passes: the boat sails as it was told, the ships keep their courses.
LEMMA SailKeeps ==
  ASSUME VoyageInv, Voyage!Sail
  PROVE  VoyageInv' /\ (way = "safe" => Clear') /\ DOMAIN ships' = DOMAIN ships
<1>0. /\ VoyageType /\ FewLeft /\ Told /\ Promised
      /\ Sound(Scenarios[scenario])
  BY SkipperAssumption DEF VoyageInv, VoyageType
<1> DEFINE v == Scenarios[scenario]
<1>1. PICK f \in WindFractions, x \in {Voyage!NoTrouble} \cup Voyage!Trouble, reported \in SUBSET DOMAIN ships :
         /\ pos' = Voyage!Moved(f) /\ ships' = Voyage!ShipsMoved(reported)
         /\ wind' = x.w /\ planFile' = x.file
         /\ pipe' = Append(pipe, [pos |-> pos', wind |-> [x.w EXCEPT !.known = x.known],
                                  fix |-> x.fix, valid |-> x.valid])
  BY DEF Voyage!Sail
<1>2. Len(pipe) < v.burst /\ UNCHANGED <<scenario, lbuf, told, sk, lag, late, way>>
  BY DEF Voyage!Sail, Voyage!Voyage
<1>3. /\ scenario \in DOMAIN Scenarios
      /\ pos \in Places /\ wind \in Winds /\ planFile \in Files
      /\ ships \in Seq(Reported) /\ Len(ships) = Len(v.ships)
      /\ pipe \in Seq(Inputs) /\ sk \in Members /\ told \in Int
  BY <1>0 DEF VoyageType
<1>4. f \in Nat
  BY SkipperAssumption
\* The disturbances.
<1>5. x.w \in Winds /\ x.file \in Files /\ x.known \in BOOLEAN /\ x.fix \in BOOLEAN /\ x.valid \in BOOLEAN
  <2>1. Voyage!NormalizeDeg(wind.angle + 1) \in Int
    <3>1. wind.angle + 1 \in Int
      BY <1>3 DEF Winds
    <3> QED
      BY <3>1, Compass
  <2>2. v.winds \subseteq Int /\ v.files \subseteq Files
    BY <1>0 DEF Sound
  <2> DEFINE n == [w |-> wind, known |-> TRUE, fix |-> TRUE, valid |-> TRUE, file |-> planFile]
             T == [w : Winds, known : BOOLEAN, fix : BOOLEAN, valid : BOOLEAN, file : Files]
  <2>3. n \in T /\ n.w = wind
    BY <1>3
  <2>4. [n EXCEPT !.known = FALSE] \in T /\ [n EXCEPT !.fix = FALSE] \in T /\ [n EXCEPT !.valid = FALSE] \in T
    BY <2>3
  <2>5. \A c \in Files : [n EXCEPT !.file = c] \in T
    BY <2>3
  <2>6. \A a \in Int : [n EXCEPT !.w.angle = a] \in T /\ [n EXCEPT !.w.speed = a] \in T
    <3>1. \A a \in Int : [wind EXCEPT !.angle = a] \in Winds /\ [wind EXCEPT !.speed = a] \in Winds
      BY <1>3 DEF Winds
    <3>2. \A a \in Int : /\ [n EXCEPT !.w.angle = a] = [n EXCEPT !.w = [wind EXCEPT !.angle = a]]
                         /\ [n EXCEPT !.w.speed = a] = [n EXCEPT !.w = [wind EXCEPT !.speed = a]]
      BY <2>3
    <3>3. \A u \in Winds : [n EXCEPT !.w = u] \in T
      BY <2>3
    <3> QED
      BY <3>1, <3>2, <3>3
  <2> HIDE DEF n, T
  <2>7. x \in T
    <3>1. Voyage!NoTrouble = n
      BY DEF Voyage!NoTrouble, n
    <3>2. Voyage!Trouble =
            {[n EXCEPT !.w.angle = Voyage!NormalizeDeg(wind.angle + 1)], [n EXCEPT !.known = FALSE],
             [n EXCEPT !.fix = FALSE], [n EXCEPT !.valid = FALSE]}
            \cup {[n EXCEPT !.w.speed = s] : s \in v.winds} \cup {[n EXCEPT !.file = c] : c \in v.files}
      BY <3>1 DEF Voyage!Trouble, Voyage!Voyage
    <3> QED
      BY <2>1, <2>2, <2>3, <2>4, <2>5, <2>6, <3>1, <3>2
  <2> QED
    BY <2>7 DEF T
\* The boat.
<1>6. Voyage!Sailed(f) \in Places /\ Voyage!Ahead(told, f * Voyage!ExpectedVelocity(wind.speed)) \in Places
      /\ Voyage!Sailed(f) = Voyage!Plus(pos, Voyage!Ahead(told, f * Voyage!ExpectedVelocity(wind.speed)))
  <2>1. f * Voyage!ExpectedVelocity(wind.speed) \in Int
    BY <1>4 DEF Voyage!ExpectedVelocity
  <2>2. Voyage!Ahead(told, f * Voyage!ExpectedVelocity(wind.speed)) \in Places
    BY <1>3, <2>1, Moves2D
  <2> HIDE DEF v
  <2>3. Voyage!Plus(pos, Voyage!Ahead(told, f * Voyage!ExpectedVelocity(wind.speed))) \in Places
    BY <1>3, <2>2 DEF Voyage!Plus, Places
  <2> QED
    BY <2>2, <2>3 DEF Voyage!Sailed
<1>7. pos' \in Places /\ (ships # <<>> => pos' = Voyage!Sailed(f))
  <2>1. Voyage!Sailed(f)[1] \in Int /\ Voyage!Sailed(f)[2] \in Int
    BY <1>6 DEF Places
  <2>2. \A y, lo, hi \in Int : Voyage!Clamp(y, lo, hi) \in Int
    BY DEF Voyage!Clamp
  <2>3. Map[1] \in Int /\ Map[2] \in Int /\ Map[3] \in Int /\ Map[4] \in Int
    BY SkipperAssumption
  <2> QED
    BY <1>1, <1>6, <2>1, <2>2, <2>3 DEF Voyage!Moved, Places
\* The ships.
<1>8. /\ ships' \in Seq(Reported) /\ Len(ships') = Len(ships) /\ DOMAIN ships' = DOMAIN ships
      /\ \A i \in DOMAIN ships : /\ ships[i] \in Reported
                                 /\ ships'[i].position =
                                      Voyage!Plus(ships[i].position, Voyage!Ahead(ships[i].bearing, ships[i].speed))
  <2> DEFINE after(i) == [ships[i] EXCEPT
                 !.position = Voyage!Plus(ships[i].position, Voyage!Ahead(ships[i].bearing, ships[i].speed)),
                 !.age = IF i \in reported THEN 0 ELSE ships[i].age + 1]
  <2>1. ships' = [i \in DOMAIN ships |-> after(i)]
    BY <1>1 DEF Voyage!ShipsMoved
  <2>2. \A i \in DOMAIN ships : ships[i] \in Reported
    BY <1>3
  <2>3. ASSUME NEW i \in DOMAIN ships
        PROVE  /\ after(i) \in Reported
               /\ after(i).position = Voyage!Plus(ships[i].position, Voyage!Ahead(ships[i].bearing, ships[i].speed))
    <3>1. ships[i].position \in Places /\ ships[i].bearing \in Int /\ ships[i].speed \in Int /\ ships[i].age \in Int
      BY <2>2 DEF Reported
    <3>2. Voyage!Ahead(ships[i].bearing, ships[i].speed) \in Places
      BY <3>1 DEF Voyage!Ahead, Places
    <3>3. Voyage!Plus(ships[i].position, Voyage!Ahead(ships[i].bearing, ships[i].speed)) \in Places
      BY <3>1, <3>2 DEF Voyage!Plus, Places
    <3>4. (IF i \in reported THEN 0 ELSE ships[i].age + 1) \in Int
      BY <3>1
    <3> QED
      BY <2>2, <3>3, <3>4 DEF Reported
  <2> HIDE DEF after
  <2>4. DOMAIN ships = 1 .. Len(ships) /\ Len(ships) \in Nat
    BY <1>3
  <2>5. ships' \in [1 .. Len(ships) -> Reported]
    BY <2>1, <2>3, <2>4
  <2>6. ships' \in Seq(Reported) /\ Len(ships') = Len(ships) /\ DOMAIN ships' = DOMAIN ships
    BY <2>4, <2>5
  <2> QED
    BY <2>1, <2>2, <2>3, <2>6
<1>9. ships = <<>> \/ pipe = <<>>
  <2>1. ships # <<>> => v.burst = 1
    <3>1. v.ships \in Seq(Reported)
      BY <1>0 DEF Sound
    <3>2. ships # <<>> => v.ships # <<>>
      BY <1>3, <3>1
    <3> QED
      BY <1>0, <3>2 DEF Sound
  <2>2. Len(pipe) \in Nat
    BY <1>3
  <2>3. v.burst = 1 => pipe = <<>>
    BY <1>2, <1>3, <2>2
  <2> QED
    BY <2>1, <2>3
\* What was safe to sail is sailed.
<1>10. way = "safe" => Clear'
  <2> SUFFICES ASSUME way = "safe", NEW i \in DOMAIN ships PROVE FarFrom(ships'[i], pos')
    BY <1>8 DEF Clear
  <2>1. ships # <<>> /\ pipe = <<>> /\ Voyage!Newest(ships) = 0 /\ SafeHere
    <3>1. ships # <<>>
      BY <1>3
    <3> QED
      BY <1>0, <1>9, <3>1 DEF Promised
  <2>2. PICK t \in TimeWindows : told \in Voyage!SafeFor(pos, wind.speed, Voyage!AisReports(ships), t)
    BY <2>1 DEF SafeHere
  <2>3. t \in Nat \ {0} /\ SafeDistance \in Nat
    BY SkipperAssumption
  <2>4. Voyage!Safe(pos, wind.speed, Voyage!AisReports(ships), t, told)
    BY <2>2 DEF Voyage!SafeFor
  <2> DEFINE r == Voyage!AisReports(ships)[i]
             u == Voyage!Ahead(told, f * Voyage!ExpectedVelocity(wind.speed))
             w == Voyage!Ahead(ships[i].bearing, ships[i].speed)
             d == Voyage!Minus(ships[i].position, pos)
  <2>5. /\ i \in DOMAIN Voyage!AisReports(ships) /\ r.bearing = ships[i].bearing /\ r.speed = ships[i].speed
        /\ Voyage!LocalAis(Voyage!AisReports(ships), r) = ships[i].position
    BY <1>3, <2>1, ReportsAreTrue
  <2>6. Voyage!MinDistanceSafe(u, Voyage!Ahead(r.bearing, r.speed),
                               Voyage!Minus(Voyage!LocalAis(Voyage!AisReports(ships), r), pos), t)
    BY <2>4, <2>5 DEF Voyage!Safe
  <2>7. Voyage!MinDistanceSafe(u, w, d, t)
    BY <2>5, <2>6
  <2>8. ships[i].position \in Places /\ ships[i].bearing \in Int /\ ships[i].speed \in Int
    BY <1>8 DEF Reported
  <2>9. u \in Places /\ w \in Places /\ d \in Places
    <3>1. w \in Places
      BY <2>8 DEF Voyage!Ahead, Places
    <3>2. d \in Places
      BY <1>3, <2>8 DEF Voyage!Minus, Places
    <3> QED
      BY <1>6, <3>1, <3>2
  <2>10. pos' = Voyage!Plus(pos, u) /\ ships'[i].position = Voyage!Plus(ships[i].position, w)
    BY <1>6, <1>7, <1>8, <2>1
  <2> HIDE DEF u, w, d, r
  <2>11. Voyage!Minus(Voyage!Plus(ships[i].position, w), Voyage!Plus(pos, u)) = Voyage!Minus(d, Voyage!Minus(u, w))
    <3>1. \A a, b, m, n \in Places :
             Voyage!Minus(Voyage!Plus(a, n), Voyage!Plus(b, m)) = Voyage!Minus(Voyage!Minus(a, b), Voyage!Minus(m, n))
      BY DEF Voyage!Minus, Voyage!Plus, Places
    <3> QED
      BY <1>3, <2>8, <2>9, <3>1 DEF d
  <2>12. LET e == Voyage!Minus(d, Voyage!Minus(u, w)) IN Voyage!Dot(e, e) >= SafeDistance * SafeDistance
    BY <2>3, <2>7, <2>9, SafeAfterOne
  <2> QED
    BY <2>10, <2>11, <2>12 DEF FarFrom
<1>11. pipe' \in Seq(Inputs) /\ Len(pipe') = Len(pipe) + 1 /\ pipe' # <<>>
  <2> DEFINE in == [pos |-> pos', wind |-> [x.w EXCEPT !.known = x.known], fix |-> x.fix, valid |-> x.valid]
  <2>1. in \in Inputs
    <3>1. [x.w EXCEPT !.known = x.known] \in Winds
      BY <1>5 DEF Winds
    <3> QED
      BY <1>5, <1>7, <3>1 DEF Inputs
  <2>2. pipe' = Append(pipe, in)
    BY <1>1
  <2> HIDE DEF in
  <2> QED
    BY <1>3, <2>1, <2>2
<1>12. VoyageType'
  BY <1>0, <1>1, <1>2, <1>3, <1>5, <1>7, <1>8, <1>11 DEF VoyageType
<1>13. FewLeft'
  <2>1. ships' # <<>> => ships # <<>>
    BY <1>3, <1>8
  <2>2. ships # <<>> => Len(pipe') <= 1
    BY <1>9, <1>11
  <2> QED
    BY <1>0, <1>2, <2>1, <2>2 DEF FewLeft
<1>14. Told'
  <2> SUFFICES ASSUME ships' # <<>>
               PROVE  \A i \in DOMAIN pipe' : pipe'[i].pos = pos' /\ pipe'[i].wind.speed = wind'.speed
    BY DEF Told
  <2>1. pipe = <<>>
    <3>1. ships # <<>>
      BY <1>3, <1>8
    <3> QED
      BY <1>9, <3>1
  <2> DEFINE in == [pos |-> pos', wind |-> [x.w EXCEPT !.known = x.known], fix |-> x.fix, valid |-> x.valid]
  <2>2. in.pos = pos' /\ in.wind.speed = wind'.speed
    BY <1>1, <1>5 DEF Winds
  <2>3. pipe' = Append(pipe, in)
    BY <1>1
  <2> HIDE DEF in
  <2>4. pipe' = <<in>>
    BY <2>1, <2>3
  <2> QED
    BY <2>2, <2>4
<1>15. Promised'
  BY <1>2, <1>10, <1>11 DEF Promised
<1> QED
  BY <1>8, <1>10, <1>12, <1>13, <1>14, <1>15 DEF VoyageInv

LEMMA VoyageStep ==
  ASSUME VoyageInv, [Moves /\ UNCHANGED subject]_mcVars
  PROVE  /\ VoyageInv'
         /\ [way = "safe" => Clear' /\ DOMAIN ships' = DOMAIN ships]_skipperVars
<1>1. CASE UNCHANGED skipperVars
  BY <1>1 DEF skipperVars, VoyageInv, VoyageType, FewLeft, Told, Promised, Clear, SafeHere, FarFrom, Voyage!AisReports
<1>2. CASE Voyage!Next
  <2>1. CASE Voyage!Wake
    <3>1. VoyageInv' /\ (way = "safe" => Clear) /\ UNCHANGED <<pos, ships>>
      BY <2>1, WakeKeeps DEF Voyage!Wake, Voyage!env
    <3> QED
      BY <3>1 DEF Clear, FarFrom
  <2>2. CASE Voyage!Sail
    BY <2>2, SailKeeps
  <2> QED
    BY <1>2, <2>1, <2>2 DEF Voyage!Next
<1> QED
  BY <1>1, <1>2 DEF Moves, LineMoves, TimerMoves, AivdmMoves, AisBufMoves, SkipperMoves, mcVars

\* The skipper answers the newest line or the one before, or lags by what came in excess of
\* two lines a turn, however long it is held up (skipper_main.cc:147-151).
THEOREM AnswersTheNewest == MCSpec => []NeverLags
<1>1. VoyageInv /\ [Moves /\ UNCHANGED subject]_mcVars => VoyageInv'
  BY VoyageStep
<1>2. VoyageInv => NeverLags
  BY DEF VoyageInv, FewLeft, NeverLags, Voyage!NeverLags
<1> QED
  BY <1>1, <1>2, VoyageInitial, PTL DEF MCSpec, mcVars

\* A bearing that was found safe keeps the boat clear of all other ships until the next run,
\* whatever part of its speed it makes, for every safe distance, all windows of time and all
\* speeds (vskipper.cc:20-26, 206-230; util.cc).
THEOREM SafeBearingsKeepClear == MCSpec => KeepsClear
<1> DEFINE ClearNext == [way = "safe" => Clear' /\ DOMAIN ships' = DOMAIN ships]_skipperVars
<1>1. VoyageInv /\ [Moves /\ UNCHANGED subject]_mcVars => VoyageInv' /\ ClearNext
  BY VoyageStep
<1>2. ClearNext => [way = "safe" => \A i \in DOMAIN ships :
                   LET d == Voyage!Minus(ships[i].position, pos)'
                   IN  Voyage!Dot(d, d) >= SafeDistance * SafeDistance]_(Voyage!vars)
  <2>1. Clear' /\ DOMAIN ships' = DOMAIN ships =>
          \A i \in DOMAIN ships : LET d == Voyage!Minus(ships[i].position, pos)'
                                  IN  Voyage!Dot(d, d) >= SafeDistance * SafeDistance
    BY DEF Clear, FarFrom
  <2>2. UNCHANGED skipperVars => UNCHANGED Voyage!vars
    BY DEF skipperVars, Voyage!vars
  <2> QED
    BY <2>1, <2>2
<1> HIDE DEF ClearNext
<1> QED
  BY <1>1, <1>2, VoyageInitial, PTL DEF MCSpec, mcVars, KeepsClear, Voyage!KeepsClear

-----------------------------------------------------------------------------
(* The AIS receiver.                                                       *)

Sentence == [channel : STRING, nfrags : Nat, ifrag : Nat, msg : Messages, bits : Int]
Piece == [msg : Messages, frag : Nat, size : Int]
Contexts == [decoded_frags : Nat, bits : Seq(Piece), mmsi24 : Int, shipname24 : Int]

AisType ==
  /\ todo \subseteq Messages /\ losses \in Nat
  /\ air \in [Ais!Channels -> Seq(Sentence)]
  /\ contexts \in [Ais!Channels -> Contexts]

\* A sentence of a message of channel c.
SentenceOn(s, c) ==
  /\ s.channel = s.msg.channel /\ s.nfrags = s.msg.nfrags /\ s.ifrag \in 1..s.nfrags
  /\ Ais!Way(s.channel) = c

\* After a sentence comes the next of its message, and after the last one the first of another.
Follows(s, t) == IF s.ifrag = s.nfrags THEN t.ifrag = 1 ELSE t.ifrag = s.ifrag + 1 /\ t.msg = s.msg

\* The sentences of a channel are the rest of a message and whole messages.
WholeMessages(q, c) ==
  /\ \A i \in 1..Len(q) : SentenceOn(q[i], c)
  /\ \A i \in 1..(Len(q) - 1) : Follows(q[i], q[i + 1])
  /\ q # <<>> => q[Len(q)].ifrag = q[Len(q)].nfrags

\* What was collected is the head of the message whose next sentence comes now ...
Waiting(ctx, q) ==
  /\ q # <<>> /\ q[1].ifrag = ctx.decoded_frags + 1 /\ Ais!ContextOf(q[1].channel) # "none"
  /\ Len(ctx.bits) = ctx.decoded_frags
  /\ \A i \in 1..ctx.decoded_frags : ctx.bits[i].msg = q[1].msg /\ ctx.bits[i].frag = i

\* ... or of one whose next sentence was the one that was lost, and no other fits.
Missed(ctx, q) ==
  /\ losses >= MaxAisLoss
  /\ q # <<>> => \/ q[1].ifrag = 1 \/ q[1].ifrag > ctx.decoded_frags + 1
                 \/ Ais!ContextOf(q[1].channel) = "none"

Collected(ctx, q) == ctx.decoded_frags > 0 => Waiting(ctx, q) \/ Missed(ctx, q)

\* A name is kept with the number of its ship.
Named(ctx) == ctx.mmsi24 # 0 => ctx.shipname24 = ctx.mmsi24

AisInv ==
  /\ AisType /\ DecodedWasSent
  /\ \A c \in Ais!Channels : /\ WholeMessages(air[c], c)
                             /\ Collected(contexts[c], air[c])
                             /\ Named(contexts[c])

-----------------------------------------------------------------------------
(* Sentences on the air.                                                   *)

LEMMA MessageIsWhole ==
  ASSUME NEW m \in Messages
  PROVE  /\ Ais!Sentences(m) \in Seq(Sentence) /\ Ais!Sentences(m) # <<>>
         /\ Ais!Sentences(m)[1].ifrag = 1
         /\ WholeMessages(Ais!Sentences(m), Ais!Way(m.channel))
<1> DEFINE q == Ais!Sentences(m)
<1>1. m.nfrags \in Nat \ {0} /\ m.bits \in Int /\ m.channel \in STRING
  BY DEF Messages
<1>2. \A i \in 1..m.nfrags : /\ q[i] \in Sentence
                             /\ q[i].channel = m.channel /\ q[i].nfrags = m.nfrags
                             /\ q[i].ifrag = i /\ q[i].msg = m
  BY <1>1 DEF Ais!Sentences, Sentence
<1>21. q \in [1..m.nfrags -> Sentence]
  BY <1>2 DEF Ais!Sentences
<1> HIDE DEF q
<1>3. q \in Seq(Sentence) /\ Len(q) = m.nfrags
  BY <1>1, <1>21
<1>4. \A i \in 1..Len(q) : SentenceOn(q[i], Ais!Way(m.channel))
  BY <1>1, <1>2, <1>3 DEF SentenceOn
<1>5. \A i \in 1..(Len(q) - 1) : Follows(q[i], q[i + 1])
  BY <1>1, <1>2, <1>3 DEF Follows
<1>6. q # <<>> /\ q[1].ifrag = 1 /\ q[Len(q)].ifrag = q[Len(q)].nfrags
  BY <1>1, <1>2, <1>3
<1>7. WholeMessages(q, Ais!Way(m.channel))
  BY <1>4, <1>5, <1>6 DEF WholeMessages
<1> QED
  BY <1>3, <1>6, <1>7 DEF q

LEMMA WholeAfterWhole ==
  ASSUME NEW c, NEW p \in Seq(Sentence), NEW q \in Seq(Sentence),
         WholeMessages(p, c), WholeMessages(q, c), q # <<>>, q[1].ifrag = 1
  PROVE  /\ WholeMessages(p \o q, c) /\ p \o q \in Seq(Sentence) /\ p \o q # <<>>
         /\ (p \o q)[1] = (IF p = <<>> THEN q[1] ELSE p[1])
<1> DEFINE r == p \o q
<1>1. /\ r \in Seq(Sentence) /\ Len(r) = Len(p) + Len(q) /\ Len(p) \in Nat /\ Len(q) \in Nat \ {0}
      /\ \A i \in 1..Len(r) : r[i] = IF i <= Len(p) THEN p[i] ELSE q[i - Len(p)]
  OBVIOUS
<1> HIDE DEF r
<1>2. \A i \in 1..Len(r) : SentenceOn(r[i], c)
  <2> TAKE i \in 1..Len(r)
  <2>1. CASE i <= Len(p)
    BY <1>1, <2>1 DEF WholeMessages
  <2>2. CASE i > Len(p)
    <3>1. i - Len(p) \in 1..Len(q) /\ r[i] = q[i - Len(p)]
      BY <1>1, <2>2
    <3> QED
      BY <3>1 DEF WholeMessages
  <2> QED
    BY <1>1, <2>1, <2>2
<1>3. \A i \in 1..(Len(r) - 1) : Follows(r[i], r[i + 1])
  <2> TAKE i \in 1..(Len(r) - 1)
  <2>1. CASE i < Len(p)
    <3>1. r[i] = p[i] /\ r[i + 1] = p[i + 1] /\ i \in 1..(Len(p) - 1)
      BY <1>1, <2>1
    <3> QED
      BY <3>1 DEF WholeMessages
  <2>2. CASE i = Len(p)
    <3>1. r[i] = p[Len(p)] /\ r[i + 1] = q[1] /\ p # <<>>
      BY <1>1, <2>2
    <3> QED
      BY <3>1 DEF WholeMessages, Follows
  <2>3. CASE i > Len(p)
    <3>1. r[i] = q[i - Len(p)] /\ r[i + 1] = q[(i - Len(p)) + 1] /\ i - Len(p) \in 1..(Len(q) - 1)
      BY <1>1, <2>3
    <3> QED
      BY <3>1 DEF WholeMessages
  <2> QED
    BY <1>1, <2>1, <2>2, <2>3
<1>4. r # <<>> /\ r[Len(r)] = q[Len(q)]
  BY <1>1
<1>5. r[1] = (IF p = <<>> THEN q[1] ELSE p[1])
  BY <1>1
<1>6. WholeMessages(r, c)
  BY <1>2, <1>3, <1>4 DEF WholeMessages
<1> QED
  BY <1>1, <1>4, <1>5, <1>6 DEF r

\* What comes after the first sentence.
LEMMA RestIsWhole ==
  ASSUME NEW c, NEW q \in Seq(Sentence), q # <<>>, WholeMessages(q, c)
  PROVE  /\ Tail(q) \in Seq(Sentence) /\ WholeMessages(Tail(q), c)
         /\ SentenceOn(q[1], c) /\ q[1] \in Sentence
         /\ Tail(q) # <<>> => /\ Follows(q[1], Tail(q)[1]) /\ SentenceOn(Tail(q)[1], c)
                              /\ Tail(q)[1] \in Sentence
         /\ Tail(q) = <<>> => q[1].ifrag = q[1].nfrags
<1> DEFINE r == Tail(q)
<1>1. /\ r \in Seq(Sentence) /\ Len(r) = Len(q) - 1 /\ Len(q) \in Nat \ {0}
      /\ \A i \in 1..Len(r) : r[i] = q[i + 1]
      /\ q[1] \in Sentence
  OBVIOUS
<1> HIDE DEF r
<1>2. \A i \in 1..Len(r) : SentenceOn(r[i], c)
  BY <1>1 DEF WholeMessages
<1>3. \A i \in 1..(Len(r) - 1) : Follows(r[i], r[i + 1])
  <2> TAKE i \in 1..(Len(r) - 1)
  <2>1. r[i] = q[i + 1] /\ r[i + 1] = q[(i + 1) + 1] /\ i + 1 \in 1..(Len(q) - 1)
    BY <1>1
  <2> QED
    BY <2>1 DEF WholeMessages
<1>4. r # <<>> => r[Len(r)] = q[Len(q)] /\ 1 \in 1..(Len(q) - 1) /\ r[1] = q[1 + 1] /\ r[1] \in Sentence
                  /\ 1 \in 1..Len(r)
  BY <1>1
<1>5. r = <<>> => Len(q) = 1
  BY <1>1
<1>6. WholeMessages(r, c)
  BY <1>2, <1>3, <1>4 DEF WholeMessages
<1>7. SentenceOn(q[1], c)
  BY <1>1 DEF WholeMessages
<1>8. r # <<>> => Follows(q[1], r[1]) /\ SentenceOn(r[1], c)
  BY <1>2, <1>4 DEF WholeMessages
<1>9. r = <<>> => q[1].ifrag = q[1].nfrags
  BY <1>5 DEF WholeMessages
<1> QED
  BY <1>1, <1>4, <1>6, <1>7, <1>8, <1>9 DEF r

LEMMA AisInitial == MCInit => AisInv
<1> SUFFICES ASSUME MCInit  PROVE AisInv
  OBVIOUS
<1>1. /\ todo \subseteq Messages
      /\ air = [c \in Ais!Channels |-> <<>>] /\ contexts = [c \in Ais!Channels |-> Ais!Context]
      /\ ais = Ais!NoResult /\ losses = 0
  BY AisAssumption DEF MCInit, Ais!Init
<1>2. /\ Ais!Context \in Contexts /\ Ais!Context.decoded_frags = 0 /\ Ais!Context.mmsi24 = 0
  BY DEF Ais!Context, Contexts
<1>3. AisType
  BY <1>1, <1>2 DEF AisType
<1>4. \A c \in Ais!Channels : /\ WholeMessages(air[c], c)
                              /\ Collected(contexts[c], air[c])
                              /\ Named(contexts[c])
  BY <1>1, <1>2 DEF WholeMessages, Collected, Named
<1>5. DecodedWasSent
  BY <1>1 DEF DecodedWasSent, Ais!DecodedWasSent
<1> QED
  BY <1>3, <1>4, <1>5 DEF AisInv

LEMMA TransmitKeeps ==
  ASSUME AisInv, Ais!Transmit
  PROVE  AisInv'
<1>1. PICK m \in todo : /\ todo' = todo \ {m}
                        /\ air' = [air EXCEPT ![Ais!Way(m.channel)] = @ \o Ais!Sentences(m)]
  BY DEF Ais!Transmit
<1>2. contexts' = contexts /\ ais' = ais /\ losses' = losses
  BY DEF Ais!Transmit
<1>3. m \in Messages
  BY DEF AisInv, AisType
<1> DEFINE w == Ais!Way(m.channel)
           q == Ais!Sentences(m)
<1>4. q \in Seq(Sentence) /\ q # <<>> /\ q[1].ifrag = 1 /\ WholeMessages(q, w)
  BY <1>3, MessageIsWhole
<1>5. \A c \in Ais!Channels : /\ air'[c] = (IF c = w THEN air[c] \o q ELSE air[c])
                              /\ air[c] \in Seq(Sentence) /\ WholeMessages(air[c], c)
                              /\ Collected(contexts[c], air[c])
                              /\ contexts[c].decoded_frags \in Nat
  BY <1>1 DEF AisInv, AisType, Contexts
<1> HIDE DEF w, q
<1>6. ASSUME NEW c \in Ais!Channels
      PROVE  air'[c] \in Seq(Sentence) /\ WholeMessages(air'[c], c) /\ Collected(contexts[c], air'[c])
  <2>1. CASE c # w
    BY <1>5, <2>1
  <2>2. CASE c = w
    <3> DEFINE p == air[c]
               r == p \o q
    <3>0. p \in Seq(Sentence) /\ WholeMessages(p, c) /\ WholeMessages(q, c)
      BY <1>4, <1>5, <2>2
    <3>01. Collected(contexts[c], p)
      BY <1>5
    <3>02. air'[c] = r
      BY <1>5, <2>2
    <3> HIDE DEF p
    <3>1. WholeMessages(r, c) /\ r \in Seq(Sentence) /\ r # <<>> /\ r[1] = (IF p = <<>> THEN q[1] ELSE p[1])
      BY <1>4, <3>0, WholeAfterWhole
    <3> HIDE DEF r
    <3>2. Waiting(contexts[c], p) => Waiting(contexts[c], r)
      BY <3>1 DEF Waiting
    <3>3. Missed(contexts[c], p) => Missed(contexts[c], r)
      BY <1>4, <3>1 DEF Missed
    <3> QED
      BY <3>01, <3>02, <3>1, <3>2, <3>3 DEF Collected
  <2> QED
    BY <2>1, <2>2
<1>7. AisType'
  BY <1>1, <1>2, <1>6 DEF AisInv, AisType
<1>8. \A c \in Ais!Channels : Collected(contexts[c], air[c])'
  BY <1>2, <1>6 DEF Collected, Waiting, Missed
<1>9. DecodedWasSent'
  BY <1>2 DEF AisInv, DecodedWasSent, Ais!DecodedWasSent
<1>10. \A c \in Ais!Channels : Named(contexts[c])' /\ WholeMessages(air[c], c)'
  BY <1>2, <1>6 DEF AisInv, Named, WholeMessages
<1> QED
  BY <1>7, <1>8, <1>9, <1>10 DEF AisInv

\* A lost sentence is missed by all that follow, until a first one comes.
LEMMA LoseKeeps ==
  ASSUME AisInv, Ais!Lose
  PROVE  AisInv'
<1>1. PICK c \in Ais!Channels : /\ air[c] # <<>> /\ losses < MaxAisLoss
                                /\ air' = [air EXCEPT ![c] = Tail(@)]
                                /\ losses' = losses + 1
  BY DEF Ais!Lose
<1>2. contexts' = contexts /\ ais' = ais /\ todo' = todo
  BY DEF Ais!Lose
<1>3. MaxAisLoss \in {0, 1} /\ losses \in Nat /\ losses' \in Nat /\ losses' >= MaxAisLoss /\ losses' >= losses
  BY <1>1, AisAssumption DEF AisInv, AisType
<1>4. \A d \in Ais!Channels : /\ air'[d] = (IF d = c THEN Tail(air[d]) ELSE air[d])
                              /\ air[d] \in Seq(Sentence) /\ WholeMessages(air[d], d)
                              /\ Collected(contexts[d], air[d])
                              /\ contexts[d].decoded_frags \in Nat
  BY <1>1 DEF AisInv, AisType, Contexts
<1>5. ASSUME NEW d \in Ais!Channels
      PROVE  /\ air'[d] \in Seq(Sentence) /\ WholeMessages(air'[d], d)
             /\ contexts[d].decoded_frags > 0 => \/ Waiting(contexts[d], air'[d])
                                                 \/ Missed(contexts[d], air[d])'
  <2>1. CASE d # c
    BY <1>2, <1>3, <1>4, <2>1 DEF Collected, Missed, AisInv, AisType
  <2>2. CASE d = c
    <3> DEFINE q == air[d]
               r == Tail(q)
               k == contexts[d].decoded_frags
    <3>0. q \in Seq(Sentence) /\ q # <<>> /\ WholeMessages(q, d) /\ air'[d] = r /\ k \in Nat
      BY <1>1, <1>4, <2>2
    <3>1. k > 0 => q[1].ifrag = k + 1
      BY <1>1, <1>3, <1>4 DEF Collected, Waiting, Missed
    <3> HIDE DEF q, k
    <3>2. /\ r \in Seq(Sentence) /\ WholeMessages(r, d)
          /\ r # <<>> => Follows(q[1], r[1])
      BY <3>0, RestIsWhole
    <3> HIDE DEF r
    <3>3. k > 0 /\ r # <<>> => r[1].ifrag = 1 \/ r[1].ifrag > k + 1
      BY <3>0, <3>1, <3>2 DEF Follows
    <3>4. k > 0 => Missed(contexts[d], air[d])'
      BY <1>2, <1>3, <3>0, <3>3 DEF Missed, k
    <3> QED
      BY <3>0, <3>2, <3>4 DEF k
  <2> QED
    BY <2>1, <2>2
<1>6. AisType'
  BY <1>1, <1>2, <1>3, <1>5 DEF AisInv, AisType
<1>7. \A d \in Ais!Channels : Collected(contexts[d], air[d])'
  BY <1>2, <1>5 DEF Collected, Waiting, Missed
<1>8. DecodedWasSent'
  BY <1>2 DEF AisInv, DecodedWasSent, Ais!DecodedWasSent
<1>9. \A d \in Ais!Channels : Named(contexts[d])' /\ WholeMessages(air[d], d)'
  BY <1>2, <1>5 DEF AisInv, Named, WholeMessages
<1> QED
  BY <1>6, <1>7, <1>8, <1>9 DEF AisInv

-----------------------------------------------------------------------------
(* A sentence is received.                                                 *)

\* What is collected with s.
Gathered(ctx, s) == Append(IF s.ifrag = 1 THEN <<>> ELSE ctx.bits, [msg |-> s.msg, frag |-> s.ifrag, size |-> s.bits])
Shed(ctx, from) == [ctx EXCEPT !.decoded_frags = 0, !.bits = from]
\* The fragments from the first one to the one of s.
UpTo(from, s) ==
  /\ from \in Seq(Piece) /\ Len(from) = s.ifrag
  /\ \A i \in 1..s.ifrag : from[i].msg = s.msg /\ from[i].frag = i

\* What fits is the next fragment of what was collected.
LEMMA GatheredIsOneMessage ==
  ASSUME NEW ctx \in Contexts, NEW q \in Seq(Sentence), NEW c, q # <<>>,
         Collected(ctx, q), SentenceOn(q[1], c), Ais!ContextOf(q[1].channel) # "none",
         q[1].ifrag = 1 \/ Ais!InOrder(ctx, q[1])
  PROVE  UpTo(Gathered(ctx, q[1]), q[1])
<1> DEFINE s == q[1]
           k == ctx.decoded_frags
           b == ctx.bits
           p == [msg |-> s.msg, frag |-> s.ifrag, size |-> s.bits]
<1>1. s \in Sentence
  OBVIOUS
<1>2. /\ k \in Nat /\ b \in Seq(Piece) /\ s.ifrag \in Nat \ {0} /\ s.msg \in Messages /\ s.bits \in Int
      /\ p \in Piece /\ p.msg = s.msg /\ p.frag = s.ifrag
  BY <1>1 DEF Contexts, Sentence, Piece, SentenceOn
<1>3. CASE s.ifrag = 1
  <2>1. Gathered(ctx, s) = <<p>>
    BY <1>3 DEF Gathered
  <2> QED
    BY <1>2, <1>3, <2>1 DEF UpTo
<1>4. CASE s.ifrag # 1
  <2>1. s.ifrag = k + 1 /\ k > 0
    BY <1>2, <1>4 DEF Ais!InOrder
  <2>2. ~ Missed(ctx, q)
    BY <1>2, <1>4, <2>1 DEF Missed
  <2>3. Len(b) = k /\ \A i \in 1..k : b[i].msg = s.msg /\ b[i].frag = i
    BY <2>1, <2>2 DEF Collected, Waiting
  <2>4. Gathered(ctx, s) = Append(b, p)
    BY <1>4 DEF Gathered
  <2> HIDE DEF s, k, b, p
  <2> DEFINE f == Append(b, p)
  <2>5. f \in Seq(Piece) /\ Len(f) = k + 1 /\ f[k + 1] = p /\ \A i \in 1..k : f[i] = b[i]
    BY <1>2, <2>3
  <2> HIDE DEF f
  <2>6. \A i \in 1..(k + 1) : f[i].msg = s.msg /\ f[i].frag = i
    <3> TAKE i \in 1..(k + 1)
    <3>1. CASE i \in 1..k
      BY <2>3, <2>5, <3>1
    <3>2. CASE i = k + 1
      BY <1>2, <2>1, <2>5, <3>2
    <3> QED
      BY <1>2, <3>1, <3>2
  <2>7. UpTo(f, s)
    BY <2>1, <2>5, <2>6 DEF UpTo
  <2> QED
    BY <2>4, <2>7 DEF f, s
<1> QED
  BY <1>3, <1>4

\* The context after a complete message, and what it is decoded to: the message that its
\* first fragment says, and the name that was kept with its number.
LEMMA DecodeIs ==
  ASSUME NEW ctx \in Contexts, Named(ctx), NEW from \in Seq(Piece), NEW m,
         m.mmsi \in Int \ {0}
  PROVE  LET d == Ais!Decode(ctx, m, from)
         IN  /\ d[1] \in Contexts /\ d[1].decoded_frags = 0 /\ Named(d[1])
             /\ \/ d[2] = Ais!NoResult
                \/ d[2].from = from /\ d[2].head = m /\ (m.type = 24 => d[2].shipname = m.mmsi)
<1> DEFINE d == Ais!Decode(ctx, m, from)
           shed == Shed(ctx, from)
           result(n) == [head |-> m, from |-> from, shipname |-> n]
<1> DEFINE known == [shed EXCEPT !.mmsi24 = m.mmsi, !.shipname24 = m.mmsi]
           used == [shed EXCEPT !.mmsi24 = 0]
<1>01. /\ shed \in Contexts /\ shed.decoded_frags = 0
       /\ shed.mmsi24 = ctx.mmsi24 /\ shed.shipname24 = ctx.shipname24
  BY DEF Shed, Contexts
<1>1. Named(shed)
  BY <1>01 DEF Named
<1> HIDE DEF shed
<1>20. /\ known \in Contexts /\ known.decoded_frags = 0
       /\ known.mmsi24 = m.mmsi /\ known.shipname24 = m.mmsi
  BY <1>01 DEF Contexts
<1>2. Named(known)
  BY <1>20 DEF Named
<1>30. used \in Contexts /\ used.decoded_frags = 0 /\ used.mmsi24 = 0
  BY <1>01 DEF Contexts
<1>3. Named(used)
  BY <1>30 DEF Named
<1>4. \A n : result(n).from = from /\ result(n).head = m /\ result(n).shipname = n
  OBVIOUS
<1>5. \/ d = <<shed, Ais!NoResult>>
      \/ d = <<known, Ais!NoResult>>
      \/ d = <<used, result(ctx.shipname24)>> /\ ctx.mmsi24 = m.mmsi
      \/ d = <<shed, result(0)>> /\ m.type # 24
  BY DEF Ais!Decode, Shed, shed
<1> HIDE DEF known, used, shed, result, d
<1>6. ctx.mmsi24 = m.mmsi => ctx.shipname24 = m.mmsi
  BY DEF Named
<1>7. CASE d = <<shed, Ais!NoResult>>
  BY <1>1, <1>01, <1>7 DEF d
<1>8. CASE d = <<known, Ais!NoResult>>
  BY <1>2, <1>20, <1>8 DEF d
<1>9. CASE d = <<used, result(ctx.shipname24)>> /\ ctx.mmsi24 = m.mmsi
  BY <1>3, <1>30, <1>4, <1>6, <1>9 DEF d
<1>10. CASE d = <<shed, result(0)>> /\ m.type # 24
  BY <1>1, <1>01, <1>4, <1>10 DEF d
<1> QED
  BY <1>5, <1>7, <1>8, <1>9, <1>10

\* The three ways of a sentence s on channel c, whose context is ctx: it does not fit, it is
\* gathered, or it completes a message that is decoded to d.
Outcome(s, c, ctx, from, d) ==
  \/ /\ ~ Ais!InOrder(ctx, s) /\ s.ifrag # 1
     /\ contexts' = [contexts EXCEPT ![c] = ctx] /\ ais' = ais
  \/ /\ Ais!InOrder(ctx, s) \/ s.ifrag = 1
     /\ s.ifrag # s.nfrags
     /\ contexts' = [contexts EXCEPT ![c] = [ctx EXCEPT !.bits = from, !.decoded_frags = s.ifrag]]
     /\ ais' = ais
  \/ /\ Ais!InOrder(ctx, s) \/ s.ifrag = 1
     /\ s.ifrag = s.nfrags
     /\ contexts' = [contexts EXCEPT ![c] = d[1]]
     /\ ais' = (IF d[2] = Ais!NoResult THEN ais ELSE d[2])

LEMMA AivdmDecodeIs ==
  ASSUME NEW s, NEW c, Ais!AivdmDecode(s), Ais!ContextOf(s.channel) = c, c # "none"
  PROVE  LET from == Gathered(contexts[c], s)
         IN  Outcome(s, c, contexts[c], from, Ais!Decode(contexts[c], Ais!HeadOf(from), from))
<1> DEFINE ctx == contexts[c]
           from == Gathered(ctx, s)
           d == Ais!Decode(ctx, Ais!HeadOf(from), from)
           step == IF ~ Ais!InOrder(ctx, s) /\ s.ifrag # 1 THEN <<ctx, Ais!NoResult>>
                   ELSE IF s.ifrag # s.nfrags
                        THEN <<[ctx EXCEPT !.bits = from, !.decoded_frags = s.ifrag], Ais!NoResult>>
                   ELSE d
<1>1. /\ contexts' = [contexts EXCEPT ![c] = step[1]]
      /\ ais' = IF step[2] = Ais!NoResult THEN ais ELSE step[2]
  BY DEF Ais!AivdmDecode, Gathered
<1> HIDE DEF ctx, from, d, step
<1>2. ASSUME ~ Ais!InOrder(ctx, s) /\ s.ifrag # 1
      PROVE  Outcome(s, c, ctx, from, d)
  <2>1. step = <<ctx, Ais!NoResult>>
    BY <1>2 DEF step
  <2> QED
    BY <1>1, <1>2, <2>1 DEF Outcome
<1>3. ASSUME (Ais!InOrder(ctx, s) \/ s.ifrag = 1) /\ s.ifrag # s.nfrags
      PROVE  Outcome(s, c, ctx, from, d)
  <2>1. step = <<[ctx EXCEPT !.bits = from, !.decoded_frags = s.ifrag], Ais!NoResult>>
    BY <1>3 DEF step
  <2> QED
    BY <1>1, <1>3, <2>1 DEF Outcome
<1>4. ASSUME (Ais!InOrder(ctx, s) \/ s.ifrag = 1) /\ s.ifrag = s.nfrags
      PROVE  Outcome(s, c, ctx, from, d)
  <2>1. step = d
    BY <1>4 DEF step
  <2> QED
    BY <1>1, <1>4, <2>1 DEF Outcome
<1>5. Outcome(s, c, ctx, from, d)
  BY <1>2, <1>3, <1>4
<1> QED
  BY <1>5 DEF ctx, from, d

\* What the message of the first fragment says of its number is not changed by the count of
\* its bits.
LEMMA HeadIs ==
  ASSUME NEW from, from[1].msg \in Messages
  PROVE  /\ Ais!HeadOf(from).mmsi = from[1].msg.mmsi /\ from[1].msg.mmsi \in Int \ {0}
         /\ Ais!HeadOf(from).type = from[1].msg.type
BY DEF Ais!HeadOf, Messages

\* A sentence that no context takes, or that does not fit, changes nothing; the next one
\* does not fit either.
LEMMA Ignored ==
  ASSUME NEW ctx \in Contexts, NEW q \in Seq(Sentence), NEW c, q # <<>>, WholeMessages(q, c), Collected(ctx, q),
         \/ Ais!ContextOf(q[1].channel) = "none"
         \/ ~ Ais!InOrder(ctx, q[1]) /\ q[1].ifrag # 1
  PROVE  Collected(ctx, Tail(q))
<1> DEFINE s == q[1]
           r == Tail(q)
           k == ctx.decoded_frags
<1>1. /\ SentenceOn(s, c) /\ s \in Sentence
      /\ r # <<>> => Follows(s, r[1]) /\ SentenceOn(r[1], c) /\ r[1] \in Sentence
  BY RestIsWhole
<1>2. k \in Nat
  BY DEF Contexts
<1>3. CASE k > 0
  <2>1. ~ Waiting(ctx, q)
    BY DEF Waiting, Ais!InOrder
  <2>2. Missed(ctx, q)
    BY <1>3, <2>1 DEF Collected
  <2> HIDE DEF r
  <2>3. /\ losses >= MaxAisLoss
        /\ s.ifrag > k + 1 \/ Ais!ContextOf(s.channel) = "none"
    BY <1>1, <1>2, <1>3, <2>2 DEF Missed, Ais!InOrder, Sentence
  <2>4. s.ifrag \in Nat
    BY <1>1 DEF Sentence
  <2>5. r # <<>> => \/ r[1].ifrag = 1
                    \/ r[1].ifrag = s.ifrag + 1 /\ r[1].channel = s.channel
    <3>1. r # <<>> => s.channel = s.msg.channel /\ r[1].channel = r[1].msg.channel /\ Follows(s, r[1])
      BY <1>1 DEF SentenceOn
    <3> QED
      BY <3>1 DEF Follows
  <2>6. r # <<>> => \/ r[1].ifrag = 1 \/ r[1].ifrag > k + 1 \/ Ais!ContextOf(r[1].channel) = "none"
    BY <1>2, <2>3, <2>4, <2>5
  <2> QED
    BY <2>3, <2>6 DEF Collected, Missed, k, r
<1> QED
  BY <1>2, <1>3 DEF Collected

\* After a fragment that is not the last one the next of its message is waited for.
LEMMA GatheredWaits ==
  ASSUME NEW ctx \in Contexts, NEW q \in Seq(Sentence), NEW c, q # <<>>, WholeMessages(q, c),
         Ais!ContextOf(q[1].channel) # "none", q[1].ifrag # q[1].nfrags,
         UpTo(Gathered(ctx, q[1]), q[1])
  PROVE  LET e == [ctx EXCEPT !.bits = Gathered(ctx, q[1]), !.decoded_frags = q[1].ifrag]
         IN  e \in Contexts /\ Collected(e, Tail(q)) /\ e.mmsi24 = ctx.mmsi24 /\ e.shipname24 = ctx.shipname24
<1> DEFINE s == q[1]
           r == Tail(q)
           from == Gathered(ctx, s)
           e == [ctx EXCEPT !.bits = from, !.decoded_frags = s.ifrag]
<1>1. /\ SentenceOn(s, c) /\ s \in Sentence
      /\ r # <<>> => Follows(s, r[1]) /\ SentenceOn(r[1], c) /\ r[1] \in Sentence
      /\ r = <<>> => s.ifrag = s.nfrags
  BY RestIsWhole
<1>2. s.ifrag \in Nat
  BY <1>1 DEF Sentence
<1>3. from \in Seq(Piece) /\ Len(from) = s.ifrag /\ \A i \in 1..s.ifrag : from[i].msg = s.msg /\ from[i].frag = i
  BY DEF UpTo
<1> HIDE DEF from, r
<1>4. /\ e \in Contexts /\ e.decoded_frags = s.ifrag /\ e.bits = from
      /\ e.mmsi24 = ctx.mmsi24 /\ e.shipname24 = ctx.shipname24
  BY <1>2, <1>3 DEF Contexts
<1>5. r # <<>> /\ r[1].ifrag = s.ifrag + 1 /\ r[1].msg = s.msg /\ r[1].channel = s.channel
  BY <1>1 DEF Follows, SentenceOn
<1> HIDE DEF e
<1>6. Waiting(e, r)
  BY <1>3, <1>4, <1>5 DEF Waiting
<1> QED
  BY <1>4, <1>6 DEF Collected, e, r, from

LEMMA ReceiveKeeps ==
  ASSUME AisInv, Ais!Receive
  PROVE  AisInv'
<1>1. PICK c \in Ais!Channels : /\ air[c] # <<>> /\ air' = [air EXCEPT ![c] = Tail(@)]
                                /\ Ais!AivdmDecode(Head(air[c]))
  BY DEF Ais!Receive
<1>2. todo' = todo /\ losses' = losses
  BY DEF Ais!Receive
<1> DEFINE q == air[c]
           s == q[1]
           ctx == contexts[c]
           from == Gathered(ctx, s)
<1>3. /\ q \in Seq(Sentence) /\ q # <<>> /\ WholeMessages(q, c)
      /\ ctx \in Contexts /\ Collected(ctx, q) /\ Named(ctx) /\ Head(q) = s
      /\ air' \in [Ais!Channels -> Seq(Sentence)] /\ air'[c] = Tail(q)
      /\ \A d \in Ais!Channels : d # c => air'[d] = air[d]
  <2>1. q \in Seq(Sentence) /\ q # <<>>
    BY <1>1 DEF AisInv, AisType
  <2>2. Head(q) = s /\ Tail(q) \in Seq(Sentence)
    BY <2>1
  <2> QED
    BY <1>1, <2>1, <2>2 DEF AisInv, AisType
<1>4. /\ SentenceOn(s, c) /\ s \in Sentence /\ WholeMessages(Tail(q), c)
  BY <1>3, RestIsWhole
\* What is left to be shown: a context for the rest of the channel, and the result.
<1> DEFINE Carried(e) == /\ contexts' = [contexts EXCEPT ![c] = e]
                       /\ e \in Contexts /\ Collected(e, Tail(q)) /\ Named(e)
<1>5. ASSUME NEW e, Carried(e), DecodedWasSent'
      PROVE  AisInv'
  <2>1. \A d \in Ais!Channels : /\ contexts'[d] = (IF d = c THEN e ELSE contexts[d])
                                /\ contexts[d] \in Contexts
                                /\ Collected(contexts[d], air[d]) /\ Named(contexts[d]) /\ WholeMessages(air[d], d)
    BY <1>5 DEF AisInv, AisType
  <2>2. contexts' \in [Ais!Channels -> Contexts]
    BY <1>5 DEF AisInv, AisType
  <2>3. AisType'
    BY <1>2, <1>3, <2>2 DEF AisInv, AisType
  <2>4. \A d \in Ais!Channels : /\ Collected(contexts'[d], air'[d]) /\ Named(contexts'[d])
                                /\ WholeMessages(air'[d], d)
    BY <1>3, <1>4, <1>5, <2>1
  <2>5. \A d \in Ais!Channels : /\ Collected(contexts[d], air[d])' /\ Named(contexts[d])'
                                /\ WholeMessages(air[d], d)'
    BY <1>2, <2>4 DEF Collected, Waiting, Missed, Named, WholeMessages
  <2> QED
    BY <1>5, <2>3, <2>5 DEF AisInv
<1>6. ais' = ais => DecodedWasSent'
  BY DEF AisInv, DecodedWasSent, Ais!DecodedWasSent
<1>7. CASE Ais!ContextOf(s.channel) = "none"
  <2>1. contexts' = contexts /\ ais' = ais
    BY <1>1, <1>3, <1>7 DEF Ais!AivdmDecode
  <2>2. Collected(ctx, Tail(q))
    BY <1>3, <1>7, Ignored
  <2>3. contexts' = [contexts EXCEPT ![c] = ctx]
    BY <2>1 DEF AisInv, AisType
  <2> QED
    BY <1>3, <1>5, <1>6, <2>1, <2>2, <2>3
<1>8. CASE Ais!ContextOf(s.channel) # "none"
  <2>0. Ais!ContextOf(s.channel) = c /\ c # "none"
    BY <1>4, <1>8 DEF SentenceOn, Ais!Way
  <2> DEFINE h == Ais!HeadOf(from)
             d == Ais!Decode(ctx, h, from)
  <2> HIDE DEF q, s, from, ctx, Carried
  <2>1. Outcome(s, c, ctx, from, d)
    <3>1. Ais!AivdmDecode(s)
      BY <1>1, <1>3 DEF q
    <3> QED
      BY <2>0, <3>1, AivdmDecodeIs DEF from, ctx
  <2>2. Ais!InOrder(ctx, s) \/ s.ifrag = 1 => UpTo(from, s)
    BY <1>3, <1>4, <1>8, GatheredIsOneMessage DEF from, s
  <2>3. CASE ~ Ais!InOrder(ctx, s) /\ s.ifrag # 1
    <3>1. Collected(ctx, Tail(q))
      BY <1>3, <2>3, Ignored DEF s
    <3>2. contexts' = [contexts EXCEPT ![c] = ctx] /\ ais' = ais
      BY <2>1, <2>3 DEF Outcome
    <3> QED
      BY <1>3, <1>5, <1>6, <3>1, <3>2 DEF Carried
  <2>4. CASE (Ais!InOrder(ctx, s) \/ s.ifrag = 1) /\ s.ifrag # s.nfrags
    <3> DEFINE e == [ctx EXCEPT !.bits = from, !.decoded_frags = s.ifrag]
    <3>1. contexts' = [contexts EXCEPT ![c] = e] /\ ais' = ais
      BY <2>1, <2>4 DEF Outcome
    <3>2. e \in Contexts /\ Collected(e, Tail(q)) /\ e.mmsi24 = ctx.mmsi24 /\ e.shipname24 = ctx.shipname24
      BY <1>3, <1>8, <2>2, <2>4, GatheredWaits DEF from, s
    <3> HIDE DEF e
    <3>3. Named(e)
      BY <1>3, <3>2 DEF Named
    <3> QED
      BY <1>5, <1>6, <3>1, <3>2, <3>3 DEF Carried
  <2>5. CASE (Ais!InOrder(ctx, s) \/ s.ifrag = 1) /\ s.ifrag = s.nfrags
    <3>1. /\ contexts' = [contexts EXCEPT ![c] = d[1]]
          /\ ais' = (IF d[2] = Ais!NoResult THEN ais ELSE d[2])
      BY <2>1, <2>5 DEF Outcome
    <3>2. /\ from \in Seq(Piece) /\ Len(from) = s.ifrag
          /\ \A i \in 1..s.ifrag : from[i].msg = s.msg /\ from[i].frag = i
      BY <2>2, <2>5 DEF UpTo
    <3>3. s.msg \in Messages /\ s.ifrag \in Nat \ {0} /\ s.nfrags = s.msg.nfrags
      BY <1>4 DEF Sentence, SentenceOn
    <3>4. from[1].msg = s.msg
      BY <3>2, <3>3
    <3>5. h.mmsi \in Int \ {0} /\ h.mmsi = s.msg.mmsi
      BY <3>3, <3>4, HeadIs
    <3> HIDE DEF h
    <3>6. /\ d[1] \in Contexts /\ d[1].decoded_frags = 0 /\ Named(d[1])
          /\ \/ d[2] = Ais!NoResult
             \/ d[2].from = from /\ d[2].head = h /\ (h.type = 24 => d[2].shipname = h.mmsi)
      BY <1>3, <3>2, <3>5, DecodeIs
    <3> HIDE DEF d
    <3>7. Collected(d[1], Tail(q))
      BY <3>6 DEF Collected
    <3>8. DecodedWasSent'
      <4>1. CASE ais' = ais
        BY <1>6, <4>1
      <4>2. CASE ais' = d[2] /\ d[2] # Ais!NoResult
        <5>1. ais'.from = from /\ (ais'.head.type = 24 => ais'.shipname = ais'.head.mmsi)
          BY <3>6, <4>2
        <5>2. DOMAIN from = 1..s.ifrag
          BY <3>2
        <5> QED
          BY <2>5, <3>2, <3>3, <3>4, <5>1, <5>2 DEF DecodedWasSent, Ais!DecodedWasSent
      <4> QED
        BY <3>1, <4>1, <4>2
    <3> QED
      BY <1>5, <3>1, <3>6, <3>7, <3>8 DEF Carried
  <2> QED
    BY <2>3, <2>4, <2>5
<1> QED
  BY <1>7, <1>8

LEMMA AisStep ==
  ASSUME AisInv, [Moves /\ UNCHANGED subject]_mcVars
  PROVE  AisInv'
<1>1. CASE UNCHANGED aivdmVars
  BY <1>1 DEF aivdmVars, AisInv, AisType, DecodedWasSent, Ais!DecodedWasSent, WholeMessages, Collected, Waiting,
              Missed, Named
<1>2. CASE Ais!Next
  BY <1>2, TransmitKeeps, ReceiveKeeps, LoseKeeps DEF Ais!Next
<1> QED
  BY <1>1, <1>2 DEF Moves, LineMoves, TimerMoves, AivdmMoves, AisBufMoves, SkipperMoves, mcVars

\* A message that is decoded was sent like that, whatever messages are sent on the two
\* channels in whichever order, and whichever sentence is lost; and a class B ship gets its
\* own name (aivdm.c:265-282, 1040-1066).
THEOREM DecodedAsSent == MCSpec => []DecodedWasSent
<1>1. AisInv /\ [Moves /\ UNCHANGED subject]_mcVars => AisInv'
  BY AisStep
<1>2. AisInv => DecodedWasSent
  BY DEF AisInv
<1> QED
  BY <1>1, <1>2, AisInitial, PTL DEF MCSpec, mcVars

-----------------------------------------------------------------------------
(* The list of what was heard: its invariant.  A list is of the newest words, and while the  *)
(* clock only goes forward it is in order and misses nothing that is recent.             *)

Lines == [mmsi : Int, msgtype : Nat, timestamp : Int]
Words == {l \in Lines : l.msgtype # 0}

\* The places in h of the newest word of each ship and kind.
Newest(h) == {i \in DOMAIN h : \A j \in DOMAIN h : j > i => Buf!Kind(h[i]) # Buf!Kind(h[j])}

\* A list is of the newest words, each once, the last one first.
Lists(m, h) ==
  /\ m \in Seq(Words) /\ h \in Seq(Words)
  /\ IF h = <<>> THEN m = <<>> ELSE m # <<>> /\ m[1] = h[Len(h)]
  /\ \A k \in DOMAIN m : \E i \in Newest(h) : m[k] = h[i]
  /\ \A k, l \in DOMAIN m : k < l => Buf!Kind(m[k]) # Buf!Kind(m[l])

\* By a clock that only goes forward the list is in order, and nothing that is recent is missing
\* as long as there is room.
Recent(h, i) == h[i].timestamp + garbage_s >= h[Len(h)].timestamp
Ordered(m, h) ==
  /\ \A i, j \in DOMAIN h : i < j => h[i].timestamp <= h[j].timestamp
  /\ \A k, l \in DOMAIN m : k < l => m[l].timestamp <= m[k].timestamp
  /\ Cardinality(Newest(h)) <= HighWatermark =>
        \A i \in Newest(h) : Recent(h, i) => \E k \in DOMAIN m : m[k] = h[i]

\* What waits behind the n-th line was dated after what was heard.
WaitsBehind(h, p, n) ==
  \A i \in DOMAIN h : /\ h[i].timestamp <= now
                      /\ \A j \in DOMAIN p : n < j => h[i].timestamp <= p[j].timestamp
Dated(p) ==
  /\ \A i, j \in DOMAIN p : i < j => p[i].timestamp <= p[j].timestamp
  /\ \A j \in DOMAIN p : p[j].timestamp <= now

BufType ==
  /\ now \in Int /\ jumps \in Nat /\ badcnt \in Nat /\ aisPipe \in Seq(Lines)
  /\ wrote \in BOOLEAN
InTime == jumps = 0 =>
  Ordered(msgs, heard) /\ WaitsBehind(heard, aisPipe, 0) /\ Dated(aisPipe)
Written == wrote => /\ aisFile = msgs /\ msgs # <<>>
                    /\ \A k \in DOMAIN msgs : msgs[k].timestamp + garbage_s >= msgs[1].timestamp
BufInv == BufType /\ Lists(msgs, heard) /\ InTime /\ Written

-----------------------------------------------------------------------------
LEMMA SameIsKind ==
  ASSUME NEW a \in Words, NEW b \in Words
  PROVE  Buf!samemsg(a, b) <=> Buf!Kind(a) = Buf!Kind(b)
<1>1. /\ a.msgtype \in Nat /\ a.msgtype # 0 /\ b.msgtype \in Nat /\ b.msgtype # 0
  BY DEF Words, Lines
<1> DEFINE A == IF a.msgtype <= 3 THEN 1 ELSE a.msgtype
           B == IF b.msgtype <= 3 THEN 1 ELSE b.msgtype
<1>2. Buf!Kind(a) = Buf!Kind(b) <=> a.mmsi = b.mmsi /\ A = B
  BY DEF Buf!Kind
<1>3. A = B <=> (a.msgtype = b.msgtype \/ {a.msgtype, b.msgtype} \subseteq {1, 2, 3})
  BY <1>1
<1> HIDE DEF A, B
<1> QED
  BY <1>2, <1>3 DEF Buf!samemsg

-----------------------------------------------------------------------------
(* The lines that stay, in their order.                                     *)

OthersOf(list, w, n, o) ==
  /\ o \in Seq(Words)
  /\ \A p \in DOMAIN o : \E i \in 1..n : o[p] = list[i] /\ ~ Buf!samemsg(list[i], w)
  /\ \A i \in 1..n : ~ Buf!samemsg(list[i], w) => \E p \in DOMAIN o : o[p] = list[i]
  /\ \A p, q \in DOMAIN o : p < q => \E i, j \in 1..n : i < j /\ o[p] = list[i] /\ o[q] = list[j]

LEMMA OneOther ==
  ASSUME NEW list \in Seq(Words), NEW w \in Words, NEW n \in 0..(Len(list) - 1), NEW o,
         OthersOf(list, w, n, o)
  PROVE  OthersOf(list, w, n + 1, Buf!Other(o, list[n + 1], w))
<1> DEFINE m == list[n + 1]
<1>1. m \in Words /\ n + 1 \in 1..(n + 1) /\ n \in Nat /\ o \in Seq(Words) /\ Len(o) \in Nat
  BY DEF OthersOf
<1>2. \A i \in 1..n : i \in 1..(n + 1) /\ i < n + 1
  BY <1>1
<1>3. \A i \in 1..(n + 1) : i \in 1..n \/ i = n + 1
  BY <1>1
<1>4. ASSUME Buf!samemsg(m, w)
      PROVE  OthersOf(list, w, n + 1, o)
  BY <1>1, <1>2, <1>3, <1>4 DEF OthersOf
<1>5. ASSUME ~ Buf!samemsg(m, w)
      PROVE  OthersOf(list, w, n + 1, Append(o, m))
  <2> DEFINE r == Append(o, m)
             e == Len(o) + 1
  <2>1. /\ r \in Seq(Words) /\ DOMAIN r = 1..e /\ r[e] = m /\ e \in DOMAIN r
        /\ \A p \in DOMAIN o : p \in DOMAIN r /\ r[p] = o[p]
        /\ \A p \in DOMAIN r : p \in DOMAIN o \/ p = e
        /\ \A p \in DOMAIN o : p < e
        /\ \A p \in DOMAIN r : ~ (e < p)
    BY <1>1
  <2> HIDE DEF r, e, m
  <2>2. ASSUME NEW p \in DOMAIN r
        PROVE  \E i \in 1..(n + 1) : r[p] = list[i] /\ ~ Buf!samemsg(list[i], w)
    <3>1. CASE p = e
      <4>1. r[p] = list[n + 1] /\ ~ Buf!samemsg(list[n + 1], w)
        BY <1>5, <2>1, <3>1 DEF m
      <4> QED
        BY <1>1, <4>1
    <3>2. CASE p \in DOMAIN o
      <4>1. PICK i \in 1..n : o[p] = list[i] /\ ~ Buf!samemsg(list[i], w)
        BY <3>2 DEF OthersOf
      <4> QED
        BY <1>2, <2>1, <3>2, <4>1
    <3> QED
      BY <2>1, <3>1, <3>2
  <2>3. \A i \in 1..(n + 1) : ~ Buf!samemsg(list[i], w) => \E p \in DOMAIN r : r[p] = list[i]
    BY <1>1, <1>3, <2>1 DEF OthersOf, m
  <2>4. ASSUME NEW p \in DOMAIN r, NEW q \in DOMAIN r, p < q
        PROVE  \E i, j \in 1..(n + 1) : i < j /\ r[p] = list[i] /\ r[q] = list[j]
    <3>1. p \in DOMAIN o
      BY <2>1, <2>4
    <3>2. CASE q = e
      <4>1. PICK i \in 1..n : o[p] = list[i]
        BY <3>1 DEF OthersOf
      <4> QED
        BY <1>1, <1>2, <2>1, <3>1, <3>2, <4>1 DEF m
    <3>3. CASE q \in DOMAIN o
      <4>1. PICK i \in 1..n, j \in 1..n : i < j /\ o[p] = list[i] /\ o[q] = list[j]
        BY <2>4, <3>1, <3>3 DEF OthersOf
      <4> QED
        BY <1>2, <2>1, <3>1, <3>3, <4>1
    <3> QED
      BY <2>1, <3>2, <3>3
  <2> QED
    BY <2>1, <2>2, <2>3, <2>4 DEF OthersOf, r
<1> QED
  BY <1>4, <1>5 DEF Buf!Other

LEMMA OthersAre ==
  ASSUME NEW list \in Seq(Words), NEW w \in Words
  PROVE  OthersOf(list, w, Len(list), Buf!Others(list, w))
<1> DEFINE n == Len(list)
           Body(g) == [k \in 0 .. n |-> IF k = 0 THEN <<>> ELSE Buf!Other(g[k - 1], list[k], w)]
           Step == [k \in 1 .. n |-> [x \in Seq(Words) |-> Buf!Other(x, list[k], w)]]
           rest == CHOOSE g : g = Body(g)
<1>1. n \in Nat /\ \A k \in 1 .. n : list[k] \in Words
  OBVIOUS
<1>2. Buf!Others(list, w) = rest[n]
  BY DEF Buf!Others
<1>3. \A x \in Seq(Words), m \in Words : Buf!Other(x, m, w) \in Seq(Words)
  BY DEF Buf!Other
<1>4. <<>> \in Seq(Words)
  OBVIOUS
<1>5. Steps(n, Seq(Words), <<>>, Step)
  BY <1>1, <1>3, <1>4 DEF Steps
<1>6. PICK g : Taken(g, n, Seq(Words), <<>>, Step)
  <2> HIDE DEF n, Step
  <2> QED
    BY <1>5, StepByStep
<1>7. g = Body(g)
  <2>1. ASSUME NEW k \in 0 .. n
        PROVE  g[k] = IF k = 0 THEN <<>> ELSE Buf!Other(g[k - 1], list[k], w)
    <3>1. CASE k = 0
      BY <1>6, <3>1 DEF Taken
    <3>2. CASE k # 0
      <4>1. k \in 1 .. n /\ k - 1 \in 0 .. n
        BY <1>1, <3>2
      <4> QED
        BY <1>6, <3>2, <4>1 DEF Taken
    <3> QED
      BY <3>1, <3>2
  <2> QED
    BY <1>6, <2>1 DEF Taken
<1>8. rest = Body(rest)
  <2> HIDE DEF Body
  <2> QED
    BY <1>7
<1> HIDE DEF rest
<1>9. \A k \in 0 .. n : rest[k] = IF k = 0 THEN <<>> ELSE Buf!Other(rest[k - 1], list[k], w)
  BY <1>8
<1>10. rest[0] = <<>> /\ \A k \in 1 .. n : rest[k] = Buf!Other(rest[k - 1], list[k], w)
  BY <1>1, <1>9
<1> DEFINE Fine == {k \in 0 .. n : OthersOf(list, w, k, rest[k])}
<1>11. 0 \in Fine
  <2>1. OthersOf(list, w, 0, <<>>)
    BY <1>4 DEF OthersOf
  <2> QED
    BY <1>1, <1>10, <2>1
<1>12. ASSUME NEW k \in 0 .. n - 1, k \in Fine PROVE k + 1 \in Fine
  <2>1. k + 1 \in 1 .. n /\ k + 1 \in 0 .. n /\ (k + 1) - 1 = k
    BY <1>1
  <2>2. rest[k + 1] = Buf!Other(rest[k], list[k + 1], w)
    BY <1>10, <2>1
  <2>3. OthersOf(list, w, k + 1, Buf!Other(rest[k], list[k + 1], w))
    BY <1>12, OneOther
  <2> QED
    BY <2>1, <2>2, <2>3
<1>13. \A k \in 0 .. n : k \in Fine
  <2> HIDE DEF Fine
  <2> QED
    BY <1>1, <1>11, <1>12, CountUp
<1> QED
  BY <1>1, <1>2, <1>13

-----------------------------------------------------------------------------
(* The newest words.                                                        *)

LEMMA NewestAfter ==
  ASSUME NEW h \in Seq(Words), NEW w \in Words
  PROVE  /\ Len(Append(h, w)) = Len(h) + 1 /\ Append(h, w)[Len(h) + 1] = w /\ Append(h, w) \in Seq(Words)
         /\ \A i \in DOMAIN h : i \in DOMAIN Append(h, w) /\ Append(h, w)[i] = h[i] /\ i < Len(h) + 1
         /\ \A i \in DOMAIN Append(h, w) : i \in DOMAIN h \/ i = Len(h) + 1
         /\ Len(h) + 1 \in Newest(Append(h, w))
         /\ \A i \in DOMAIN h : i \in Newest(Append(h, w)) <=> i \in Newest(h) /\ Buf!Kind(h[i]) # Buf!Kind(w)
<1> DEFINE r == Append(h, w)
           e == Len(h) + 1
<1>1. /\ Len(r) = e /\ r[e] = w /\ r \in Seq(Words) /\ e \in DOMAIN r
      /\ \A i \in DOMAIN h : i \in DOMAIN r /\ r[i] = h[i] /\ i < e
      /\ \A i \in DOMAIN r : i \in DOMAIN h \/ i = e
      /\ \A i \in DOMAIN r : ~ (e < i)
  OBVIOUS
<1>2. \A i, j \in DOMAIN r : j > i <=> i < j
  OBVIOUS
<1>3. \A i, j \in DOMAIN h : j > i <=> i < j
  OBVIOUS
<1> HIDE DEF r, e
<1>4. e \in Newest(r)
  BY <1>1, <1>2 DEF Newest
<1>5. ASSUME NEW i \in DOMAIN h
      PROVE  i \in Newest(r) <=> i \in Newest(h) /\ Buf!Kind(h[i]) # Buf!Kind(w)
  <2>1. ASSUME i \in Newest(r) PROVE i \in Newest(h) /\ Buf!Kind(h[i]) # Buf!Kind(w)
    <3>1. Buf!Kind(r[i]) # Buf!Kind(r[e])
      BY <1>1, <1>2, <2>1 DEF Newest
    <3>2. ASSUME NEW j \in DOMAIN h, j > i PROVE Buf!Kind(h[i]) # Buf!Kind(h[j])
      BY <1>1, <2>1, <3>2 DEF Newest
    <3> QED
      BY <1>1, <3>1, <3>2 DEF Newest
  <2>2. ASSUME i \in Newest(h), Buf!Kind(h[i]) # Buf!Kind(w) PROVE i \in Newest(r)
    <3>1. ASSUME NEW j \in DOMAIN r, j > i PROVE Buf!Kind(r[i]) # Buf!Kind(r[j])
      BY <1>1, <2>2, <3>1 DEF Newest
    <3> QED
      BY <1>1, <3>1 DEF Newest
  <2> QED
    BY <2>1, <2>2
<1> QED
  BY <1>1, <1>4, <1>5 DEF r, e

\* There are never fewer.
LEMMA NewestFinite ==
  ASSUME NEW h \in Seq(Words)
  PROVE  IsFiniteSet(Newest(h)) /\ Cardinality(Newest(h)) \in Nat
<1>1. Newest(h) \in SUBSET (1..Len(h)) /\ 1 \in Int /\ Len(h) \in Int
  BY DEF Newest
<1> QED
  BY <1>1, FS_Interval, FS_Subset, FS_CardinalityType

LEMMA NewestGrow ==
  ASSUME NEW h \in Seq(Words), NEW w \in Words
  PROVE  Cardinality(Newest(h)) <= Cardinality(Newest(Append(h, w)))
<1> DEFINE r == Append(h, w)
           e == Len(h) + 1
           f == [i \in Newest(h) |-> IF Buf!Kind(h[i]) = Buf!Kind(w) THEN e ELSE i]
<1>1. \A i \in Newest(h) : i \in DOMAIN h /\ i # e
  BY DEF Newest
<1>2. r \in Seq(Words) /\ e \in Newest(r)
      /\ \A i \in Newest(h) : Buf!Kind(h[i]) # Buf!Kind(w) => i \in Newest(r)
  BY <1>1, NewestAfter
<1>3. \A i, j \in Newest(h) : Buf!Kind(h[i]) = Buf!Kind(h[j]) => i = j
  <2>1. \A i, j \in DOMAIN h : i < j \/ j < i \/ i = j
    OBVIOUS
  <2> QED
    BY <2>1 DEF Newest
<1> HIDE DEF r, e
<1>4. f \in [Newest(h) -> Newest(r)]
  BY <1>2
<1>5. \A i, j \in Newest(h) : f[i] = f[j] => i = j
  BY <1>1, <1>3
<1> HIDE DEF f
<1>6. f \in Injection(Newest(h), Newest(r))
  BY <1>4, <1>5 DEF Injection, IsInjective
<1> QED
  BY <1>2, <1>6, NewestFinite, FS_Injection DEF r

\* A list is not longer than there are.
LEMMA NoLonger ==
  ASSUME NEW m, NEW h, Lists(m, h)
  PROVE  Len(m) \in Nat /\ Len(m) <= Cardinality(Newest(h))
<1> DEFINE f == [k \in 1..Len(m) |-> CHOOSE i \in Newest(h) : m[k] = h[i]]
<1>1. Len(m) \in Nat /\ DOMAIN m = 1..Len(m) /\ h \in Seq(Words)
  BY DEF Lists
<1>2. \A k \in 1..Len(m) : f[k] \in Newest(h) /\ m[k] = h[f[k]]
  BY <1>1 DEF Lists
<1>3. \A k, l \in 1..Len(m) : k < l \/ l < k \/ k = l
  BY <1>1
<1>4. f \in [1..Len(m) -> Newest(h)]
  BY <1>2
<1> HIDE DEF f
<1>5. \A k, l \in 1..Len(m) : f[k] = f[l] => k = l
  BY <1>1, <1>2, <1>3 DEF Lists
<1>6. f \in Injection(1..Len(m), Newest(h))
  BY <1>4, <1>5 DEF Injection, IsInjective
<1>7. Cardinality(1..Len(m)) = Len(m)
  <2>1. 1 \in Int /\ Len(m) \in Int /\ (IF 1 > Len(m) THEN 0 ELSE Len(m) - 1 + 1) = Len(m)
    BY <1>1
  <2> QED
    BY <2>1, FS_Interval
<1> QED
  BY <1>1, <1>6, <1>7, NewestFinite, FS_Injection

-----------------------------------------------------------------------------
(* A line that is parsed.                                                   *)

LEMMA InFront ==
  ASSUME NEW o \in Seq(Words), NEW w \in Words
  PROVE  /\ <<w>> \o o \in Seq(Words) /\ 1 \in DOMAIN (<<w>> \o o) /\ (<<w>> \o o)[1] = w
         /\ <<w>> \o o # <<>>
         /\ \A p \in DOMAIN o : p + 1 \in DOMAIN (<<w>> \o o) /\ (<<w>> \o o)[p + 1] = o[p]
         /\ \A k \in DOMAIN (<<w>> \o o) :
               \/ k = 1
               \/ k - 1 \in DOMAIN o /\ k > 1 /\ (<<w>> \o o)[k] = o[k - 1]
<1> DEFINE q == <<w>> \o o
           n == Len(o)
<1>1. n \in Nat /\ DOMAIN o = 1..n /\ <<w>> \in Seq(Words) /\ Len(<<w>>) = 1 /\ <<w>>[1] = w
  OBVIOUS
<1>2. q \in Seq(Words) /\ Len(q) = 1 + n
  BY <1>1
<1>3. \A k \in 1..(1 + n) : q[k] = IF k <= 1 THEN w ELSE o[k - 1]
  BY <1>1
<1>4. DOMAIN q = 1..(1 + n) /\ q # <<>>
  BY <1>1, <1>2
<1> HIDE DEF q, n
<1>5. ASSUME NEW p \in DOMAIN o PROVE p + 1 \in DOMAIN q /\ q[p + 1] = o[p]
  <2>1. p + 1 \in 1..(1 + n) /\ ~ (p + 1 <= 1) /\ (p + 1) - 1 = p
    BY <1>1
  <2> QED
    BY <1>3, <1>4, <2>1
<1>6. ASSUME NEW k \in DOMAIN q, k # 1 PROVE k - 1 \in DOMAIN o /\ k > 1 /\ q[k] = o[k - 1]
  <2>1. k \in 1..(1 + n) /\ k > 1 /\ ~ (k <= 1) /\ k - 1 \in 1..n
    BY <1>1, <1>4, <1>6
  <2> QED
    BY <1>1, <1>3, <2>1
<1>7. 1 \in DOMAIN q /\ q[1] = w
  BY <1>1, <1>3, <1>4
<1> QED
  BY <1>2, <1>4, <1>5, <1>6, <1>7 DEF q

LEMMA ListedKeeps ==
  ASSUME NEW m, NEW h, NEW w \in Words, Lists(m, h)
  PROVE  Lists(<<w>> \o Buf!Others(m, w), Append(h, w))
<1> DEFINE r == Append(h, w)
           o == Buf!Others(m, w)
           q == <<w>> \o o
           e == Len(h) + 1
           n == Len(m)
<1>1. m \in Seq(Words) /\ h \in Seq(Words) /\ DOMAIN m = 1..n /\ \A i \in 1..n : m[i] \in Words
  BY DEF Lists
<1>2. OthersOf(m, w, n, o)
  BY <1>1, OthersAre
<1> HIDE DEF o, n
<1>3. /\ q \in Seq(Words) /\ 1 \in DOMAIN q /\ q[1] = w /\ q # <<>>
      /\ \A k \in DOMAIN q : k = 1 \/ (k - 1 \in DOMAIN o /\ k > 1 /\ q[k] = o[k - 1])
  BY <1>2, InFront DEF OthersOf
<1>4. /\ Len(r) = e /\ r[e] = w /\ r \in Seq(Words) /\ r # <<>> /\ e \in Newest(r)
      /\ \A i \in DOMAIN h : r[i] = h[i]
      /\ \A i \in DOMAIN h : i \in Newest(r) <=> i \in Newest(h) /\ Buf!Kind(h[i]) # Buf!Kind(w)
  BY <1>1, NewestAfter
<1>5. \A p \in DOMAIN o : Buf!Kind(o[p]) # Buf!Kind(w) /\ \E i \in DOMAIN m : o[p] = m[i]
  BY <1>1, <1>2, SameIsKind DEF OthersOf
<1> HIDE DEF r, q, e
<1>6. ASSUME NEW k \in DOMAIN q PROVE \E i \in Newest(r) : q[k] = r[i]
  <2>1. CASE k = 1
    BY <1>3, <1>4, <2>1
  <2>2. CASE k # 1
    <3>1. k - 1 \in DOMAIN o /\ q[k] = o[k - 1]
      BY <1>3, <2>2
    <3>2. PICK j \in DOMAIN m : o[k - 1] = m[j]
      BY <1>5, <3>1
    <3>3. PICK i \in Newest(h) : m[j] = h[i]
      BY DEF Lists
    <3>4. i \in DOMAIN h
      BY DEF Newest
    <3> QED
      BY <1>4, <1>5, <3>1, <3>2, <3>3, <3>4
  <2> QED
    BY <2>1, <2>2
<1>7. ASSUME NEW k \in DOMAIN q, NEW l \in DOMAIN q, k < l PROVE Buf!Kind(q[k]) # Buf!Kind(q[l])
  <2>1. l - 1 \in DOMAIN o /\ q[l] = o[l - 1]
    <3>1. l # 1
      BY <1>3, <1>7
    <3> QED
      BY <1>3, <3>1
  <2>2. CASE k = 1
    BY <1>3, <1>5, <2>1, <2>2
  <2>3. CASE k # 1
    <3>1. k - 1 \in DOMAIN o /\ q[k] = o[k - 1] /\ k - 1 < l - 1
      <4>1. k \in Int /\ l \in Int
        BY <1>3
      <4> QED
        BY <1>3, <1>7, <2>3, <4>1
    <3>2. PICK i \in 1..n, j \in 1..n : i < j /\ o[k - 1] = m[i] /\ o[l - 1] = m[j]
      BY <1>2, <2>1, <3>1 DEF OthersOf
    <3> QED
      BY <1>1, <2>1, <3>1, <3>2 DEF Lists
  <2> QED
    BY <2>2, <2>3
<1>8. Lists(q, r)
  BY <1>3, <1>4, <1>6, <1>7 DEF Lists
<1> QED
  BY <1>8 DEF q, r, o

LEMMA ListedOrdered ==
  ASSUME NEW m, NEW h, NEW w \in Words, Lists(m, h), Ordered(m, h),
         \A i \in DOMAIN h : h[i].timestamp <= w.timestamp
  PROVE  Ordered(<<w>> \o Buf!Others(m, w), Append(h, w))
<1> DEFINE r == Append(h, w)
           o == Buf!Others(m, w)
           q == <<w>> \o o
           e == Len(h) + 1
           n == Len(m)
<1>1. m \in Seq(Words) /\ h \in Seq(Words) /\ DOMAIN m = 1..n /\ n \in Nat /\ \A i \in 1..n : m[i] \in Words
  BY DEF Lists
<1>2. OthersOf(m, w, n, o)
  BY <1>1, OthersAre
<1> HIDE DEF o, n
<1>3. /\ q \in Seq(Words) /\ 1 \in DOMAIN q /\ q[1] = w /\ q # <<>>
      /\ \A p \in DOMAIN o : p + 1 \in DOMAIN q /\ q[p + 1] = o[p]
      /\ \A k \in DOMAIN q : k = 1 \/ (k - 1 \in DOMAIN o /\ k > 1 /\ q[k] = o[k - 1])
  BY <1>2, InFront DEF OthersOf
<1>4. /\ Len(r) = e /\ r[e] = w /\ r \in Seq(Words)
      /\ \A i \in DOMAIN h : r[i] = h[i] /\ i < e
      /\ \A i \in DOMAIN r : i \in DOMAIN h \/ i = e
      /\ \A i \in DOMAIN h : i \in Newest(r) <=> i \in Newest(h) /\ Buf!Kind(h[i]) # Buf!Kind(w)
  BY <1>1, NewestAfter
<1>5. \A i \in DOMAIN h : h[i] \in Words /\ h[i].timestamp \in Int /\ w.timestamp \in Int
  BY <1>1 DEF Words, Lines
<1>6. Cardinality(Newest(h)) <= Cardinality(Newest(r)) /\ Cardinality(Newest(r)) \in Nat
      /\ Cardinality(Newest(h)) \in Nat
  <2>1. r \in Seq(Words)
    BY <1>4
  <2>2. Cardinality(Newest(r)) \in Nat /\ Cardinality(Newest(h)) \in Nat
    BY <1>1, <2>1, NewestFinite
  <2> QED
    BY <1>1, <2>2, NewestGrow
<1> HIDE DEF r, q, e
<1>7. ASSUME NEW i \in DOMAIN r, NEW j \in DOMAIN r, i < j PROVE r[i].timestamp <= r[j].timestamp
  <2>1. i \in DOMAIN h
    <3>1. \A k \in DOMAIN h : k < e
      BY <1>4
    <3>2. i \in Int /\ j \in Int /\ e \in Int
      BY <1>1, <1>4 DEF e
    <3> QED
      BY <1>4, <1>7, <3>1, <3>2
  <2>2. CASE j = e
    BY <1>4, <2>1, <2>2
  <2>3. CASE j # e
    BY <1>4, <1>7, <2>1, <2>3 DEF Ordered
  <2> QED
    BY <2>2, <2>3
<1>8. ASSUME NEW k \in DOMAIN q, NEW l \in DOMAIN q, k < l PROVE q[l].timestamp <= q[k].timestamp
  <2>1. k \in Int /\ l \in Int
    BY <1>3
  <2>2. l - 1 \in DOMAIN o /\ q[l] = o[l - 1]
    BY <1>3, <1>8, <2>1
  <2>3. CASE k = 1
    <3>1. PICK i \in 1..n : o[l - 1] = m[i]
      BY <1>2, <2>2 DEF OthersOf
    <3>2. PICK j \in Newest(h) : m[i] = h[j]
      BY <1>1 DEF Lists
    <3>3. j \in DOMAIN h
      BY DEF Newest
    <3> QED
      BY <1>3, <2>2, <2>3, <3>1, <3>2, <3>3
  <2>4. CASE k # 1
    <3>1. k - 1 \in DOMAIN o /\ q[k] = o[k - 1] /\ k - 1 < l - 1
      BY <1>3, <1>8, <2>1, <2>4
    <3>2. PICK i \in 1..n, j \in 1..n : i < j /\ o[k - 1] = m[i] /\ o[l - 1] = m[j]
      BY <1>2, <2>2, <3>1 DEF OthersOf
    <3> QED
      BY <1>1, <2>2, <3>1, <3>2 DEF Ordered
  <2> QED
    BY <2>3, <2>4
<1>9. ASSUME Cardinality(Newest(r)) <= HighWatermark, NEW i \in Newest(r), Recent(r, i)
      PROVE  \E k \in DOMAIN q : q[k] = r[i]
  <2>1. i \in DOMAIN r
    BY DEF Newest
  <2>2. CASE i = e
    BY <1>3, <1>4, <2>2
  <2>3. CASE i \in DOMAIN h
    <3>1. i \in Newest(h) /\ Buf!Kind(h[i]) # Buf!Kind(w) /\ r[i] = h[i]
      BY <1>4, <1>9, <2>3
    <3>2. Recent(h, i)
      <4>1. h # <<>> /\ Len(h) \in DOMAIN h
        BY <1>1, <2>3
      <4>2. h[Len(h)].timestamp <= w.timestamp /\ h[Len(h)].timestamp \in Int /\ h[i].timestamp \in Int
            /\ w.timestamp \in Int /\ h[i].timestamp + garbage_s >= w.timestamp
        BY <1>4, <1>5, <1>9, <2>3, <3>1, <4>1 DEF Recent
      <4> QED
        BY <4>2, BufAssumption DEF Recent
    <3>3. Cardinality(Newest(h)) <= HighWatermark
      BY <1>6, <1>9, BufAssumption
    <3>4. PICK k \in 1..n : m[k] = h[i]
      BY <1>1, <3>1, <3>2, <3>3 DEF Ordered
    <3>5. ~ Buf!samemsg(m[k], w)
      BY <1>1, <3>1, <3>4, SameIsKind
    <3>6. PICK p \in DOMAIN o : o[p] = m[k]
      BY <1>2, <3>5 DEF OthersOf
    <3> QED
      BY <1>3, <3>1, <3>4, <3>6
  <2> QED
    BY <1>4, <2>1, <2>2, <2>3
<1>10. Ordered(q, r)
  BY <1>7, <1>8, <1>9 DEF Ordered
<1> QED
  BY <1>10 DEF q, r, o

-----------------------------------------------------------------------------
(* A list that is cut off.                                                  *)

LEMMA CutOff ==
  ASSUME NEW m \in Seq(Words), NEW n \in 1..Len(m)
  PROVE  /\ SubSeq(m, 1, n) \in Seq(Words) /\ DOMAIN SubSeq(m, 1, n) = 1..n /\ SubSeq(m, 1, n) # <<>>
         /\ \A k \in 1..n : k \in DOMAIN m /\ SubSeq(m, 1, n)[k] = m[k]
<1>1. n \in Nat /\ Len(m) \in Nat /\ n >= 1 /\ n <= Len(m) /\ DOMAIN m = 1..Len(m)
  OBVIOUS
<1>2. Len(SubSeq(m, 1, n)) = n /\ SubSeq(m, 1, n) \in Seq(Words)
  BY <1>1
<1>3. \A k \in 1..n : SubSeq(m, 1, n)[k] = m[k]
  BY <1>1
<1> QED
  BY <1>1, <1>2, <1>3

LEMMA FrontLists ==
  ASSUME NEW m, NEW h, Lists(m, h), NEW n \in 1..Len(m)
  PROVE  Lists(SubSeq(m, 1, n), h)
<1>1. m \in Seq(Words) /\ m # <<>> /\ h # <<>>
  BY DEF Lists
<1> DEFINE q == SubSeq(m, 1, n)
<1>2. q \in Seq(Words) /\ DOMAIN q = 1..n /\ q # <<>> /\ \A k \in DOMAIN q : k \in DOMAIN m /\ q[k] = m[k]
  BY <1>1, CutOff
<1>3. 1 \in DOMAIN q
  BY <1>2
<1> HIDE DEF q
<1>4. Lists(q, h)
  BY <1>1, <1>2, <1>3 DEF Lists
<1> QED
  BY <1>4 DEF q

LEMMA FrontOrdered ==
  ASSUME NEW m, NEW h, Lists(m, h), Ordered(m, h), NEW n \in 1..Len(m),
         Cardinality(Newest(h)) <= HighWatermark =>
            \A i \in Newest(h) : Recent(h, i) => \A k \in DOMAIN m : m[k] = h[i] => k \in 1..n
  PROVE  Ordered(SubSeq(m, 1, n), h)
<1>1. m \in Seq(Words)
  BY DEF Lists
<1> DEFINE q == SubSeq(m, 1, n)
<1>2. DOMAIN q = 1..n /\ \A k \in DOMAIN q : k \in DOMAIN m /\ q[k] = m[k]
  BY <1>1, CutOff
<1> HIDE DEF q
<1>3. Ordered(q, h)
  BY <1>2 DEF Ordered
<1> QED
  BY <1>3 DEF q

\* Only a list that has no room for all is cleaned.
LEMMA CleanedKeeps ==
  ASSUME NEW m, NEW h, Lists(m, h)
  PROVE  Lists(Buf!Cleaned(m), h) /\ (Ordered(m, h) => Ordered(Buf!Cleaned(m), h))
<1>1. CASE Len(m) > HighWatermark
  <2>1. Len(m) \in Nat /\ LowWatermark \in 1..Len(m)
    BY <1>1, NoLonger, BufAssumption
  <2>2. ~ (Cardinality(Newest(h)) <= HighWatermark)
    <3>1. h \in Seq(Words)
      BY DEF Lists
    <3>2. Cardinality(Newest(h)) \in Nat /\ Len(m) <= Cardinality(Newest(h))
      BY <3>1, NoLonger, NewestFinite
    <3> QED
      BY <1>1, <2>1, <3>2, BufAssumption
  <2> QED
    BY <1>1, <2>1, <2>2, FrontLists, FrontOrdered DEF Buf!Cleaned
<1>2. CASE ~ (Len(m) > HighWatermark)
  BY <1>2 DEF Buf!Cleaned
<1> QED
  BY <1>1, <1>2

\* What is written is as much of the list as is recent.
LEMMA FreshKeeps ==
  ASSUME NEW m, NEW h, Lists(m, h), m # <<>>
  PROVE  /\ Lists(Buf!Fresh(m), h) /\ (Ordered(m, h) => Ordered(Buf!Fresh(m), h))
         /\ Buf!Fresh(m) # <<>>
         /\ \A k \in DOMAIN Buf!Fresh(m) : Buf!Fresh(m)[k].timestamp + garbage_s >= Buf!Fresh(m)[1].timestamp
<1> DEFINE stale == {i \in DOMAIN m : \/ m[i].timestamp > m[1].timestamp
                                      \/ m[i].timestamp + garbage_s < m[1].timestamp}
           first == CHOOSE i \in stale : \A j \in stale : i <= j
<1>1. m \in Seq(Words) /\ h \in Seq(Words) /\ DOMAIN m = 1..Len(m) /\ Len(m) \in Nat /\ 1 \in DOMAIN m
      /\ h # <<>> /\ m[1] = h[Len(h)]
  BY DEF Lists
<1>2. \A i \in DOMAIN m : m[i].timestamp \in Int
  BY <1>1 DEF Words, Lines
<1>3. \A i \in DOMAIN m : i \notin stale => m[i].timestamp + garbage_s >= m[1].timestamp
  BY <1>1, <1>2, BufAssumption
<1>4. 1 \notin stale
  BY <1>1, <1>2, BufAssumption
<1>5. CASE stale = {}
  <2>1. Buf!Fresh(m) = m
    BY <1>5 DEF Buf!Fresh
  <2> QED
    BY <1>3, <1>5, <2>1
<1>6. CASE stale # {}
  <2>1. stale \subseteq Nat
    BY <1>1
  <2>2. first \in stale /\ \A j \in stale : first <= j
    <3> HIDE DEF stale
    <3> QED
      BY <1>6, <2>1, LeastNumber
  <2>3. Buf!Fresh(m) = SubSeq(m, 1, first - 1)
    BY <1>6 DEF Buf!Fresh
  <2>4. first - 1 \in 1..Len(m) /\ first \in Nat
    <3>1. first \in DOMAIN m /\ first # 1
      BY <1>4, <2>2
    <3> HIDE DEF first, stale
    <3> QED
      BY <1>1, <3>1
  <2>5. /\ DOMAIN Buf!Fresh(m) = 1..(first - 1) /\ Buf!Fresh(m) # <<>>
        /\ \A k \in 1..(first - 1) : k \in DOMAIN m /\ Buf!Fresh(m)[k] = m[k]
    <3> HIDE DEF first
    <3> QED
      BY <1>1, <2>3, <2>4, CutOff
  <2>6. \A k \in 1..(first - 1) : k \notin stale
    <3> HIDE DEF first, stale
    <3> QED
      BY <2>2, <2>4
  <2>7. 1 \in 1..(first - 1)
    <3> HIDE DEF first, stale
    <3> QED
      BY <2>4
  <2>8. ASSUME Ordered(m, h), NEW i \in Newest(h), Recent(h, i), NEW k \in DOMAIN m, m[k] = h[i]
        PROVE  k \in 1..(first - 1)
    <3>1. m[k].timestamp + garbage_s >= m[1].timestamp
      BY <1>1, <2>8 DEF Recent
    <3>2. first \in DOMAIN m
      BY <2>2
    <3>3. m[first].timestamp + garbage_s < m[1].timestamp
      <4>1. 1 < first
        <5> HIDE DEF first, stale
        <5> QED
          BY <2>4
      <4>2. m[first].timestamp <= m[1].timestamp
        <5> HIDE DEF first, stale
        <5> QED
          BY <1>1, <2>8, <3>2, <4>1 DEF Ordered
      <4>3. m[first].timestamp > m[1].timestamp \/ m[first].timestamp + garbage_s < m[1].timestamp
        <5> HIDE DEF first
        <5> QED
          BY <2>2
      <4> HIDE DEF first, stale
      <4> QED
        BY <1>1, <1>2, <3>2, <4>2, <4>3
    <3> HIDE DEF first, stale
    <3>4. k < first
      <4> SUFFICES ASSUME ~ (k < first) PROVE FALSE
        OBVIOUS
      <4>1. k = first \/ first < k
        BY <1>1, <2>4
      <4>2. m[k].timestamp <= m[first].timestamp
        BY <1>2, <2>8, <3>2, <4>1 DEF Ordered
      <4>3. m[k].timestamp \in Int /\ m[first].timestamp \in Int /\ m[1].timestamp \in Int /\ garbage_s \in Int
        BY <1>1, <1>2, <3>2, BufAssumption
      <4> QED
        BY <3>1, <3>3, <4>2, <4>3
    <3> QED
      BY <1>1, <2>4, <3>4
  <2>9. \A k \in 1..(first - 1) : m[k].timestamp + garbage_s >= m[1].timestamp
    <3> HIDE DEF first, stale
    <3> QED
      BY <1>3, <2>5, <2>6
  <2>10. Lists(Buf!Fresh(m), h)
    <3> HIDE DEF first, stale
    <3> QED
      BY <2>3, <2>4, FrontLists
  <2>11. ASSUME Ordered(m, h) PROVE Ordered(Buf!Fresh(m), h)
    <3> HIDE DEF first, stale
    <3> QED
      BY <2>3, <2>4, <2>8, <2>11, FrontOrdered
  <2> HIDE DEF first, stale
  <2> QED
    BY <2>5, <2>7, <2>9, <2>10, <2>11
<1> HIDE DEF stale
<1> QED
  BY <1>5, <1>6

-----------------------------------------------------------------------------
(* The lines that are read at once.                                         *)

Sts == [msgs : Seq(Words), bad : Nat, heard : Seq(Words)]
Reading(st, k) ==
  /\ st \in Sts /\ Lists(st.msgs, st.heard)
  /\ jumps = 0 => Ordered(st.msgs, st.heard) /\ WaitsBehind(st.heard, aisPipe, k)

LEMMA ReadOnType ==
  ASSUME NEW st \in Sts, NEW w \in Lines
  PROVE  Buf!ReadOn(st, w) \in Sts
<1>1. st.msgs \in Seq(Words) /\ st.bad \in Nat /\ st.heard \in Seq(Words)
  BY DEF Sts
<1>2. CASE w.msgtype = 0
  BY <1>1, <1>2 DEF Buf!ReadOn, Buf!Listed, Sts
<1>3. CASE w.msgtype # 0
  <2>1. w \in Words
    BY <1>3 DEF Words
  <2>2. <<w>> \o Buf!Others(st.msgs, w) \in Seq(Words) /\ Append(st.heard, w) \in Seq(Words)
    <3>1. Buf!Others(st.msgs, w) \in Seq(Words)
      BY <1>1, <2>1, OthersAre DEF OthersOf
    <3> QED
      BY <1>1, <2>1, <3>1, InFront
  <2> QED
    BY <1>1, <1>3, <2>2 DEF Buf!ReadOn, Buf!Listed, Sts
<1> QED
  BY <1>2, <1>3

LEMMA ReadOnKeeps ==
  ASSUME BufType, jumps = 0 => Dated(aisPipe),
         NEW k \in 0..(Len(aisPipe) - 1), NEW st, Reading(st, k)
  PROVE  Reading(Buf!ReadOn(st, aisPipe[k + 1]), k + 1)
<1> DEFINE w == aisPipe[k + 1]
<1>1. /\ aisPipe \in Seq(Lines) /\ k + 1 \in DOMAIN aisPipe /\ k < k + 1 /\ k \in Nat
      /\ w \in Lines /\ st \in Sts
      /\ \A j \in DOMAIN aisPipe : j \in Nat /\ (k + 1 < j => k < j)
  BY DEF BufType, Reading
<1>2. Buf!ReadOn(st, w) \in Sts
  BY <1>1, ReadOnType
<1>3. Reading(st, k + 1)
  BY <1>1 DEF Reading, WaitsBehind
<1>4. CASE Buf!ReadOn(st, w) = st
  BY <1>3, <1>4
<1>5. CASE w.msgtype = 0
  <2>1. Buf!ReadOn(st, w).msgs = st.msgs /\ Buf!ReadOn(st, w).heard = st.heard
    BY <1>5 DEF Buf!ReadOn, Buf!Listed
  <2> QED
    BY <1>2, <1>3, <2>1 DEF Reading
<1>6. CASE w.msgtype # 0 /\ Buf!ReadOn(st, w) # st
  <2> DEFINE m == st.msgs
             h == st.heard
  <2>1. w \in Words /\ Lists(m, h) /\ h \in Seq(Words)
    BY <1>1, <1>6 DEF Words, Reading, Lists
  <2>2. Buf!ReadOn(st, w).msgs = <<w>> \o Buf!Others(m, w) /\ Buf!ReadOn(st, w).heard = Append(h, w)
    BY <1>6 DEF Buf!ReadOn, Buf!Listed
  <2>3. Lists(<<w>> \o Buf!Others(m, w), Append(h, w))
    BY <2>1, ListedKeeps
  <2>4. ASSUME jumps = 0
        PROVE  Ordered(<<w>> \o Buf!Others(m, w), Append(h, w)) /\ WaitsBehind(Append(h, w), aisPipe, k + 1)
    <3>1. Ordered(m, h) /\ WaitsBehind(h, aisPipe, k) /\ Dated(aisPipe)
      BY <2>4 DEF Reading
    <3>2. \A i \in DOMAIN h : h[i].timestamp <= w.timestamp
      BY <1>1, <3>1 DEF WaitsBehind
    <3>3. Ordered(<<w>> \o Buf!Others(m, w), Append(h, w))
      BY <2>1, <3>1, <3>2, ListedOrdered
    <3>4. /\ \A i \in DOMAIN Append(h, w) : i \in DOMAIN h \/ i = Len(h) + 1
          /\ \A i \in DOMAIN h : Append(h, w)[i] = h[i]
          /\ Append(h, w)[Len(h) + 1] = w
      BY <2>1, NewestAfter
    <3>5. w.timestamp <= now /\ \A j \in DOMAIN aisPipe : k + 1 < j => w.timestamp <= aisPipe[j].timestamp
      BY <1>1, <3>1 DEF Dated
    <3> HIDE DEF w, h
    <3>6. WaitsBehind(Append(h, w), aisPipe, k + 1)
      BY <1>1, <3>1, <3>4, <3>5 DEF WaitsBehind
    <3> QED
      BY <3>3, <3>6
  <2> DEFINE st2 == Buf!ReadOn(st, w)
  <2>5. st2.msgs = <<w>> \o Buf!Others(m, w) /\ st2.heard = Append(h, w) /\ st2 \in Sts
    BY <1>2, <2>2
  <2> HIDE DEF w, m, h, st2
  <2>6. Lists(st2.msgs, st2.heard) /\ (jumps = 0 => Ordered(st2.msgs, st2.heard) /\ WaitsBehind(st2.heard, aisPipe, k + 1))
    BY <2>3, <2>4, <2>5
  <2> QED
    BY <2>5, <2>6 DEF Reading, st2, w
<1> QED
  BY <1>4, <1>5, <1>6

LEMMA ReadIs ==
  ASSUME BufInv, NEW n \in 0..Len(aisPipe)
  PROVE  Reading(Buf!Read(n), n)
<1> DEFINE s == [msgs |-> msgs, bad |-> badcnt, heard |-> heard]
           Body(g) == [k \in 0 .. n |-> IF k = 0 THEN s ELSE Buf!ReadOn(g[k - 1], aisPipe[k])]
           Step == [k \in 1 .. n |-> [x \in Sts |-> Buf!ReadOn(x, aisPipe[k])]]
           after == CHOOSE g : g = Body(g)
<1>1. n \in Nat /\ aisPipe \in Seq(Lines) /\ \A k \in 1 .. n : aisPipe[k] \in Lines
  BY DEF BufInv, BufType
<1>2. Buf!Read(n) = after[n]
  BY DEF Buf!Read
<1>3. s \in Sts
  BY DEF BufInv, BufType, Lists, Sts
<1>4. Reading(s, 0)
  BY <1>3 DEF Reading, BufInv, InTime
<1> HIDE DEF s
<1>5. Steps(n, Sts, s, Step)
  BY <1>1, <1>3, ReadOnType DEF Steps
<1>6. PICK g : Taken(g, n, Sts, s, Step)
  <2> HIDE DEF Step
  <2> QED
    BY <1>5, StepByStep
<1>7. g = Body(g)
  <2>1. ASSUME NEW k \in 0 .. n
        PROVE  g[k] = IF k = 0 THEN s ELSE Buf!ReadOn(g[k - 1], aisPipe[k])
    <3>1. CASE k = 0
      BY <1>6, <3>1 DEF Taken
    <3>2. CASE k # 0
      <4>1. k \in 1 .. n /\ k - 1 \in 0 .. n
        BY <1>1, <3>2
      <4> QED
        BY <1>6, <3>2, <4>1 DEF Taken
    <3> QED
      BY <3>1, <3>2
  <2> QED
    BY <1>6, <2>1 DEF Taken
<1>8. after = Body(after)
  <2> HIDE DEF Body
  <2> QED
    BY <1>7
<1> HIDE DEF after
<1>9. \A k \in 0 .. n : after[k] = IF k = 0 THEN s ELSE Buf!ReadOn(after[k - 1], aisPipe[k])
  BY <1>8
<1>10. after[0] = s /\ \A k \in 1 .. n : after[k] = Buf!ReadOn(after[k - 1], aisPipe[k])
  BY <1>1, <1>9
<1> DEFINE Fine == {k \in 0 .. n : Reading(after[k], k)}
<1>11. 0 \in Fine
  BY <1>1, <1>4, <1>10
<1>12. ASSUME NEW k \in 0 .. n - 1, k \in Fine PROVE k + 1 \in Fine
  <2>1. k + 1 \in 1 .. n /\ k + 1 \in 0 .. n /\ (k + 1) - 1 = k /\ k \in 0 .. (Len(aisPipe) - 1)
    BY <1>1
  <2>2. after[k + 1] = Buf!ReadOn(after[k], aisPipe[k + 1])
    BY <1>10, <2>1
  <2>3. Reading(Buf!ReadOn(after[k], aisPipe[k + 1]), k + 1)
    BY <1>12, <2>1, ReadOnKeeps DEF BufInv, InTime
  <2> QED
    BY <2>1, <2>2, <2>3
<1>13. \A k \in 0 .. n : k \in Fine
  <2> HIDE DEF Fine
  <2> QED
    BY <1>1, <1>11, <1>12, CountUp
<1> QED
  BY <1>1, <1>2, <1>13

-----------------------------------------------------------------------------
(* Every step keeps the list.                                               *)

LEMMA Behind ==
  ASSUME NEW s \in Seq(Lines), NEW n \in 0..Len(s)
  PROVE  /\ SubSeq(s, n + 1, Len(s)) \in Seq(Lines) /\ DOMAIN SubSeq(s, n + 1, Len(s)) = 1..(Len(s) - n)
         /\ \A j \in 1..(Len(s) - n) : /\ n + j \in DOMAIN s /\ n < n + j
                                       /\ SubSeq(s, n + 1, Len(s))[j] = s[n + j]
<1> DEFINE len == Len(s)
           q == SubSeq(s, n + 1, len)
<1>1. len \in Nat /\ n \in Nat /\ n <= len /\ n + 1 \in Int /\ len \in Int /\ DOMAIN s = 1..len
  OBVIOUS
<1>11. \A i \in (n + 1)..len : s[i] \in Lines
  OBVIOUS
<1>2. q \in Seq(Lines)
  BY <1>1, <1>11, SubSeqProperties
<1>3. Len(q) = len - n
  <2>1. Len(q) = IF n + 1 <= len THEN len - (n + 1) + 1 ELSE 0
    BY <1>1, <1>11, SubSeqProperties
  <2>2. CASE n + 1 <= len
    BY <1>1, <2>1, <2>2
  <2>3. CASE ~ (n + 1 <= len)
    <3>1. n = len
      <4> HIDE DEF len
      <4> QED
        BY <1>1, <2>3
    <3>2. len - n = 0
      BY <1>1, <3>1
    <3> QED
      BY <2>1, <2>3, <3>2
  <2> QED
    BY <2>2, <2>3
<1>4. ASSUME NEW j \in 1..(len - n) PROVE n + j \in 1..len /\ n < n + j /\ q[j] = s[n + j]
  <2>1. n + j \in 1..len /\ n < n + j /\ (n + 1) + j - 1 = n + j /\ j \in 1..(len - (n + 1) + 1)
    BY <1>1
  <2>2. q[j] = s[(n + 1) + j - 1]
    BY <1>1, <2>1
  <2> QED
    BY <2>1, <2>2
<1> HIDE DEF q
<1>5. DOMAIN q = 1..(len - n)
  BY <1>1, <1>2, <1>3
<1>6. \A j \in 1..(len - n) : n + j \in DOMAIN s /\ n < n + j /\ q[j] = s[n + j]
  BY <1>1, <1>4
<1> QED
  BY <1>2, <1>5, <1>6 DEF q

LEMMA LoopKeeps == BufInv /\ Buf!Loop => BufInv'
<1> SUFFICES ASSUME BufInv, NEW n \in 0..Len(aisPipe),
                    LET r == Buf!Read(n)
                        list == Buf!Cleaned(r.msgs)
                    IN  /\ aisPipe' = SubSeq(aisPipe, n + 1, Len(aisPipe))
                        /\ badcnt' = r.bad /\ heard' = r.heard
                        /\ \/ /\ list # <<>> /\ msgs' = Buf!Fresh(list) /\ aisFile' = Buf!Fresh(list)
                              /\ wrote' = TRUE
                           \/ msgs' = list /\ wrote' = FALSE
                        /\ UNCHANGED <<now, jumps>>
             PROVE  BufInv'
  BY DEF Buf!Loop, Buf!clock
<1> DEFINE r == Buf!Read(n)
           list == Buf!Cleaned(r.msgs)
           len == Len(aisPipe)
<1>1. Reading(r, n)
  BY ReadIs
<1>2. r.bad \in Nat /\ Lists(r.msgs, r.heard)
  BY <1>1 DEF Reading, Sts
<1>3. Lists(list, r.heard) /\ (Ordered(r.msgs, r.heard) => Ordered(list, r.heard))
  BY <1>2, CleanedKeeps
<1>4. aisPipe \in Seq(Lines) /\ now \in Int /\ jumps \in Nat /\ n \in Nat /\ len \in Nat /\ n <= len
      /\ DOMAIN aisPipe = 1..len
  BY DEF BufInv, BufType
<1> HIDE DEF list, r
<1>5. /\ aisPipe' = SubSeq(aisPipe, n + 1, len)
      /\ badcnt' = r.bad /\ heard' = r.heard /\ now' = now /\ jumps' = jumps
      /\ \/ /\ list # <<>> /\ msgs' = Buf!Fresh(list) /\ aisFile' = Buf!Fresh(list) /\ wrote' = TRUE
         \/ msgs' = list /\ wrote' = FALSE
  BY DEF list, r
<1>6. /\ aisPipe' \in Seq(Lines) /\ DOMAIN aisPipe' = 1..(len - n)
      /\ \A j \in 1..(len - n) : n + j \in DOMAIN aisPipe /\ n < n + j /\ aisPipe'[j] = aisPipe[n + j]
  BY <1>4, <1>5, Behind
<1>7. BufType'
  BY <1>2, <1>4, <1>5, <1>6 DEF BufType
<1>8. Lists(msgs', heard') /\ (Ordered(r.msgs, r.heard) => Ordered(msgs', heard'))
  BY <1>3, <1>5, FreshKeeps
<1>9. ASSUME jumps' = 0
      PROVE  Ordered(msgs', heard') /\ WaitsBehind(heard, aisPipe, 0)' /\ Dated(aisPipe)'
  <2>1. Ordered(r.msgs, r.heard) /\ WaitsBehind(r.heard, aisPipe, n) /\ Dated(aisPipe)
    BY <1>1, <1>5, <1>9 DEF Reading, BufInv, InTime
  <2>2. WaitsBehind(heard, aisPipe, 0)'
    BY <1>5, <1>6, <2>1 DEF WaitsBehind
  <2>3. Dated(aisPipe)'
    <3>1. \A i, j \in 1..(len - n) : i < j => n + i < n + j
      BY <1>4
    <3> QED
      BY <1>5, <1>6, <2>1, <3>1 DEF Dated
  <2> QED
    BY <1>8, <2>1, <2>2, <2>3
<1>10. Written'
  BY <1>3, <1>5, FreshKeeps DEF Written
<1>11. Lists(msgs, heard)' /\ InTime'
  BY <1>8, <1>9 DEF Lists, InTime, Ordered, Newest, Recent
<1> QED
  BY <1>7, <1>10, <1>11 DEF BufInv

LEMMA EmptyList == Lists(<<>>, <<>>) /\ Ordered(<<>>, <<>>)
<1>1. <<>> \in Seq(Words) /\ DOMAIN <<>> = {} /\ Newest(<<>>) = {}
  BY DEF Newest
<1> QED
  BY <1>1 DEF Lists, Ordered

LEMMA CrashKeeps == BufInv /\ Buf!Crash => BufInv'
<1> SUFFICES ASSUME BufInv, Buf!Crash PROVE BufInv'
  OBVIOUS
<1>1. /\ aisPipe' = <<>> /\ msgs' = <<>> /\ badcnt' = 0 /\ heard' = <<>> /\ wrote' = FALSE
      /\ now' = now /\ jumps' = jumps
  BY DEF Buf!Crash, Buf!clock
<1>2. <<>> \in Seq(Lines) /\ DOMAIN <<>> = {}
  OBVIOUS
<1>3. BufType'
  BY <1>1, <1>2 DEF BufType, BufInv
<1>4. Lists(msgs', heard') /\ Ordered(msgs', heard')
  BY <1>1, EmptyList
<1>5. WaitsBehind(heard, aisPipe, 0)' /\ Dated(aisPipe)' /\ Written'
  BY <1>1, <1>2 DEF WaitsBehind, Dated, Written
<1>6. Lists(msgs, heard)' /\ InTime'
  BY <1>4, <1>5 DEF Lists, InTime, Ordered, Newest, Recent
<1> QED
  BY <1>3, <1>5, <1>6 DEF BufInv

LEMMA ReportKeeps == BufInv /\ Buf!Report => BufInv'
<1> SUFFICES ASSUME BufInv, Buf!Report PROVE BufInv'
  OBVIOUS
<1>1. /\ msgs' = msgs /\ badcnt' = badcnt /\ heard' = heard /\ wrote' = FALSE /\ now' = now /\ jumps' = jumps
  BY DEF Buf!Report
<1>2. PICK r \in Reports \cup {<<0, 0>>} :
         aisPipe' = Append(aisPipe, [mmsi |-> r[1], msgtype |-> r[2], timestamp |-> now])
  BY DEF Buf!Report
<1> DEFINE w == [mmsi |-> r[1], msgtype |-> r[2], timestamp |-> now]
           e == Len(aisPipe) + 1
<1>3. aisPipe \in Seq(Lines) /\ now \in Int /\ aisPipe' = Append(aisPipe, w) /\ w.timestamp = now
  BY <1>2 DEF BufInv, BufType
<1>4. w \in Lines
  <2>1. r[1] \in Int /\ r[2] \in Nat
    BY BufAssumption
  <2> QED
    BY <1>3, <2>1 DEF Lines
<1> HIDE DEF w
<1>5. /\ aisPipe' \in Seq(Lines) /\ aisPipe'[e] = w
      /\ \A j \in DOMAIN aisPipe' : j \in DOMAIN aisPipe \/ j = e
      /\ \A j \in DOMAIN aisPipe : j < e /\ aisPipe'[j] = aisPipe[j] /\ ~ (e < j)
      /\ ~ (e < e)
  BY <1>3, <1>4
<1>6. BufType'
  BY <1>1, <1>5 DEF BufInv, BufType
<1> HIDE DEF e
<1>7. ASSUME jumps = 0 PROVE WaitsBehind(heard, aisPipe, 0)' /\ Dated(aisPipe)'
  <2>1. WaitsBehind(heard, aisPipe, 0) /\ Dated(aisPipe)
    BY <1>7 DEF BufInv, InTime
  <2>2. WaitsBehind(heard, aisPipe, 0)'
    BY <1>1, <1>3, <1>5, <2>1 DEF WaitsBehind
  <2>3. Dated(aisPipe)'
    BY <1>1, <1>3, <1>5, <2>1 DEF Dated
  <2> QED
    BY <2>2, <2>3
<1>8. Lists(msgs, heard)' /\ InTime' /\ Written'
  BY <1>1, <1>7 DEF BufInv, Lists, InTime, Ordered, Newest, Recent, Written
<1> QED
  BY <1>6, <1>8 DEF BufInv

LEMMA TickOn == BufInv /\ Buf!Tick => BufInv'
<1> SUFFICES ASSUME BufInv, Buf!Tick PROVE BufInv'
  OBVIOUS
<1>1. /\ aisPipe' = aisPipe /\ msgs' = msgs /\ badcnt' = badcnt /\ heard' = heard /\ wrote' = FALSE
      /\ now' \in Int
      /\ \/ now' = now + 1 /\ jumps' = jumps
         \/ jumps' = jumps + 1
  BY BufAssumption DEF Buf!Tick, BufInv, BufType
<1>2. BufType'
  <2>1. wrote' \in BOOLEAN
    BY <1>1, Zenon
  <2>2. jumps' \in Nat /\ badcnt' \in Nat /\ aisPipe' \in Seq(Lines)
    BY <1>1 DEF BufInv, BufType
  <2> QED
    BY <1>1, <2>1, <2>2 DEF BufType
<1>3. ASSUME jumps' = 0 PROVE WaitsBehind(heard, aisPipe, 0)' /\ Dated(aisPipe)' /\ jumps = 0
  <2>1. jumps = 0 /\ now' = now + 1 /\ now \in Int
    BY <1>1, <1>3 DEF BufInv, BufType
  <2>2. WaitsBehind(heard, aisPipe, 0) /\ Dated(aisPipe)
    BY <2>1 DEF BufInv, InTime
  <2>3. /\ \A i \in DOMAIN heard : heard[i].timestamp \in Int
        /\ \A j \in DOMAIN aisPipe : aisPipe[j].timestamp \in Int
    <3>1. aisPipe \in Seq(Lines) /\ heard \in Seq(Words)
      BY DEF BufInv, BufType, Lists
    <3>2. \A w \in Lines : w.timestamp \in Int
      BY DEF Lines
    <3>3. \A w \in Words : w.timestamp \in Int
      BY <3>2 DEF Words
    <3> QED
      BY <3>1, <3>2, <3>3
  <2>4. \A t \in Int : t <= now => t <= now'
    BY <2>1
  <2>5. WaitsBehind(heard, aisPipe, 0)'
    BY <1>1, <2>2, <2>3, <2>4 DEF WaitsBehind
  <2>6. Dated(aisPipe)'
    BY <1>1, <2>2, <2>3, <2>4 DEF Dated
  <2> QED
    BY <2>1, <2>5, <2>6
<1>4. Lists(msgs, heard)' /\ InTime' /\ Written'
  BY <1>1, <1>3 DEF BufInv, Lists, InTime, Ordered, Newest, Recent, Written
<1> QED
  BY <1>2, <1>4 DEF BufInv

LEMMA BufInitial == MCInit => BufInv
<1> SUFFICES ASSUME MCInit PROVE BufInv
  OBVIOUS
<1>1. Buf!Init
  BY DEF MCInit
<1>2. <<>> \in Seq(Lines) /\ DOMAIN <<>> = {} /\ aisPipe = <<>> /\ msgs = <<>> /\ heard = <<>>
  BY <1>1 DEF Buf!Init
<1>3. wrote = FALSE /\ wrote \in BOOLEAN /\ aisPipe \in Seq(Lines)
  BY <1>1, <1>2 DEF Buf!Init
<1>31. now \in Int /\ jumps \in Nat /\ badcnt \in Nat
  BY <1>1, BufAssumption DEF Buf!Init
<1>32. BufType /\ Written
  BY <1>3, <1>31 DEF BufType, Written
<1>4. Lists(msgs, heard) /\ Ordered(msgs, heard)
  BY <1>2, EmptyList
<1>5. WaitsBehind(heard, aisPipe, 0) /\ Dated(aisPipe)
  BY <1>2 DEF WaitsBehind, Dated
<1> QED
  BY <1>32, <1>4, <1>5 DEF BufInv, InTime

LEMMA BufStep ==
  ASSUME BufInv, [Moves /\ UNCHANGED subject]_mcVars
  PROVE  BufInv'
<1>1. CASE UNCHANGED aisbufVars
  BY <1>1 DEF aisbufVars, BufInv, BufType, Lists, InTime, Ordered, Newest, Recent, WaitsBehind, Dated, Written
<1>2. CASE Buf!Next
  BY <1>2, LoopKeeps, CrashKeeps, ReportKeeps, TickOn DEF Buf!Next
<1> QED
  BY <1>1, <1>2 DEF Moves, LineMoves, TimerMoves, AivdmMoves, AisBufMoves, SkipperMoves, mcVars

\* What is written is fresh.
LEMMA WrittenIsFresh == BufInv => FileHoldsTheFresh
<1> SUFFICES ASSUME BufInv, wrote PROVE Buf!FileHoldsTheFresh
  BY DEF FileHoldsTheFresh, Buf!FileHoldsTheFresh
<1> DEFINE written == {aisFile[i] : i \in DOMAIN aisFile}
           newest == {i \in DOMAIN heard : Buf!IsNewest(i)}
<1>1. newest = Newest(heard) /\ \A i : Buf!RecentEnough(i) <=> Recent(heard, i)
  BY DEF Buf!IsNewest, Newest, Buf!RecentEnough, Recent
<1>2. aisFile = msgs /\ msgs # <<>> /\ Lists(msgs, heard)
  BY DEF BufInv, Written
<1>3. heard # <<>> /\ msgs[1] = heard[Len(heard)] /\ DOMAIN aisFile = 1..Len(aisFile) /\ Len(aisFile) \in Nat
  BY <1>2 DEF Lists
<1>4. written \subseteq {heard[i] : i \in newest}
  BY <1>1, <1>2 DEF Lists
<1>5. ASSUME NEW i \in DOMAIN aisFile, NEW j \in DOMAIN aisFile, i # j
      PROVE  Buf!Kind(aisFile[i]) # Buf!Kind(aisFile[j])
  <2>1. i < j \/ j < i
    BY <1>3, <1>5
  <2> QED
    BY <1>2, <2>1 DEF Lists
<1>6. ASSUME jumps = 0, Cardinality(newest) <= HighWatermark
      PROVE  written = {heard[i] : i \in {j \in newest : Buf!RecentEnough(j)}}
  <2>1. Ordered(msgs, heard)
    BY <1>6 DEF BufInv, InTime
  <2>2. ASSUME NEW k \in DOMAIN aisFile PROVE \E i \in newest : Buf!RecentEnough(i) /\ aisFile[k] = heard[i]
    <3>1. PICK i \in newest : aisFile[k] = heard[i]
      BY <1>1, <1>2 DEF Lists
    <3>2. aisFile[k].timestamp + garbage_s >= heard[Len(heard)].timestamp
      BY <1>2, <1>3 DEF BufInv, Written
    <3> QED
      BY <1>1, <3>1, <3>2 DEF Recent
  <2>3. ASSUME NEW i \in newest, Buf!RecentEnough(i) PROVE \E k \in DOMAIN aisFile : aisFile[k] = heard[i]
    <3>1. Cardinality(Newest(heard)) <= HighWatermark /\ i \in Newest(heard) /\ Recent(heard, i)
      BY <1>1, <1>6, <2>3
    <3> QED
      BY <1>2, <2>1, <3>1 DEF Ordered
  <2> HIDE DEF newest
  <2> QED
    BY <2>2, <2>3
<1>7. jumps = 0 /\ Cardinality(newest) <= HighWatermark =>
         written = {heard[i] : i \in {j \in newest : Buf!RecentEnough(j)}}
  <2> HIDE DEF written, newest
  <2> QED
    BY <1>6
<1>8. \A i, j \in DOMAIN aisFile : i # j => Buf!Kind(aisFile[i]) # Buf!Kind(aisFile[j])
  BY <1>5
<1>9. /\ written \subseteq {heard[i] : i \in newest}
      /\ \A i, j \in DOMAIN aisFile : i # j => Buf!Kind(aisFile[i]) # Buf!Kind(aisFile[j])
      /\ jumps = 0 /\ Buf!Cardinality(newest) <= HighWatermark =>
            written = {heard[i] : i \in {j \in newest : Buf!RecentEnough(j)}}
  <2>1. Buf!Cardinality(newest) = Cardinality(newest)
    BY DEF Buf!Cardinality, Cardinality
  <2> HIDE DEF written, newest
  <2> QED
    BY <1>4, <1>7, <1>8, <2>1
<1> QED
  BY <1>9, Zenon DEF Buf!FileHoldsTheFresh

\* A file that is written holds the newest word of each ship and kind and each once, also when
\* the clock was set back; while it was not, those of the last garbage_s seconds and no
\* other, as long as there is room for them (aisbuf_main.c:139-203).
THEOREM FileIsFresh == MCSpec => []FileHoldsTheFresh
<1>1. BufInv /\ [Moves /\ UNCHANGED subject]_mcVars => BufInv'
  BY BufStep
<1> QED
  BY <1>1, BufInitial, WrittenIsFresh, PTL DEF MCSpec, mcVars

-----------------------------------------------------------------------------
(* The line buffer, for every size of its array, every stream of characters and every mixture *)
(* of calls: no character is written behind the array, eol is the end of the first line,   *)
(* what the calls return tells whether there is one, and nothing is lost but the lines    *)
(* that do not fit.                                                           *)

Chars == {NL, Chr}

\* The definition that AfterNL chooses by: e is the end of the first line of s.
FirstEnd(s, e) == /\ e \in DOMAIN s /\ s[e] = NL
                  /\ \A j \in 1 .. e - 1 : s[j] # NL

-----------------------------------------------------------------------------
(* Finding newlines.                                                          *)

\* A string with a newline has a first one.
LEMMA FirstEndExists ==
    ASSUME NEW s \in Seq(Chars), NEW i \in DOMAIN s, s[i] = NL
    PROVE  \E e \in DOMAIN s : FirstEnd(s, e)
<1> DEFINE T == {k \in DOMAIN s : s[k] = NL}
<1>1. DOMAIN s = 1 .. Len(s) /\ Len(s) \in Nat
  OBVIOUS
<1>2. PICK e \in T : \A k \in T : e <= k
  <2>1. T \subseteq Nat /\ T # {}
    BY <1>1
  <2> HIDE DEF T
  <2>2. QED
    BY <2>1, LeastNumber
<1>3. ASSUME NEW j \in 1 .. e - 1 PROVE s[j] # NL
  BY <1>1, <1>2
<1>4. QED
  BY <1>2, <1>3 DEF FirstEnd

\* AfterNL is the end of the first line, or 0 if there is no newline.
LEMMA AfterNLFinds ==
    ASSUME NEW s \in Seq(Chars)
    PROVE  /\ AfterNL(s) = 0 => \A i \in DOMAIN s : s[i] # NL
           /\ AfterNL(s) # 0 => FirstEnd(s, AfterNL(s))
           /\ AfterNL(s) \in 0 .. Len(s)
<1>1. CASE \E i \in DOMAIN s : s[i] = NL
  <2>1. \E e \in DOMAIN s : s[e] = NL /\ \A j \in 1 .. e - 1 : s[j] # NL
    BY <1>1, FirstEndExists DEF FirstEnd
  <2>2. FirstEnd(s, AfterNL(s))
    BY <1>1, <2>1 DEF AfterNL, FirstEnd
  <2>3. QED
    BY <2>2 DEF FirstEnd
<1>2. CASE ~ \E i \in DOMAIN s : s[i] = NL
  BY <1>2 DEF AfterNL
<1>3. QED
  BY <1>1, <1>2

\* ... and nothing else is.
LEMMA FirstEndIsAfterNL ==
    ASSUME NEW s \in Seq(Chars), NEW e, FirstEnd(s, e)
    PROVE  AfterNL(s) = e
<1>1. AfterNL(s) # 0 /\ FirstEnd(s, AfterNL(s))
  BY AfterNLFinds DEF FirstEnd
<1> DEFINE a == AfterNL(s)
<1>2. a \in 1 .. Len(s) /\ e \in 1 .. Len(s) /\ s[a] = NL /\ s[e] = NL
  BY <1>1 DEF FirstEnd
<1>3. ~ (a < e) /\ ~ (e < a)
  BY <1>1, <1>2 DEF FirstEnd
<1>4. QED
  BY <1>2, <1>3

LEMMA NoEndIsZero ==
    ASSUME NEW s \in Seq(Chars), \A i \in DOMAIN s : s[i] # NL
    PROVE  AfterNL(s) = 0
BY DEF AfterNL

\* The part of s behind its first n characters.
LEMMA SkipIsRest ==
    ASSUME NEW s \in Seq(Chars), NEW n \in 0 .. Len(s)
    PROVE  /\ Skip(s, n) \in Seq(Chars) /\ Len(Skip(s, n)) = Len(s) - n
           /\ \A i \in 1 .. Len(s) - n : Skip(s, n)[i] = s[i + n]
BY DEF Skip

-----------------------------------------------------------------------------
(* What ought to come out                                                     *)

Accs == [whole : Seq(Chars), begun : Seq(Chars)]
NothingYet == [whole |-> << >>, begun |-> << >>]

LEMMA SplitAtType ==
    ASSUME NEW acc \in Accs, NEW c \in Chars
    PROVE  SplitAt(acc, c) \in Accs
<1>1. acc.whole \in Seq(Chars) /\ acc.begun \in Seq(Chars) /\ <<NL>> \in Seq(Chars)
  BY DEF Accs, Chars
<1>2. Append(acc.begun, c) \in Seq(Chars) /\ acc.whole \o acc.begun \o <<NL>> \in Seq(Chars)
  BY <1>1
<1>3. [acc EXCEPT !.begun = Append(@, c)] \in Accs
  BY <1>2 DEF Accs
<1>4. << >> \in Seq(Chars)
  OBVIOUS
<1> QED
  BY <1>1, <1>2, <1>3, <1>4 DEF SplitAt, Accs

\* The states of the split of s.
IsSplit(f, s) == /\ f \in [0 .. Len(s) -> Accs] /\ f[0] = NothingYet
                 /\ \A k \in 1 .. Len(s) : f[k] = SplitAt(f[k - 1], s[k])

LEMMA SplitSteps ==
    ASSUME NEW s \in Seq(Chars)
    PROVE  \E f : IsSplit(f, s) /\ f[Len(s)] = Split(s)
<1> DEFINE n == Len(s)
           Body(g) == [k \in 0 .. n |-> IF k = 0 THEN [whole |-> << >>, begun |-> << >>]
                                        ELSE SplitAt(g[k - 1], s[k])]
           Step == [k \in 1 .. n |-> [x \in Accs |-> SplitAt(x, s[k])]]
           after == CHOOSE g : g = Body(g)
<1>1. n \in Nat /\ \A k \in 1 .. n : s[k] \in Chars
  OBVIOUS
<1>2. Split(s) = after[n]
  BY DEF Split
<1>3. NothingYet \in Accs
  BY DEF NothingYet, Accs
<1>4. Steps(n, Accs, NothingYet, Step)
  BY <1>1, <1>3, SplitAtType DEF Steps
<1>5. PICK g : Taken(g, n, Accs, NothingYet, Step)
  <2> HIDE DEF n, Step
  <2> QED
    BY <1>4, StepByStep
<1>6. g = Body(g)
  <2>1. ASSUME NEW k \in 0 .. n
        PROVE  g[k] = IF k = 0 THEN NothingYet ELSE SplitAt(g[k - 1], s[k])
    <3>1. CASE k = 0
      BY <1>5, <3>1 DEF Taken
    <3>2. CASE k # 0
      <4>1. k \in 1 .. n /\ k - 1 \in 0 .. n
        BY <1>1, <3>2
      <4> QED
        BY <1>5, <3>2, <4>1 DEF Taken
    <3> QED
      BY <3>1, <3>2
  <2> QED
    BY <1>5, <2>1 DEF Taken, NothingYet
<1>7. after = Body(after)
  <2> HIDE DEF Body
  <2> QED
    BY <1>6
<1> HIDE DEF after
<1>8. \A k \in 0 .. n : after[k] = IF k = 0 THEN NothingYet ELSE SplitAt(after[k - 1], s[k])
  BY <1>7 DEF NothingYet
<1>9. after[0] = NothingYet /\ \A k \in 1 .. n : after[k] = SplitAt(after[k - 1], s[k])
  BY <1>1, <1>8
<1> DEFINE Typed == {k \in 0 .. n : after[k] \in Accs}
<1>10. 0 \in Typed
  BY <1>1, <1>3, <1>9
<1>11. ASSUME NEW k \in 0 .. n - 1, k \in Typed PROVE k + 1 \in Typed
  <2>1. k + 1 \in 1 .. n /\ k + 1 \in 0 .. n /\ (k + 1) - 1 = k
    BY <1>1
  <2>2. after[k + 1] = SplitAt(after[k], s[k + 1])
    BY <1>9, <2>1
  <2> QED
    BY <1>1, <1>11, <2>1, <2>2, SplitAtType
<1>12. \A k \in 0 .. n : k \in Typed
  <2> HIDE DEF Typed
  <2> QED
    BY <1>1, <1>10, <1>11, CountUp
<1>13. after \in [0 .. n -> Accs]
  BY <1>7, <1>12
<1>14. IsSplit(after, s)
  <2> HIDE DEF Body
  <2> QED
    BY <1>9, <1>13 DEF IsSplit
<1> QED
  BY <1>2, <1>14

LEMMA SplitEmpty == Split(<< >>) = NothingYet
<1>1. << >> \in Seq(Chars) /\ Len(<< >>) = 0
  OBVIOUS
<1>2. PICK f : IsSplit(f, << >>) /\ f[Len(<< >>)] = Split(<< >>)
  BY <1>1, SplitSteps
<1> QED
  BY <1>1, <1>2 DEF IsSplit

LEMMA SplitAppend ==
    ASSUME NEW s \in Seq(Chars), NEW c \in Chars
    PROVE  Split(s) \in Accs /\ Split(Append(s, c)) = SplitAt(Split(s), c)
<1> DEFINE t == Append(s, c)
           n == Len(s)
<1>1. /\ t \in Seq(Chars) /\ Len(t) = n + 1 /\ n \in Nat /\ t[n + 1] = c
      /\ \A k \in 1 .. n : t[k] = s[k]
  OBVIOUS
<1>2. PICK f : IsSplit(f, s) /\ f[Len(s)] = Split(s)
  BY SplitSteps
<1>3. PICK g : IsSplit(g, t) /\ g[Len(t)] = Split(t)
  BY <1>1, SplitSteps
<1> HIDE DEF t
<1> DEFINE Same == {k \in 0 .. n : f[k] = g[k]}
<1>4. 0 \in Same
  BY <1>1, <1>2, <1>3 DEF IsSplit
<1>5. ASSUME NEW k \in 0 .. n - 1, k \in Same PROVE k + 1 \in Same
  <2>1. k + 1 \in 1 .. n /\ k + 1 \in 1 .. n + 1 /\ k + 1 \in 0 .. n /\ (k + 1) - 1 = k
    BY <1>1
  <2>2. f[k + 1] = SplitAt(f[k], s[k + 1]) /\ g[k + 1] = SplitAt(g[k], t[k + 1])
    BY <1>1, <1>2, <1>3, <2>1 DEF IsSplit
  <2> QED
    BY <1>1, <1>5, <2>1, <2>2
<1>6. \A k \in 0 .. n : k \in Same
  <2> HIDE DEF Same
  <2> QED
    BY <1>1, <1>4, <1>5, CountUp
<1>7. n \in 0 .. n /\ n + 1 \in 1 .. n + 1 /\ (n + 1) - 1 = n
  BY <1>1
<1>8. f[n] = g[n]
  BY <1>6, <1>7
<1>9. g[n + 1] = SplitAt(g[n], c)
  BY <1>1, <1>3, <1>7 DEF IsSplit
<1>10. f[n] \in Accs
  BY <1>2, <1>7 DEF IsSplit
<1> QED
  BY <1>1, <1>2, <1>3, <1>8, <1>9, <1>10 DEF t

LEMMA ConcatAppend ==
    ASSUME NEW x \in Seq(Chars), NEW y \in Seq(Chars), NEW c \in Chars
    PROVE  x \o Append(y, c) = Append(x \o y, c)
<1> HIDE DEF Chars
<1> QED
  OBVIOUS

LEMMA ConcatGroups ==
    ASSUME NEW x \in Seq(Chars), NEW y \in Seq(Chars), NEW z \in Seq(Chars)
    PROVE  (x \o y) \o z = x \o (y \o z)
<1> HIDE DEF Chars
<1> QED
  OBVIOUS

\* s and the first k characters that arrive behind it.
Fed(s, chunk, k) == s \o SubSeq(chunk, 1, k)
LEMMA OneByOne ==
    ASSUME NEW s \in Seq(Chars), NEW chunk \in Seq(Chars)
    PROVE  /\ Fed(s, chunk, 0) = s /\ Fed(s, chunk, Len(chunk)) = s \o chunk
           /\ \A k \in 0 .. Len(chunk) : Fed(s, chunk, k) \in Seq(Chars) /\ Len(Fed(s, chunk, k)) = Len(s) + k
           /\ \A k \in 0 .. Len(chunk) - 1 :
                 chunk[k + 1] \in Chars /\ Fed(s, chunk, k + 1) = Append(Fed(s, chunk, k), chunk[k + 1])
<1>1. SubSeq(chunk, 1, 0) = << >> /\ SubSeq(chunk, 1, Len(chunk)) = chunk /\ s \o << >> = s
  OBVIOUS
<1>2. ASSUME NEW k \in 0 .. Len(chunk)
      PROVE  SubSeq(chunk, 1, k) \in Seq(Chars) /\ Len(SubSeq(chunk, 1, k)) = k
  OBVIOUS
<1>3. ASSUME NEW k \in 0 .. Len(chunk) - 1
      PROVE  /\ chunk[k + 1] \in Chars
             /\ s \o SubSeq(chunk, 1, k + 1) = Append(s \o SubSeq(chunk, 1, k), chunk[k + 1])
  <2> DEFINE x == SubSeq(chunk, 1, k)
             c == chunk[k + 1]
  <2>1. c \in Chars /\ x \in Seq(Chars)
    BY <1>2
  <2>2. SubSeq(chunk, 1, k + 1) = Append(x, c)
    OBVIOUS
  <2> HIDE DEF x, c
  <2>3. s \o Append(x, c) = Append(s \o x, c)
    BY <2>1, ConcatAppend
  <2> QED
    BY <2>1, <2>2, <2>3 DEF x, c
<1>4. \A x \in Seq(Chars) : s \o x \in Seq(Chars) /\ Len(s \o x) = Len(s) + Len(x)
  OBVIOUS
<1> QED
  BY <1>1, <1>2, <1>3, <1>4 DEF Fed

\* Of what was put in, t has been taken out and l is in the buffer, which ends with the
\* line begun,
Joined(t, l, acc) ==
    /\ \E p \in Seq(Chars) : l = p \o acc.begun /\ t \o p = acc.whole /\ (p = << >> \/ p[Len(p)] = NL)
    /\ \A i \in DOMAIN acc.begun : acc.begun[i] # NL
\* or is empty because the line begun is too long.
Dropped(t, acc) == t = acc.whole /\ Len(acc.begun) >= Cap

LEMMA JoinedAppend ==
    ASSUME NEW t \in Seq(Chars), NEW l \in Seq(Chars), NEW acc \in Accs, NEW c \in Chars,
           Joined(t, l, acc), Len(l) < Cap
    PROVE  Joined(t, Append(l, c), SplitAt(acc, c))
<1> DEFINE b == acc.begun
           w == acc.whole
<1>1. b \in Seq(Chars) /\ w \in Seq(Chars) /\ <<NL>> \in Seq(Chars) /\ << >> \in Seq(Chars)
  BY DEF Accs, Chars
<1>2. PICK p \in Seq(Chars) : l = p \o b /\ t \o p = w /\ (p = << >> \/ p[Len(p)] = NL)
  BY DEF Joined
<1>3. \A i \in DOMAIN b : b[i] # NL
  BY DEF Joined
<1> HIDE DEF b, w
<1>4. CASE c # NL
  <2>1. SplitAt(acc, c).begun = Append(b, c) /\ SplitAt(acc, c).whole = w
    BY <1>4 DEF SplitAt, b, w, Accs
  <2>2. Append(l, c) = p \o Append(b, c)
    <3>1. p \o Append(b, c) = Append(p \o b, c)
      BY <1>1, ConcatAppend
    <3> QED
      BY <1>1, <1>2, <3>1
  <2>3. \A i \in DOMAIN Append(b, c) : Append(b, c)[i] # NL
    BY <1>1, <1>3, <1>4
  <2> QED
    BY <1>2, <2>1, <2>2, <2>3 DEF Joined
<1>5. CASE c = NL
  <2>1. Len(b) <= Len(l) /\ Len(l) \in Nat /\ Len(b) \in Nat
    BY <1>1, <1>2
  <2>2. Len(b) < Cap
    BY <2>1, LineBufferAssumption
  <2>3. SplitAt(acc, c).begun = << >> /\ SplitAt(acc, c).whole = w \o b \o <<NL>>
    BY <1>5, <2>2 DEF SplitAt, b, w
  <2>4. Append(l, c) \in Seq(Chars) /\ Append(l, c)[Len(Append(l, c))] = NL
    BY <1>5
  <2>5. Append(l, c) = Append(l, c) \o << >>
    BY <2>4
  <2>6. t \o Append(l, c) = (w \o b) \o <<NL>>
    <3>1. t \o l = w \o b
      <4>1. (t \o p) \o b = t \o (p \o b)
        BY <1>1
      <4> QED
        BY <1>2, <4>1
    <3>2. t \o Append(l, c) = Append(t \o l, NL) /\ Append(t \o l, NL) = (t \o l) \o <<NL>>
      BY <1>1, <1>5
    <3> QED
      BY <3>1, <3>2
  <2>7. DOMAIN << >> = {}
    OBVIOUS
  <2> QED
    BY <2>3, <2>4, <2>5, <2>6, <2>7 DEF Joined
<1> QED
  BY <1>4, <1>5

LEMMA DroppedAppend ==
    ASSUME NEW t \in Seq(Chars), NEW acc \in Accs, NEW c \in Chars, Dropped(t, acc)
    PROVE  /\ c # NL => Dropped(t, SplitAt(acc, c))
           /\ c = NL => Joined(t, << >>, SplitAt(acc, c))
<1>1. acc.begun \in Seq(Chars) /\ acc.whole \in Seq(Chars) /\ Len(acc.begun) >= Cap /\ t = acc.whole
  BY DEF Accs, Dropped
<1>2. CASE c # NL
  <2>1. SplitAt(acc, c).begun = Append(acc.begun, c) /\ SplitAt(acc, c).whole = acc.whole
    BY <1>2 DEF SplitAt, Accs
  <2>2. Len(Append(acc.begun, c)) >= Cap
    BY <1>1, LineBufferAssumption
  <2> QED
    BY <1>1, <1>2, <2>1, <2>2 DEF Dropped
<1>3. CASE c = NL
  <2>1. SplitAt(acc, c).begun = << >> /\ SplitAt(acc, c).whole = acc.whole
    BY <1>1, <1>3, LineBufferAssumption DEF SplitAt
  <2>2. << >> \in Seq(Chars) /\ << >> = << >> \o << >> /\ t \o << >> = acc.whole /\ DOMAIN << >> = {}
    BY <1>1
  <2> QED
    BY <1>3, <2>1, <2>2 DEF Joined
<1> QED
  BY <1>2, <1>3

LEMMA JoinedConcat ==
    ASSUME NEW t \in Seq(Chars), NEW l \in Seq(Chars), NEW s \in Seq(Chars), NEW chunk \in Seq(Chars),
           Joined(t, l, Split(s)), Len(l) + Len(chunk) <= Cap
    PROVE  Joined(t, l \o chunk, Split(s \o chunk))
<1> DEFINE n == Len(chunk)
           Ok == {k \in 0 .. n : Joined(t, Fed(l, chunk, k), Split(Fed(s, chunk, k)))}
<1>1. n \in Nat /\ Len(l) \in Nat
  OBVIOUS
<1>2. 0 \in Ok
  <2>1. Fed(l, chunk, 0) = l /\ Fed(s, chunk, 0) = s /\ 0 \in 0 .. n
    BY <1>1, OneByOne
  <2> QED
    BY <2>1
<1>3. ASSUME NEW k \in 0 .. n - 1, k \in Ok PROVE k + 1 \in Ok
  <2> DEFINE x == Fed(s, chunk, k)
             y == Fed(l, chunk, k)
             c == chunk[k + 1]
  <2>1. k \in 0 .. Len(chunk) /\ k + 1 \in 0 .. n /\ k \in 0 .. Len(chunk) - 1
    BY <1>1
  <2>2. x \in Seq(Chars) /\ y \in Seq(Chars) /\ c \in Chars /\ Len(y) = Len(l) + k
        /\ Fed(s, chunk, k + 1) = Append(x, c) /\ Fed(l, chunk, k + 1) = Append(y, c)
    BY <2>1, OneByOne
  <2>3. Joined(t, y, Split(x))
    BY <1>3
  <2> HIDE DEF x, y, c
  <2>4. Len(y) < Cap
    BY <1>1, <2>2, LineBufferAssumption
  <2>5. Joined(t, Append(y, c), SplitAt(Split(x), c)) /\ Split(Append(x, c)) = SplitAt(Split(x), c)
    BY <2>2, <2>3, <2>4, SplitAppend, JoinedAppend
  <2> QED
    BY <2>1, <2>2, <2>5
<1>4. n \in Ok
  <2>1. \A k \in 0 .. n : k \in Ok
    <3> HIDE DEF Ok, n
    <3> QED
      BY <1>1, <1>2, <1>3, CountUp
  <2> QED
    BY <1>1, <2>1
<1> QED
  BY <1>4, OneByOne

LEMMA DroppedConcat ==
    ASSUME NEW t \in Seq(Chars), NEW s \in Seq(Chars), NEW chunk \in Seq(Chars),
           Dropped(t, Split(s)), \A i \in DOMAIN chunk : chunk[i] # NL
    PROVE  Dropped(t, Split(s \o chunk))
<1> DEFINE n == Len(chunk)
           Ok == {k \in 0 .. n : Dropped(t, Split(Fed(s, chunk, k)))}
<1>1. n \in Nat
  OBVIOUS
<1>2. 0 \in Ok
  <2>1. Fed(s, chunk, 0) = s /\ 0 \in 0 .. n
    BY <1>1, OneByOne
  <2> QED
    BY <2>1
<1>3. ASSUME NEW k \in 0 .. n - 1, k \in Ok PROVE k + 1 \in Ok
  <2> DEFINE x == Fed(s, chunk, k)
             c == chunk[k + 1]
  <2>1. k \in 0 .. Len(chunk) /\ k + 1 \in 0 .. n /\ k \in 0 .. Len(chunk) - 1 /\ k + 1 \in DOMAIN chunk
    BY <1>1
  <2>2. x \in Seq(Chars) /\ c \in Chars /\ Fed(s, chunk, k + 1) = Append(x, c)
    BY <2>1, OneByOne
  <2>3. Dropped(t, Split(x)) /\ c # NL
    BY <1>3, <2>1
  <2> HIDE DEF x, c
  <2>4. Dropped(t, SplitAt(Split(x), c)) /\ Split(Append(x, c)) = SplitAt(Split(x), c)
    BY <2>2, <2>3, SplitAppend, DroppedAppend
  <2> QED
    BY <2>1, <2>2, <2>4
<1>4. n \in Ok
  <2>1. \A k \in 0 .. n : k \in Ok
    <3> HIDE DEF Ok, n
    <3> QED
      BY <1>1, <1>2, <1>3, CountUp
  <2> QED
    BY <1>1, <2>1
<1> QED
  BY <1>4, OneByOne

-----------------------------------------------------------------------------
(* update_r                                                                   *)

\* A LineBuffer as its users may see it.
Good(lb) == /\ lb.line \in Seq(Chars) /\ Len(lb.line) <= Cap
            /\ lb.eol = AfterNL(lb.line)
            /\ lb.discard \in BOOLEAN

\* Searching the new characters only finds the first newline of all.
LEMMA FoundIsFirst ==
    ASSUME NEW lb, Good(lb), NEW chunk \in Seq(Chars)
    PROVE  Found(lb, chunk) = AfterNL(lb.line \o chunk)
<1> DEFINE s == lb.line
           text == s \o chunk
<1>1. /\ s \in Seq(Chars) /\ text \in Seq(Chars) /\ lb.eol = AfterNL(s)
      /\ Len(text) = Len(s) + Len(chunk) /\ Len(s) \in Nat /\ Len(chunk) \in Nat
      /\ DOMAIN s = 1 .. Len(s) /\ DOMAIN chunk = 1 .. Len(chunk) /\ DOMAIN text = 1 .. Len(text)
      /\ \A i \in 1 .. Len(s) : text[i] = s[i]
      /\ \A i \in 1 .. Len(chunk) : text[Len(s) + i] = chunk[i]
  BY DEF Good
<1>2. lb.eol \in Nat /\ AfterNL(chunk) \in Nat
  BY <1>1, AfterNLFinds
<1> HIDE DEF s, text
<1>3. CASE lb.eol > 0
  <2>1. FirstEnd(s, lb.eol)
    BY <1>1, <1>2, <1>3, AfterNLFinds
  <2>2. FirstEnd(text, lb.eol)
    <3>1. /\ lb.eol \in 1 .. Len(s) /\ s[lb.eol] = NL
          /\ \A j \in 1 .. lb.eol - 1 : s[j] # NL
      BY <1>1, <2>1 DEF FirstEnd
    <3>2. lb.eol \in DOMAIN text /\ text[lb.eol] = NL
      BY <1>1, <3>1
    <3>3. ASSUME NEW j \in 1 .. lb.eol - 1 PROVE text[j] # NL
      BY <1>1, <3>1
    <3>4. QED
      BY <3>2, <3>3 DEF FirstEnd
  <2>3. AfterNL(text) = lb.eol
    BY <1>1, <2>2, FirstEndIsAfterNL
  <2>4. QED
    BY <1>2, <1>3, <2>3 DEF Found, s, text
<1>4. CASE lb.eol = 0 /\ AfterNL(chunk) > 0
  <2> DEFINE e == AfterNL(chunk)
  <2>1. FirstEnd(chunk, e)
    BY <1>2, <1>4, AfterNLFinds
  <2>2. \A i \in 1 .. Len(s) : s[i] # NL
    <3>1. AfterNL(s) = 0
      BY <1>1, <1>4
    <3>2. QED
      BY <1>1, <3>1, AfterNLFinds
  <2>3. e \in 1 .. Len(chunk) /\ chunk[e] = NL /\ \A j \in 1 .. e - 1 : chunk[j] # NL
    BY <2>1 DEF FirstEnd
  <2> HIDE DEF e
  <2>4. ASSUME NEW j \in 1 .. Len(s) + e - 1 PROVE text[j] # NL
    <3>1. CASE j <= Len(s)
      BY <1>1, <2>2, <3>1
    <3>2. CASE j > Len(s)
      <4>1. j - Len(s) \in 1 .. e - 1 /\ j - Len(s) \in 1 .. Len(chunk)
        BY <1>1, <2>3, <3>2
      <4>2. text[Len(s) + (j - Len(s))] = chunk[j - Len(s)]
        BY <1>1, <4>1
      <4>3. Len(s) + (j - Len(s)) = j
        BY <1>1, <3>2
      <4>4. QED
        BY <2>3, <4>1, <4>2, <4>3
    <3>3. QED
      BY <1>1, <3>1, <3>2
  <2>5. FirstEnd(text, Len(s) + e)
    <3>1. Len(s) + e \in DOMAIN text /\ text[Len(s) + e] = NL
      BY <1>1, <2>3
    <3>2. 1 .. (Len(s) + e) - 1 = 1 .. Len(s) + e - 1
      BY <1>1, <2>3
    <3>3. QED
      BY <2>4, <3>1, <3>2 DEF FirstEnd
  <2>6. AfterNL(text) = Len(s) + e
    BY <1>1, <2>5, FirstEndIsAfterNL
  <2>7. QED
    BY <1>2, <1>4, <2>6 DEF Found, s, text, e
<1>5. CASE lb.eol = 0 /\ AfterNL(chunk) = 0
  <2>1. \A i \in 1 .. Len(s) : s[i] # NL
    <3>1. AfterNL(s) = 0
      BY <1>1, <1>5
    <3>2. QED
      BY <1>1, <3>1, AfterNLFinds
  <2>2. \A i \in 1 .. Len(chunk) : chunk[i] # NL
    BY <1>5, AfterNLFinds
  <2>3. ASSUME NEW j \in DOMAIN text PROVE text[j] # NL
    <3>1. CASE j <= Len(s)
      BY <1>1, <2>1, <3>1
    <3>2. CASE j > Len(s)
      <4>1. j - Len(s) \in 1 .. Len(chunk) /\ Len(s) + (j - Len(s)) = j
        BY <1>1, <3>2
      <4>2. QED
        BY <1>1, <2>2, <4>1
    <3>3. QED
      BY <1>1, <3>1, <3>2
  <2>4. AfterNL(text) = 0
    BY <1>1, <2>3, NoEndIsZero
  <2>5. QED
    BY <1>5, <2>4 DEF Found, s, text
<1>6. QED
  BY <1>2, <1>3, <1>4, <1>5

LEMMA EmptyHasNoEnd == AfterNL(<< >>) = 0
<1>1. << >> \in Seq(Chars) /\ DOMAIN << >> = {}
  OBVIOUS
<1>2. QED
  BY <1>1, NoEndIsZero

\* update_r keeps a buffer good if no more arrives than it has room for.
LEMMA UpdateRIsGood ==
    ASSUME NEW lb, Good(lb), NEW chunk \in Seq(Chars), Len(lb.line) + Len(chunk) <= Cap
    PROVE  Good(UpdateR(lb, chunk))
<1> DEFINE text == lb.line \o chunk
           found == Found(lb, chunk)
           drop == lb.discard \/ (found = 0 /\ Len(text) >= Cap)
           rest == Skip(text, found)
<1>1. /\ text \in Seq(Chars) /\ Len(text) <= Cap /\ Len(text) \in Nat
      /\ found = AfterNL(text) /\ found \in 0 .. Len(text)
  <2>1. text \in Seq(Chars) /\ Len(text) = Len(lb.line) + Len(chunk)
    BY DEF Good
  <2>2. found = AfterNL(text)
    BY FoundIsFirst
  <2> HIDE DEF text, found
  <2>3. QED
    BY <2>1, <2>2, AfterNLFinds
<1>2. rest \in Seq(Chars) /\ Len(rest) <= Cap
  <2> HIDE DEF text, found
  <2>1. Len(rest) = Len(text) - found /\ rest \in Seq(Chars)
    BY <1>1, SkipIsRest
  <2>2. QED
    BY <1>1, <2>1, LineBufferAssumption
<1>3. UpdateR(lb, chunk) =
        CASE ~drop              -> [line |-> text, eol |-> found, discard |-> FALSE]
          [] drop /\ found = 0  -> [line |-> << >>, eol |-> 0, discard |-> TRUE]
          [] drop /\ found # 0  -> [line |-> rest, eol |-> AfterNL(rest), discard |-> FALSE]
  BY DEF UpdateR
<1> HIDE DEF text, found, drop, rest
<1>4. CASE ~drop
  <2>1. UpdateR(lb, chunk) = [line |-> text, eol |-> found, discard |-> FALSE]
    BY <1>3, <1>4
  <2>2. QED
    BY <1>1, <2>1 DEF Good
<1>5. CASE drop /\ found = 0
  <2>1. UpdateR(lb, chunk) = [line |-> << >>, eol |-> 0, discard |-> TRUE]
    BY <1>3, <1>5
  <2>2. << >> \in Seq(Chars) /\ Len(<< >>) <= Cap
    BY LineBufferAssumption
  <2>3. QED
    BY <2>1, <2>2, EmptyHasNoEnd DEF Good
<1>6. CASE drop /\ found # 0
  <2>1. UpdateR(lb, chunk) = [line |-> rest, eol |-> AfterNL(rest), discard |-> FALSE]
    BY <1>3, <1>6
  <2>2. QED
    BY <1>2, <2>1 DEF Good
<1>7. QED
  BY <1>4, <1>5, <1>6

\* update_r does not make a buffer longer than what it is given.
LEMMA UpdateRDoesNotGrow ==
    ASSUME NEW lb, Good(lb), NEW chunk \in Seq(Chars)
    PROVE  Len(UpdateR(lb, chunk).line) <= Len(lb.line) + Len(chunk)
<1> DEFINE text == lb.line \o chunk
           found == Found(lb, chunk)
           rest == Skip(text, found)
<1>1. /\ text \in Seq(Chars) /\ Len(text) = Len(lb.line) + Len(chunk) /\ Len(text) \in Nat
      /\ found \in 0 .. Len(text)
  <2>1. text \in Seq(Chars) /\ Len(text) = Len(lb.line) + Len(chunk) /\ Len(text) \in Nat
    BY DEF Good
  <2>2. found = AfterNL(text)
    BY FoundIsFirst
  <2> HIDE DEF text, found
  <2>3. QED
    BY <2>1, <2>2, AfterNLFinds
<1>2. UpdateR(lb, chunk).line \in {text, << >>, rest}
  <2> HIDE DEF text, found, rest
  <2>1. CASE ~ (lb.discard \/ (found = 0 /\ Len(text) >= Cap))
    BY <2>1 DEF UpdateR, text, found, rest
  <2>2. CASE (lb.discard \/ (found = 0 /\ Len(text) >= Cap)) /\ found = 0
    BY <2>2 DEF UpdateR, text, found, rest
  <2>3. CASE (lb.discard \/ (found = 0 /\ Len(text) >= Cap)) /\ found # 0
    BY <2>3 DEF UpdateR, text, found, rest
  <2>4. QED
    BY <2>1, <2>2, <2>3
<1> HIDE DEF text, found
<1>3. Len(rest) = Len(text) - found
  BY <1>1, SkipIsRest
<1> HIDE DEF rest
<1>4. QED
  BY <1>1, <1>2, <1>3

-----------------------------------------------------------------------------
(* update_w                                                                   *)

\* Characters taken out from the front leave a good buffer, whether they were part
\* of the first line or all of it,
LEMMA TakeOutFirst ==
    ASSUME NEW s \in Seq(Chars), AfterNL(s) # 0, NEW n \in 1 .. AfterNL(s)
    PROVE  /\ n \in 0 .. Len(s)
           /\ AfterNL(s) # n => AfterNL(Skip(s, n)) = AfterNL(s) - n
<1> DEFINE e == AfterNL(s)
           rest == Skip(s, n)
<1>1. /\ e \in 1 .. Len(s) /\ s[e] = NL /\ \A j \in 1 .. e - 1 : s[j] # NL
      /\ Len(s) \in Nat
  BY AfterNLFinds DEF FirstEnd
<1> HIDE DEF e
<1>2. n \in 0 .. Len(s) /\ n \in 1 .. e
  BY <1>1 DEF e
<1>3. /\ rest \in Seq(Chars) /\ Len(rest) = Len(s) - n
      /\ \A i \in 1 .. Len(s) - n : rest[i] = s[i + n]
  BY <1>2, SkipIsRest
<1> HIDE DEF rest
<1>4. ASSUME e # n PROVE AfterNL(rest) = e - n
  <2>1. e - n \in DOMAIN rest
    BY <1>1, <1>2, <1>3, <1>4
  <2>2. rest[e - n] = NL
    <3>1. e - n \in 1 .. Len(s) - n /\ (e - n) + n = e
      BY <1>1, <1>2, <1>4
    <3>2. QED
      BY <1>1, <1>3, <3>1
  <2>3. ASSUME NEW j \in 1 .. (e - n) - 1 PROVE rest[j] # NL
    <3>1. j \in 1 .. Len(s) - n /\ j + n \in 1 .. e - 1
      BY <1>1, <1>2
    <3>2. QED
      BY <1>1, <1>3, <3>1
  <2>4. QED
    BY <1>3, <2>1, <2>2, <2>3, FirstEndIsAfterNL DEF FirstEnd
<1>5. QED
  BY <1>2, <1>4 DEF e, rest

\* and a buffer with a line has a last one.
LEMMA LastEolFinds ==
    ASSUME line \in Seq(Chars), NEW i \in DOMAIN line, line[i] = NL
    PROVE  LastEol \in 1 .. Len(line) /\ line[LastEol] = NL
<1> DEFINE T == {Len(line) - k : k \in {j \in DOMAIN line : line[j] = NL}}
<1>1. DOMAIN line = 1 .. Len(line) /\ Len(line) \in Nat
  OBVIOUS
<1>2. PICK x \in T : \A y \in T : x <= y
  <2>1. T \subseteq Nat /\ T # {}
    BY <1>1
  <2> HIDE DEF T
  <2>2. QED
    BY <2>1, LeastNumber
<1>3. PICK k \in DOMAIN line : line[k] = NL /\ x = Len(line) - k
  BY <1>2
<1>4. ASSUME NEW j \in k + 1 .. Len(line) PROVE line[j] # NL
  <2>1. j \in DOMAIN line /\ Len(line) - j < Len(line) - k
    BY <1>1, <1>3
  <2>2. SUFFICES ASSUME line[j] = NL PROVE FALSE
    OBVIOUS
  <2>3. Len(line) - j \in T
    BY <2>1, <2>2
  <2> HIDE DEF T
  <2>4. x <= Len(line) - j
    BY <1>2, <2>3
  <2>5. QED
    BY <1>1, <1>3, <2>1, <2>4
<1>5. QED
  BY <1>1, <1>3, <1>4 DEF LastEol

-----------------------------------------------------------------------------
(* Nothing is lost                                                            *)

\* What lb holds is what of s is neither taken out as t nor left out.
Fits(lb, t, s) ==
    IF lb.discard THEN lb.line = << >> /\ Dropped(t, Split(s))
    ELSE Joined(t, lb.line, Split(s)) /\ Len(Split(s).begun) < Cap

\* The lines of a buffer come first: what is behind the last newline is the line begun.
Whole(p, t, l, acc) ==
    /\ l = p \o acc.begun /\ t \o p = acc.whole
    /\ p = << >> \/ p[Len(p)] = NL
    /\ Len(l) = Len(p) + Len(acc.begun)
    /\ \A i \in 1 .. Len(p) : l[i] = p[i]
    /\ \A i \in 1 .. Len(l) : l[i] = NL => i <= Len(p)
LEMMA BegunIsLast ==
    ASSUME NEW t \in Seq(Chars), NEW l \in Seq(Chars), NEW acc \in Accs, Joined(t, l, acc)
    PROVE  \E p \in Seq(Chars) : Whole(p, t, l, acc)
<1>1. PICK p \in Seq(Chars) : l = p \o acc.begun /\ t \o p = acc.whole /\ (p = << >> \/ p[Len(p)] = NL)
  BY DEF Joined
<1> DEFINE b == acc.begun
<1>2. b \in Seq(Chars) /\ \A i \in DOMAIN b : b[i] # NL
  BY DEF Joined, Accs
<1> HIDE DEF b
<1>3. /\ Len(p \o b) = Len(p) + Len(b) /\ Len(p) \in Nat /\ Len(b) \in Nat
      /\ \A i \in 1 .. Len(p) : (p \o b)[i] = p[i]
      /\ \A i \in 1 .. Len(b) : (p \o b)[Len(p) + i] = b[i]
  BY <1>2
<1>4. ASSUME NEW i \in 1 .. Len(l), l[i] = NL PROVE i <= Len(p)
  <2> SUFFICES ASSUME ~ (i <= Len(p)) PROVE FALSE
    BY <1>1, <1>3
  <2>1. i - Len(p) \in 1 .. Len(b) /\ Len(p) + (i - Len(p)) = i
    BY <1>1, <1>3 DEF b
  <2>2. l[i] = b[i - Len(p)]
    BY <1>1, <1>3, <2>1 DEF b
  <2> QED
    BY <1>2, <1>4, <2>1, <2>2
<1> QED
  BY <1>1, <1>3, <1>4 DEF b, Whole

LEMMA UpdateRFits ==
    ASSUME NEW lb, Good(lb), NEW chunk \in Seq(Chars), Len(lb.line) + Len(chunk) <= Cap,
           NEW t \in Seq(Chars), NEW s \in Seq(Chars), Fits(lb, t, s)
    PROVE  Fits(UpdateR(lb, chunk), t, s \o chunk)
<1> DEFINE text == lb.line \o chunk
           found == Found(lb, chunk)
           drop == lb.discard \/ (found = 0 /\ Len(text) >= Cap)
           rest == Skip(text, found)
           next == UpdateR(lb, chunk)
           acc == Split(s \o chunk)
           b == acc.begun
<1>1. /\ text \in Seq(Chars) /\ Len(text) <= Cap /\ Len(text) \in Nat
      /\ found = AfterNL(text) /\ found \in 0 .. Len(text)
      /\ found = 0 => \A i \in 1 .. Len(text) : text[i] # NL
      /\ found # 0 => text[found] = NL /\ \A i \in 1 .. found - 1 : text[i] # NL
  <2>1. text \in Seq(Chars) /\ Len(text) = Len(lb.line) + Len(chunk)
    BY DEF Good
  <2>2. found = AfterNL(text)
    BY FoundIsFirst
  <2> HIDE DEF text, found
  <2>3. QED
    BY <2>1, <2>2, AfterNLFinds DEF FirstEnd
<1>2. next =
        CASE ~drop              -> [line |-> text, eol |-> found, discard |-> FALSE]
          [] drop /\ found = 0  -> [line |-> << >>, eol |-> 0, discard |-> TRUE]
          [] drop /\ found # 0  -> [line |-> rest, eol |-> AfterNL(rest), discard |-> FALSE]
  BY DEF UpdateR
<1>3. s \o chunk \in Seq(Chars) /\ acc \in Accs /\ b \in Seq(Chars) /\ Cap \in Nat \ {0}
  <2>1. s \o chunk \in Seq(Chars) /\ NL \in Chars
    BY DEF Chars
  <2>2. acc \in Accs
    BY <2>1, SplitAppend
  <2> QED
    BY <2>1, <2>2, LineBufferAssumption DEF Accs
<1>4. lb.line \in Seq(Chars)
  BY DEF Good
<1> HIDE DEF found, rest, next, acc
<1>5. CASE ~ lb.discard
  <2>1. Joined(t, text, acc)
    <3>1. Joined(t, lb.line, Split(s))
      BY <1>5 DEF Fits
    <3> QED
      BY <1>4, <3>1, JoinedConcat DEF acc
  <2> HIDE DEF text
  <2>2. PICK p \in Seq(Chars) : /\ text = p \o b /\ t \o p = acc.whole
                                /\ p = << >> \/ p[Len(p)] = NL
                                /\ Len(text) = Len(p) + Len(b)
                                /\ \A i \in 1 .. Len(p) : text[i] = p[i]
                                /\ \A i \in 1 .. Len(text) : text[i] = NL => i <= Len(p)
    <3>1. text \in Seq(Chars) /\ acc \in Accs
      BY <1>1, <1>3
    <3>2. PICK p \in Seq(Chars) : Whole(p, t, text, acc)
      BY <2>1, <3>1, BegunIsLast
    <3> QED
      BY <3>2 DEF Whole
  <2>3. CASE ~drop
    <3>1. next = [line |-> text, eol |-> found, discard |-> FALSE]
      BY <1>2, <2>3
    <3>2. Len(b) < Cap
      <4>1. Len(b) \in Nat /\ Len(p) \in Nat
        BY <1>3
      <4>2. CASE found # 0
        <5>1. found \in 1 .. Len(text) /\ text[found] = NL
          BY <1>1, <4>2
        <5>2. 1 <= Len(p)
          BY <2>2, <4>1, <5>1
        <5> QED
          BY <1>1, <1>3, <2>2, <4>1, <5>2
      <4>3. CASE Len(text) < Cap
        BY <1>1, <1>3, <2>2, <4>1, <4>3
      <4> QED
        BY <1>1, <1>3, <1>5, <2>3, <4>2, <4>3
    <3>3. next.discard = FALSE /\ next.line = text
      BY <3>1
    <3> QED
      BY <2>1, <3>2, <3>3 DEF Fits, next, acc
  <2>4. CASE drop
    <3>1. found = 0 /\ Len(text) >= Cap
      BY <1>5, <2>4
    <3>2. next = [line |-> << >>, eol |-> 0, discard |-> TRUE]
      BY <1>2, <2>4, <3>1
    <3>3. p = << >>
      <4> SUFFICES ASSUME p # << >> PROVE FALSE
        OBVIOUS
      <4>1. Len(p) \in Nat \ {0} /\ p[Len(p)] = NL /\ Len(b) \in Nat
        BY <1>3, <2>2
      <4>2. Len(p) \in 1 .. Len(p) /\ Len(p) \in 1 .. Len(text)
        BY <2>2, <4>1
      <4> QED
        BY <1>1, <2>2, <3>1, <4>1, <4>2
    <3>4. Len(b) = Len(text) /\ t = acc.whole
      <4>1. t \o << >> = t /\ Len(<< >>) = 0 /\ Len(b) \in Nat
        BY <1>3
      <4> QED
        BY <2>2, <3>3, <4>1
    <3>5. Dropped(t, acc)
      BY <3>1, <3>4 DEF Dropped
    <3>6. next.discard = TRUE /\ next.line = << >>
      BY <3>2
    <3> QED
      BY <3>5, <3>6 DEF Fits, next, acc
  <2> QED
    BY <2>3, <2>4
<1>6. CASE lb.discard
  <2>1. lb.line = << >> /\ Dropped(t, Split(s))
    BY <1>6 DEF Fits
  <2>2. text = chunk
    BY <2>1
  <2> HIDE DEF text
  <2>3. CASE found = 0
    <3>1. next = [line |-> << >>, eol |-> 0, discard |-> TRUE]
      BY <1>2, <1>6, <2>3
    <3>2. \A i \in DOMAIN chunk : chunk[i] # NL
      BY <1>1, <2>2, <2>3
    <3>3. Dropped(t, acc)
      BY <2>1, <3>2, DroppedConcat DEF acc
    <3>4. next.discard = TRUE /\ next.line = << >>
      BY <3>1
    <3> QED
      BY <3>3, <3>4 DEF Fits, next, acc
  <2>4. CASE found # 0
    <3> DEFINE front == SubSeq(chunk, 1, found - 1)
               upto == Fed(s, chunk, found)
    <3>1. next = [line |-> rest, eol |-> AfterNL(rest), discard |-> FALSE]
      BY <1>2, <1>6, <2>4
    <3>2. /\ found \in 1 .. Len(chunk) /\ chunk[found] = NL /\ \A i \in 1 .. found - 1 : chunk[i] # NL
          /\ found - 1 \in 0 .. Len(chunk) - 1 /\ (found - 1) + 1 = found /\ found - 1 \in 0 .. Len(chunk)
          /\ found \in 0 .. Len(chunk)
      BY <1>1, <2>2, <2>4
    <3>3. front \in Seq(Chars) /\ \A i \in DOMAIN front : front[i] # NL
      BY <3>2
    <3>4. Dropped(t, Split(s \o front)) /\ s \o front \in Seq(Chars)
      <4> HIDE DEF front
      <4> QED
        BY <2>1, <3>3, DroppedConcat
    <3>5. s \o front = Fed(s, chunk, found - 1)
      BY DEF Fed
    <3>6. upto = Append(s \o front, NL) /\ upto \in Seq(Chars)
      <4>1. PICK k \in 0 .. Len(chunk) - 1 : k = found - 1 /\ k + 1 = found
        BY <3>2
      <4>2. Fed(s, chunk, k + 1) = Append(Fed(s, chunk, k), chunk[k + 1])
        BY OneByOne
      <4>3. Fed(s, chunk, found) \in Seq(Chars)
        BY <3>2, OneByOne
      <4> QED
        BY <3>2, <3>5, <4>1, <4>2, <4>3
    <3>7. NL \in Chars /\ Split(s \o front) \in Accs
      BY <3>4, SplitAppend DEF Chars
    <3>8. Joined(t, << >>, Split(upto))
      <4> HIDE DEF front, upto
      <4>1. Joined(t, << >>, SplitAt(Split(s \o front), NL))
        BY <3>4, <3>7, DroppedAppend
      <4>2. Split(Append(s \o front, NL)) = SplitAt(Split(s \o front), NL)
        BY <3>4, <3>7, SplitAppend
      <4> QED
        BY <3>6, <4>1, <4>2
    <3>9. rest \in Seq(Chars) /\ Len(rest) = Len(chunk) - found
      BY <1>1, <2>2, <3>2, SkipIsRest DEF rest
    <3>10. upto \o rest = s \o chunk
      <4>1. SubSeq(chunk, 1, found) \o rest = chunk
        BY <2>2, <3>2 DEF rest, Skip
      <4>2. SubSeq(chunk, 1, found) \in Seq(Chars)
        BY <3>2
      <4>3. (s \o SubSeq(chunk, 1, found)) \o rest = s \o (SubSeq(chunk, 1, found) \o rest)
        BY <3>9, <4>2, ConcatGroups
      <4> QED
        BY <4>1, <4>3 DEF Fed
    <3>11. Joined(t, rest, acc)
      <4>1. Len(<< >>) + Len(rest) <= Cap /\ << >> \in Seq(Chars) /\ << >> \o rest = rest
        BY <1>1, <1>3, <2>2, <3>2, <3>9
      <4> HIDE DEF upto
      <4>2. Joined(t, << >> \o rest, Split(upto \o rest))
        BY <3>6, <3>8, <3>9, <4>1, JoinedConcat
      <4> QED
        BY <3>10, <4>1, <4>2 DEF acc
    <3>12. Len(b) < Cap
      <4>1. PICK p \in Seq(Chars) : Whole(p, t, rest, acc)
        BY <1>3, <3>9, <3>11, BegunIsLast
      <4>2. Len(p) \in Nat /\ Len(b) \in Nat /\ Len(chunk) <= Cap /\ Len(chunk) \in Nat
        BY <1>1, <1>3, <2>2
      <4>3. Len(rest) = Len(p) + Len(b)
        BY <4>1 DEF Whole
      <4> QED
        BY <1>3, <3>2, <3>9, <4>2, <4>3
    <3>13. next.discard = FALSE /\ next.line = rest
      BY <3>1
    <3> QED
      BY <3>11, <3>12, <3>13 DEF Fits, next, acc
  <2> QED
    BY <2>3, <2>4
<1>7. lb.discard \in BOOLEAN
  BY DEF Good
<1> QED
  BY <1>5, <1>6, <1>7

-----------------------------------------------------------------------------
(* The invariant: the three invariants together are inductive.                *)

IInv == TypeOK /\ EolIsFirst /\ ReturnTellsPending

LEMMA InvIsGood == TypeOK /\ EolIsFirst <=> Good(Buffer)
<1>1. ASSUME Good(Buffer) PROVE eol \in 0 .. Len(line)
  BY <1>1, AfterNLFinds DEF Good, Buffer
<1>2. QED
  BY <1>1 DEF TypeOK, EolIsFirst, Good, Buffer, Chars

\* What the last call returned stays true of a line that is not touched, and is true
\* after a call that tells it of the new eol.
LEMMA ToldByEol ==
    ASSUME line' \in Seq(Chars), eol' = AfterNL(line'),
           \/ ret' = <<"read", IF eol' = 0 THEN EAGAIN ELSE 0>>
           \/ ret' = <<"write", IF eol' = 0 THEN 0 ELSE EAGAIN>>
           \/ ret'[1] \notin {"read", "write"}
    PROVE  ReturnTellsPending'
<1>1. eol' = 0 <=> NL \notin Range(line')
  <2>1. eol' = 0 => \A i \in DOMAIN line' : line'[i] # NL
    BY AfterNLFinds
  <2>2. eol' # 0 => eol' \in DOMAIN line' /\ line'[eol'] = NL
    BY AfterNLFinds DEF FirstEnd
  <2>3. QED
    BY <2>1, <2>2 DEF Range
<1>2. QED
  BY <1>1 DEF ReturnTellsPending, EAGAIN

LEMMA InitIsGood == Init => IInv
<1> HAVE Init
<1>1. line \in Seq(Chars) /\ Len(line) <= Cap /\ eol = AfterNL(line) /\ discard \in BOOLEAN
  <2>1. line = << >> /\ eol = 0 /\ discard = FALSE
    BY DEF Init
  <2>2. << >> \in Seq(Chars) /\ Len(<< >>) = 0
    OBVIOUS
  <2>3. line \in Seq(Chars) /\ Len(line) <= Cap
    BY <2>1, <2>2, LineBufferAssumption
  <2>4. eol = AfterNL(line)
    BY <2>1, EmptyHasNoEnd, Zenon
  <2>5. discard \in BOOLEAN
    BY <2>1
  <2>6. QED
    BY <2>3, <2>4, <2>5
<1>2. TypeOK /\ EolIsFirst
  BY <1>1, InvIsGood DEF Good, Buffer
<1>3. ReturnTellsPending
  BY DEF Init, ReturnTellsPending
<1>4. QED
  BY <1>2, <1>3 DEF IInv

\* A step to a good buffer that tells the truth of it keeps the invariant.
LEMMA GoodStep ==
    ASSUME NEW lb, Good(lb), Become(lb),
           \/ ret' = <<"read", IF eol' = 0 THEN EAGAIN ELSE 0>>
           \/ ret' = <<"write", IF eol' = 0 THEN 0 ELSE EAGAIN>>
           \/ ret'[1] \notin {"read", "write"}
    PROVE  IInv'
<1>1. line' \in Seq(Chars) /\ Len(line') <= Cap /\ eol' = AfterNL(line') /\ discard' \in BOOLEAN
  BY DEF Good, Become
<1>2. eol' \in 0 .. Len(line')
  BY <1>1, AfterNLFinds
<1>3. ReturnTellsPending'
  BY <1>1, ToldByEol
<1>4. QED
  BY <1>1, <1>2, <1>3 DEF IInv, TypeOK, EolIsFirst, Chars

LEMMA ReadFdKeeps == IInv /\ ReadFd => IInv'
<1> HAVE IInv /\ ReadFd
<1>1. PICK n \in 1 .. SizeLeft : \E chunk \in [1 .. n -> {NL, Chr}] : Become(UpdateR(Buffer, chunk))
  BY DEF ReadFd
<1>2. PICK chunk \in [1 .. n -> {NL, Chr}] : Become(UpdateR(Buffer, chunk))
  BY <1>1
<1>3. Good(Buffer)
  BY InvIsGood DEF IInv
<1>4. Len(Buffer.line) \in Nat /\ Len(Buffer.line) = Len(line)
  BY <1>3 DEF Good, Buffer
<1>5. n \in Nat /\ Len(line) + n <= Cap
  BY <1>4, LineBufferAssumption DEF SizeLeft
<1>6. chunk \in Seq(Chars) /\ Len(chunk) = n
  BY <1>5 DEF Chars
<1>7. Good(UpdateR(Buffer, chunk))
  BY <1>3, <1>4, <1>5, <1>6, UpdateRIsGood
<1>8. ret' = <<"read", IF eol' = 0 THEN EAGAIN ELSE 0>>
  BY DEF ReadFd
<1>9. QED
  BY <1>2, <1>7, <1>8, GoodStep

\* A call that leaves the buffer alone.
LEMMA IdleStep ==
    ASSUME IInv, UNCHANGED <<line, eol, discard>>, ret'[1] \notin {"read", "write"}
    PROVE  IInv'
<1>1. Good(Buffer)
  BY InvIsGood DEF IInv
<1>2. Become(Buffer)
  BY DEF Become, Buffer
<1>3. QED
  BY <1>1, <1>2, GoodStep

LEMMA ReadFullKeeps == IInv /\ ReadFull => IInv'
<1> HAVE IInv /\ ReadFull
<1>1. UNCHANGED <<line, eol, discard>> /\ ret'[1] = "full"
  BY DEF ReadFull
<1>2. QED
  BY <1>1, IdleStep

LEMMA PutLineKeeps == ASSUME NEW s \in Puts PROVE IInv /\ PutLine(s) => IInv'
<1> HAVE IInv /\ PutLine(s)
<1> DEFINE mustadd == s # << >> /\ Last(s) # NL
           text == IF mustadd THEN Append(s, NL) ELSE s
           put == UpdateR(Buffer, s)
<1>1. ret'[1] = "put"
  BY DEF PutLine
<1>2. CASE Len(text) > SizeLeft
  <2>1. UNCHANGED <<line, eol, discard>>
    BY <1>2 DEF PutLine
  <2>2. QED
    BY <1>1, <2>1, IdleStep
<1>3. CASE ~ (Len(text) > SizeLeft)
  <2>1. Become(IF mustadd THEN UpdateR(put, <<NL>>) ELSE put)
    BY <1>3 DEF PutLine
  <2>2. Good(Buffer) /\ Len(line) \in Nat /\ Buffer.line = line
    BY InvIsGood DEF IInv, Good, Buffer
  <2>3. s \in Seq(Chars) /\ <<NL>> \in Seq(Chars)
    BY LineBufferAssumption DEF Chars
  <2>4. Len(s) <= Len(text) /\ Len(line) + Len(text) <= Cap
    BY <1>3, <2>2, <2>3, LineBufferAssumption DEF SizeLeft
  <2>5. Good(put)
    <3> HIDE DEF text, mustadd
    <3>1. Len(Buffer.line) + Len(s) <= Cap
      BY <2>2, <2>3, <2>4, LineBufferAssumption
    <3>2. QED
      BY <2>2, <2>3, <3>1, UpdateRIsGood
  <2>6. CASE ~mustadd
    BY <1>1, <2>1, <2>5, <2>6, GoodStep
  <2>7. CASE mustadd
    <3>1. Len(put.line) <= Len(line) + Len(s)
      BY <2>2, <2>3, <2>4, UpdateRDoesNotGrow
    <3>2. Len(<<NL>>) = 1 /\ Len(s) + 1 = Len(text) /\ Len(put.line) \in Nat
      BY <2>3, <2>5, <2>7 DEF Good
    <3> HIDE DEF put, text, mustadd
    <3>3. Len(put.line) + Len(<<NL>>) <= Cap
      BY <2>2, <2>3, <2>4, <3>1, <3>2, LineBufferAssumption
    <3>4. Good(UpdateR(put, <<NL>>))
      BY <2>3, <2>5, <3>3, UpdateRIsGood
    <3>5. QED
      BY <1>1, <2>1, <2>7, <3>4, GoodStep
  <2>8. QED
    BY <2>6, <2>7
<1>4. QED
  BY <1>2, <1>3

\* Taking out n characters of the first line, of length end, or of the first lines.
LEMMA TakeOutKeeps ==
    ASSUME IInv, NEW n \in Nat, NEW end, TakeOut(n, end), UNCHANGED discard,
           \/ Pending /\ end = eol /\ n \in 1 .. eol
           \/ end = n /\ n \in 1 .. Len(line),
           \/ ret' = <<"write", IF eol' = 0 THEN 0 ELSE EAGAIN>>
           \/ ret'[1] = "get"
    PROVE  IInv'
<1>1. /\ line \in Seq(Chars) /\ Len(line) <= Cap /\ Len(line) \in Nat
      /\ eol = AfterNL(line) /\ discard \in BOOLEAN /\ eol \in 0 .. Len(line)
  BY DEF IInv, TypeOK, EolIsFirst, Chars
<1>2. n \in 0 .. Len(line) /\ (end # n => AfterNL(Skip(line, n)) = end - n)
  <2>1. CASE end = n /\ n \in 1 .. Len(line)
    BY <1>1, <2>1
  <2>2. CASE Pending /\ end = eol /\ n \in 1 .. eol
    BY <1>1, <2>2, TakeOutFirst DEF Pending
  <2>3. QED
    BY <2>1, <2>2
<1>3. line' = Skip(line, n) /\ eol' = AfterNL(Skip(line, n))
  BY <1>2 DEF TakeOut
<1>4. Skip(line, n) \in Seq(Chars) /\ Len(Skip(line, n)) = Len(line) - n
  BY <1>1, <1>2, SkipIsRest
<1> DEFINE lb == [line |-> Skip(line, n), eol |-> AfterNL(Skip(line, n)), discard |-> discard]
<1>5. Good(lb)
  BY <1>1, <1>2, <1>4, LineBufferAssumption DEF Good
<1>6. Become(lb)
  BY <1>3 DEF Become
<1> HIDE DEF lb
<1>7. QED
  BY <1>5, <1>6, GoodStep

LEMMA WriteFdKeeps == IInv /\ WriteFd => IInv'
<1> HAVE IInv /\ WriteFd
<1>1. PICK n \in 1 .. eol : TakeOut(n, eol)
  BY DEF WriteFd
<1>2. Pending /\ UNCHANGED discard /\ ret' = <<"write", IF eol' = 0 THEN 0 ELSE EAGAIN>>
  BY DEF WriteFd
<1>3. n \in Nat
  BY DEF IInv, TypeOK
<1>4. QED
  BY <1>1, <1>2, <1>3, TakeOutKeeps

LEMMA WriteFdAllKeeps == IInv /\ WriteFdAll => IInv'
<1> HAVE IInv /\ WriteFdAll
<1>1. PICK n \in 1 .. LastEol : TakeOut(n, n)
  BY DEF WriteFdAll
<1>2. Pending /\ UNCHANGED discard /\ ret' = <<"write", IF eol' = 0 THEN 0 ELSE EAGAIN>>
  BY DEF WriteFdAll
<1>3. line \in Seq(Chars) /\ eol = AfterNL(line) /\ eol # 0
  BY <1>2 DEF IInv, TypeOK, EolIsFirst, Pending, Chars
<1>4. eol \in DOMAIN line /\ line[eol] = NL
  BY <1>3, AfterNLFinds DEF FirstEnd
<1>5. LastEol \in 1 .. Len(line)
  BY <1>3, <1>4, LastEolFinds
<1>6. n \in Nat /\ n \in 1 .. Len(line)
  BY <1>3, <1>5
<1>7. QED
  BY <1>1, <1>2, <1>6, TakeOutKeeps

LEMMA GetLineKeeps == ASSUME NEW size \in Sizes PROVE IInv /\ GetLine(size) => IInv'
<1> HAVE IInv /\ GetLine(size)
<1>1. ret'[1] = "get"
  BY DEF GetLine
<1>2. CASE ~Pending \/ size < eol + 1
  <2>1. UNCHANGED <<line, eol, discard>>
    BY <1>2 DEF GetLine
  <2>2. QED
    BY <1>1, <2>1, IdleStep
<1>3. CASE ~ (~Pending \/ size < eol + 1)
  <2>1. TakeOut(eol, eol) /\ UNCHANGED discard /\ Pending
    BY <1>3 DEF GetLine
  <2>2. eol \in Nat /\ eol \in 1 .. eol
    BY <2>1 DEF IInv, TypeOK, Pending
  <2>3. QED
    BY <1>1, <2>1, <2>2, TakeOutKeeps
<1>4. QED
  BY <1>2, <1>3

LEMMA NextKeeps == IInv /\ [Next]_vars => IInv'
<1> HAVE IInv /\ [Next]_vars
<1>1. CASE UNCHANGED vars
  BY <1>1 DEF vars, IInv, TypeOK, EolIsFirst, ReturnTellsPending
<1>2. CASE Next
  BY <1>2, ReadFdKeeps, ReadFullKeeps, WriteFdKeeps, WriteFdAllKeeps, PutLineKeeps, GetLineKeeps
     DEF Next
<1>3. QED
  BY <1>1, <1>2

-----------------------------------------------------------------------------
\* No call ever writes behind the array: with room kept for the terminating zero
\* there are at most Cap characters in it, whatever is read, put and taken out
\* (linebuffer.c:34, 54-81, 88, 148).
THEOREM StaysInArray == Spec => []TypeOK
<1>1. Spec => []IInv
  BY InitIsGood, NextKeeps, PTL DEF Spec
<1>2. IInv => TypeOK
  BY DEF IInv
<1>3. QED
  BY <1>1, <1>2, PTL

\* The cached eol is the end of the first line after every mixture of calls: no
\* complete line sits in the buffer unseen, no begun one is handed out
\* (linebuffer.c:52-158).
THEOREM EolIsEndOfFirstLine == Spec => []EolIsFirst
<1>1. Spec => []IInv
  BY InitIsGood, NextKeeps, PTL DEF Spec
<1>2. IInv => EolIsFirst
  BY DEF IInv
<1>3. QED
  BY <1>1, <1>2, PTL

\* What reading and writing return tells whether there is a complete line, which is
\* what the callers sleep on (linebuffer.h:38-44, 51-58).
THEOREM ReturnsTellTheTruth == Spec => []ReturnTellsPending
<1>1. Spec => []IInv
  BY InitIsGood, NextKeeps, PTL DEF Spec
<1>2. IInv => ReturnTellsPending
  BY DEF IInv
<1>3. QED
  BY <1>1, <1>2, PTL

-----------------------------------------------------------------------------
(* The histories                                                              *)

FedInv == /\ fed \in Seq(Chars) /\ taken \in Seq(Chars)
          /\ Fits(Buffer, taken, fed)

LEMMA FedByBecome ==
    ASSUME NEW lb, Become(lb), fed' \in Seq(Chars), taken' \in Seq(Chars), Fits(lb, taken', fed')
    PROVE  FedInv'
BY DEF Become, FedInv, Buffer, Fits

LEMMA ReadFdFeeds == IInv /\ FedInv /\ ReadFd => FedInv'
<1> HAVE IInv /\ FedInv /\ ReadFd
<1>1. PICK n \in 1 .. SizeLeft : \E chunk \in [1 .. n -> {NL, Chr}] :
        Become(UpdateR(Buffer, chunk)) /\ fed' = fed \o chunk
  BY DEF ReadFd
<1>2. PICK chunk \in [1 .. n -> {NL, Chr}] : Become(UpdateR(Buffer, chunk)) /\ fed' = fed \o chunk
  BY <1>1
<1>3. Good(Buffer)
  BY InvIsGood DEF IInv
<1>4. Len(Buffer.line) \in Nat /\ Len(Buffer.line) = Len(line)
  BY <1>3 DEF Good, Buffer
<1>5. n \in Nat /\ Len(line) + n <= Cap
  BY <1>4, LineBufferAssumption DEF SizeLeft
<1>6. chunk \in Seq(Chars) /\ Len(chunk) = n
  BY <1>5 DEF Chars
<1>7. Len(Buffer.line) + Len(chunk) <= Cap
  BY <1>4, <1>5, <1>6
<1>8. fed \in Seq(Chars) /\ taken \in Seq(Chars) /\ Fits(Buffer, taken, fed)
  BY DEF FedInv
<1>9. Fits(UpdateR(Buffer, chunk), taken, fed \o chunk)
  BY <1>3, <1>6, <1>7, <1>8, UpdateRFits
<1>10. taken' = taken /\ fed' = fed \o chunk /\ fed \o chunk \in Seq(Chars)
  BY <1>2, <1>6, <1>8 DEF ReadFd
<1> QED
  BY <1>2, <1>8, <1>9, <1>10, FedByBecome

LEMMA IdleFeeds ==
    ASSUME FedInv, UNCHANGED <<line, eol, discard, fed, taken>>
    PROVE  FedInv'
BY DEF FedInv, Buffer

LEMMA PutLineFeeds == ASSUME NEW s \in Puts PROVE IInv /\ FedInv /\ PutLine(s) => FedInv'
<1> HAVE IInv /\ FedInv /\ PutLine(s)
<1> DEFINE mustadd == s # << >> /\ Last(s) # NL
           text == IF mustadd THEN Append(s, NL) ELSE s
           put == UpdateR(Buffer, s)
<1>1. CASE Len(text) > SizeLeft
  <2>1. UNCHANGED <<line, eol, discard, fed, taken>>
    BY <1>1 DEF PutLine
  <2> QED
    BY <2>1, IdleFeeds
<1>2. CASE ~ (Len(text) > SizeLeft)
  <2>1. Become(IF mustadd THEN UpdateR(put, <<NL>>) ELSE put) /\ fed' = fed \o text /\ taken' = taken
    BY <1>2 DEF PutLine
  <2>2. Good(Buffer) /\ Len(line) \in Nat /\ Buffer.line = line
    BY InvIsGood DEF IInv, Good, Buffer
  <2>3. s \in Seq(Chars) /\ <<NL>> \in Seq(Chars) /\ NL \in Chars
    BY LineBufferAssumption DEF Chars
  <2>4. Len(s) <= Len(text) /\ Len(line) + Len(text) <= Cap
    BY <1>2, <2>2, <2>3, LineBufferAssumption DEF SizeLeft
  <2>5. fed \in Seq(Chars) /\ taken \in Seq(Chars) /\ Fits(Buffer, taken, fed)
    BY DEF FedInv
  <2>6. Len(Buffer.line) + Len(s) <= Cap
    <3> HIDE DEF text, mustadd
    <3> QED
      BY <2>2, <2>3, <2>4, LineBufferAssumption
  <2>7. Good(put) /\ Fits(put, taken, fed \o s) /\ fed \o s \in Seq(Chars)
    <3>1. Good(put)
      BY <2>2, <2>3, <2>6, UpdateRIsGood
    <3>2. Fits(put, taken, fed \o s)
      BY <2>2, <2>3, <2>5, <2>6, UpdateRFits
    <3>3. fed \o s \in Seq(Chars)
      BY <2>3, <2>5
    <3> QED
      BY <3>1, <3>2, <3>3
  <2>8. CASE ~mustadd
    <3>1. Become(put) /\ fed' = fed \o s
      BY <2>1, <2>8
    <3> HIDE DEF put
    <3> QED
      BY <2>1, <2>5, <2>7, <3>1, FedByBecome
  <2>9. CASE mustadd
    <3>1. Len(put.line) <= Len(line) + Len(s)
      BY <2>2, <2>3, <2>4, UpdateRDoesNotGrow
    <3>2. Len(<<NL>>) = 1 /\ Len(s) + 1 = Len(text) /\ Len(put.line) \in Nat
      BY <2>3, <2>7, <2>9 DEF Good
    <3>3. fed' = (fed \o s) \o <<NL>>
      <4>1. text = s \o <<NL>>
        BY <2>3, <2>9
      <4>2. (fed \o s) \o <<NL>> = fed \o (s \o <<NL>>)
        BY <2>3, <2>5, ConcatGroups
      <4> QED
        BY <2>1, <4>1, <4>2
    <3>4. Become(UpdateR(put, <<NL>>))
      BY <2>1, <2>9
    <3> HIDE DEF put, text, mustadd
    <3>5. Len(put.line) + Len(<<NL>>) <= Cap
      BY <2>2, <2>3, <2>4, <3>1, <3>2, LineBufferAssumption
    <3>6. Fits(UpdateR(put, <<NL>>), taken, (fed \o s) \o <<NL>>)
      BY <2>3, <2>5, <2>7, <3>5, UpdateRFits
    <3>7. (fed \o s) \o <<NL>> \in Seq(Chars)
      BY <2>3, <2>7
    <3> QED
      BY <2>1, <2>5, <3>3, <3>4, <3>6, <3>7, FedByBecome
  <2> QED
    BY <2>8, <2>9
<1> QED
  BY <1>1, <1>2

LEMMA SkipFront ==
    ASSUME NEW x \in Seq(Chars), NEW y \in Seq(Chars)
    PROVE  Skip(x \o y, Len(x)) = y
<1> HIDE DEF Chars
<1> QED
  BY DEF Skip

\* What is taken out up to a newline was in whole lines.
LEMMA TakeOutJoined ==
    ASSUME NEW t \in Seq(Chars), NEW l \in Seq(Chars), NEW acc \in Accs, Joined(t, l, acc),
           NEW m \in 1 .. Len(l), l[m] = NL, NEW n \in 1 .. m
    PROVE  Joined(t \o SubSeq(l, 1, n), Skip(l, n), acc)
<1> DEFINE b == acc.begun
<1>1. b \in Seq(Chars) /\ \A i \in DOMAIN b : b[i] # NL
  BY DEF Joined, Accs
<1>2. PICK p \in Seq(Chars) : Whole(p, t, l, acc)
  BY BegunIsLast
<1>3. /\ l = p \o b /\ t \o p = acc.whole /\ (p = << >> \/ p[Len(p)] = NL)
      /\ Len(l) = Len(p) + Len(b) /\ m <= Len(p) /\ \A i \in 1 .. Len(p) : l[i] = p[i]
  BY <1>2 DEF Whole
<1> HIDE DEF b
<1> DEFINE q == SubSeq(p, n + 1, Len(p))
           out == SubSeq(p, 1, n)
<1>4. n \in 1 .. Len(p) /\ Len(p) \in Nat
  BY <1>3
<1>5. /\ q \in Seq(Chars) /\ Len(q) = Len(p) - n /\ \A i \in 1 .. Len(p) - n : q[i] = p[n + i]
      /\ out \in Seq(Chars) /\ Len(out) = n /\ \A i \in 1 .. n : out[i] = p[i]
      /\ out \o q = p
  BY <1>4
<1>6. SubSeq(l, 1, n) = out
  BY <1>3, <1>4, <1>5
<1> HIDE DEF q, out
<1>7. Skip(l, n) = q \o b
  <2>1. (out \o q) \o b = out \o (q \o b) /\ q \o b \in Seq(Chars)
    <3>1. b \in Seq(Chars) /\ q \in Seq(Chars) /\ out \in Seq(Chars)
      BY <1>1, <1>5
    <3>2. (out \o q) \o b = out \o (q \o b)
      BY <3>1, ConcatGroups
    <3>3. q \o b \in Seq(Chars)
      BY <3>1
    <3> QED
      BY <3>2, <3>3
  <2>2. l = out \o (q \o b)
    BY <1>3, <1>5, <2>1
  <2>3. Skip(out \o (q \o b), Len(out)) = q \o b
    BY <1>5, <2>1, SkipFront
  <2> QED
    BY <1>5, <2>2, <2>3
<1>8. (t \o out) \o q = acc.whole
  BY <1>3, <1>5, ConcatGroups
<1>9. q = << >> \/ q[Len(q)] = NL
  <2>1. CASE Len(p) = n
    BY <1>5, <2>1
  <2>2. CASE Len(p) # n
    <3>1. Len(p) - n \in 1 .. Len(p) - n /\ n + (Len(p) - n) = Len(p) /\ p # << >>
      BY <1>4, <2>2
    <3> QED
      BY <1>3, <1>5, <3>1
  <2> QED
    BY <2>1, <2>2
<1> QED
  BY <1>1, <1>5, <1>6, <1>7, <1>8, <1>9 DEF Joined, b

LEMMA TakeOutFeeds ==
    ASSUME IInv, FedInv, NEW m \in 1 .. Len(line), line[m] = NL, NEW n \in 1 .. m, NEW end,
           TakeOut(n, end), UNCHANGED <<discard, fed>>
    PROVE  FedInv'
<1>1. line \in Seq(Chars) /\ fed \in Seq(Chars) /\ taken \in Seq(Chars) /\ Fits(Buffer, taken, fed)
  BY DEF IInv, TypeOK, FedInv, Chars
<1>2. line # << >> /\ n \in 1 .. Len(line)
  BY <1>1
<1>3. ~ discard /\ Joined(taken, line, Split(fed)) /\ Len(Split(fed).begun) < Cap
  BY <1>1, <1>2 DEF Fits, Buffer
<1>4. Split(fed) \in Accs
  BY <1>1, SplitAppend DEF Chars
<1>5. Joined(taken \o SubSeq(line, 1, n), Skip(line, n), Split(fed))
  BY <1>1, <1>3, <1>4, TakeOutJoined
<1>6. line' = Skip(line, n) /\ taken' = taken \o SubSeq(line, 1, n) /\ fed' = fed /\ discard' = discard
  BY DEF TakeOut
<1>7. taken \o SubSeq(line, 1, n) \in Seq(Chars)
  BY <1>1, <1>2
<1>8. Fits(Buffer, taken, fed)'
  BY <1>3, <1>5, <1>6 DEF Fits, Buffer
<1> QED
  BY <1>1, <1>6, <1>7, <1>8 DEF FedInv

\* The end of the first line, where eol is set.
LEMMA EolIsNewline ==
    ASSUME IInv, Pending
    PROVE  eol \in 1 .. Len(line) /\ line[eol] = NL
<1>1. line \in Seq(Chars) /\ eol = AfterNL(line) /\ eol # 0
  BY DEF IInv, TypeOK, EolIsFirst, Pending, Chars
<1> QED
  BY <1>1, AfterNLFinds DEF FirstEnd

LEMMA NextFeeds == IInv /\ FedInv /\ [Next]_vars => FedInv'
<1> HAVE IInv /\ FedInv /\ [Next]_vars
<1>1. CASE UNCHANGED vars
  BY <1>1, IdleFeeds DEF vars
<1>2. CASE ReadFd
  BY <1>2, ReadFdFeeds
<1>3. CASE ReadFull
  BY <1>3, IdleFeeds DEF ReadFull
<1>4. CASE WriteFd
  <2>1. PICK n \in 1 .. eol : TakeOut(n, eol)
    BY <1>4 DEF WriteFd
  <2> QED
    BY <1>4, <2>1, EolIsNewline, TakeOutFeeds DEF WriteFd
<1>5. CASE WriteFdAll
  <2>1. PICK n \in 1 .. LastEol : TakeOut(n, n)
    BY <1>5 DEF WriteFdAll
  <2>2. eol \in DOMAIN line /\ line[eol] = NL /\ line \in Seq(Chars)
    BY <1>5, EolIsNewline DEF WriteFdAll, IInv, TypeOK, Chars
  <2>3. LastEol \in 1 .. Len(line) /\ line[LastEol] = NL
    BY <2>2, LastEolFinds
  <2> QED
    BY <1>5, <2>1, <2>3, TakeOutFeeds DEF WriteFdAll
<1>6. ASSUME NEW s \in Puts, PutLine(s) PROVE FedInv'
  BY <1>6, PutLineFeeds
<1>7. ASSUME NEW size \in Sizes, GetLine(size) PROVE FedInv'
  <2>1. CASE ~Pending \/ size < eol + 1
    BY <1>7, <2>1, IdleFeeds DEF GetLine
  <2>2. CASE ~ (~Pending \/ size < eol + 1)
    <3>1. TakeOut(eol, eol) /\ UNCHANGED <<discard, fed>> /\ Pending
      BY <1>7, <2>2 DEF GetLine
    <3>2. eol \in 1 .. Len(line) /\ line[eol] = NL /\ eol \in 1 .. eol
      BY <3>1, EolIsNewline
    <3> QED
      BY <3>1, <3>2, TakeOutFeeds
  <2> QED
    BY <2>1, <2>2
<1> QED
  BY <1>1, <1>2, <1>3, <1>4, <1>5, <1>6, <1>7 DEF Next

LEMMA InitFeeds == Init => FedInv
<1> HAVE Init
<1>1. /\ line = << >> /\ discard = FALSE /\ fed = << >> /\ taken = << >>
      /\ << >> \in Seq(Chars) /\ << >> \o << >> = << >> /\ DOMAIN << >> = {} /\ Len(<< >>) = 0
  BY DEF Init
<1>2. NothingYet.whole = << >> /\ NothingYet.begun = << >>
  BY DEF NothingYet
<1>3. Joined(<< >>, << >>, NothingYet)
  BY <1>1, <1>2 DEF Joined
<1>4. Len(NothingYet.begun) < Cap
  BY <1>1, <1>2, LineBufferAssumption
<1> QED
  BY <1>1, <1>3, <1>4, SplitEmpty DEF FedInv, Fits, Buffer

\* What has been taken out and what is still in the buffer is, in order and without a gap,
\* what was put in, except for the lines that do not fit, which are left out as a whole:
\* however the stream is cut into reads and partial writes (linebuffer.h:11-17,
\* linebuffer.c:52-158).
THEOREM NothingIsLost == Spec => []NothingLostButLongLines
<1>1. Spec => [](IInv /\ FedInv)
  BY InitIsGood, NextKeeps, InitFeeds, NextFeeds, PTL DEF Spec
<1>2. IInv /\ FedInv => NothingLostButLongLines
  <2> HAVE IInv /\ FedInv
  <2> DEFINE end == Split(fed)
  <2>1. /\ fed \in Seq(Chars) /\ taken \in Seq(Chars) /\ line \in Seq(Chars)
        /\ discard => line = << >> /\ Dropped(taken, end)
        /\ ~ discard => Joined(taken, line, end) /\ Len(end.begun) < Cap
    BY DEF FedInv, Fits, Buffer, IInv, TypeOK, Chars
  <2>2. end \in Accs
    BY <2>1, SplitAppend DEF Chars
  <2> HIDE DEF end
  <2>3. end.whole \in Seq(Chars) /\ end.begun \in Seq(Chars) /\ Len(end.begun) \in Nat /\ Cap \in Nat
    BY <2>2, LineBufferAssumption DEF Accs
  <2>4. Kept(fed) = end.whole \o (IF Len(end.begun) < Cap THEN end.begun ELSE << >>)
    BY DEF Kept, end
  <2>5. CASE discard
    <3>1. taken = end.whole /\ ~ (Len(end.begun) < Cap) /\ line = << >>
      BY <2>1, <2>3, <2>5 DEF Dropped
    <3> QED
      BY <2>4, <3>1 DEF NothingLostButLongLines
  <2>6. CASE ~ discard
    <3>1. PICK p \in Seq(Chars) : line = p \o end.begun /\ taken \o p = end.whole
      BY <2>1, <2>6 DEF Joined
    <3>2. (taken \o p) \o end.begun = taken \o (p \o end.begun)
      BY <2>1, <2>3, ConcatGroups
    <3> QED
      BY <2>1, <2>4, <2>6, <3>1, <3>2 DEF NothingLostButLongLines
  <2> QED
    BY <2>5, <2>6
<1> QED
  BY <1>1, <1>2, PTL
=============================================================================
