-------------------------------- MODULE Timer --------------------------------
(***************************************************************************)
(* io2/lib/timer.c: the start-stop timer that keeps its last Events cycles   *)
(* in a ring buffer of 2*Events ticks.  The parity of count is the timer's   *)
(* whole state; a start is stored in an even slot and a stop in an odd one.  *)
(***************************************************************************)
EXTENDS Integers, FiniteSets, Sequences, SequencesExt

CONSTANTS Events,       \* TIMER_EVENTS: cycles the ring remembers (64 in the code)
          Time,         \* the values now_us() takes
          MaxCount,     \* bound on count, so that TLC ends
          IgnoreDups,   \* the ignoredups field
          Alternate     \* TRUE: callers look at timer_running before they tick

VARIABLES ticks,        \* the ring buffer
          count,        \* even: stopped, odd: running
          ret,          \* what the last timer_tick returned
          calls         \* history: the calls since the reset, <<start, now>> each

vars == <<ticks, count, ret, calls>>

Ring == 2 * Events
EvenSlot(c) == 2 * ((c % Ring) \div 2)          \* (c % Ring) & ~1
SlotSwapped(c, start) == EvenSlot(c) + (IF start THEN 1 ELSE 0)    \* mutant: starts odd
Slot(c, start) == EvenSlot(c) + (IF start THEN 0 ELSE 1)

Running == count % 2 = 1                        \* timer_running
Started == IF Running THEN ticks[(count - 1) % Ring] ELSE 0
Stopped == IF Running \/ count < 2 THEN 0 ELSE ticks[(count - 1) % Ring]

Init ==
    /\ ticks = [i \in 0 .. Ring - 1 |-> 0]
    /\ count = 0
    /\ ret = 0
    /\ calls = <<>>

-----------------------------------------------------------------------------
\* timer_tick drops the call: start was turned into a slot offset (0 for a
\* start) before it is compared with the parity of count.
Dropped(start) == IgnoreDups /\ (IF start THEN 0 ELSE 1) = count % 2

TimerTick(now, start) ==
    /\ Alternate => start = ~Running
    /\ calls' = Append(calls, <<start, now>>)
    /\ IF Dropped(start)
       THEN ret' = 0 /\ UNCHANGED <<ticks, count>>
       ELSE /\ ret' = now - (IF count = 0 THEN now ELSE ticks[EvenSlot(count - 1)])
            /\ ticks' = [ticks EXCEPT ![Slot(count, start)] = now]
            /\ count' = count + 1

TimerReset == count' = 0 /\ calls' = <<>> /\ UNCHANGED <<ticks, ret>>

Tick == Len(calls) < MaxCount /\ \E now \in Time, start \in BOOLEAN : TimerTick(now, start)
Next == Tick \/ TimerReset
Spec == Init /\ [][Next]_vars

-----------------------------------------------------------------------------
(* timer_stats, over the ring.                                              *)
Cycles == count \div 2
HasStats == Cycles >= 2 /\ ~Running
InRing == IF Cycles < Events THEN Cycles ELSE Events                    \* nn
LastIdx == (Cycles - 1) % Events
FirstIdxAtCount == Cycles % Events                              \* mutant: no partly filled ring
FirstIdx == IF Cycles < Events THEN 0 ELSE Cycles % Events
PeriodSpan == ticks[2 * LastIdx] - ticks[2 * FirstIdx]          \* pavg * (nn - 1)
Runs == {ticks[2*i + 1] - ticks[2*i] : i \in 0 .. InRing - 1}
Periods == {ticks[2 * ((i + 1) % Events)] - ticks[2*i] : i \in (0 .. InRing - 1) \ {LastIdx}}

-----------------------------------------------------------------------------
\* The times of the calls that were starts (stops) since the reset.
TimesOf(start) ==
    LET times[k \in 0 .. Len(calls)] ==
            IF k = 0 THEN <<>>
            ELSE IF calls[k][1] = start THEN Append(times[k - 1], calls[k][2]) ELSE times[k - 1]
    IN  times[Len(calls)]
LastN(s, n) == SubSeq(s, Len(s) - n + 1, Len(s))

\* timer_stats covers exactly the last Events cycles: the run times and the
\* start-to-start periods it reads from the ring, wrapped or not, are those of
\* the last calls, with no period across the seam of the ring (timer.c:60-108).
StatsOverLastCycles ==
    HasStats =>
      LET starts == LastN(TimesOf(TRUE), InRing)
          stops  == LastN(TimesOf(FALSE), InRing)
      IN  /\ Runs = {stops[i] - starts[i] : i \in 1 .. InRing}
          /\ Periods = {starts[i + 1] - starts[i] : i \in 1 .. InRing - 1}
          /\ PeriodSpan = starts[InRing] - starts[1]

LastOfParity(p) == LET c == IF count % 2 = p THEN count - 1 ELSE count - 2 IN ticks[c % Ring]
Watch == INSTANCE StopWatch WITH
    running <- Running, elapsed <- ret, cycles <- Cycles,
    lastStart <- LastOfParity(1), lastStop <- LastOfParity(0)
\* The ring implements the stop watch: parity of count is the running flag,
\* and the last start and stop are found in the slots that timer_started,
\* timer_stopped and the return value of timer_tick read.
ImplementsStopWatch == Watch!Spec
=============================================================================
