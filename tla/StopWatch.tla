------------------------------ MODULE StopWatch ------------------------------
(***************************************************************************)
(* What timer.h promises of a statistics timer, without its ring buffer: a  *)
(* watch that alternates between running and stopped, knows when it last    *)
(* changed, counts its cycles and, at each event, tells how long ago it     *)
(* was last started.  The register cache (EposClient) uses its timers at    *)
(* this level; Timer.tla shows that the ring buffer implements it.          *)
(***************************************************************************)
EXTENDS Integers

CONSTANT Time           \* the values of the clock: now_us()

VARIABLES running,      \* TRUE between a start and the next stop
          lastStart,    \* when it was last started
          lastStop,     \* when it was last stopped
          cycles,       \* completed start-stop cycles since the last reset
          elapsed       \* what the last event returned

vars == <<running, lastStart, lastStop, cycles, elapsed>>

\* The time the running watch started, 0 if it is stopped.
Started == IF running THEN lastStart ELSE 0
\* The time the stopped watch stopped, 0 if it runs or never stopped.
Stopped == IF ~running /\ cycles > 0 THEN lastStop ELSE 0

Init == ~running /\ lastStart = 0 /\ lastStop = 0 /\ cycles = 0 /\ elapsed = 0

Start(now) ==
    /\ ~running
    /\ running' = TRUE
    /\ lastStart' = now
    /\ elapsed' = IF cycles = 0 THEN 0 ELSE now - lastStart
    /\ UNCHANGED <<lastStop, cycles>>

Stop(now) ==
    /\ running
    /\ running' = FALSE
    /\ lastStop' = now
    /\ cycles' = cycles + 1
    /\ elapsed' = now - lastStart
    /\ UNCHANGED lastStart

\* A reset forgets the events; the times of old ones no longer matter.
Reset ==
    /\ running' = FALSE
    /\ cycles' = 0
    /\ lastStart' \in Time
    /\ lastStop' \in Time
    /\ UNCHANGED elapsed

Next == Reset \/ \E now \in Time : Start(now) \/ Stop(now)
Spec == Init /\ [][Next]_vars
=============================================================================
