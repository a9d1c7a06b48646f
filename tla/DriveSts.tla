------------------------------- MODULE DriveSts -------------------------------
(***************************************************************************)
(* drivests (io2/drivests_main.c): reads what the drives answer on the ebus   *)
(* and tells the helmsman where they are, each drive not too often and not    *)
(* too seldom.  A line carries the time at which eposcom wrote it, by a clock *)
(* that imutime may set.  The angles are left out, and so is the BMMH, whose  *)
(* option -B getopt does not know.                                            *)
(***************************************************************************)
EXTENDS Integers

CONSTANTS MinUs, MaxUs,     \* -n, -x
          Lag,              \* a line arrives within this time after its stamp
          Gap,              \* somebody answers at least that often (eposprobe asks)
          MaxTime, MaxSet   \* bounds: time, and how far the clock is set altogether

VARIABLES time,         \* true time
          ahead, back,  \* how far the clock was set ahead and back, altogether
          readings,     \* what the clock read within Lag: the stamps that may arrive
          homed,        \* homed[]
          started,      \* timer_started of timer[]
          up,           \* the program runs
          told,         \* history: true time of the last line about a drive (or the start)
          last_line     \* history: true time of the last line read
vars == <<time, ahead, back, readings, homed, started, up, told, last_line>>

Rudders == {"LEFT", "RIGHT"}
Drives == Rudders \cup {"SAIL"}
Lines ==
    {[from |-> d, reg |-> "STATUS", homeref |-> h] : d \in Rudders, h \in BOOLEAN}
    \cup {[from |-> d, reg |-> "CURRPOS", homeref |-> FALSE] : d \in Drives}
    \cup {[from |-> "other", reg |-> "other", homeref |-> FALSE]}
clock == time + ahead - back

\* A status of a rudder, or an error that stands where the status should be.
HomedBy(line) ==
    IF line.reg = "STATUS" THEN [homed EXCEPT ![line.from] = line.homeref] ELSE homed
Active(d, h) == d = "SAIL" \/ h[d]

\* "if it's been too long, send anyway": what is too long for the sail is its shortest time.
KeepAlive(d) == IF d = "SAIL" THEN MinUs ELSE MaxUs
PrintedNoKeepAlive(line, us) ==     \* mutant: only who moves is told about
    {d \in Drives : /\ Active(d, HomedBy(line))
                    /\ line.reg = "CURRPOS" /\ line.from = d /\ us > started[d] + MinUs}
Printed(line, us) ==
    {d \in Drives : /\ Active(d, HomedBy(line))
                    /\ \/ line.reg = "CURRPOS" /\ line.from = d /\ us > started[d] + MinUs
                       \/ us > started[d] + KeepAlive(d)}

ReadLine(line, us) ==
    /\ up
    /\ homed' = HomedBy(line)
    /\ started' = [d \in Drives |-> IF d \in Printed(line, us) THEN us ELSE started[d]]
    /\ told' = [d \in Drives |-> IF d \in Printed(line, us) THEN time ELSE told[d]]
    /\ last_line' = time
    /\ UNCHANGED <<time, ahead, back, readings, up>>

\* The end of its input is the end of the program.
Ends == up /\ up' = FALSE /\ UNCHANGED <<time, ahead, back, readings, homed, started, told, last_line>>

Reads(at) == [age |-> 0, us |-> at]
SetAhead(by) ==
    /\ ahead' = ahead + by
    /\ readings' = readings \cup {Reads(clock + by)}
    /\ UNCHANGED <<time, back, homed, started, up, told, last_line>>
SetBack(by) ==
    /\ back' = back + by
    /\ readings' = readings \cup {Reads(clock - by)}
    /\ UNCHANGED <<time, ahead, homed, started, up, told, last_line>>
Tick ==
    /\ time < MaxTime
    /\ up => time - last_line < Gap
    /\ time' = time + 1
    /\ readings' = {[r EXCEPT !.age = @ + 1] : r \in {q \in readings : q.age < Lag}} \cup {Reads(clock + 1)}
    /\ UNCHANGED <<ahead, back, homed, started, up, told, last_line>>

Init ==
    /\ time = 0 /\ ahead = 0 /\ back = 0 /\ readings = {Reads(0)}
    /\ homed = [d \in Rudders |-> FALSE]
    /\ started = [d \in Drives |-> 0] /\ told = [d \in Drives |-> 0]
    /\ last_line = 0 /\ up = TRUE
Next ==
    \/ \E line \in Lines, r \in readings : ReadLine(line, r.us)
    \/ \E by \in 1 .. MaxSet - ahead - back : SetAhead(by) \/ SetBack(by)
    \/ Tick \/ Ends
Spec == Init /\ [][Next]_vars

-----------------------------------------------------------------------------
Tolerance == Lag + ahead + back

\* As long as the drives answer, the helmsman hears of the sail and of every rudder that
\* is homed within the longest time, not counting what the clock is set by
\* (drivests_main.c:155-173).
KeptAlive ==
    up => \A d \in Drives : Active(d, homed) => time - told[d] <= KeepAlive(d) + Gap + Tolerance

\* And it does not hear of one twice within the shortest time (drivests_main.c:118-152).
NotTooOften == \A d \in Drives : started'[d] # started[d] => time - told[d] > MinUs - Tolerance

StatusIsPaced == []KeptAlive /\ [][NotTooOften]_vars
=============================================================================
