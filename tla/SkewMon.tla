-------------------------------- MODULE SkewMon --------------------------------
(***************************************************************************)
(* io2/skewmon_main.c: tell sailctl by how much the boom is off the sail motor.   *)
(* The motor's position and the angle of the boom (the BMMH sensor) come as answers *)
(* on the bus, asked for by skewmon itself or by anybody else, never at the same     *)
(* time: a skew is computed from a boom angle dated between two motor positions.      *)
(* Each of the two drives has an eposcom of its own, and its answers their own way:    *)
(* a drive takes a value, and only when the dialogue with it has ended eposcom dates    *)
(* the answer; skewmon dates those that carry no time as they come.  All the while the   *)
(* motor may turn, by at most one unit in a tick; 2 * Half units are a turn.              *)
(***************************************************************************)
EXTENDS Integers, Sequences

CONSTANTS Half,             \* 180 degrees
          Bias,             \* BMMH_BIAS_DEG
          ReportTimeout,    \* REPORT_TIMEOUT_US
          MaxInterval,      \* MOTOR_MAX_INTERVAL_US
          Dating,           \* the drives whose eposcom runs with -T
          MaxAge,           \* the longest time from a value to its date
          Turns,            \* by how much the motor may turn in a tick
          Skews,            \* by how much the boom is off
          MaxPos,           \* bound on the positions of the motor
          MaxTime,          \* bound on the clock
          MaxAsked          \* bound on what is under way when somebody else asks

VARIABLES now, pos,         \* the clock, the position of the motor
          off,              \* the true skew
          requests,         \* the number of requests for each drive
          taken,            \* the value it gave to the one eposcom serves, or NoAnswer
          wire,             \* its answers on their way to skewmon
          motor, mc,        \* the last two motor positions and their number
          bmmh,             \* the last boom angle
          skew, stamp       \* the last skew, None if there was none, and its time
monitor == <<motor, mc, bmmh, skew, stamp>>
vars == <<now, pos, off, requests, taken, wire, monitor>>

Drives == {"motor", "bmmh"}
Undated == -1
\* A sample: the value, its date, and as history when it was taken, the motor being where.
Reading(v, t) == [value |-> v, us |-> Undated, at |-> t, from |-> pos]
Dated(x, t) == [x EXCEPT !.us = t]
NoAnswer == [value |-> 0, us |-> Undated, at |-> -1, from |-> 0]
Never == Dated(NoAnswer, -2 * ReportTimeout)
Skew(v, t) == [value |-> v, us |-> t]
None == Skew(0, -1)
Wrap(a) == ((a + Half) % (2 * Half)) - Half      \* the two loops
Truncated(n, d) == IF n < 0 THEN -((-n) \div d) ELSE n \div d

-----------------------------------------------------------------------------
\* Motor positions i and k around the boom angle b, and not too far apart.
AroundAnyhow(m, b, i, k) == m[i].us < b.us /\ b.us < m[k].us       \* mutant: no limit
Around(m, b, i, k) == m[i].us < b.us /\ b.us < m[k].us /\ m[k].us - m[i].us < MaxInterval
Between(m, b, i, k) ==                  \* the motor position at the time of b
    Truncated(m[i].value * (m[k].us - b.us) + m[k].value * (b.us - m[i].us), m[k].us - m[i].us)
SkewOf(m, b) == LET skewFrom(i, k) == Wrap(b.value - Between(m, b, i, k) - Bias)
                IN  CASE Around(m, b, 0, 1) -> Skew(skewFrom(0, 1), b.us)
                      [] Around(m, b, 1, 0) -> Skew(skewFrom(1, 0), b.us)
                      [] OTHER -> None

\* The main loop with one answer: keep the sample; tell the skew, at most every quarter of
\* ReportTimeout; ask for new samples if the last skew is too old.  Ages are unsigned: an
\* answer dated before the last skew makes that very old.
Take(dev, x) ==
    LET us == IF x.us = Undated THEN now ELSE x.us
        m == IF dev = "motor" THEN [motor EXCEPT ![mc % 2] = Dated(x, us)] ELSE motor
        b == IF dev = "bmmh" THEN Dated(x, us) ELSE bmmh
        s == SkewOf(m, b)
        told == IF s = None THEN stamp ELSE s.us
        due == us < stamp \/ us - stamp >= ReportTimeout \div 4
        old == due /\ (us < told \/ us - told > ReportTimeout)
    IN  /\ motor' = m /\ bmmh' = b
        /\ mc' = IF dev = "motor" THEN (mc + 1) % 2 ELSE mc
        /\ skew' = IF due /\ s # None THEN s ELSE skew
        /\ stamp' = IF old THEN us - ReportTimeout \div 2 ELSE IF due THEN told ELSE stamp
        /\ requests' = IF old THEN [motor |-> requests["motor"] + 2, bmmh |-> requests["bmmh"] + 1] ELSE requests

-----------------------------------------------------------------------------
\* eposcom has the drive take a value, ...
Serve(d) ==
    /\ requests[d] > 0 /\ taken[d] = NoAnswer
    /\ requests' = [requests EXCEPT ![d] = @ - 1]
    /\ taken' = [taken EXCEPT ![d] =
                   Reading(IF d = "motor" THEN pos ELSE (pos + off + Bias) % (2 * Half), now)]
    /\ UNCHANGED <<now, pos, off, wire, monitor>>
\* ... and answers later, with the time if it was told to; or with an error.
Answer(d) ==
    /\ taken[d] # NoAnswer
    /\ taken' = [taken EXCEPT ![d] = NoAnswer]
    /\ \/ wire' = [wire EXCEPT ![d] = Append(@, IF d \in Dating THEN Dated(taken[d], now) ELSE taken[d])]
       \/ UNCHANGED wire
    /\ UNCHANGED <<now, pos, off, requests, monitor>>

\* skewmon reads a line.
ReadLine(d) ==
    /\ wire[d] # <<>>
    /\ wire' = [wire EXCEPT ![d] = Tail(@)]
    /\ Take(d, Head(wire[d]))
    /\ UNCHANGED <<now, pos, off, taken>>

\* eposprobe and others ask too.
UnderWay(d) == requests[d] + Len(wire[d]) + (IF taken[d] = NoAnswer THEN 0 ELSE 1)
Probe(d) == /\ UnderWay("motor") + UnderWay("bmmh") < MaxAsked
            /\ requests' = [requests EXCEPT ![d] = @ + 1]
            /\ UNCHANGED <<now, pos, off, taken, wire, monitor>>

\* Time passes, though not for longer than MaxAge over a value that has no date yet.
Waiting == {taken[d] : d \in Drives} \cup UNION {{wire[d][i] : i \in DOMAIN wire[d]} : d \in Drives}
Turn ==
    /\ now < MaxTime /\ now' = now + 1
    /\ \A x \in Waiting \ {NoAnswer} : x.us = Undated => now - x.at < MaxAge
    /\ \E d \in Turns : pos' = pos + d /\ pos' \in 0 .. MaxPos
    /\ UNCHANGED <<off, requests, taken, wire, monitor>>

Init ==
    /\ now = 0 /\ pos = 0 /\ off \in Skews
    /\ requests = [d \in Drives |-> 0] /\ taken = [d \in Drives |-> NoAnswer]
    /\ wire = [d \in Drives |-> <<>>]
    /\ motor = [i \in {0, 1} |-> Never] /\ mc = 0 /\ bmmh = Never
    /\ skew = None /\ stamp = -2 * ReportTimeout

Next == Turn \/ \E d \in Drives : Serve(d) \/ Answer(d) \/ ReadLine(d) \/ Probe(d)
Spec == Init /\ [][Next]_vars

-----------------------------------------------------------------------------
\* A skew that is told is off the true one by less than the motor can turn in the time that
\* may pass between the dates of the two positions it is computed from, and before a value
\* is dated: whoever asked for them, however the answers of the two drives overtook each
\* other, whichever were lost, and across the seam of the angles (skewmon_main.c:118-139).
Error == MaxInterval - 2 + MaxAge
SkewIsNear == skew # None => Wrap(skew.value - off) \in -Error .. Error
=============================================================================
