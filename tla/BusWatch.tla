------------------------------- MODULE BusWatch -------------------------------
(***************************************************************************)
(* buswatch (io2/buswatch_main.c): every timeout_s it names those of its      *)
(* prefixes that no line on the bus began with since it looked last, to a     *)
(* command or, if that is "DIE", in its last words.  A line is the prefix it  *)
(* begins with; no line begins with two of them.                              *)
(***************************************************************************)
EXTENDS Integers, Sequences, FiniteSets

CONSTANTS Prefixes,         \* what to watch for
          Interval,         \* timeout_s; with 0 the code would never leave main's last loop
          Dies,             \* the command is "DIE"
          Latency,          \* the program runs within this time once it can
          CommandTime,      \* the command ends within this time
          Room,             \* bound: lines in the pipe
          MaxTime, MaxSet   \* bounds: time, and how far the clock is set altogether

VARIABLES time, ahead, back,    \* true time; how far the clock was set ahead and back, altogether
          pc,           \* in pselect, waiting for the command, or dead
          next_run,
          seen,         \* the prefixes whose counts[] is not 0
          pipe,         \* lines not yet read
          wake,         \* true time at which pselect returns without a line
          runnable,     \* time since the program could run
          noted,        \* history: true time at which a prefix was last read or named
          heard,        \* history: true time at which it was last read
          judged,       \* history: true time of the last check (or the start)
          again,        \* history: the last command ended before its check was due
          named         \* history: the prefixes named by the last check
program == <<pc, next_run, seen, wake, noted, heard, judged, again, named>>
vars == <<time, ahead, back, pipe, runnable, program>>

clock == time + ahead - back
Rest(next) == IF clock < next THEN next - clock ELSE 0
SomeLine == Prefixes \cup {"other"}

\* while (now >= next_run) next_run += timeout_s * 1000
Advanced == IF clock >= next_run THEN next_run + Interval * ((clock - next_run) \div Interval + 1) ELSE next_run

\* A wait ends with a line or with its time; then comes what is there of the pipe.
Ready == pipe # <<>> \/ time >= wake

\* What was read is counted; a count is 0 again after every check, and not before.
Read(k) == {pipe[i] : i \in 1 .. k} \cap Prefixes
CountedAfresh(k) == Read(k)             \* mutant: the counts are cleared in every pass
Counted(k) == seen \cup Read(k)

\* Not yet: wait for the rest of the time.
Listens(k) ==
    /\ clock < next_run
    /\ seen' = Counted(k)
    /\ noted' = [p \in Prefixes |-> IF p \in Read(k) THEN time ELSE noted[p]]
    /\ wake' = time + Rest(next_run)
    /\ UNCHANGED <<pc, next_run, judged, again, named>>

\* Time to look who was missing.
Checks(k) ==
    LET missing == Prefixes \ Counted(k) IN
    /\ clock >= next_run
    /\ seen' = {}
    /\ noted' = [p \in Prefixes |-> IF p \in Read(k) \cup missing THEN time ELSE noted[p]]
    /\ judged' = time /\ named' = missing
    /\ IF missing = {} THEN /\ next_run' = Advanced /\ wake' = time + Rest(Advanced)
                            /\ again' = FALSE /\ UNCHANGED pc
       ELSE pc' = (IF Dies THEN "dead" ELSE "command") /\ UNCHANGED <<next_run, wake, again>>

Turn ==
    /\ pc = "select" /\ Ready
    /\ \E k \in (IF pipe = <<>> THEN 0 ELSE 1) .. Len(pipe) :
          /\ Listens(k) \/ Checks(k)
          /\ heard' = [p \in Prefixes |-> IF p \in Read(k) THEN time ELSE heard[p]]
          /\ pipe' = SubSeq(pipe, k + 1, Len(pipe))
    /\ runnable' = 0
    /\ UNCHANGED <<time, ahead, back>>

\* wait(NULL) returns.  If the clock was set back meanwhile, the check is due once more.
CommandEnds ==
    /\ pc = "command" /\ pc' = "select"
    /\ next_run' = Advanced /\ wake' = time + Rest(Advanced) /\ again' = (clock < next_run)
    /\ runnable' = 0
    /\ UNCHANGED <<time, ahead, back, pipe, seen, noted, heard, judged, named>>

\* End of its input, the normal end.
BusEnds ==
    /\ pc = "select" /\ pc' = "dead"
    /\ UNCHANGED <<time, ahead, back, pipe, runnable, next_run, seen, wake, noted, heard, judged, again, named>>

Say(line) == Len(pipe) < Room /\ pipe' = Append(pipe, line) /\ UNCHANGED <<time, ahead, back, runnable, program>>
SetAhead(by) == ahead' = ahead + by /\ UNCHANGED <<time, back, pipe, runnable, program>>
SetBack(by) == back' = back + by /\ UNCHANGED <<time, ahead, pipe, runnable, program>>
Tick ==
    /\ time < MaxTime
    /\ pc = "select" /\ Ready => runnable < Latency
    /\ pc = "command" => time - judged < CommandTime
    /\ time' = time + 1
    /\ runnable' = IF pc = "select" /\ Ready THEN runnable + 1 ELSE 0
    /\ UNCHANGED <<ahead, back, pipe, program>>

Init ==
    /\ time = 0 /\ ahead = 0 /\ back = 0
    /\ pc = "select" /\ next_run = Interval /\ wake = Interval
    /\ seen = {} /\ pipe = <<>> /\ runnable = 0
    /\ noted = [p \in Prefixes |-> 0] /\ heard = [p \in Prefixes |-> 0]
    /\ judged = 0 /\ again = FALSE /\ named = {}
Next ==
    \/ Turn \/ CommandEnds \/ BusEnds \/ Tick
    \/ \E line \in SomeLine : Say(line)
    \/ \E by \in 1 .. MaxSet - ahead - back : SetAhead(by) \/ SetBack(by)
Spec == Init /\ [][Next]_vars

-----------------------------------------------------------------------------
\* Whoever falls silent is named: nobody is neither read nor named for longer than two
\* rounds, each as long as the interval, the command, the delay of the program and what
\* the clock was set back allow (buswatch_main.c:113-153).
Round == Interval + CommandTime + Latency + back
NoticesSilence == pc # "dead" => \A p \in Prefixes : time - noted[p] <= 2 * Round

\* Whoever is named was silent: for the interval but for the delay of the program and what
\* the clock was set ahead.  Only a clock set back while the command ran makes it look again
\* before (buswatch_main.c:131-134, 149-153).
NoFalseAlarm ==
    judged' # judged /\ ~again => \A p \in named' : time - heard[p] >= Interval - Latency - ahead

AlarmsAreTrue == []NoticesSilence /\ [][NoFalseAlarm]_vars
=============================================================================
