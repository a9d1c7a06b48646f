-------------------------------- MODULE AisBuf --------------------------------
(***************************************************************************)
(* io2/aisbuf_main.c: keeps the last line of every ship and kind of message that nmeacat   *)
(* prints, newest first, and writes them to a file that the skipper reads.  A line is           *)
(* [mmsi, msgtype, timestamp]; one of type 0 is garbage, which sscanf does not parse.              *)
(* Time is counted in seconds.                                                                        *)
(***************************************************************************)
EXTENDS Integers, Sequences, FiniteSets

CONSTANTS Reports,                    \* what is received: pairs of a ship and a type
          update_s, garbage_s,        \* the options -u and -g
          HighWatermark, LowWatermark, BadLimit,    \* 3000, 2000 and 100 in the code
          MaxTime, MaxLines, MaxJumps               \* bounds: clock, lines printed, jumps back

VARIABLES now, jumps, printed,        \* the wall clock, how often it was set back, lines
          woke,                       \* when pselect began to wait
          pipe,                       \* from nmeacat
          msgs, badcnt, lastwritten,  \* of this process
          file,                       \* what the skipper finds
          heard,                      \* history: the lines parsed,
          wrote                       \* whether the last step wrote
clock == <<now, jumps, printed>>
vars == <<now, jumps, printed, woke, pipe, msgs, badcnt, lastwritten, file, heard, wrote>>

\* The three kinds of position report are the same message.
SameType(a, b) == a.mmsi = b.mmsi /\ a.msgtype = b.msgtype         \* mutant: each kind for itself
samemsg(a, b) ==
    /\ a.mmsi = b.mmsi
    /\ a.msgtype = b.msgtype \/ {a.msgtype, b.msgtype} \subseteq {1, 2, 3}

\* The lines of a list that are not older versions of one.
Other(rest, m, line) == IF samemsg(m, line) THEN rest ELSE Append(rest, m)
Others(list, line) ==
    LET rest[k \in 0 .. Len(list)] == IF k = 0 THEN <<>> ELSE Other(rest[k - 1], list[k], line)
    IN  rest[Len(list)]

\* One line: put in front, the older versions are taken out.
Listed(st, line) ==
    IF line.msgtype = 0 THEN [msgs |-> st.msgs, bad |-> st.bad + 1, heard |-> st.heard]
    ELSE [msgs |-> <<line>> \o Others(st.msgs, line), bad |-> 0, heard |-> Append(st.heard, line)]

\* The first n lines of the pipe, up to the one that makes it crash.
ReadOn(st, line) == IF st.bad > BadLimit + 1 THEN st ELSE Listed(st, line)
Read(n) ==
    LET after[k \in 0 .. n] == IF k = 0 THEN [msgs |-> msgs, bad |-> badcnt, heard |-> heard]
                               ELSE ReadOn(after[k - 1], pipe[k])
    IN  after[n]

Cleaned(list) == IF Len(list) > HighWatermark THEN SubSeq(list, 1, LowWatermark) ELSE list

\* What is written: as far as the first that is too old, or was dated by a clock that has
\* since been set back.  The rest is forgotten.
Fresh(list) ==
    LET stale == {i \in DOMAIN list : \/ list[i].timestamp > list[1].timestamp
                                      \/ list[i].timestamp + garbage_s < list[1].timestamp}
    IN  IF stale = {} THEN list
        ELSE SubSeq(list, 1, (CHOOSE i \in stale : \A j \in stale : i <= j) - 1)

\* One turn of main's loop, woken by some lines or by the time-out.  lastwritten is
\* never set but to 0.
Loop == \E n \in 0 .. Len(pipe) :
    LET r == Read(n)
        list == Cleaned(r.msgs)
        since == IF list # <<>> /\ list[1].timestamp < lastwritten THEN 0 ELSE lastwritten
    IN  /\ r.bad <= BadLimit + 1
        /\ n = 0 => pipe = <<>> /\ now \notin woke .. woke + update_s - 1
        /\ woke' = now
        /\ pipe' = SubSeq(pipe, n + 1, Len(pipe))
        /\ badcnt' = r.bad /\ lastwritten' = since
        /\ heard' = r.heard
        /\ IF list # <<>> /\ since + update_s < list[1].timestamp
           THEN /\ msgs' = Fresh(list) /\ file' = Fresh(list)
                /\ wrote' = TRUE
           ELSE msgs' = list /\ wrote' = FALSE /\ UNCHANGED file
        /\ UNCHANGED clock

\* Too much garbage; plug starts the pair of processes anew.  The file stays.
Crash ==
    /\ \E n \in 1 .. Len(pipe) : Read(n).bad > BadLimit + 1
    /\ pipe' = <<>> /\ msgs' = <<>> /\ badcnt' = 0 /\ lastwritten' = 0
    /\ heard' = <<>> /\ wrote' = FALSE /\ woke' = now
    /\ UNCHANGED <<file, clock>>

\* nmeacat prints a line, or another program's output gets in (external here, Aivdm).
Report ==
    /\ printed < MaxLines /\ printed' = printed + 1
    /\ \E r \in Reports \cup {<<0, 0>>} :
          pipe' = Append(pipe, [mmsi |-> r[1], msgtype |-> r[2], timestamp |-> now])
    /\ wrote' = FALSE /\ UNCHANGED <<now, jumps, woke, msgs, badcnt, lastwritten, file, heard>>
Tick ==
    /\ \/ now < MaxTime /\ now' = now + 1 /\ UNCHANGED jumps
       \/ /\ jumps < MaxJumps /\ jumps' = jumps + 1
          /\ \E t \in update_s + 1 .. now - 1 : now' = t
    /\ wrote' = FALSE /\ UNCHANGED <<printed, woke, pipe, msgs, badcnt, lastwritten, file, heard>>

Init ==
    /\ now = update_s + 1 /\ jumps = 0 /\ printed = 0 /\ woke = now /\ pipe = <<>>
    /\ msgs = <<>> /\ badcnt = 0 /\ lastwritten = 0 /\ file = <<>> /\ heard = <<>>
    /\ wrote = FALSE
Next == Loop \/ Crash \/ Report \/ Tick
Spec == Init /\ [][Next]_vars

-----------------------------------------------------------------------------
Kind(m) == <<m.mmsi, IF m.msgtype <= 3 THEN 1 ELSE m.msgtype>>
IsNewest(i) == \A j \in DOMAIN heard : j > i => Kind(heard[i]) # Kind(heard[j])
RecentEnough(i) == heard[i].timestamp + garbage_s >= heard[Len(heard)].timestamp
\* What a write leaves in the file is the newest word of each ship and kind, also when the
\* clock was set back (aisbuf_main.c:172-178); while it was not, it is exactly those of the
\* last garbage_s seconds (190-199) as far as there is room (158-171).
FileHoldsTheFresh ==
    wrote => LET told == {file[i] : i \in DOMAIN file}
                 newest == {i \in DOMAIN heard : IsNewest(i)}
             IN  /\ told \subseteq {heard[i] : i \in newest}
                 /\ \A i, j \in DOMAIN file : i # j => Kind(file[i]) # Kind(file[j])
                 /\ jumps = 0 /\ Cardinality(newest) <= HighWatermark =>
                       told = {heard[i] : i \in {j \in newest : RecentEnough(j)}}
=============================================================================
