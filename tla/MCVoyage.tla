------------------------------- MODULE MCVoyage -------------------------------
(* What the skipper learns and decides, and the two library parts that every program  *)
(* here is built from: line buffers and statistics timers.  None of them sees another's *)
(* state, so that one run explores them side by side: subject says which one moves.      *)
EXTENDS LineBuffer

CONSTANTS Events, ClockTimes, MaxCount, Traffic, Samples, MaxAisLoss,
          Reports, update_s, garbage_s, HighWatermark, LowWatermark, BadLimit, MaxTime, MaxLines, MaxJumps,
          SafeDistance, TimeWindows, WindFractions, Sight, Plan, SimpleTarget, Map, Scenarios

\* The clock of the timers counts from some time before the first call.
ASSUME ClockAssumption == Events \in Nat \ {0} /\ ClockTimes \subseteq Int /\ 0 \in ClockTimes

VARIABLES subject,
          ticks, count, tickRet, calls,
          todo, air, contexts, ais, losses,
          now, jumps, printed, woke, aisPipe, msgs, badcnt, lastwritten, aisFile, heard, wrote,
          scenario, pos, wind, ships, planFile, troubles, pipe, lbuf, told, sk, lag, late, way

timerVars == <<ticks, count, tickRet, calls>>
aivdmVars == <<todo, air, contexts, ais, losses>>
aisbufVars == <<now, jumps, printed, woke, aisPipe, msgs, badcnt, lastwritten, aisFile, heard, wrote>>
skipperVars == <<scenario, pos, wind, ships, planFile, troubles, pipe, lbuf, told, sk, lag, late, way>>

\* Room for four characters: one line more than fits, two lines in one read, and a
\* discard that ends in the middle of one.
SomePuts == {<<>>, <<NL>>, <<Chr>>, <<Chr, NL>>, <<Chr, Chr, Chr>>, <<Chr, Chr, Chr, Chr>>}

(* A map of 18 by 21 places around a plan of three circles. *)
SomePlan == <<[lat_lon |-> <<0, 0>>, radius |-> 6], [lat_lon |-> <<0, 4>>, radius |-> 6],
              [lat_lon |-> <<3, 6>>, radius |-> 6]>>
SomeTarget == <<4, 0>>
SomeMap == <<-7, 10, -7, 13>>

\* A voyage with nothing in its way, and what the others change of it.
Base == [starts |-> {<<3, 7>>}, angles |-> {4}, winds |-> {500}, files |-> {"none"}, ships |-> <<>>,
         troubles |-> 0, burst |-> 1, maxage |-> 0]
Ship(p, b, v) == [position |-> p, bearing |-> b, speed |-> v, age |-> 0]
TwoShips == [Base EXCEPT !.starts = {<<3, 0>>}, !.maxage = 1,
                         !.ships = <<Ship(<<0, 8>>, 7, 1), Ship(<<9, 0>>, 4, 2)>>]
SomeScenarios == <<
    [Base EXCEPT !.starts = {<<3, 0>>}, !.ships = <<Ship(<<0, 8>>, 7, 1)>>],
    TwoShips,
    [Base EXCEPT !.starts = {<<9, 12>>}, !.burst = 4, !.troubles = 4, !.winds = {0}],
    [Base EXCEPT !.starts = {<<3, 7>>, <<-7, 13>>, <<10, -7>>, <<9, 12>>}, !.angles = 0 .. 7],
    [Base EXCEPT !.angles = {1}, !.troubles = 2, !.winds = {500, 2100}, !.files = {"none", "point"}],
    [Base EXCEPT !.angles = {1}, !.troubles = 1, !.files = {"point", "junk"}]>>

-----------------------------------------------------------------------------
AisMessage(id, channel, type, mmsi, bits, part, nfrags) ==
    [id |-> id, channel |-> channel, type |-> type, mmsi |-> mmsi, bits |-> bits, part |-> part,
     addressed |-> FALSE, structured |-> FALSE, nfrags |-> nfrags]
\* Two long messages on one channel, the names of two class B ships on the other.
SomeTraffic ==
    {AisMessage("s", "A", 5, 1, 424, 0, 2), AisMessage("t", "A", 12, 2, 800, 0, 3),
     AisMessage("a1", "B", 24, 3, 160, 0, 1), AisMessage("b1", "B", 24, 3, 168, 1, 1),
     AisMessage("a2", "B", 24, 4, 160, 0, 1), AisMessage("b2", "B", 24, 4, 168, 1, 1)}
\* One message of each type and size that is taken, in all its variants.
AisSizes ==
    {<<t, 168>> : t \in {1, 2, 3, 4, 7, 8, 9, 11, 18, 22, 25, 26, 27, 28}} \cup
    {<<5, 422>>, <<5, 424>>, <<6, 360>>, <<7, 72>>, <<10, 72>>, <<12, 300>>, <<13, 136>>, <<14, 200>>,
     <<15, 88>>, <<15, 160>>, <<16, 96>>, <<16, 144>>, <<17, 200>>, <<19, 312>>, <<20, 160>>,
     <<21, 300>>, <<23, 160>>}
SomeSamples ==
    {[AisMessage("x", c, s[1], 7, s[2], 0, 1) EXCEPT !.addressed = a, !.structured = st] :
        c \in {"", "1", "2", "C"}, s \in AisSizes, a \in BOOLEAN, st \in BOOLEAN}
\* What aisbuf is told: of one ship the three kinds of position and its name, of another
\* its position.
SomeReports == {<<1, 1>>, <<1, 3>>, <<1, 5>>, <<2, 1>>}

-----------------------------------------------------------------------------
Clock == INSTANCE Timer WITH ret <- tickRet, Time <- ClockTimes, IgnoreDups <- FALSE, Alternate <- TRUE
Ais == INSTANCE Aivdm WITH MaxLoss <- MaxAisLoss
Buf == INSTANCE AisBuf WITH pipe <- aisPipe, file <- aisFile
Voyage == INSTANCE Skipper WITH file <- planFile

\* Every ship has a number and every message a sentence.  One sentence is lost at most: two
\* in a row can glue the head of one message to the tail of the next.
Messages == [id : STRING, channel : STRING, type : Int, mmsi : Int \ {0}, bits : Int, part : Int,
             addressed : BOOLEAN, structured : BOOLEAN, nfrags : Nat \ {0}]
ASSUME AisAssumption == Traffic \subseteq Messages /\ Samples \subseteq Messages /\ MaxAisLoss \in {0, 1}

\* Garbage is a line without a type.  What is too much is cut down to less, and to something.
ASSUME BufAssumption ==
    /\ Reports \subseteq Int \X (Nat \ {0})
    /\ update_s \in Nat /\ garbage_s \in Nat /\ BadLimit \in Nat
    /\ HighWatermark \in Nat /\ LowWatermark \in 1 .. HighWatermark

Places == Int \X Int
Circles == [lat_lon : Places, radius : Int]
Reported == [position : Places, bearing : Int, speed : Int, age : Int]
Files == {"none", "junk", "empty", "point"}

\* A voyage that can be sailed.  With other ships around the helmsman and the skipper take
\* turns; else the skipper may be held up for any time.
Sound(v) ==
    /\ v.starts \subseteq Places /\ v.angles \subseteq Int /\ v.winds \subseteq Int /\ v.files \subseteq Files
    /\ v.ships \in Seq(Reported)
    /\ v.burst \in Nat \ {0} /\ (v.ships # <<>> => v.burst = 1)

\* Distances, times and speeds are those of ships; kMaxTimeWindow is the longest.  The plan
\* leads home, as Build checks it.
ASSUME SkipperAssumption ==
    /\ SafeDistance \in Nat /\ Sight \in Nat /\ WindFractions \subseteq Nat
    /\ TimeWindows \subseteq Nat \ {0} /\ \E w \in TimeWindows : \A t \in TimeWindows : t <= w
    /\ \A k \in DOMAIN Scenarios : Sound(Scenarios[k])
    /\ Map \in [1 .. 4 -> Int] /\ SimpleTarget \in Places
    /\ Plan \in Seq(Circles) /\ Plan # <<>> /\ Voyage!ChainOk(Plan)

\* Only the one that moves starts in all the ways it may.
MCInit ==
    /\ subject \in {"lines", "timer", "aivdm", "aisbuf", "skipper"}
    /\ Init /\ Clock!Init /\ Buf!Init
    /\ IF subject = "aivdm" THEN Ais!Init ELSE Ais!Init /\ todo = Traffic
    /\ IF subject = "skipper" THEN Voyage!Init ELSE Voyage!Init /\ scenario = 1
LineMoves == subject = "lines" /\ Next /\ UNCHANGED <<timerVars, aivdmVars, aisbufVars, skipperVars>>
TimerMoves == subject = "timer" /\ Clock!Next /\ UNCHANGED <<vars, aivdmVars, aisbufVars, skipperVars>>
AivdmMoves == subject = "aivdm" /\ Ais!Next /\ UNCHANGED <<vars, timerVars, aisbufVars, skipperVars>>
AisBufMoves == subject = "aisbuf" /\ Buf!Next /\ UNCHANGED <<vars, timerVars, aivdmVars, skipperVars>>
SkipperMoves == subject = "skipper" /\ Voyage!Next /\ UNCHANGED <<vars, timerVars, aivdmVars, aisbufVars>>
Moves == LineMoves \/ TimerMoves \/ AivdmMoves \/ AisBufMoves \/ SkipperMoves
MCSpec ==
    /\ MCInit
    /\ [][Moves /\ UNCHANGED subject]_<<subject, vars, timerVars, aivdmVars, aisbufVars, skipperVars>>
    /\ WF_pipe(subject = "skipper" /\ Voyage!Reads)
    /\ WF_skipperVars(subject = "skipper" /\ Voyage!Sail)

\* Two ships so near that no bearing is safe.
NoWaySpec == MCInit /\ subject = "skipper" /\ Scenarios[scenario] = TwoShips
             /\ [][SkipperMoves /\ UNCHANGED subject]_<<subject, vars, timerVars, aivdmVars, aisbufVars, skipperVars>>

StatsOverLastCycles == Clock!StatsOverLastCycles
ImplementsStopWatch == Clock!ImplementsStopWatch
DecodedWasSent == Ais!DecodedWasSent
FieldsFit == Ais!FieldsFit
FileHoldsTheFresh == Buf!FileHoldsTheFresh
Arrives == subject = "skipper" => Voyage!Arrives
KeepsClear == Voyage!KeepsClear
NoWayKeepsBearing == Voyage!NoWayKeepsBearing
NeverLags == Voyage!NeverLags
=============================================================================
