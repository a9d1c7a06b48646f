--------------------------------- MODULE Skipper ---------------------------------
(***************************************************************************)
(* The skipper: it hears from the helmsman where the boat is and what the wind does, and     *)
(* tells it the bearing to steer (skipper_main.cc, skipper_internal.cc, planner.cc).  With it:   *)
(* the boat, the wind and the other ships, which keep their courses.                             *)
(***************************************************************************)
EXTENDS VSkipper, FiniteSets

CONSTANTS Plan,               \* toulon_plan: a sequence of [lat_lon, radius]
          SimpleTarget,       \* the place a simple plan file names
          Map,                \* its south, north, west and east end (bound)
          Sight,              \* how far other ships are followed (bound)
          Scenarios           \* the voyages: see Init (a sequence)

VARIABLES scenario,           \* does not change
          pos, wind, ships,   \* the boat's place; [angle, speed, known]; reports with the true positions
          file,               \* /tmp/simple.txt: "none", "junk", "empty" or "point"
          troubles,           \* how many disturbances there may still be
          pipe, lbuf,         \* lines on their way from the helmsman
          told,               \* alpha_star_deg, as the helmsman has it
          sk,                 \* the static members of SkipperInternal and Planner
          lag, late, way      \* history: lines newer than the answered one; lines in excess of two a
                              \* turn, as far as later turns have not made up for them; what RunVSkipper found
env == <<scenario, pos, wind, ships, file, troubles>>
vars == <<scenario, pos, wind, ships, file, troubles, pipe, lbuf, told, sk, lag, late, way>>

Voyage == Scenarios[scenario]

-----------------------------------------------------------------------------
(* The plan of a voyage: a chain of circles around way points, the goal first, each      *)
(* holding the middle of the next (target_circle.cc, target_circle_cascade.cc).  The        *)
(* degree of longitude is as long as that of latitude here.                                 *)
kDefaultDirection == 5                     \* south west, 225 degrees

DistanceSquared(t, p) == LET d == Minus(t.lat_lon, p) IN Dot(d, d)
In(t, p) == DistanceSquared(t, p) <= t.radius * t.radius

\* From p to the middle of t, rounded to the compass (atan2); north when it is there.
ToDeg(t, p) ==
    LET d == Minus(t.lat_lon, p)
        n == IF d[1] < 0 THEN -d[1] ELSE d[1]
        e == IF d[2] < 0 THEN -d[2] ELSE d[2]
    IN  IF d = <<0, 0>> THEN 0
        ELSE IF 2 * e < n THEN (IF d[1] > 0 THEN 0 ELSE 4)
        ELSE IF 2 * n < e THEN (IF d[2] > 0 THEN 2 ELSE 6)
        ELSE CASE d[1] > 0 /\ d[2] > 0 -> 1  [] d[1] < 0 /\ d[2] > 0 -> 3
               [] d[1] < 0 /\ d[2] < 0 -> 5  [] d[1] > 0 /\ d[2] < 0 -> 7

\* Build: as Add checks it.
ChainOk(chain) == \A i \in DOMAIN chain : i > 1 => In(chain[i - 1], chain[i].lat_lon)

\* The first circle the boat is in; outside of all, the nearest.
Last(chain, p) == CHOOSE i \in DOMAIN chain : /\ In(chain[i], p)     \* mutant: the farthest from the goal
                                              /\ \A j \in DOMAIN chain : In(chain[j], p) => j <= i
First(chain, p) == CHOOSE i \in DOMAIN chain : /\ In(chain[i], p)
                                               /\ \A j \in DOMAIN chain : In(chain[j], p) => i <= j
Nearest(chain, p) == CHOOSE i \in DOMAIN chain : \A j \in DOMAIN chain :
    \/ DistanceSquared(chain[i], p) < DistanceSquared(chain[j], p)
    \/ DistanceSquared(chain[i], p) = DistanceSquared(chain[j], p) /\ i <= j
CascadeToDeg(chain, p) ==
    IF chain = <<>> THEN kDefaultDirection
    ELSE IF \E i \in DOMAIN chain : In(chain[i], p) THEN ToDeg(chain[First(chain, p)], p)
    ELSE ToDeg(chain[Nearest(chain, p)], p)
TargetReached(chain, p) == In(chain[1], p)

-----------------------------------------------------------------------------
(* Planner. *)
SimplePlan == <<[lat_lon |-> SimpleTarget, radius |-> 3], [lat_lon |-> SimpleTarget, radius |-> 100]>>
\* plan_, by its name.
Chain(s) == IF s.chain = "simple" THEN SimplePlan ELSE Plan
Reset(s) == [s EXCEPT !.initialized = FALSE]

\* In the goal's circle it turns left by 72 degrees every two minutes.
kTurn == 2
PlannerToDeg(s, p, turn) ==
    LET i == IF s.initialized THEN s ELSE [s EXCEPT !.chain = "full", !.initialized = TRUE]
    IN  IF TargetReached(Chain(i), p)
        THEN IF turn THEN [i EXCEPT !.alpha_star = NormalizeDeg(@ - kTurn)] ELSE i
        ELSE [i EXCEPT !.alpha_star = CascadeToDeg(Chain(i), p)]

-----------------------------------------------------------------------------
(* SkipperInternal. *)
ReadSimplePlanFile(s) ==
    CASE file = "none"  -> IF s.full_plan THEN s ELSE [Reset(s) EXCEPT !.full_plan = TRUE]
      [] file = "empty" -> [s EXCEPT !.full_plan = TRUE]
      [] file = "junk"  -> [Reset(s) EXCEPT !.full_plan = TRUE]
      [] file = "point" -> [s EXCEPT !.chain = "simple", !.full_plan = FALSE]

\* helmsman/wind_strength.cc, in cm/s.
WindStrength(s, speed) ==
    CASE s.wind_strength = "calm"   -> IF speed > 65 THEN "normal" ELSE "calm"
      [] s.wind_strength = "normal" -> IF speed < 35 THEN "calm" ELSE IF speed > 2000 THEN "storm" ELSE "normal"
      [] s.wind_strength = "storm"  -> IF speed < 1600 THEN "normal" ELSE "storm"

\* In a storm the boat goes at a fixed angle to the wind, on the side that was nearer.
kStormAngle == 1
HandleStorm(s, angle, planned) ==
    LET plus == AbsDeg(angle + kStormAngle - planned) < AbsDeg(angle - kStormAngle - planned)
    IN  IF s.wind_strength # "storm" THEN [s EXCEPT !.storm = FALSE]
        ELSE IF s.storm THEN s ELSE [s EXCEPT !.storm = TRUE, !.plus = plus]
StormBearing(s, angle, planned) ==
    IF ~s.storm THEN planned ELSE NormalizeDeg(IF s.plus THEN angle + kStormAngle ELSE angle - kStormAngle)

\* A report holds where the ship was when it made it.
AisReports(s) == [i \in DOMAIN s |-> [s[i] EXCEPT !.position = Minus(@, Ahead(s[i].bearing, s[i].speed * s[i].age))]]
RunCollisionAvoider(s, planned, in) ==
    LET out == RunVSkipper(in.pos, in.wind.speed, AisReports(ships), planned)
    IN  IF out = kVSkipperNoWay THEN s.old_alpha_star ELSE out

\* Run: the new state and the bearing to steer, for an input in.
Answer(s, bearing) == [sk |-> s, told |-> bearing]
Run(in, turn) ==
    LET s1 == ReadSimplePlanFile(sk)
        s2 == [s1 EXCEPT !.wind_strength = WindStrength(s1, in.wind.speed)]
        kept == HandleStorm(s2, in.wind.angle, s2.old_alpha_star)
        s3 == PlannerToDeg(s2, in.pos, turn)
        s4 == HandleStorm(s3, in.wind.angle, s3.alpha_star)
        safe == RunCollisionAvoider(s4, StormBearing(s4, in.wind.angle, s4.alpha_star), in)
    IN  IF ~in.wind.known THEN Answer(sk, kDefaultDirection)
        ELSE IF ~in.fix /\ ~s2.initialized THEN Answer(s2, kDefaultDirection)
        ELSE IF ~in.fix
             THEN Answer(kept, BestSailableHeadingDeg(StormBearing(kept, in.wind.angle, s2.old_alpha_star), in.wind.angle))
        ELSE Answer([s4 EXCEPT !.old_alpha_star = safe], BestSailableHeadingDeg(safe, in.wind.angle))

-----------------------------------------------------------------------------
(* Main: a turn of its loop, woken by lines or (none) by the time-out.  The line after the *)
(* first valid one is taken out of the buffer and dropped.                                  *)
LeftKept(lines, i) == SubSeq(lines, i + 1, Len(lines))          \* mutant: !new_input tested first
Left(lines, i) == SubSeq(lines, i + 2, Len(lines))
Found(lines, i) == lines[i].valid /\ \A j \in 1 .. i - 1 : ~lines[j].valid

\* What the vskipper found, if the answer is its: "safe", "none", or "other".
WayOf(in, a) ==
    LET ran == in.wind.known /\ in.fix
        any == ships = <<>> \/ \E t \in TimeWindows : SafeFor(in.pos, in.wind.speed, AisReports(ships), t) # {}
    IN  IF ~ran THEN "other" ELSE IF ~any THEN "none"
        ELSE IF a.told = a.sk.old_alpha_star /\ ships # <<>> /\ Newest(ships) = 0 THEN "safe" ELSE "other"

Excess(n) == IF n > 2 THEN n - 2 ELSE 0

Wake == \E n \in 0 .. Len(pipe) :
    LET lines == lbuf \o SubSeq(pipe, 1, n)
    IN  /\ n = 0 => pipe = <<>> /\ lbuf # <<>>
        /\ pipe' = SubSeq(pipe, n + 1, Len(pipe))
        /\ \/ /\ \A i \in DOMAIN lines : ~lines[i].valid
              /\ lbuf' = <<>> /\ way' = "other" /\ UNCHANGED <<told, sk, lag, late>>
           \/ \E i \in DOMAIN lines, turn \in BOOLEAN :
                LET a == Run(lines[i], turn)
                IN  /\ Found(lines, i)
                    /\ lbuf' = Left(lines, i) /\ lag' = Len(lines) - i /\ late' = Excess(late + n)
                    /\ sk' = a.sk /\ told' = a.told /\ way' = WayOf(lines[i], a)
        /\ UNCHANGED env

-----------------------------------------------------------------------------
(* The world (external): a minute passes and the helmsman tells the skipper.  It is a       *)
(* disturbance that the skipper is held up until another one has passed.                    *)
Clamp(x, lo, hi) == IF x < lo THEN lo ELSE IF x > hi THEN hi ELSE x
Sailed(f) == Plus(pos, Ahead(told, f * ExpectedVelocity(wind.speed)))
\* A boat that is alone waits at the edge of the map.
Moved(f) == IF ships # <<>> THEN Sailed(f)
            ELSE <<Clamp(Sailed(f)[1], Map[1], Map[2]), Clamp(Sailed(f)[2], Map[3], Map[4])>>
ShipsMoved(reported) == [i \in DOMAIN ships |->
    [ships[i] EXCEPT !.position = Plus(@, Ahead(ships[i].bearing, ships[i].speed)),
                     !.age = IF i \in reported THEN 0 ELSE @ + 1]]
\* A shift of the wind, no wind or fix measured, a line cut short, another simple plan.
NoTrouble == [w |-> wind, known |-> TRUE, fix |-> TRUE, valid |-> TRUE, file |-> file]
Trouble ==
    {[NoTrouble EXCEPT !.w.angle = NormalizeDeg(wind.angle + 1)], [NoTrouble EXCEPT !.known = FALSE],
     [NoTrouble EXCEPT !.fix = FALSE], [NoTrouble EXCEPT !.valid = FALSE]}
    \cup {[NoTrouble EXCEPT !.w.speed = v] : v \in Voyage.winds}
    \cup {[NoTrouble EXCEPT !.file = c] : c \in Voyage.files}
Sail ==
    /\ Len(pipe) < Voyage.burst
    /\ \A i \in DOMAIN ships : \A k \in {1, 2} : ships[i].position[k] \in -Sight .. Sight
    /\ \E f \in WindFractions, x \in {NoTrouble} \cup (IF troubles > 0 THEN Trouble ELSE {}),
          reported \in SUBSET DOMAIN ships :
          /\ \A i \in DOMAIN ships : i \in reported \/ ships[i].age < Voyage.maxage
          /\ pos' = Moved(f) /\ ships' = ShipsMoved(reported)
          /\ wind' = x.w /\ file' = x.file
          /\ troubles' = troubles - (IF x = NoTrouble THEN 0 ELSE 1) - (IF pipe = <<>> THEN 0 ELSE 1)
          /\ troubles' >= 0
          /\ pipe' = Append(pipe, [pos |-> pos', wind |-> [x.w EXCEPT !.known = x.known],
                                   fix |-> x.fix, valid |-> x.valid])
    /\ UNCHANGED <<scenario, lbuf, told, sk, lag, late, way>>

Init ==
    /\ scenario \in DOMAIN Scenarios
    /\ pos \in Voyage.starts /\ ships = Voyage.ships /\ file \in Voyage.files
    /\ \E a \in Voyage.angles, v \in Voyage.winds : wind = [angle |-> a, speed |-> v, known |-> TRUE]
    /\ troubles = Voyage.troubles
    /\ pipe = <<>> /\ lbuf = <<>> /\ told = kDefaultDirection /\ lag = 0 /\ late = 0 /\ way = "other"
    /\ sk = [initialized |-> FALSE, chain |-> "none", alpha_star |-> kDefaultDirection,
             old_alpha_star |-> kDefaultDirection, wind_strength |-> "calm",
             storm |-> FALSE, plus |-> FALSE, full_plan |-> TRUE]
Next == Wake \/ Sail
\* Select returns when there is something to read, and main reads it: every step that
\* takes lines is a Wake.  The helmsman tells again and again.
Reads == \E n \in 1 .. Len(pipe) : pipe' = SubSeq(pipe, n + 1, Len(pipe))
Spec == Init /\ [][Next]_vars /\ WF_pipe(Reads) /\ WF_vars(Sail)

-----------------------------------------------------------------------------
Goal == IF file = "point" THEN SimplePlan[1] ELSE Plan[1]
AtGoal == \E t \in {SimplePlan[1], Plan[1]} : t = Goal /\ In(t, pos)
FairWind == wind.speed \in 100 .. 1500
Alone == ships = <<>> /\ Voyage.burst = 1
\* The boat comes to the goal, again and again: that of the simple plan if there is one
\* (skipper_internal.cc:44-48), else of the prepared plan, from wherever storms, lost fixes
\* and other plans have taken it (target_circle.h:29-44).  The file is never empty here: an
\* emptied file leaves the simple plan in force for ever (skipper_internal.cc:278-283).
Arrives == Alone /\ <>[]FairWind => []<>AtGoal

\* A bearing that was found safe and is steered keeps the boat clear of all ships until the
\* next run, whatever part of its speed it makes (vskipper.cc:20-26, 206-230), if one
\* of the reports is new: the others are extrapolated to its time (69-81).
KeepsClear == [][way = "safe" => \A i \in DOMAIN ships :
                    LET d == Minus(ships[i].position, pos)' IN Dot(d, d) >= SafeDistance * SafeDistance]_vars

\* Though the skipper answers one line per turn and drops the next (skipper_main.cc:147-151),
\* what it answers is the newest line or the one before; only if it has been held up while
\* more than two came does it lag by that many more, and with every turn after that for
\* which fewer came it makes up for them.
NeverLags == lag <= 1 + late

\* "In this situation we keep the bearing" (skipper_internal.cc:131-132).
NoWayKeepsBearing == [][way' = "none" => sk'.old_alpha_star = sk.old_alpha_star]_vars
=============================================================================
