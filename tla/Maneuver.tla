------------------------------- MODULE Maneuver -------------------------------
(***************************************************************************)
(* How the normal controller of the helmsman turns the heading the skipper   *)
(* wants into the heading the boat is told to take: the six sectors around   *)
(* the wind (common/point_of_sail.cc), the plans by which it tacks and jibes *)
(* (helmsman/reference_values.cc), and the order in which they are asked      *)
(* (helmsman/normal_controller.cc).  Angles are on a circle of Circle units;  *)
(* a step is one call, taken as long as the heading needs to turn by a unit.   *)
(* The sail and the speed of rotation that go with a heading are left out.     *)
(***************************************************************************)
EXTENDS Integers

CONSTANTS
    Circle,         \* units of a full turn
    TackZone,       \* half the sector around the eye of the wind: 50 degrees
    JibeZone,       \* half the sector before the wind: 20 degrees
    Overshoot,      \* of a tack: 12 degrees
    AppOffset,      \* the tack zone of the apparent wind is smaller by 12 degrees
    Clip,           \* largest correction in a gust: 45 degrees
    Reach,          \* what the boat turns at most in a plan of six steps
    JibeSixths,     \* the sail needs so many steps for a sixth of a jibe
    Stabilization,  \* steps at the end of a plan
    Winds, Stars, Boats, Apps   \* wind, wanted and actual headings, apparent winds

VARIABLES
    wind, star, boat, app,  \* inputs: alpha_true, alpha_star, phi_z_boat, angle_app
    limited,                \* alpha_star_rate_limited_
    old,                    \* old_phi_z_star_
    sector, type,           \* prev_sector_, maneuver_type_
    plan,                   \* ref_
    buffer1, buffer2,       \* of point_of_sail_
    steady,                 \* the inputs do not change any more
    begun                   \* history: the plans begun since then, counted to MaxBegun
inputs == <<wind, star, boat, app>>
vars == <<inputs, limited, old, sector, type, plan, buffer1, buffer2, steady, begun>>

MaxBegun == 3

-----------------------------------------------------------------------------
(* Angles.                                                                  *)
Half == Circle \div 2
Calm == Circle             \* an apparent wind without strength
Norm(x) == x % Circle
Signed(x) == Norm(x + Half) - Half
Delta(from, to) == Signed(to - from)            \* DeltaOldNewRad
Magnitude(x) == IF x < 0 THEN -x ELSE x
Opposite(x) == Norm(x + Half)
Less(x, y) == Norm(y - x) < Half                \* true also for the same angle
LessOrEqual(x, y) == ~Less(y, x)                \* false for the same angle

\* Whether t / 10 is nearer to x than to y.
TakesFirst(t, x, y) ==
    LET way(z) == Magnitude(((10 * z - t + 10 * Half) % (10 * Circle)) - 10 * Half)
    IN  way(x) <= way(y)

LimitRateWrap(to, from) ==
    LET d == Delta(from, to)
    IN  Norm(from + CASE d > 0 -> 1 [] d < 0 -> -1 [] OTHER -> 0)

-----------------------------------------------------------------------------
(* The point of sail.                                                       *)

\* The part of the old heading that is kept, in tenths, lest the boat turns to and
\* fro between headings that are equally good.
HysteresisReversed(tenths, a, prev) == -tenths * Delta(prev, a)         \* mutant
Hysteresis(tenths, a, prev) == tenths * Delta(prev, a)

SailableHeading(a, w, prev) ==
    LET limit1 == Norm(Opposite(w) - TackZone)
        limit2 == Norm(Opposite(w) + TackZone)
        limit3 == Norm(w - JibeZone)
        limit4 == Norm(w + JibeZone)
        in(x, y) == LessOrEqual(x, a) /\ Less(a, y)
        at(h, s) == [heading |-> h, sector |-> s, target |-> h]
    IN  CASE in(limit1, limit2) -> IF TakesFirst(10 * a - Hysteresis(1, a, prev), limit1, limit2)
                                   THEN at(limit1, "TackPort") ELSE at(limit2, "TackStar")
          [] in(limit2, limit3) -> at(a, "ReachStar")
          [] in(limit3, limit4) -> IF TakesFirst(10 * a - Hysteresis(3, a, prev), limit3, limit4)
                                   THEN at(limit3, "JibeStar") ELSE at(limit4, "JibePort")
          [] in(limit4, limit1) -> at(a, "ReachPort")

\* FilterOffset for offsets that are not negative: up at once, down by and by.
PositiveFilterOffset(in, prev) ==
    LET clipped == IF in > Clip THEN Clip ELSE IF in > 0 THEN in ELSE 0
        decayed == IF prev > 0 THEN prev - 1 ELSE 0
    IN  IF clipped > decayed THEN clipped ELSE decayed

\* A boat that sails too near to the apparent wind falls off: [correction, b1, b2].
AntiWindGust(s) ==
    LET delta1 == Signed(TackZone + Half - AppOffset - app)
        delta2 == Signed(-TackZone + Half + AppOffset - app)
        b1 == PositiveFilterOffset(delta1, buffer1)
        b2 == PositiveFilterOffset(-delta2, buffer2)
    IN  CASE app = Calm -> [correction |-> 0, b1 |-> buffer1, b2 |-> buffer2]
          [] s \in {"TackPort", "ReachPort"} -> [correction |-> -b1, b1 |-> b1, b2 |-> 0]
          [] s \in {"TackStar", "ReachStar"} -> [correction |-> b2, b1 |-> 0, b2 |-> b2]
          [] s \in {"JibePort", "JibeStar"}  -> [correction |-> 0, b1 |-> 0, b2 |-> 0]

-----------------------------------------------------------------------------
(* The plan of a turn: accelerated for a sixth of the time, even for four sixths, *)
(* slowed down for a sixth.                                                        *)

All(p) == 6 * p.n
NoPlan == [from |-> 0, delta |-> 0, n |-> 0, tick |-> Stabilization]   \* any over plan
RunningPlan(p) == p.tick < All(p) + Stabilization

\* The shortest time in which the rudders, and the sail, can follow.
NewPlan(from, to, kind) ==
    LET d == Delta(from, to)
        feasible(n) == Reach * n * n >= Magnitude(d) /\ (kind = "kJibe" => n >= JibeSixths)
    IN  [from |-> from, delta |-> d, tick |-> 0,
         n |-> CHOOSE n \in 1 .. Circle : feasible(n) /\ \A m \in 1 .. n - 1 : ~feasible(m)]

\* How far the turn has come after tick steps, out of 5 n^2.
Way(n, tick) ==
    LET k == tick - 5 * n
    IN  CASE tick <= n -> (tick * (tick + 1)) \div 2
          [] tick \in n + 1 .. 5 * n -> (n * (n + 1)) \div 2 + n * (tick - n)
          [] tick \in 5 * n + 1 .. 6 * n -> (n * (n + 1)) \div 2 + 4 * n * n + n * k - (k * (k + 1)) \div 2
          [] OTHER -> 5 * n * n
PhiZ(p) == IF p.n = 0 THEN p.from ELSE Norm(p.from + (p.delta * Way(p.n, p.tick)) \div (5 * p.n * p.n))

TargetReached(p) ==
    /\ p.tick < All(p) - 1
    /\ IF p.delta > 0 THEN Delta(p.from + p.delta, boat) > 0 ELSE Delta(p.from + p.delta, boat) < 0
Stabilize(p) == [p EXCEPT !.tick = All(p) - 1]
GetReferenceValues(p) == [p EXCEPT !.tick = @ + 1]
\* A plan that is over is as good as none.
Kept(p) == IF RunningPlan(p) THEN p ELSE NoPlan

-----------------------------------------------------------------------------
(* The normal controller.                                                   *)

SectorToManeuverAnyhow(prev, s) == "kChange"            \* mutant: no plan is ever made
SectorToManeuver(prev, s) ==
    CASE {prev, s} = {"TackPort", "TackStar"} -> "kTack"
      [] {prev, s} = {"JibePort", "JibeStar"} -> "kJibe"
      [] OTHER -> "kChange"

AddOvershoot(from, to, kind) ==
    IF kind = "kTack" THEN Norm(to + IF Delta(from, to) >= 0 THEN Overshoot ELSE -Overshoot) ELSE to

\* A plan that runs is finished first, or cut short when a tack has got far enough.
FollowPlan ==
    LET p == GetReferenceValues(IF type = "kTack" /\ TargetReached(plan) THEN Stabilize(plan) ELSE plan)
    IN  /\ RunningPlan(plan)
        /\ plan' = Kept(p) /\ old' = PhiZ(p) /\ limited' = PhiZ(p)
        /\ UNCHANGED <<sector, type, buffer1, buffer2, begun>>

\* Else the wanted heading is approached slowly, within what can be sailed.
FollowStar ==
    LET a == LimitRateWrap(star, limited)
        s == SailableHeading(a, wind, old)
        kind == SectorToManeuver(sector, s.sector)
        gust == IF s.sector = sector THEN AntiWindGust(sector)
                ELSE [correction |-> 0, b1 |-> buffer1, b2 |-> buffer2]
        p == GetReferenceValues(NewPlan(old, AddOvershoot(old, s.target, kind), kind))
    IN  /\ ~RunningPlan(plan)
        /\ limited' = a /\ sector' = s.sector /\ type' = kind
        /\ buffer1' = gust.b1 /\ buffer2' = gust.b2
        /\ IF kind = "kChange"
           THEN old' = Norm(s.heading + gust.correction) /\ UNCHANGED <<plan, begun>>
           ELSE /\ plan' = p /\ old' = PhiZ(p)
                /\ begun' = IF steady /\ begun < MaxBegun THEN begun + 1 ELSE begun

ShapeReferenceValue == FollowPlan \/ FollowStar
Run == ShapeReferenceValue /\ UNCHANGED <<inputs, steady>>

\* The controller is entered, from another one; a plan in its first steps then holds
\* the heading for the rest of Stabilization steps.
Entry ==
    /\ ~steady
    /\ old' = boat /\ limited' = boat
    /\ sector' = SailableHeading(boat, wind, boat).sector
    /\ plan' = Kept([from |-> boat, delta |-> 0, n |-> 0, tick |-> plan.tick])
    /\ buffer1' = 0 /\ buffer2' = 0
    /\ UNCHANGED <<inputs, type, steady, begun>>

\* The world around: the wind turns slowly, the skipper wants to go elsewhere, the boat
\* follows or not, a gust comes and goes.
Turn ==
    /\ ~steady
    /\ \/ \E w \in Winds : Magnitude(Delta(wind, w)) <= 1 /\ wind' = w /\ UNCHANGED <<star, boat, app>>
       \/ star' \in Stars /\ UNCHANGED <<wind, boat, app>>
       \/ boat' \in Boats /\ UNCHANGED <<wind, star, app>>
       \/ app' \in Apps /\ UNCHANGED <<wind, star, boat>>
    /\ UNCHANGED <<limited, old, sector, type, plan, buffer1, buffer2, steady, begun>>
Settle == ~steady /\ app = Calm /\ steady' = TRUE
          /\ UNCHANGED <<inputs, limited, old, sector, type, plan, buffer1, buffer2, begun>>

Init ==
    /\ wind \in Winds /\ star \in Stars /\ boat \in Boats /\ app = Calm
    /\ limited = boat /\ old = boat /\ sector = SailableHeading(boat, wind, boat).sector
    /\ type = "kChange" /\ plan = NoPlan /\ buffer1 = 0 /\ buffer2 = 0 /\ steady = FALSE
    /\ begun = 0
Next == Run \/ Entry \/ Turn \/ Settle
Spec == Init /\ [][Next]_vars

-----------------------------------------------------------------------------
Gust == buffer1 # 0 \/ buffer2 # 0
Aborted == RunningPlan(plan) /\ type = "kTack" /\ TargetReached(plan)
Sailable(h) == SailableHeading(h, wind, h).heading = h
\* "phi_z_star must not jump" (normal_controller.cc:158), whatever turns the wind and the
\* skipper take in the middle of a plan: but to give way in a gust, and in a tack that has
\* got far enough, the heading turns no faster than a plan does, or the wind.
MustNotJump == [][Run /\ Sailable(old) /\ ~Gust /\ ~Gust' /\ ~Aborted => Magnitude(Delta(old, old')) <= 4]_vars

\* However near the two sides of the wind are to each other for where the skipper wants
\* to go, the boat does not tack or jibe to and fro: once nothing changes any more, it
\* does so once more at most.
Settles == begun <= 1
=============================================================================
