-------------------------------- MODULE VSkipper --------------------------------
(***************************************************************************)
(* The boat's choice of a bearing that keeps clear of other ships (vskipper/vskipper.cc   *)
(* and util.cc), and of one that it can sail (common/polar_diagram.cc).  A bearing is one     *)
(* of the eight points of a compass, 0 is north; the earth is a plane.  Lengths are in half     *)
(* the way the boat makes in a minute, which is the time between two runs of the skipper.        *)
(***************************************************************************)
EXTENDS Integers, Sequences

CONSTANTS SafeDistance,       \* kSafeDistance
          TimeWindows,        \* kMaxTimeWindow and its halves down to kMinTimeWindow, in minutes
          WindFractions       \* of its speed that the boat may make, times two

kVSkipperNoWay == -10                     \* -444 degrees

NormalizeDeg(a) == a % 8                                   \* 0 .. 7
SymmetricDeg(a) == ((a + 4) % 8) - 4                        \* -4 .. 3
AbsDeg(a) == LET s == SymmetricDeg(a) IN IF s < 0 THEN -s ELSE s
Bearings == 0 .. 7

\* A way of n along a bearing, as <<north, east>>; diagonals are as good as straight lines.
Ahead(bearing, n) ==
    <<(IF bearing \in {7, 0, 1} THEN n ELSE IF bearing \in {3, 4, 5} THEN -n ELSE 0),
      (IF bearing \in {1, 2, 3} THEN n ELSE IF bearing \in {5, 6, 7} THEN -n ELSE 0)>>
Plus(p, q) == <<p[1] + q[1], p[2] + q[2]>>
Minus(p, q) == <<p[1] - q[1], p[2] - q[2]>>
Dot(p, q) == p[1] * q[1] + p[2] * q[2]

\* The least distance of two that move with velocities u and v, d apart, in the time t, is
\* safe: that of the nearest approach, clamped to the time.  Squares instead of the roots.
MinDistanceSafe(u, v, d, t) ==
    LET p == Minus(u, v)                   \* how they approach
        near == Dot(d, p)
        safe2 == SafeDistance * SafeDistance
    IN  IF near <= 0 THEN Dot(d, d) >= safe2
        ELSE IF near >= t * Dot(p, p)
             THEN LET e == Minus(d, <<t * p[1], t * p[2]>>) IN Dot(e, e) >= safe2
        ELSE Dot(d, d) * Dot(p, p) - near * near >= safe2 * Dot(p, p)

\* In the dead zones the boat beats: it makes its way there too, if there is wind.
ExpectedVelocity(wind) == IF wind = 0 THEN 0 ELSE 1

\* A report is [position, age, bearing, speed]: it is extrapolated to the time of the newest one,
\* which is taken for now.
Newest(reports) == LET ages == {reports[i].age : i \in DOMAIN reports}
                   IN  CHOOSE a \in ages : \A b \in ages : a <= b
LocalAisAsReported(reports, r) == r.position                                 \* mutant
LocalAis(reports, r) == Plus(r.position, Ahead(r.bearing, r.speed * (r.age - Newest(reports))))

\* What is left of SkipperImpl's sums of dangers: whether they are 0.
Safe(us, wind, reports, t, bearing) ==
    \A i \in DOMAIN reports, f \in WindFractions :
        LET r == reports[i]
        IN  MinDistanceSafe(Ahead(bearing, f * ExpectedVelocity(wind)), Ahead(r.bearing, r.speed),
                            Minus(LocalAis(reports, r), us), t)

\* Of the safe candidates the least off the target, to the right of two.
BetterBearing == <<0, 1, 7, 2, 6, 3, 5, 4>>
SkipperImpl(target, safe) ==
    LET is(k) == NormalizeDeg(target + BetterBearing[k]) \in safe
    IN  NormalizeDeg(target + BetterBearing[CHOOSE k \in 1 .. 8 : is(k) /\ \A j \in 1 .. k - 1 : ~is(j)])

SafeFor(us, wind, reports, t) == {b \in Bearings : Safe(us, wind, reports, t, b)}
\* The window shrinks until some bearing is safe for it; the caller is told of none by
\* what Bearing::Degrees makes of kVSkipperNoWay.
RunVSkipper(us, wind, reports, target) ==
    LET found == {t \in TimeWindows : SafeFor(us, wind, reports, t) # {}}
        longest == CHOOSE t \in found : \A u \in found : u <= t
    IN  IF found = {} THEN NormalizeDeg(kVSkipperNoWay)
        ELSE SkipperImpl(target, SafeFor(us, wind, reports, longest))

-----------------------------------------------------------------------------
\* polar_diagram.cc: not into the wind, but on the nearer edge of the dead zone; with
\* eight bearings the one around the dead run (20 degrees) is never met.
Reverse(a) == NormalizeDeg(a + 4)
BestSailableHeadingDeg(alpha_star, angle_true) ==
    IF alpha_star # Reverse(angle_true) THEN alpha_star
    ELSE NormalizeDeg(alpha_star + 1)       \* of two equally near edges the second
=============================================================================
