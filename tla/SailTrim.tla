------------------------------- MODULE SailTrim -------------------------------
(***************************************************************************)
(* The angle of the sail for the apparent wind (helmsman/sail_controller.cc): *)
(* as a wing or, before the wind, as a spinnaker, with a hysteresis and a      *)
(* delay between the two.  Angles are in degrees, speeds in m/s.                *)
(***************************************************************************)
EXTENDS Integers

CONSTANTS
    Delay,          \* steps before the mode is changed: 20 s
    MaxCount,       \* delay_counter_ is kept below 1000
    Angles, Speeds, \* of the apparent wind; angles here from 0 to 359
    Shift           \* what the wind turns in a step

VARIABLES
    angle, speed, app_sign,     \* apparent wind, side of the sail
    mode, delay_counter,        \* of SailModeLogic
    gamma_sail,
    age                         \* history: steps since the mode was changed
vars == <<angle, speed, app_sign, mode, delay_counter, gamma_sail, age>>

\* The switching point and half the hysteresis, in tenths of a degree.
kSwitchpoint == 725
kHalfHysteresis == 50
kSpinakkerLimit == 7
kAngleReductionLimit == 14
kDragMax == 93
kMinimumSailAngle == 13
OptimalAngleOfAttack == 45

\* Angles are kept from -180 to 179.  Less is what Angle::operator< is: whether the
\* shorter way from x to y goes to the right.
Deg(x) == ((x + 180) % 360) - 180
Less(x, y) == (y - x) % 360 < 180
Opposite(x) == Deg(x + 180)
Signed == {Deg(x) : x \in Angles}

-----------------------------------------------------------------------------
(* SailModeLogic::BestStabilizedMode: [mode, count].                        *)

\* Whether the angle asks for another mode: at once, or after a delay.
Beyond(m, a, by) == IF m = "WING" THEN 10 * a < kSwitchpoint - by ELSE 10 * a > kSwitchpoint + by
FarBeyond(m, a) ==
    IF m = "WING" THEN 10 * a <= kSwitchpoint - 2 * kHalfHysteresis ELSE Beyond(m, a, 2 * kHalfHysteresis)

SwitchedKeepsCount(m, count) == [mode |-> m, count |-> count]   \* mutant: delay_counter_ is not reset
Switched(m, count) == [mode |-> m, count |-> 0]
BestStabilizedMode(m, count, a, wind) ==
    LET counted == IF count + 1 > MaxCount THEN MaxCount ELSE count + 1
        other == IF m = "WING" THEN "SPINNAKER" ELSE "WING"
    IN  CASE wind > kSpinakkerLimit -> [mode |-> "WING", count |-> 0]
          [] wind <= kSpinakkerLimit /\ FarBeyond(m, a) -> Switched(other, count)
          [] wind <= kSpinakkerLimit /\ ~FarBeyond(m, a) /\ Beyond(m, a, kHalfHysteresis) ->
                IF count + 1 > Delay THEN Switched(other, counted) ELSE [mode |-> m, count |-> counted]
          [] OTHER -> [mode |-> m, count |-> count]

-----------------------------------------------------------------------------
(* SailController::StableGammaSailFromApparent.                             *)

AngleOfAttack(wind) ==
    IF wind < kAngleReductionLimit THEN OptimalAngleOfAttack
    ELSE (OptimalAngleOfAttack * kAngleReductionLimit * kAngleReductionLimit) \div (wind * wind)

\* The apparent wind as seen from the side of the sail.
OnSide(a, sign) == LET d == Deg(a * sign) IN IF Less(179, d) THEN 179 ELSE d
Wing(a, wind) ==
    LET g == Opposite(-a - AngleOfAttack(wind))
    IN  IF Less(179 - kMinimumSailAngle, a) THEN 0
        ELSE IF Less(g, kMinimumSailAngle) THEN kMinimumSailAngle ELSE g
Spinnaker(a) == kDragMax - a \div 2
Gamma(m, a, wind, sign) == -sign * IF m = "SPINNAKER" THEN Spinnaker(a) ELSE Wing(a, wind)

StableGammaSail(a, wind, sign) ==
    LET seen == OnSide(a, sign)
        s == BestStabilizedMode(mode, delay_counter, seen, wind)
    IN  /\ mode' = s.mode /\ delay_counter' = s.count
        /\ gamma_sail' = Gamma(s.mode, seen, wind, sign)
        /\ age' = IF s.mode # mode THEN 0 ELSE IF age > Delay THEN age ELSE age + 1

\* The helmsman trims the sail in every step, with the wind a little changed or the side
\* of the sail (SetAppSign) chosen anew.
Trim ==
    /\ \E a \in Signed, w \in Speeds :
        /\ Deg(a - angle) \in -Shift .. Shift
        /\ angle' = a /\ speed' = w /\ UNCHANGED app_sign
        /\ StableGammaSail(a, w, app_sign)
SetAppSign ==
    /\ app_sign' = -app_sign
    /\ StableGammaSail(angle, speed, app_sign')
    /\ UNCHANGED <<angle, speed>>

\* The sail set against the wind, to drive the boat backwards, when the initial controller
\* turns the boat: the mode is chosen for the opposite wind from the other side.
ReverseGammaSail ==
    /\ IF speed = 0 THEN gamma_sail' = -120 * app_sign /\ UNCHANGED <<mode, delay_counter, age>>
       ELSE LET seen == OnSide(Opposite(angle), -app_sign)
                s == BestStabilizedMode(mode, delay_counter, seen, speed)
            IN  /\ mode' = s.mode /\ delay_counter' = s.count
                /\ gamma_sail' = Opposite(Gamma(s.mode, seen, speed, -app_sign))
                /\ age' = IF s.mode # mode THEN 0 ELSE IF age > Delay THEN age ELSE age + 1
    /\ UNCHANGED <<angle, speed, app_sign>>

Reset ==
    /\ mode' = "WING" /\ delay_counter' = 0 /\ age' = 0
    /\ UNCHANGED <<angle, speed, app_sign, gamma_sail>>

Init ==
    /\ angle \in Signed /\ speed \in Speeds /\ app_sign = 1
    /\ mode = "WING" /\ delay_counter = 0 /\ gamma_sail = 0 /\ age = 0
Next == Trim \/ SetAppSign \/ ReverseGammaSail \/ Reset
Spec == Init /\ [][Next]_vars

-----------------------------------------------------------------------------
\* Around the switching point the sail does not flap between the two modes: unless the
\* wind turns far beyond it or freshens, a mode is kept for more than Delay steps.
NoFlapping ==
    [][mode' # mode => \/ age >= Delay
                       \/ speed' > kSpinakkerLimit
                       \/ \E sign \in {-1, 1}, a \in {angle', Opposite(angle')} : FarBeyond(mode, OnSide(a, sign))
                       \/ Reset]_vars
=============================================================================
