----------------------------- MODULE FilterBlock -----------------------------
(***************************************************************************)
(* What the helmsman makes of its sensors in every control step            *)
(* (helmsman/filter_block.cc, compass_mixer.cc): which of them are at      *)
(* fault, the heading the compasses agree on, the speed, the wind, and     *)
(* what of all that it calls valid.                                        *)
(*                                                                         *)
(* Of a measured value only matters whether it is a number; headings are   *)
(* quarters of a turn, to see where compasses disagree.  Of a filter its   *)
(* length counts and that a NaN in its sum stays there for ever.           *)
(***************************************************************************)
EXTENDS Integers

CONSTANTS OmegaLen, HeadingLen, SpeedLen, AppLen, TrueLen   \* the lengths of the filters, in control steps

Nan == 9           \* no quarter of a turn

VARIABLES
  imu_fault,        \* imu_fault_
  valid_app_wind,   \* valid_app_wind_
  om_z,             \* om_z_med_ and om_z_filter_: control steps filtered
  phi_z,            \* phi_z_wrap_: headings filtered
  speed,            \* speed_filter_
  app,              \* angle_app_wrap_ and mag_app_filter_
  true,             \* alpha_true_polar_
  fil,              \* FilteredMeasurements
  up,               \* no CHECK has failed
  speedless         \* history: the IMU has been without a speed while the GPS had a position

filters == <<om_z, phi_z, speed, app, true>>
vars == <<imu_fault, valid_app_wind, filters, fil, up, speedless>>

\* The attitude and the speed of the IMU come from its Kalman filter and go with it
\* (imucat_main.c:353-357), its position also with its GPS.
Measurements ==
  [imu: {0, Nan}, imuCompass: {2, Nan}, compass: {0, 1, 2, Nan}, imuPosition: BOOLEAN,
   gps: BOOLEAN, wind: BOOLEAN, sail: BOOLEAN]

Empty == [filled |-> 0, nan |-> FALSE]

\* A number, or none, goes into a sliding average.
Fed(f, len, number) ==
  [filled |-> IF f.filled < len THEN f.filled + 1 ELSE len, nan |-> f.nan \/ ~number]
Filled(n, len) == IF n < len THEN n + 1 ELSE len

-----------------------------------------------------------------------------
\* CompassMixer::Mix, the weights in thousandths: an input that is no number weighs nothing.
East(q) == CASE q = 0 -> 1 [] q = 2 -> -1 [] OTHER -> 0
North(q) == CASE q = 1 -> 1 [] q = 3 -> -1 [] OTHER -> 0
Weight(input, weight) == IF input = Nan THEN 0 ELSE weight

Consensus(w1, a1, w2, a2, w3, a3) ==
  LET sum == w1 + w2 + w3
      x == w1 * East(a1) + w2 * East(a2) + w3 * East(a3)
      y == w1 * North(a1) + w2 * North(a2) + w3 * North(a3)
  IN  sum >= 500 /\ 4 * (x * x + y * y) >= sum * sum

ImuFault(in) == in.imu = Nan
GpsFault(in) == ~in.gps

HeadingAgreed(in) ==
  Consensus(IF ImuFault(in) THEN 0 ELSE Weight(in.imu, 500), in.imu,
            Weight(in.imuCompass, 75), in.imuCompass,
            Weight(in.compass, 500), in.compass)

PositionKnown(in) == in.imuPosition \/ ~GpsFault(in)

\* With no weight left the speed is assumed and not filtered.
SpeedNeverAssumed(in) == FALSE       \* mutant: nothing divided by nothing
SpeedAssumed(in) == ImuFault(in) /\ GpsFault(in)

\* A product with a NaN is one, even if the weight is 0; the speed of a GPS that knows
\* its place but not its course is 0.
SpeedIsNumber(in) == ~ImuFault(in)

SpeedFilter(in) == IF SpeedAssumed(in) THEN speed ELSE Fed(speed, SpeedLen, SpeedIsNumber(in))
BoatSpeed(in) ==
  CASE SpeedAssumed(in) -> "assumed"
    [] ~SpeedAssumed(in) /\ speed'.nan -> "nan"
    [] OTHER -> "number"

\* The wind has a direction only with a sail of which the angle is known.
WindMeasured(in) == in.wind /\ in.sail

\* The true wind of this step is averaged; a direction that is no number fails a CHECK.
Wind(in) ==
  IF WindMeasured(in)
  THEN /\ app' = Filled(app, AppLen)
       /\ true' = Fed(true, TrueLen, BoatSpeed(in) # "nan")
       /\ up' = ~true'.nan
       /\ valid_app_wind' = (app' = AppLen)
  ELSE /\ valid_app_wind' = FALSE
       /\ UNCHANGED <<app, true, up>>

ValidTrueWind == true.filled = TrueLen /\ ~imu_fault /\ valid_app_wind

\* FilterBlock::Filter; rotations that are no numbers count as none.
Filter(in) ==
  /\ imu_fault' = ImuFault(in)
  /\ om_z' = Filled(om_z, OmegaLen)
  /\ phi_z' = IF HeadingAgreed(in) THEN Filled(phi_z, HeadingLen) ELSE phi_z
  /\ speed' = SpeedFilter(in)
  /\ Wind(in)
  /\ fil' = [heading |-> HeadingAgreed(in), position |-> PositionKnown(in), mag_boat |-> BoatSpeed(in),
             alpha_true |-> IF ~WindMeasured(in) THEN "unknown"
                            ELSE IF true'.nan THEN "nan" ELSE "number",
             valid |-> valid_app_wind' /\ om_z' = OmegaLen /\ phi_z' = HeadingLen,
             sail |-> in.sail]
  /\ speedless' = (speedless \/ (ImuFault(in) /\ ~GpsFault(in)))

Unfiltered == [heading |-> FALSE, position |-> FALSE, mag_boat |-> "number", alpha_true |-> "number",
               valid |-> FALSE, sail |-> FALSE]

Init ==
  /\ imu_fault = FALSE /\ valid_app_wind = FALSE /\ up = TRUE /\ speedless = FALSE
  /\ om_z = 0 /\ phi_z = 0 /\ speed = Empty /\ app = 0 /\ true = Empty
  /\ fil = Unfiltered

\* A failed CHECK ends the helmsman; started again it remembers nothing.
Restart ==
  /\ ~up
  /\ imu_fault' = FALSE /\ valid_app_wind' = FALSE /\ up' = TRUE /\ speedless' = FALSE
  /\ om_z' = 0 /\ phi_z' = 0 /\ speed' = Empty /\ app' = 0 /\ true' = Empty
  /\ fil' = Unfiltered

Next ==
  \/ up /\ \E in \in Measurements : Filter(in)
  \/ Restart
Spec == Init /\ [][Next]_vars

-----------------------------------------------------------------------------
\* filter_block.cc:169: "NaNs irreversibly poison filters, so we have to prevent that."
NeverPoisoned == ~speed.nan /\ ~true.nan

\* The wind that a running helmsman calls valid is known, whatever sensors came and went:
\* it has been measured in this very step, with the sail at home as the ship control takes
\* for granted, and its direction is a number.  Before the IMU is without a speed while the
\* GPS has a position, the speed is a number as well and no CHECK fails; after that the NaN
\* stays in the filters until a CHECK ends the helmsman (filter_block.cc:123-345).
ValidWindIsKnown ==
  /\ up /\ (fil.valid \/ ValidTrueWind) => fil.alpha_true = "number" /\ fil.sail
  /\ ~speedless => up /\ fil.mag_boat # "nan"
=============================================================================
