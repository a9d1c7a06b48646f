----------------------------- MODULE ShipControl -----------------------------
(***************************************************************************)
(* The state machine of the helmsman (helmsman/ship_control.cc) with the   *)
(* two controllers that decide when the boat starts and stops sailing by   *)
(* itself, InitialController and NormalController.  One control step is    *)
(* one call of ShipControl::Run.                                           *)
(*                                                                         *)
(* The output of the filter block and the drive states are the input of a  *)
(* step.  Of the wind only the side of each limit it is compared with is   *)
(* kept, of the boat speed whether it is below the 0.03 m/s of GiveUp,     *)
(* above the 0.15 m/s of the initial controller, or between; times are     *)
(* counted in control steps.  What the controllers compute for rudder and  *)
(* sail is left out.                                                       *)
(***************************************************************************)
EXTENDS Naturals

CONSTANTS
  KoggeFast,     \* kogge_time_ in strong wind, in control steps (20 s)
  KoggeSlow,     \* kogge_time_ in weak wind, in control steps (60 s)
  GiveUpLimit,   \* give_up_limit_seconds, in control steps (30 s)
  Inputs         \* the inputs that occur

\* Classes of the filtered apparent wind speed, in m/s:
\* 0 below 0.35, 1 to 0.5, 2 to 0.65, 3 to 4, 4 below 16, 5 to 20, 6 above 20.
Winds == 0..6

InputType ==
  [sail: BOOLEAN,       \* drives.homed_sail
   rudder: BOOLEAN,     \* homed_rudder_left || homed_rudder_right
   valid: BOOLEAN,      \* filtered.valid (implies valid_app_wind)
   trueWind: BOOLEAN,   \* filter_block_->ValidTrueWind()
   wind: Winds,         \* filtered.mag_app
   downwind: BOOLEAN,   \* fabs(angle_app) <= kRunSector
   speed: {"stuck", "slow", "making"},   \* filtered.mag_boat
   heading: BOOLEAN]    \* alpha_star_rad != kUnknown

ASSUME StepsAssumption ==
  /\ KoggeFast \in Nat /\ KoggeSlow \in Nat /\ GiveUpLimit \in Nat
  /\ KoggeFast <= KoggeSlow

\* Without the sail angle there is no wind direction (filter_block.cc:281).
ASSUME InputsAssumption ==
  /\ Inputs \subseteq InputType
  /\ \A in \in Inputs : in.valid \/ in.trueWind => in.sail

VARIABLES
  meta_state,    \* meta_state_
  controller,    \* controller_
  apparent,      \* wind_strength_apparent_
  initial,       \* initial_controller_: phase_, count_, kogge_time_, positive_speed_
  normal,        \* normal_controller_: give_up_counter_, wind_strength_apparent_
  settled,       \* the environment stays fair from now on
  homed,         \* history: the last step found the drives homed
  stuck,         \* history: consecutive steps without speed since normal was entered
  struggling,    \* history: the same, counting only steps with clear wind
  starting       \* history: steps of the initial controller since it was entered

control == <<meta_state, controller, apparent, initial, normal>>
history == <<homed, stuck, struggling, starting>>
vars == <<control, settled, history>>

-----------------------------------------------------------------------------
Ranges == {"kCalmWind", "kNormalWind", "kStormWind"}

\* WindStrength, with its hysteresis.
WindStrength(previous, wind) ==
  CASE previous = "kCalmWind"  -> IF wind >= 3 THEN "kNormalWind" ELSE "kCalmWind"
    [] previous = "kNormalWind" -> IF wind = 0 THEN "kCalmWind"
                                   ELSE IF wind = 6 THEN "kStormWind" ELSE "kNormalWind"
    [] previous = "kStormWind" -> IF wind <= 4 THEN "kNormalWind" ELSE "kStormWind"

\* Bound: a longer count compares like this one with every limit.
MaxCount == 3 * KoggeSlow + 1

InitialType ==
  [phase: {"SLEEP", "TURTLE", "KOGGE"}, count: 0..MaxCount,
   kogge: {KoggeFast, KoggeSlow}, positive: BOOLEAN]

Capped(n, max) == IF n > max THEN max ELSE n

\* InitialController::Reset, the whole of its Entry; positive_speed_ is kept.
EnterInitialStale == initial    \* mutant: Entry does not reset
EnterInitial ==
  [phase |-> "SLEEP", count |-> 0, kogge |-> KoggeSlow, positive |-> initial.positive]

\* The phase after one run.
NextPhase(i, kogge, in) ==
  CASE i.phase = "SLEEP"  -> IF in.sail /\ in.rudder THEN "TURTLE" ELSE "SLEEP"
    [] i.phase = "TURTLE" -> IF in.downwind THEN "KOGGE" ELSE "TURTLE"
    [] i.phase = "KOGGE"  -> IF i.count > 3 * kogge /\ in.wind >= 2 THEN "TURTLE" ELSE "KOGGE"

\* InitialController::Run; a change of phase starts the count again.
RunInitial(i, in) ==
  LET kogge == IF in.wind >= 4 THEN KoggeFast ELSE KoggeSlow
      phase == NextPhase(i, kogge, in)
  IN  IF ~in.valid THEN i
      ELSE [phase |-> phase,
            count |-> IF phase = i.phase THEN Capped(i.count + 1, MaxCount) ELSE 1,
            kogge |-> kogge,
            positive |-> in.speed = "making"]

\* InitialController::Done, before the step runs the controller.
DoneLate ==                     \* mutant: the limit of the abort
  initial.phase = "KOGGE" /\ initial.count > 3 * initial.kogge /\ initial.positive
Done == initial.phase = "KOGGE" /\ initial.count > initial.kogge /\ initial.positive

\* NormalController::GiveUp counts and compares.
GiveUpCount(in) ==
  IF normal.wind # "kCalmWind" /\ in.speed = "stuck"
  THEN Capped(normal.giveUp + 1, GiveUpLimit + 1) ELSE 0

Unhomed(in) == ~in.sail \/ ~in.rudder

Sailing == meta_state = "kNormal" /\ controller = "normal"

NormalStateDirect(in, wind) ==  \* mutant: back from braking into normal sailing
  IF controller = "initial" THEN "initial" ELSE "normal"

\* The normal states of ShipControl::StateMachine; wind is the new
\* wind_strength_apparent_.
NormalState(in, wind) ==
  CASE controller = "initial" ->
         IF Done /\ wind # "kCalmWind" /\ in.trueWind /\ in.heading
         THEN "normal" ELSE "initial"
    [] controller = "normal" ->
         IF Unhomed(in) \/ GiveUpCount(in) > GiveUpLimit THEN "initial" ELSE "normal"
    [] controller \notin {"initial", "normal"} -> "initial"

StateMachine(in, wind) ==
  CASE meta_state = "kBraking" -> "brake"
    [] meta_state = "kDocking" -> "docking"
    [] meta_state = "kIdle"    -> "idle"
    [] meta_state = "kNormal"  -> NormalState(in, wind)

-----------------------------------------------------------------------------
Init ==
  /\ meta_state = "kNormal" /\ controller = "initial"
  /\ apparent = "kCalmWind"
  /\ initial = [phase |-> "SLEEP", count |-> 0, kogge |-> KoggeSlow, positive |-> FALSE]
  /\ normal = [giveUp |-> 0, wind |-> "kCalmWind"]
  /\ settled = FALSE
  /\ homed = FALSE /\ stuck = 0 /\ struggling = 0 /\ starting = 0

\* Brake(), Docking(), Normal() and Idle().
Command(m) ==
  /\ ~settled
  /\ meta_state' = m
  /\ UNCHANGED <<controller, apparent, initial, normal, settled, history>>

\* GiveUp is asked of a normal controller with homed drives only; Entry
\* starts its count again...
CountAfter(in, next) ==
  CASE next = "normal" /\ controller # "normal" -> 0
    [] Sailing /\ ~Unhomed(in)                  -> GiveUpCount(in)
    [] OTHER                                    -> normal.giveUp

\* ...and keeps the wind range of its last run.
RangeKept(in, next) == normal.wind    \* mutant: Run does not look at the wind
RangeAfter(in, next) ==
  IF next = "normal" THEN WindStrength(normal.wind, in.wind) ELSE normal.wind

InitialAfter(in, next) ==
  IF next # "initial" THEN initial
  ELSE RunInitial(IF controller = "initial" THEN initial ELSE EnterInitial, in)

MaxStarting == KoggeFast + 2   \* bound of the history variable

Record(in, next) ==
  /\ homed' = ~Unhomed(in)
  /\ stuck' = IF controller = "normal" /\ in.speed = "stuck"
              THEN Capped(stuck + 1, GiveUpLimit + 1) ELSE 0
  /\ struggling' = IF next = "normal" /\ in.speed = "stuck" /\ in.wind >= 3
                   THEN struggling + 1 ELSE 0
  /\ starting' = IF next # "initial" THEN 0
                 ELSE IF controller = "initial" THEN Capped(starting + 1, MaxStarting)
                 ELSE 1

\* ShipControl::Run.
Run(in) ==
  LET wind == WindStrength(apparent, in.wind)
      next == StateMachine(in, wind)
  IN  /\ apparent' = wind
      /\ controller' = next
      /\ initial' = InitialAfter(in, next)
      /\ normal' = [giveUp |-> CountAfter(in, next), wind |-> RangeAfter(in, next)]
      /\ Record(in, next)
      /\ UNCHANGED <<meta_state, settled>>

\* Drives, wind, course and speed as a boat under way has them.
Fair(in) ==
  /\ in.sail /\ in.rudder /\ in.valid /\ in.trueWind /\ in.heading
  /\ in.wind \in {3, 4, 5, 6} /\ in.downwind /\ in.speed = "making"

ControlStep == \E in \in Inputs : (settled => Fair(in)) /\ Run(in)

Settle ==
  /\ ~settled
  /\ settled' = TRUE
  /\ UNCHANGED <<control, history>>

Next ==
  \/ \E m \in {"kBraking", "kDocking", "kNormal", "kIdle"} : Command(m)
  \/ ControlStep
  \/ Settle

Spec == Init /\ [][Next]_vars

FairSpec == Spec /\ WF_vars(ControlStep)

-----------------------------------------------------------------------------
TypeOK ==
  /\ meta_state \in {"kBraking", "kDocking", "kNormal", "kIdle"}
  /\ controller \in {"initial", "normal", "brake", "docking", "idle"}
  /\ apparent \in Ranges
  /\ initial \in InitialType
  /\ normal \in [giveUp: 0..(GiveUpLimit + 1), wind: Ranges]
  /\ settled \in BOOLEAN /\ homed \in BOOLEAN
  /\ stuck \in 0..(GiveUpLimit + 1)
  /\ struggling \in Nat
  /\ starting \in 0..MaxStarting

States == INSTANCE HelmStates
\* The main loop sees of the state machine what HelmStates promises:
\* commands are obeyed in the next control step, and the normal controller
\* is reached from the initial controller only.
ImplementsHelmStates == States!StatesSpec

\* The normal controller is patient: in the normal meta state the boat falls
\* back to the initial controller only with drives that are not homed or
\* after more than GiveUpLimit consecutive steps without speed, all of them
\* since the normal controller was entered last.
PatientInNormal ==
  [][controller = "normal" /\ controller' = "initial" =>
        ~homed' \/ stuck' > GiveUpLimit]_vars

\* ...and it does give up: it never runs for more than GiveUpLimit + 1
\* consecutive steps without speed in clear wind, whatever range of wind it
\* remembers from the time it ran before.
StuckIsNoticed == struggling <= GiveUpLimit + 1

\* The way back into normal sailing is never short: the initial controller
\* has run all its phases since it was entered (asleep, turned, and longer
\* than the shorter kogge_time_ under way) before the normal one takes over.
InitialTakesItsTime ==
  [][controller = "initial" /\ controller' = "normal" =>
        starting >= KoggeFast + 2]_vars

\* In fair conditions the boat sails by itself: whatever happened before, the
\* normal controller takes over for good.
FairWeatherSails ==
  <>[](settled /\ meta_state = "kNormal") => <>[](controller = "normal")
=============================================================================
