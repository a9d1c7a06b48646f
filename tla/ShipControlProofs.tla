-------------------------- MODULE ShipControlProofs --------------------------
(***************************************************************************)
(* Proofs about ShipControl for all lengths of the waiting times, all      *)
(* inputs and the whole range of winds, and about the filter block that    *)
(* provides the input, as MCShipControl runs it, for filters of any length; *)
(* and about the filters that one is made of, for averages of any length.  *)
(***************************************************************************)
EXTENDS MCShipControl, Sequences, Counting, FiniteSetTheorems, TLAPS

\* The patience of the normal controller is tied to both histories: its count
\* never runs ahead of the steps without speed, nor behind those in clear wind.
Patience ==
  IF controller = "normal"
  THEN /\ normal.giveUp <= stuck /\ normal.giveUp <= GiveUpLimit
       /\ struggling <= normal.giveUp + 1
       /\ struggling > 0 => normal.wind # "kCalmWind"
  ELSE struggling = 0

\* The phases of the initial controller account for the steps since its entry.
Account ==
  controller = "initial" =>
    /\ initial.phase = "TURTLE" => starting >= 1
    /\ initial.phase = "KOGGE"  => starting > initial.count \/ starting = MaxStarting

IInv == TypeOK /\ Patience /\ Account

\* The range of wind is one of the three, and clear wind is never calm.
LEMMA WindStrengthRange ==
  ASSUME NEW previous \in Ranges, NEW wind \in Winds
  PROVE  /\ WindStrength(previous, wind) \in Ranges
         /\ wind >= 3 => WindStrength(previous, wind) # "kCalmWind"
BY DEF WindStrength, Ranges, Winds

\* What one run of the initial controller does to its record.
LEMMA RunInitialType ==
  ASSUME NEW i \in InitialType, NEW in \in InputType
  PROVE  /\ RunInitial(i, in) \in InitialType
         /\ RunInitial(i, in).phase = "KOGGE" =>
              \/ i.phase = "TURTLE" /\ RunInitial(i, in).count = 1
              \/ i.phase = "KOGGE" /\ RunInitial(i, in).count <= i.count + 1
<1>1. CASE ~in.valid
  BY <1>1, StepsAssumption DEF RunInitial, MaxCount, InitialType
<1>2. CASE in.valid
  <2> DEFINE kogge == IF in.wind >= 4 THEN KoggeFast ELSE KoggeSlow
             phase == NextPhase(i, kogge, in)
             count == IF phase = i.phase THEN Capped(i.count + 1, MaxCount) ELSE 1
             positive == in.speed = "making"
  <2>1. RunInitial(i, in) = [phase |-> phase, count |-> count, kogge |-> kogge,
                             positive |-> positive]
    BY <1>2 DEF RunInitial
  <2>2. phase \in {"SLEEP", "TURTLE", "KOGGE"}
        /\ (phase = "KOGGE" => i.phase \in {"TURTLE", "KOGGE"})
    BY DEF NextPhase, InitialType
  <2>3. kogge \in {KoggeFast, KoggeSlow} /\ positive \in BOOLEAN
    OBVIOUS
  <2> HIDE DEF phase, kogge, positive
  <2>4. count \in 0..MaxCount /\ (phase = i.phase => count <= i.count + 1)
        /\ (phase # i.phase => count = 1)
    BY StepsAssumption DEF Capped, MaxCount, InitialType
  <2> HIDE DEF count
  <2> QED
    BY <2>1, <2>2, <2>3, <2>4 DEF InitialType
<1> QED
  BY <1>1, <1>2

\* The count of GiveUp is a number up to the limit plus one.
LEMMA GiveUpCountType ==
  ASSUME TypeOK, NEW in \in InputType
  PROVE  /\ GiveUpCount(in) \in 0..(GiveUpLimit + 1)
         /\ GiveUpCount(in) <= normal.giveUp + 1
         /\ in.speed = "stuck" /\ normal.wind # "kCalmWind" =>
              GiveUpCount(in) = normal.giveUp + 1 \/ GiveUpCount(in) = GiveUpLimit + 1
         /\ in.speed # "stuck" => GiveUpCount(in) = 0
BY StepsAssumption DEF TypeOK, GiveUpCount, Capped

\* The state machine picks one of the five controllers, the normal one only
\* after the initial one or itself.
LEMMA StateMachineType ==
  ASSUME TypeOK, NEW in \in InputType, NEW wind
  PROVE  /\ StateMachine(in, wind) \in {"initial", "normal", "brake", "docking", "idle"}
         /\ StateMachine(in, wind) = "normal" =>
              /\ meta_state = "kNormal"
              /\ \/ controller = "initial" /\ Done
                 \/ controller = "normal" /\ ~Unhomed(in) /\ GiveUpCount(in) <= GiveUpLimit
         /\ StateMachine(in, wind) = "initial" /\ controller = "normal" =>
              /\ meta_state = "kNormal"
              /\ Unhomed(in) \/ GiveUpCount(in) > GiveUpLimit
BY GiveUpCountType, StepsAssumption DEF TypeOK, StateMachine, NormalState

-----------------------------------------------------------------------------
\* The facts about one control step that the invariant and the action
\* properties rest on.
LEMMA RunStep ==
  ASSUME IInv, NEW in \in Inputs, Run(in)
  PROVE  /\ IInv'
         /\ controller = "normal" /\ controller' = "initial" =>
              ~homed' \/ stuck' > GiveUpLimit
         /\ controller = "initial" /\ controller' = "normal" =>
              starting >= KoggeFast + 2
<1> DEFINE wind == WindStrength(apparent, in.wind)
           next == StateMachine(in, wind)
<1>1. in \in InputType /\ in.wind \in Winds /\ in.speed \in {"stuck", "slow", "making"}
  BY InputsAssumption DEF InputType
<1>2. /\ apparent' = wind /\ controller' = next
      /\ initial' = InitialAfter(in, next)
      /\ normal' = [giveUp |-> CountAfter(in, next), wind |-> RangeAfter(in, next)]
      /\ Record(in, next) /\ meta_state' = meta_state /\ settled' = settled
  BY DEF Run
<1>3. wind \in Ranges
  BY <1>1, WindStrengthRange DEF IInv, TypeOK
<1>4. /\ next \in {"initial", "normal", "brake", "docking", "idle"}
      /\ next = "normal" =>
           /\ meta_state = "kNormal"
           /\ \/ controller = "initial" /\ Done
              \/ controller = "normal" /\ ~Unhomed(in) /\ GiveUpCount(in) <= GiveUpLimit
      /\ next = "initial" /\ controller = "normal" =>
           meta_state = "kNormal" /\ (Unhomed(in) \/ GiveUpCount(in) > GiveUpLimit)
  BY <1>1, StateMachineType DEF IInv
<1>5. /\ GiveUpCount(in) \in 0..(GiveUpLimit + 1)
      /\ GiveUpCount(in) <= normal.giveUp + 1
      /\ in.speed = "stuck" /\ normal.wind # "kCalmWind" =>
           GiveUpCount(in) = normal.giveUp + 1 \/ GiveUpCount(in) = GiveUpLimit + 1
      /\ in.speed # "stuck" => GiveUpCount(in) = 0
  BY <1>1, GiveUpCountType DEF IInv
<1> HIDE DEF wind, next
<1> USE StepsAssumption
<1>6. normal' \in [giveUp: 0..(GiveUpLimit + 1), wind: Ranges]
      /\ (next = "normal" => normal'.wind = WindStrength(normal.wind, in.wind))
      /\ (next = "normal" /\ controller # "normal" => normal'.giveUp = 0)
      /\ (next = "normal" /\ controller = "normal" => normal'.giveUp = GiveUpCount(in))
  <2>1. WindStrength(normal.wind, in.wind) \in Ranges
    BY <1>1, WindStrengthRange DEF IInv, TypeOK
  <2> DEFINE count == CountAfter(in, next)
             range == RangeAfter(in, next)
  <2>2. normal' = [giveUp |-> count, wind |-> range]
    BY <1>2
  <2>3. count \in 0..(GiveUpLimit + 1)
        /\ (next = "normal" /\ controller # "normal" => count = 0)
        /\ (next = "normal" /\ controller = "normal" => count = GiveUpCount(in))
    BY <1>4, <1>5 DEF IInv, TypeOK, Sailing, CountAfter
  <2>4. range \in Ranges /\ (next = "normal" => range = WindStrength(normal.wind, in.wind))
    BY <2>1 DEF IInv, TypeOK, RangeAfter
  <2> HIDE DEF count, range
  <2> QED
    BY <2>2, <2>3, <2>4
<1>7. initial' \in InitialType
      /\ (next = "initial" /\ initial'.phase = "KOGGE" =>
            controller = "initial" /\
              \/ initial.phase = "TURTLE" /\ initial'.count = 1
              \/ initial.phase = "KOGGE" /\ initial'.count <= initial.count + 1)
      /\ (next = "initial" /\ controller # "initial" => initial'.phase # "KOGGE")
  <2>1. initial \in InitialType /\ EnterInitial \in InitialType /\ EnterInitial.phase = "SLEEP"
    BY DEF IInv, TypeOK, InitialType, EnterInitial, MaxCount
  <2>2. CASE next # "initial"
    BY <1>2, <2>1, <2>2 DEF InitialAfter
  <2>3. CASE next = "initial" /\ controller = "initial"
    BY <1>1, <1>2, <2>1, <2>3, RunInitialType DEF InitialAfter
  <2>4. CASE next = "initial" /\ controller # "initial"
    BY <1>1, <1>2, <2>1, <2>4, RunInitialType DEF InitialAfter
  <2> QED
    BY <2>2, <2>3, <2>4
<1>8. /\ homed' = ~Unhomed(in)
      /\ stuck' \in 0..(GiveUpLimit + 1) /\ struggling' \in Nat /\ starting' \in 0..MaxStarting
      /\ controller = "normal" /\ in.speed = "stuck" =>
           stuck' = stuck + 1 \/ stuck' = GiveUpLimit + 1
      /\ struggling' > 0 => /\ next = "normal" /\ in.speed = "stuck" /\ in.wind >= 3
                            /\ struggling' = struggling + 1
      /\ next = "initial" => starting' >= 1
      /\ next = "initial" /\ controller = "initial" =>
           starting' = starting + 1 \/ starting' = MaxStarting
  BY <1>2 DEF Record, Capped, IInv, TypeOK, MaxStarting
<1>9. TypeOK'
  BY <1>2, <1>3, <1>4, <1>6, <1>7, <1>8 DEF IInv, TypeOK, Unhomed, InputType
<1>10. Patience'
  <2>1. CASE next # "normal"
    BY <1>2, <1>8, <2>1 DEF Patience
  <2>2. CASE next = "normal" /\ controller # "normal"
    <3>1. struggling = 0
      BY <2>2 DEF IInv, Patience
    <3>2. struggling' > 0 => normal'.wind # "kCalmWind"
      BY <1>1, <1>6, <1>8, <2>2, WindStrengthRange DEF IInv, TypeOK
    <3> QED
      BY <1>2, <1>6, <1>8, <2>2, <3>1, <3>2 DEF Patience
  <2>3. CASE next = "normal" /\ controller = "normal"
    <3>1. /\ normal.giveUp <= stuck /\ normal.giveUp <= GiveUpLimit
          /\ struggling <= normal.giveUp + 1
          /\ struggling > 0 => normal.wind # "kCalmWind"
      BY <2>3 DEF IInv, Patience
    <3>2. GiveUpCount(in) <= GiveUpLimit /\ normal'.giveUp = GiveUpCount(in)
      BY <1>4, <1>6, <2>3
    <3>3. struggling' > 0 => normal'.wind # "kCalmWind"
      BY <1>1, <1>6, <1>8, <2>3, WindStrengthRange DEF IInv, TypeOK
    <3>4. normal'.giveUp <= stuck'
      BY <1>1, <1>5, <1>8, <2>3, <3>1, <3>2 DEF IInv, TypeOK
    <3>5. struggling' <= normal'.giveUp + 1
      BY <1>1, <1>5, <1>8, <2>3, <3>1, <3>2 DEF IInv, TypeOK
    <3> QED
      BY <1>2, <2>3, <3>2, <3>3, <3>4, <3>5 DEF Patience
  <2> QED
    BY <2>1, <2>2, <2>3
<1>11. Account'
  <2>1. SUFFICES ASSUME next = "initial"
                 PROVE  /\ starting' >= 1
                        /\ initial'.phase = "KOGGE" =>
                             starting' > initial'.count \/ starting' = MaxStarting
    BY <1>2, <1>8 DEF Account
  <2>2. CASE initial'.phase = "KOGGE"
    <3>1. controller = "initial" /\ starting \in Nat /\ MaxStarting \in Nat
          /\ (starting' = starting + 1 \/ starting' = MaxStarting)
      BY <1>7, <1>8, <2>1, <2>2 DEF IInv, TypeOK, MaxStarting
    <3>2. CASE initial.phase = "TURTLE" /\ initial'.count = 1
      BY <1>8, <2>1, <3>1, <3>2 DEF IInv, Account
    <3>3. CASE initial.phase = "KOGGE" /\ initial'.count <= initial.count + 1
      <4>1. initial.count \in Nat /\ initial'.count \in Nat
        BY <1>7 DEF IInv, TypeOK, InitialType, MaxCount
      <4>2. starting > initial.count \/ starting = MaxStarting
        BY <3>1, <3>3 DEF IInv, Account
      <4>3. starting' \in 0..MaxStarting
        BY <1>8
      <4> QED
        BY <1>8, <2>1, <3>1, <3>3, <4>1, <4>2, <4>3
    <3> QED
      BY <1>7, <2>1, <2>2, <3>2, <3>3
  <2> QED
    BY <1>8, <2>1, <2>2
<1>12. ASSUME controller = "normal", controller' = "initial"
       PROVE  ~homed' \/ stuck' > GiveUpLimit
  <2>1. Unhomed(in) \/ GiveUpCount(in) > GiveUpLimit
    BY <1>2, <1>4, <1>12
  <2>2. CASE Unhomed(in)
    BY <1>8, <2>2
  <2>3. CASE GiveUpCount(in) > GiveUpLimit
    <3>1. in.speed = "stuck"
      BY <1>5, <2>3
    <3>2. normal.giveUp <= stuck /\ normal.giveUp \in Nat /\ stuck \in Nat
      BY <1>12 DEF IInv, Patience, TypeOK
    <3> QED
      BY <1>5, <1>8, <1>12, <2>3, <3>1, <3>2
  <2> QED
    BY <2>1, <2>2, <2>3
<1>13. ASSUME controller = "initial", controller' = "normal"
       PROVE  starting >= KoggeFast + 2
  <2>1. initial.phase = "KOGGE" /\ initial.count > initial.kogge
    BY <1>2, <1>4, <1>13 DEF Done
  <2>2. initial.count \in Nat /\ initial.kogge \in {KoggeFast, KoggeSlow} /\ starting \in Nat
    BY DEF IInv, TypeOK, InitialType, MaxCount, MaxStarting
  <2>3. starting > initial.count \/ starting = KoggeFast + 2
    BY <1>13, <2>1 DEF IInv, Account, MaxStarting
  <2> QED
    BY <2>1, <2>2, <2>3
<1> QED
  BY <1>9, <1>10, <1>11, <1>12, <1>13 DEF IInv

\* The invariant holds initially.
LEMMA InitIInv == Init => IInv
<1> SUFFICES ASSUME Init PROVE IInv
  OBVIOUS
<1>1. MaxCount \in Nat /\ MaxStarting \in Nat
  BY StepsAssumption DEF MaxCount, MaxStarting
<1>2. initial \in InitialType
  BY <1>1 DEF Init, InitialType
<1>3. normal \in [giveUp: 0..(GiveUpLimit + 1), wind: Ranges]
  BY StepsAssumption DEF Init, Ranges
<1>4. /\ meta_state = "kNormal" /\ controller = "initial" /\ apparent \in Ranges
      /\ settled \in BOOLEAN /\ homed \in BOOLEAN
  BY DEF Init, Ranges
<1>5. stuck \in 0..(GiveUpLimit + 1) /\ struggling \in Nat /\ starting \in 0..MaxStarting
  BY <1>1, StepsAssumption DEF Init
<1>6. TypeOK
  BY <1>2, <1>3, <1>4, <1>5 DEF TypeOK
<1> QED
  BY <1>6 DEF Init, IInv, Patience, Account

\* Commands and the settling of the environment keep it: they leave alone what
\* it speaks of, except the meta state.
LEMMA OtherSteps ==
  ASSUME IInv,
         (\E m \in {"kBraking", "kDocking", "kNormal", "kIdle"} : Command(m))
           \/ Settle \/ UNCHANGED vars
  PROVE  IInv' /\ controller' = controller
BY DEF IInv, TypeOK, Patience, Account, Command, Settle, vars, control, history, Done

LEMMA NextIInv == IInv /\ [Next]_vars => IInv'
BY RunStep, OtherSteps DEF Next, ControlStep

\* ShipControl has the declared types.
THEOREM TypeCorrect == Spec => []TypeOK
<1>1. IInv => TypeOK
  BY DEF IInv
<1> QED
  BY <1>1, InitIInv, NextIInv, PTL DEF Spec

\* A boat stuck in clear wind is never left to the normal controller for more
\* than GiveUpLimit + 1 steps, for every length of the waiting times.
THEOREM NoticesStuck == Spec => []StuckIsNoticed
<1>1. IInv => StuckIsNoticed
  BY StepsAssumption DEF IInv, Patience, TypeOK, StuckIsNoticed
<1> QED
  BY <1>1, InitIInv, NextIInv, PTL DEF Spec

\* The normal controller never gives up before its time.
THEOREM Patient == Spec => PatientInNormal
<1>1. IInv /\ [Next]_vars =>
        [controller = "normal" /\ controller' = "initial" => ~homed' \/ stuck' > GiveUpLimit]_vars
  BY RunStep, OtherSteps DEF Next, ControlStep
<1> QED
  BY <1>1, InitIInv, NextIInv, PTL DEF Spec, PatientInNormal

\* The initial controller always runs through all its phases.
THEOREM StartsSlowly == Spec => InitialTakesItsTime
<1>1. IInv /\ [Next]_vars =>
        [controller = "initial" /\ controller' = "normal" => starting >= KoggeFast + 2]_vars
  BY RunStep, OtherSteps DEF Next, ControlStep
<1> QED
  BY <1>1, InitIInv, NextIInv, PTL DEF Spec, InitialTakesItsTime

-----------------------------------------------------------------------------
\* The state machine implements the abstract one of HelmStates: what it asks
\* for before it sails is the flag ready.
LEMMA StepImplements ==
  ASSUME TypeOK, NEW in \in Inputs, Run(in)
  PROVE  \E ready \in BOOLEAN : States!Step(ready)
<1> DEFINE wind == WindStrength(apparent, in.wind)
           next == StateMachine(in, wind)
<1>1. controller' = next /\ UNCHANGED meta_state
  BY DEF Run
<1>2. in \in InputType
  BY InputsAssumption
<1>3. next = States!NextController(meta_state, next = "normal")
  BY <1>2, StateMachineType
     DEF TypeOK, StateMachine, NormalState, States!NextController
<1> HIDE DEF next
<1>4. States!Step(next = "normal")
  BY <1>1, <1>3 DEF States!Step
<1> QED
  BY <1>4

\* The main loop may rely on HelmStates.
THEOREM ImplementsStates == Spec => ImplementsHelmStates
<1>1. Init => States!StatesInit
  BY DEF Init, States!StatesInit
<1>2. TypeOK /\ [Next]_vars => [States!StatesNext]_<<meta_state, controller>>
  <2> SUFFICES ASSUME TypeOK, [Next]_vars
               PROVE  [States!StatesNext]_<<meta_state, controller>>
    OBVIOUS
  <2>1. ASSUME NEW m \in {"kBraking", "kDocking", "kNormal", "kIdle"}, Command(m)
        PROVE  States!StatesNext
    BY <2>1 DEF Command, States!StatesNext, States!Command, States!MetaStates
  <2>2. CASE ControlStep
    BY <2>2, StepImplements DEF ControlStep, States!StatesNext
  <2>3. CASE Settle
    BY <2>3 DEF Settle, control
  <2>4. CASE UNCHANGED vars
    BY <2>4 DEF vars, control
  <2> QED
    BY <2>1, <2>2, <2>3, <2>4 DEF Next
<1> QED
  BY <1>1, <1>2, TypeCorrect, PTL DEF Spec, ImplementsHelmStates, States!StatesSpec

-----------------------------------------------------------------------------
(* What the ship control is told of the wind (FilterBlock).                *)

\* As long as the speed is a number whenever it is filtered, so are the filters; the wind is
\* called valid only in a step that measured it, and what is left of a NaN ends the helmsman.
BlockInv ==
  /\ ~speedless => up /\ ~speed.nan /\ ~true.nan /\ fil.mag_boat # "nan"
  /\ fil.valid => valid_app_wind
  /\ up /\ valid_app_wind => fil.alpha_true = "number" /\ fil.sail

\* With a speed from the IMU or none, no NaN gets into the speed filter.
LEMMA SpeedFiltered ==
  ASSUME ~speed.nan, NEW in \in Block!Measurements, ~(Block!ImuFault(in) /\ ~Block!GpsFault(in)),
         speed' = Block!SpeedFilter(in)
  PROVE  ~speed'.nan /\ Block!BoatSpeed(in) # "nan"
<1>2. CASE Block!SpeedAssumed(in)
  BY <1>2 DEF Block!SpeedFilter, Block!BoatSpeed
<1>3. CASE ~Block!SpeedAssumed(in)
  <2>1. Block!SpeedIsNumber(in)
    BY <1>3 DEF Block!SpeedAssumed, Block!SpeedIsNumber
  <2>2. ~speed'.nan
    BY <1>3, <2>1 DEF Block!SpeedFilter, Block!Fed
  <2> QED
    BY <1>3, <2>2 DEF Block!BoatSpeed
<1> QED
  BY <1>2, <1>3

LEMMA FilterStep ==
  ASSUME BlockInv, up, NEW in \in Block!Measurements, Block!Filter(in)
  PROVE  BlockInv'
<1>1. /\ speed' = Block!SpeedFilter(in) /\ Block!Wind(in)
      /\ ~speedless' => ~speedless /\ ~(Block!ImuFault(in) /\ ~Block!GpsFault(in))
      /\ fil'.mag_boat = Block!BoatSpeed(in) /\ fil'.sail = in.sail
      /\ fil'.valid => valid_app_wind'
      /\ fil'.alpha_true = IF ~Block!WindMeasured(in) THEN "unknown" ELSE IF true'.nan THEN "nan" ELSE "number"
  BY DEF Block!Filter
<1>2. ~speedless' => ~speed'.nan /\ Block!BoatSpeed(in) # "nan"
  BY <1>1, SpeedFiltered DEF BlockInv
<1>3. CASE Block!WindMeasured(in)
  <2>1. true' = Block!Fed(true, TrueLen, Block!BoatSpeed(in) # "nan") /\ up' = ~true'.nan
    BY <1>1, <1>3 DEF Block!Wind
  <2>2. ~speedless' => ~true'.nan
    BY <1>1, <1>2, <2>1 DEF BlockInv, Block!Fed
  <2> QED
    BY <1>1, <1>2, <1>3, <2>1, <2>2 DEF BlockInv, Block!WindMeasured
<1>4. CASE ~Block!WindMeasured(in)
  <2>1. valid_app_wind' = FALSE /\ UNCHANGED <<true, up>>
    BY <1>1, <1>4 DEF Block!Wind
  <2> QED
    BY <1>1, <1>2, <2>1 DEF BlockInv
<1> QED
  BY <1>3, <1>4

\* Whatever sensors come and go, the wind that a running helmsman calls valid is known, for
\* filters of any length; and it goes on running, with a speed that is a number, as long as
\* the IMU has not been without a speed while the GPS had a position.
THEOREM ValidWind == MCSpec => []ValidWindIsKnown
<1>0. Block!Init => BlockInv
  BY DEF Block!Init, Block!Empty, Block!Unfiltered, BlockInv
<1>1. MCInit => BlockInv
  BY <1>0 DEF MCInit
<1>2. BlockInv /\ [ShipMoves \/ BlockMoves \/ LibraryMoves]_<<subject, vars, blockVars, filterVars>> => BlockInv'
  <2> SUFFICES ASSUME BlockInv, [ShipMoves \/ BlockMoves \/ LibraryMoves]_<<subject, vars, blockVars, filterVars>>
               PROVE  BlockInv'
    OBVIOUS
  <2>1. CASE Block!Next
    <3>1. CASE Block!Restart
      BY <3>1 DEF Block!Restart, Block!Empty, Block!Unfiltered, BlockInv
    <3> QED
      BY <2>1, <3>1, FilterStep DEF Block!Next
  <2>2. CASE UNCHANGED blockVars
    BY <2>2 DEF blockVars, BlockInv
  <2> QED
    BY <2>1, <2>2 DEF ShipMoves, BlockMoves, LibraryMoves
<1>3. BlockInv => ValidWindIsKnown
  BY DEF BlockInv, ValidWindIsKnown, Block!ValidWindIsKnown, Block!ValidTrueWind
<1> QED
  BY <1>1, <1>2, <1>3, PTL DEF MCSpec

-----------------------------------------------------------------------------
(* Totals.                                                                  *)

\* g are the partial sums of s.
PartialSums(g, s) ==
  /\ g \in [0 .. Len(s) -> Int] /\ g[0] = 0
  /\ \A k \in 1 .. Len(s) : g[k] = g[k - 1] + s[k]

LEMMA TotalOfSums ==
  ASSUME NEW s \in Seq(Int)
  PROVE  \E g : PartialSums(g, s) /\ Library!Total(s) = g[Len(s)]
<1> DEFINE n == Len(s)
           Body(g) == [k \in 0 .. n |-> IF k = 0 THEN 0 ELSE g[k - 1] + s[k]]
           Step == [k \in 1 .. n |-> [x \in Int |-> x + s[k]]]
           upTo == CHOOSE g : g = Body(g)
<1>1. n \in Nat /\ \A k \in 1 .. n : s[k] \in Int
  OBVIOUS
<1>2. Library!Total(s) = upTo[n]
  BY DEF Library!Total
<1>3. Steps(n, Int, 0, Step)
  BY <1>1 DEF Steps
<1>4. PICK g : Taken(g, n, Int, 0, Step)
  <2> HIDE DEF n, Step
  <2> QED
    BY <1>3, StepByStep
<1>5. g = Body(g)
  <2>1. ASSUME NEW k \in 0 .. n
        PROVE  g[k] = IF k = 0 THEN 0 ELSE g[k - 1] + s[k]
    <3>1. CASE k = 0
      BY <1>4, <3>1 DEF Taken
    <3>2. CASE k # 0
      <4>1. k \in 1 .. n /\ k - 1 \in 0 .. n
        BY <1>1, <3>2
      <4>2. g[k] = Step[k][g[k - 1]] /\ g[k - 1] \in Int
        BY <1>4, <3>2, <4>1 DEF Taken
      <4> QED
        BY <3>2, <4>1, <4>2
    <3> QED
      BY <3>1, <3>2
  <2> QED
    BY <1>4, <2>1 DEF Taken
<1>6. upTo = Body(upTo)
  <2> HIDE DEF Body
  <2> QED
    BY <1>5
<1> HIDE DEF upTo
<1>7. \A k \in 0 .. n : upTo[k] = IF k = 0 THEN 0 ELSE upTo[k - 1] + s[k]
  BY <1>6
<1>8. upTo[0] = 0 /\ \A k \in 1 .. n : upTo[k] = upTo[k - 1] + s[k]
  BY <1>1, <1>7
<1> DEFINE Good == {k \in 0 .. n : upTo[k] \in Int}
<1>9. \A k \in 0 .. n : k \in Good
  <2>1. 0 \in Good
    BY <1>1, <1>8
  <2>2. ASSUME NEW k \in 0 .. (n - 1), k \in Good  PROVE k + 1 \in Good
    <3>1. k + 1 \in 1 .. n /\ (k + 1) - 1 = k /\ upTo[k] \in Int
      BY <1>1, <2>2
    <3> QED
      BY <1>1, <1>8, <3>1
  <2> HIDE DEF Good, n
  <2> QED
    BY <1>1, <2>1, <2>2, CountUp
<1>10. upTo \in [0 .. n -> Int]
  BY <1>6, <1>9
<1> QED
  BY <1>2, <1>8, <1>10 DEF PartialSums

LEMMA SumsAreTotal ==
  ASSUME NEW s \in Seq(Int), NEW h, PartialSums(h, s)
  PROVE  Library!Total(s) = h[Len(s)]
<1> DEFINE n == Len(s)
<1>1. n \in Nat
  OBVIOUS
<1>2. PICK g : PartialSums(g, s) /\ Library!Total(s) = g[n]
  BY TotalOfSums
<1> DEFINE Same == {k \in 0 .. n : g[k] = h[k]}
<1>3. 0 \in Same
  BY <1>1, <1>2 DEF PartialSums
<1>4. ASSUME NEW k \in 0 .. (n - 1), k \in Same  PROVE k + 1 \in Same
  <2>1. k + 1 \in 1 .. n /\ (k + 1) - 1 = k
    BY <1>1
  <2> QED
    BY <1>2, <1>4, <2>1 DEF PartialSums
<1>5. \A k \in 0 .. n : k \in Same
  <2> HIDE DEF Same, n
  <2> QED
    BY <1>1, <1>3, <1>4, CountUp
<1> QED
  BY <1>1, <1>2, <1>5

\* The total of one value over and over.
LEMMA TotalOfSame ==
  ASSUME NEW n \in Nat, NEW c \in Int, NEW s \in Seq(Int), Len(s) = n, \A k \in 1 .. n : s[k] = c
  PROVE  Library!Total(s) = n * c
<1> DEFINE h == [k \in 0 .. n |-> k * c]
<1>1. ASSUME NEW k \in 1 .. n  PROVE k * c = (k - 1) * c + c
  OBVIOUS
<1>2. PartialSums(h, s)
  BY <1>1 DEF PartialSums
<1> QED
  BY <1>2, SumsAreTotal

\* A new last angle: the others move back by what the boat has turned, and those that are
\* too old are forgotten.
Follows(r, s, t, w) ==
  /\ r \in Seq(Int) /\ Len(r) = (IF Len(s) < w THEN Len(s) + 1 ELSE w)
  /\ r[1] = 0 /\ \A i \in 1 .. Len(r) - 1 : r[i + 1] = s[i] - t

LEMMA TotalFollows ==
  ASSUME NEW s \in Seq(Int), NEW t \in Int, NEW w \in Nat \ {0}, Len(s) <= w, NEW r, Follows(r, s, t, w)
  PROVE  Library!Total(r) = IF Len(s) < w THEN Library!Total(s) - Len(s) * t
                            ELSE (Library!Total(s) - s[w]) - (w - 1) * t
<1> DEFINE n == Len(s)
           m == Len(r) - 1
<1>1. /\ n \in Nat /\ Len(s) = n /\ m \in Nat /\ Len(r) = m + 1 /\ m <= n /\ r \in Seq(Int)
      /\ n < w => m = n
      /\ ~(n < w) => n = w /\ m = w - 1
      /\ \A i \in 1 .. n : s[i] \in Int
  BY DEF Follows
<1> HIDE DEF n, m
<1>2. PICK g : PartialSums(g, s) /\ Library!Total(s) = g[n]
  BY <1>1, TotalOfSums
<1> DEFINE h == [k \in 0 .. m + 1 |-> IF k = 0 THEN 0 ELSE g[k - 1] - (k - 1) * t]
<1>3. \A k \in 0 .. m : g[k] \in Int
  BY <1>1, <1>2 DEF PartialSums
<1>4. h \in [0 .. m + 1 -> Int] /\ h[0] = 0
  BY <1>1, <1>3
<1>5. ASSUME NEW k \in 1 .. m + 1  PROVE h[k] = h[k - 1] + r[k]
  <2>1. CASE k = 1
    <3>1. h[1] = g[0] - 0 * t /\ h[0] = 0 /\ r[1] = 0 /\ g[0] = 0
      BY <1>1, <1>2 DEF Follows, PartialSums
    <3> QED
      BY <2>1, <3>1
  <2>2. CASE k # 1
    <3>1. PICK j \in 1 .. m : k = j + 1
      BY <1>1, <2>2
    <3>2. r[k] = s[j] - t /\ s[j] \in Int
      BY <1>1, <3>1 DEF Follows
    <3>3. h[k] = g[j] - j * t /\ h[k - 1] = g[j - 1] - (j - 1) * t
      <4>1. j + 1 \in 0 .. m + 1 /\ j + 1 # 0 /\ (j + 1) - 1 = j /\ j \in 0 .. m + 1 /\ j # 0
        BY <1>1, <3>1
      <4>2. h[j + 1] = g[(j + 1) - 1] - ((j + 1) - 1) * t /\ h[j] = g[j - 1] - (j - 1) * t
        BY <4>1
      <4> QED
        BY <3>1, <4>1, <4>2
    <3>4. g[j] = g[j - 1] + s[j] /\ g[j - 1] \in Int
      BY <1>1, <1>2, <1>3, <3>1 DEF PartialSums
    <3>5. j * t = (j - 1) * t + t /\ j * t \in Int /\ (j - 1) * t \in Int
      BY <3>1
    <3> HIDE DEF h
    <3> QED
      BY <3>2, <3>3, <3>4, <3>5
  <2> QED
    BY <2>1, <2>2
<1>6. PartialSums(h, r)
  <2> HIDE DEF h
  <2> QED
    BY <1>1, <1>4, <1>5 DEF PartialSums
<1>7. Library!Total(r) = h[m + 1]
  <2> HIDE DEF h
  <2> QED
    BY <1>1, <1>6, SumsAreTotal
<1>8. h[m + 1] = g[m] - m * t
  BY <1>1
<1>9. CASE n < w
  BY <1>1, <1>2, <1>7, <1>8, <1>9
<1>10. CASE ~(n < w)
  <2>1. g[w] = g[w - 1] + s[w] /\ g[w - 1] \in Int /\ s[w] \in Int
    BY <1>1, <1>2, <1>3, <1>10 DEF PartialSums
  <2>2. (w - 1) * t \in Int
    OBVIOUS
  <2>3. Library!Total(r) = g[w - 1] - (w - 1) * t /\ Library!Total(s) = g[w]
    BY <1>1, <1>2, <1>7, <1>8, <1>10
  <2> QED
    BY <1>1, <1>10, <2>1, <2>2, <2>3
<1> QED
  BY <1>9, <1>10

-----------------------------------------------------------------------------
(* The ring of the last angles.                                             *)

LEMMA RingPlaces ==
  ASSUME NEW w \in Nat \ {0}, NEW index \in 0 .. w - 1
  PROVE  /\ (index + 1) % w = (IF index = w - 1 THEN 0 ELSE index + 1)
         /\ (((index + 1) % w) - 1) % w = index /\ (index - w) % w = index
         /\ \A i \in 1 .. w - 1 : /\ (((index + 1) % w) - (i + 1)) % w = (index - i) % w
                                  /\ (index - i) % w \in 0 .. w - 1 /\ (index - i) % w # index
<1>1. index % w = index
  BY ModSmall
<1>2. (index + 1) % w = (IF index = w - 1 THEN 0 ELSE index + 1)
  <2>1. index \in Int
    OBVIOUS
  <2>2. (index + 1) % w = (IF index % w = w - 1 THEN 0 ELSE (index % w) + 1)
    BY ONLY <2>1, w \in Nat \ {0}, ModNext
  <2> QED
    BY <1>1, <2>2
<1>3. (index - w) % w = index
  BY <1>1, ModAround
<1>4. (((index + 1) % w) - 1) % w = index
  <2>1. CASE index = w - 1
    <3>1. ((index + 1) % w) - 1 = index - w
      BY <1>2, <2>1
    <3> QED
      BY <1>3, <3>1
  <2>2. CASE index # w - 1
    <3>1. ((index + 1) % w) - 1 = index
      BY <1>2, <2>2
    <3> QED
      BY <1>1, <3>1
  <2> QED
    BY <2>1, <2>2
<1>5. ASSUME NEW i \in 1 .. w - 1
      PROVE  /\ (((index + 1) % w) - (i + 1)) % w = (index - i) % w
             /\ (index - i) % w \in 0 .. w - 1 /\ (index - i) % w # index
  <2>1. PICK x \in Int : x = index - i
    OBVIOUS
  <2>2. x % w \in 0 .. w - 1
    BY DivMod
  <2>3. x % w # index % w
    <3>1. x < index /\ index < x + w /\ index \in Int
      BY <2>1
    <3> QED
      BY <3>1, ModApart
  <2>4. (((index + 1) % w) - (i + 1)) % w = x % w
    <3>1. CASE index = w - 1
      <4>1. ((index + 1) % w) - (i + 1) = x - w
        BY <1>2, <2>1, <3>1
      <4> QED
        BY <4>1, ModAround
    <3>2. CASE index # w - 1
      <4>1. ((index + 1) % w) - (i + 1) = x
        BY <1>2, <2>1, <3>2
      <4> QED
        BY <4>1
    <3> QED
      BY <3>1, <3>2
  <2> QED
    BY <1>1, <2>1, <2>2, <2>3, <2>4
<1> QED
  BY <1>2, <1>3, <1>4, <1>5

FiltersOf(w) == [z : [0 .. w - 1 -> Int], index : 0 .. w - 1, valid : BOOLEAN, sum : Int, count : Nat]

\* A filter is filled in order; until it is valid its other places all hold the same.
Filled(f, s, w) ==
  /\ f.valid => Len(s) = w
  /\ ~f.valid => /\ f.index = Len(s) /\ Len(s) < w
                 /\ \A j \in Len(s) .. w - 1 : f.z[j] = f.z[w - 1]

\* The i-th last angle is where it was put, as far from the last one as the boat has turned;
\* and the sum is that of all places.
Tells(f, s, c, w) ==
  /\ \A i \in 1 .. Len(s) : f.z[(f.index - i) % w] = c + s[i]
  /\ f.sum = (Len(s) * c + Library!Total(s)) + (w - Len(s)) * f.z[w - 1]

LEMMA SameCardinality ==
  ASSUME NEW S
  PROVE  Library!Cardinality(S) = Cardinality(S)
BY DEF Library!Cardinality, Cardinality

LEMMA SizeIsWindow ==
  ASSUME NEW w \in Nat \ {0}, NEW f \in FiltersOf(w)
  PROVE  Library!Size(f) = w
<1>1. DOMAIN f.z = 0 .. w - 1
  BY DEF FiltersOf
<1>2. Cardinality(0 .. w - 1) = w
  BY FS_Interval
<1>3. Library!Cardinality(0 .. w - 1) = w
  BY <1>2, SameCardinality
<1> QED
  BY <1>1, <1>3 DEF Library!Size

LEMMA TotalInt ==
  ASSUME NEW s \in Seq(Int)
  PROVE  Library!Total(s) \in Int
BY TotalOfSums DEF PartialSums

\* A shift moves what the filter tells.
LEMMA ShiftTells ==
  ASSUME NEW w \in Nat \ {0}, NEW f \in FiltersOf(w), NEW s \in Seq(Int), Len(s) <= w,
         NEW c \in Int, NEW by \in Int, Filled(f, s, w), NEW g, g = Library!Shift(f, by)
  PROVE  /\ g \in FiltersOf(w) /\ Filled(g, s, w)
         /\ g.valid = f.valid /\ g.count = f.count /\ g.index = f.index
         /\ g.z[w - 1] = f.z[w - 1] + by
         /\ Tells(f, s, c, w) => Tells(g, s, c + by, w)
<1> DEFINE n == Len(s)
<1>1. /\ f.z \in [0 .. w - 1 -> Int] /\ f.index \in 0 .. w - 1 /\ f.valid \in BOOLEAN
      /\ f.sum \in Int /\ f.count \in Nat /\ w - 1 \in 0 .. w - 1 /\ n \in 0 .. w
  BY DEF FiltersOf
<1>2. /\ g.z = [j \in 0 .. w - 1 |-> f.z[j] + by] /\ g.sum = f.sum + w * by
      /\ g.valid = f.valid /\ g.count = f.count /\ g.index = f.index
      /\ g = [f EXCEPT !.z = [j \in 0 .. w - 1 |-> f.z[j] + by], !.sum = f.sum + w * by]
  BY <1>1, SizeIsWindow DEF Library!Shift, FiltersOf
<1>3. w * by \in Int
  OBVIOUS
<1>4. g \in FiltersOf(w)
  <2>1. [j \in 0 .. w - 1 |-> f.z[j] + by] \in [0 .. w - 1 -> Int] /\ f.sum + w * by \in Int
    BY <1>1, <1>3
  <2> QED
    BY <1>2, <2>1 DEF FiltersOf
<1>5. Filled(g, s, w)
  <2>1. CASE f.valid
    BY <1>2, <2>1 DEF Filled
  <2>2. CASE ~f.valid
    <3>1. f.index = n /\ n < w /\ \A j \in n .. w - 1 : f.z[j] = f.z[w - 1]
      BY <2>2 DEF Filled
    <3>2. \A j \in n .. w - 1 : g.z[j] = f.z[j] + by
      BY <1>1, <1>2
    <3>3. \A j \in n .. w - 1 : g.z[j] = g.z[w - 1]
      <4>1. w - 1 \in n .. w - 1
        BY <1>1, <3>1
      <4> QED
        BY <3>1, <3>2, <4>1
    <3> QED
      BY <1>2, <2>2, <3>1, <3>3 DEF Filled
  <2> QED
    BY <2>1, <2>2
<1>6. g.z[w - 1] = f.z[w - 1] + by
  BY <1>1, <1>2
<1>7. ASSUME Tells(f, s, c, w)  PROVE Tells(g, s, c + by, w)
  <2>1. ASSUME NEW i \in 1 .. n  PROVE g.z[(g.index - i) % w] = (c + by) + s[i]
    <3>1. PICK j : j = (f.index - i) % w
      OBVIOUS
    <3>2. j \in 0 .. w - 1 /\ s[i] \in Int
      <4>1. PICK y \in Int : y = f.index - i
        BY <1>1
      <4>2. y % w \in 0 .. w - 1
        BY DivMod
      <4> QED
        BY <3>1, <4>1, <4>2
    <3>3. f.z[j] = c + s[i]
      BY <1>7, <3>1 DEF Tells
    <3>4. g.z[j] = f.z[j] + by
      BY <1>2, <3>2
    <3> QED
      BY <1>2, <3>1, <3>2, <3>3, <3>4
  <2>2. g.sum = (n * (c + by) + Library!Total(s)) + (w - n) * g.z[w - 1]
    <3>1. PICK u \in Int : u = f.z[w - 1]
      BY <1>1
    <3>2. f.sum = (n * c + Library!Total(s)) + (w - n) * u
      BY <1>7, <3>1 DEF Tells
    <3>3. PICK T \in Int : T = Library!Total(s)
      BY TotalInt
    <3>4. PICK a \in Int, b \in Int, d \in Int, e \in Int :
            a = n * c /\ b = n * by /\ d = (w - n) * u /\ e = w * by
      BY <1>1, <3>1
    <3>5. n * (c + by) = a + b
      <4> HIDE DEF n
      <4> QED
        BY <1>1, <3>4
    <3>6. (w - n) * (u + by) = (d + e) - b
      <4> HIDE DEF n
      <4> QED
        BY <1>1, <3>4
    <3>7. g.sum = ((a + T) + d) + e
      BY <1>2, <3>2, <3>3, <3>4
    <3>8. (a + T) + d \in Int /\ ((a + T) + d) + e = ((a + b) + T) + ((d + e) - b)
      OBVIOUS
    <3>9. g.z[w - 1] = u + by
      BY <1>6, <3>1
    <3> QED
      BY <3>3, <3>5, <3>6, <3>7, <3>8, <3>9
  <2> QED
    BY <2>1, <2>2 DEF Tells
<1> QED
  BY <1>2, <1>4, <1>5, <1>6, <1>7

\* A filter that takes the next angle tells the last ones, that one first.
LEMMA TakeTells ==
  ASSUME NEW w \in Nat \ {0}, NEW f \in FiltersOf(w), NEW s \in Seq(Int), Len(s) <= w,
         NEW c \in Int, NEW t \in Int, Filled(f, s, w), NEW r, Follows(r, s, t, w)
  PROVE  LET g == Library!Take(f, c + t) IN
         /\ g \in FiltersOf(w) /\ Filled(g, r, w)
         /\ g.valid = (f.valid \/ f.index + 1 = w) /\ g.count = f.count
         /\ ~g.valid => g.z[w - 1] = f.z[w - 1]
         /\ Tells(f, s, c, w) => Tells(g, r, c + t, w)
<1> DEFINE g == Library!Take(f, c + t)
           n == Len(s)
           x == c + t
<1>1. /\ f.z \in [0 .. w - 1 -> Int] /\ f.index \in 0 .. w - 1 /\ f.valid \in BOOLEAN
      /\ f.sum \in Int /\ f.count \in Nat /\ w - 1 \in 0 .. w - 1 /\ n \in 0 .. w /\ x \in Int
  BY DEF FiltersOf
<1>2. /\ g.z = [f.z EXCEPT ![f.index] = x] /\ g.sum = f.sum + x - f.z[f.index]
      /\ g.index = (f.index + 1) % w
      /\ g.valid = (f.valid \/ f.index + 1 = w) /\ g.count = f.count
      /\ g = [f EXCEPT !.z = [f.z EXCEPT ![f.index] = x], !.sum = f.sum + x - f.z[f.index],
                       !.index = (f.index + 1) % w, !.valid = (f.valid \/ f.index + 1 = w)]
  <2> DEFINE e == [f EXCEPT !.z[f.index] = x, !.sum = f.sum + x - f.z[f.index]]
  <2>1. /\ e \in FiltersOf(w) /\ e.z = [f.z EXCEPT ![f.index] = x] /\ e.sum = f.sum + x - f.z[f.index]
        /\ e.index = f.index /\ e.valid = f.valid /\ e.count = f.count
        /\ e = [f EXCEPT !.z = [f.z EXCEPT ![f.index] = x], !.sum = f.sum + x - f.z[f.index]]
    BY <1>1 DEF FiltersOf
  <2>2. g = Library!NextIndex(e)
    BY DEF Library!Take
  <2> HIDE DEF e
  <2>3. Library!Size(e) = w
    BY <2>1, SizeIsWindow
  <2>4. g = [e EXCEPT !.index = (e.index + 1) % w, !.valid = e.valid \/ e.index + 1 = w]
    BY <2>2, <2>3 DEF Library!NextIndex
  <2> HIDE DEF g, x
  <2> QED
    BY <1>1, <2>1, <2>4 DEF FiltersOf
<1> HIDE DEF g, x
<1>3. /\ g.z = [f.z EXCEPT ![f.index] = x] /\ g.sum = f.sum + x - f.z[f.index]
      /\ g.index = (f.index + 1) % w
      /\ g.valid <=> f.valid \/ f.index + 1 = w
  BY ONLY <1>2
<1>4. g.index \in 0 .. w - 1 /\ g.index = (IF f.index = w - 1 THEN 0 ELSE f.index + 1)
  <2>1. (f.index + 1) % w = (IF f.index = w - 1 THEN 0 ELSE f.index + 1)
    BY <1>1, RingPlaces
  <2> QED
    BY <1>1, <1>3, <2>1
<1>5. g \in FiltersOf(w)
  <2>1. (f.valid \/ f.index + 1 = w) \in BOOLEAN
    OBVIOUS
  <2>2. /\ [f.z EXCEPT ![f.index] = x] \in [0 .. w - 1 -> Int]
        /\ f.sum + x - f.z[f.index] \in Int /\ (f.index + 1) % w \in 0 .. w - 1
    <3>1. (f.index + 1) % w \in 0 .. w - 1
      BY <1>3, <1>4
    <3>2. PICK y \in Int : y = f.z[f.index]
      BY <1>1
    <3>3. f.sum + (x - y) \in Int
      BY <1>1
    <3> QED
      BY <1>1, <3>1, <3>2, <3>3
  <2> QED
    BY <1>2, <2>1, <2>2 DEF FiltersOf
<1>6. g.z[f.index] = x /\ \A j \in 0 .. w - 1 : j # f.index => g.z[j] = f.z[j]
  BY <1>1, <1>3
<1>7. /\ r \in Seq(Int) /\ r[1] = 0 /\ Len(r) = (IF n < w THEN n + 1 ELSE w)
      /\ \A i \in 1 .. Len(r) - 1 : r[i + 1] = s[i] - t
  BY DEF Follows
<1>8. Filled(g, r, w)
  <2>1. CASE g.valid
    <3>1. f.valid \/ f.index + 1 = w
      BY <1>3, <2>1
    <3>2. n = w \/ n + 1 = w
      BY <1>1, <3>1 DEF Filled
    <3>3. Len(r) = w
      BY <1>1, <1>7, <3>2
    <3> QED
      BY <2>1, <3>3 DEF Filled
  <2>2. CASE ~g.valid
    <3>1. ~f.valid /\ f.index + 1 # w
      BY <1>3, <2>2
    <3>2. ~f.valid /\ f.index = n /\ n < w /\ n + 1 < w
      BY <1>1, <3>1 DEF Filled
    <3>3. g.index = n + 1 /\ Len(r) = n + 1
      BY <1>1, <1>4, <1>7, <3>2
    <3>4. \A j \in n + 1 .. w - 1 : g.z[j] = f.z[j] /\ f.z[j] = f.z[w - 1]
      <4>1. \A j \in n .. w - 1 : f.z[j] = f.z[w - 1]
        BY <3>2 DEF Filled
      <4> QED
        BY <1>1, <1>6, <3>2, <4>1
    <3>5. \A j \in n + 1 .. w - 1 : g.z[j] = g.z[w - 1]
      BY <1>1, <3>2, <3>4
    <3> QED
      BY <1>1, <2>2, <3>2, <3>3, <3>5 DEF Filled
  <2> QED
    BY <1>3, <2>1, <2>2
<1>9. ASSUME ~g.valid  PROVE g.z[w - 1] = f.z[w - 1]
  BY <1>1, <1>3, <1>6, <1>9
<1>10. ASSUME Tells(f, s, c, w)  PROVE Tells(g, r, x, w)
  <2>1. ASSUME NEW k \in 1 .. Len(r)  PROVE g.z[(g.index - k) % w] = x + r[k]
    <3>1. CASE k = 1
      <4>1. (((f.index + 1) % w) - 1) % w = f.index
        BY <1>1, RingPlaces
      <4>2. (g.index - 1) % w = f.index
        BY <1>3, <4>1
      <4>3. g.z[(g.index - 1) % w] = x
        BY <1>6, <4>2
      <4> QED
        BY <1>1, <1>7, <3>1, <4>3
    <3>2. CASE k # 1
      <4>1. PICK i \in 1 .. w - 1 : k = i + 1 /\ i \in 1 .. Len(r) - 1 /\ i \in 1 .. n
        <5>1. k - 1 \in 1 .. w - 1 /\ k = (k - 1) + 1 /\ k - 1 \in 1 .. Len(r) - 1 /\ k - 1 \in 1 .. n
          BY <1>1, <1>7, <3>2
        <5> QED
          BY <5>1
      <4>2. /\ (g.index - k) % w = (f.index - i) % w
            /\ (f.index - i) % w \in 0 .. w - 1 /\ (f.index - i) % w # f.index
        <5>1. /\ (((f.index + 1) % w) - (i + 1)) % w = (f.index - i) % w
              /\ (f.index - i) % w \in 0 .. w - 1 /\ (f.index - i) % w # f.index
          BY <1>1, RingPlaces
        <5> QED
          BY <1>3, <4>1, <5>1
      <4>3. f.z[(f.index - i) % w] = c + s[i]
        BY <1>10, <4>1 DEF Tells
      <4>4. r[k] = s[i] - t /\ s[i] \in Int /\ x = c + t
        BY <1>7, <4>1 DEF x
      <4>5. g.z[(f.index - i) % w] = c + s[i]
        BY <1>6, <4>2, <4>3
      <4>6. c + s[i] = (c + t) + (s[i] - t)
        BY <4>4
      <4> QED
        BY <4>2, <4>4, <4>5, <4>6
    <3> QED
      BY <3>1, <3>2
  <2>2. g.sum = (Len(r) * x + Library!Total(r)) + (w - Len(r)) * g.z[w - 1]
    <3>1. PICK u \in Int : u = f.z[w - 1]
      BY <1>1
    <3>2. PICK T \in Int : T = Library!Total(s)
      BY TotalInt
    <3>3. f.sum = (n * c + T) + (w - n) * u
      BY <1>10, <3>1, <3>2 DEF Tells
    <3>4. PICK a \in Int, b \in Int, d \in Int, e \in Int, h \in Int :
            a = n * c /\ b = n * t /\ d = (w - n) * u /\ e = w * c /\ h = w * t
      <4> HIDE DEF n
      <4>1. n \in Int /\ w - n \in Int /\ w \in Int
        BY <1>1
      <4>2. n * c \in Int /\ n * t \in Int /\ (w - n) * u \in Int /\ w * c \in Int /\ w * t \in Int
        BY ONLY <4>1, c \in Int, t \in Int, u \in Int
      <4> QED
        BY <4>2
    <3>5. x = c + t /\ x \in Int
      BY DEF x
    <3> DEFINE gz == g.z[w - 1]
    <3>6. gz \in Int
      BY <1>1, <1>5 DEF FiltersOf
    <3> HIDE DEF n, gz
    <3>7. CASE n < w
      <4>1. ~f.valid /\ f.index = n /\ f.z[n] = u
        BY <1>1, <3>1, <3>7 DEF Filled, n
      <4>2. Library!Total(r) = T - b /\ Len(r) = n + 1
        BY <1>7, <3>2, <3>4, <3>7, TotalFollows DEF n
      <4>3. (w - (n + 1)) * gz = d - u
        <5>1. CASE n + 1 = w
          <6>1. (w - (n + 1)) * gz = 0
            <7>1. w - (n + 1) = 0
              BY <1>1, <5>1
            <7> QED
              BY <3>6, <7>1
          <6>2. d = u
            <7>1. w - n = 1
              BY <1>1, <5>1
            <7> QED
              BY <3>1, <3>4, <7>1
          <6> QED
            BY <6>1, <6>2
        <5>2. CASE n + 1 # w
          <6>1. gz = u
            <7>1. f.index # w - 1
              BY <1>1, <4>1, <5>2
            <7> QED
              BY <1>1, <1>6, <3>1, <7>1 DEF gz
          <6>2. (w - (n + 1)) * u = (w - n) * u - u
            BY <1>1, <3>1
          <6> QED
            BY <3>4, <6>1, <6>2
        <5> QED
          BY <5>1, <5>2
      <4>4. (n + 1) * x = ((a + b) + c) + t
        <5>1. (n + 1) * (c + t) = ((n * c + n * t) + c) + t
          BY <1>1
        <5> QED
          BY <3>4, <3>5, <5>1
      <4>5. g.sum = (((a + T) + d) + (c + t)) - u
        BY <1>3, <3>3, <3>4, <3>5, <4>1 DEF n
      <4>6. (((a + T) + d) + (c + t)) - u = ((((a + b) + c) + t) + (T - b)) + (d - u)
        OBVIOUS
      <4> QED
        BY <4>2, <4>3, <4>4, <4>5, <4>6 DEF gz
    <3>8. CASE ~(n < w)
      <4>1. n = w /\ Len(r) = w
        BY <1>1, <1>7, <3>8 DEF n
      <4>2. Library!Total(r) = (T - s[w]) - (w - 1) * t /\ s[w] \in Int
        <5>1. s[w] \in Int
          BY <1>1, <4>1 DEF n
        <5> QED
          BY <3>2, <3>8, <5>1, TotalFollows DEF n
      <4>3. f.z[f.index] = c + s[w]
        <5>1. (f.index - w) % w = f.index
          BY <1>1, RingPlaces
        <5>2. w \in 1 .. n
          BY <4>1
        <5> QED
          BY <1>10, <5>1, <5>2 DEF Tells, n
      <4>4. w * x = e + h /\ (w - 1) * t = h - t
        <5>1. w * (c + t) = w * c + w * t /\ (w - 1) * t = w * t - t
          OBVIOUS
        <5> QED
          BY <3>4, <3>5, <5>1
      <4>5. f.sum = e + T
        <5>1. w - n = 0
          BY <4>1
        <5>2. (w - n) * u = 0
          BY <3>1, <5>1
        <5> QED
          BY <3>2, <3>3, <3>4, <4>1, <5>2
      <4>6. (w - Len(r)) * gz = 0
        <5>1. w - Len(r) = 0
          BY <4>1
        <5> QED
          BY <3>6, <5>1
      <4>7. g.sum = ((e + T) + (c + t)) - (c + s[w])
        <5>1. g.sum = f.sum + (x - f.z[f.index])
          BY ONLY <1>3
        <5>2. PICK y \in Int : y = s[w]
          BY <4>2
        <5>3. g.sum = (e + T) + ((c + t) - (c + y))
          BY <3>5, <4>3, <4>5, <5>1, <5>2
        <5>4. (e + T) + ((c + t) - (c + y)) = ((e + T) + (c + t)) - (c + y)
          OBVIOUS
        <5> QED
          BY <5>2, <5>3, <5>4
      <4>8. ((e + T) + (c + t)) - (c + s[w]) = ((e + h) + ((T - s[w]) - (h - t))) + 0
        BY <4>2
      <4> QED
        BY <4>1, <4>2, <4>4, <4>6, <4>7, <4>8 DEF gz
    <3> QED
      BY <3>7, <3>8
  <2> QED
    BY <2>1, <2>2 DEF Tells
<1> QED
  BY <1>2, <1>5, <1>8, <1>9, <1>10 DEF x, g

LEMMA NewTells ==
  ASSUME NEW k \in Library!Kinds, NEW c \in Int
  PROVE  LET f == Library!NewFilter(k)
             w == Library!Window(k)
         IN  /\ w \in Nat \ {0} /\ f \in FiltersOf(w) /\ Filled(f, <<>>, w) /\ Tells(f, <<>>, c, w)
             /\ ~f.valid /\ f.count = Samples \div 2 + 1 /\ f.z[w - 1] = 0
<1> DEFINE f == Library!NewFilter(k)
           w == Library!Window(k)
<1>1. w \in Nat \ {0}
  BY FilterAssumption DEF Library!Window
<1>2. Samples \div 2 + 1 \in Nat
  BY FilterAssumption
<1>3. /\ f.z = [i \in 0 .. w - 1 |-> 0] /\ f.index = 0 /\ f.valid = FALSE /\ f.sum = 0
      /\ f.count = Samples \div 2 + 1
  BY DEF Library!NewFilter
<1> HIDE DEF w
<1>4. f \in FiltersOf(w)
  <2>1. [i \in 0 .. w - 1 |-> 0] \in [0 .. w - 1 -> Int] /\ 0 \in 0 .. w - 1
    BY <1>1
  <2> QED
    BY <1>2, <2>1 DEF Library!NewFilter, FiltersOf, w
<1> HIDE DEF f
<1>5. f.z[w - 1] = 0 /\ \A j \in 0 .. w - 1 : f.z[j] = 0
  BY <1>1, <1>3
<1>6. Filled(f, <<>>, w)
  BY <1>1, <1>3, <1>5 DEF Filled
<1>7. Library!Total(<<>>) = 0
  <2>1. <<>> \in Seq(Int) /\ Len(<<>>) = 0
    OBVIOUS
  <2>2. PICK s \in Seq(Int) : s = <<>> /\ Len(s) = 0
    BY ONLY <2>1
  <2>3. Library!Total(s) = 0 * 0
    <3>1. 0 \in Nat /\ 0 \in Int /\ \A i \in 1 .. 0 : s[i] = 0
      OBVIOUS
    <3> QED
      BY <2>2, <3>1, TotalOfSame
  <2> QED
    BY <2>2, <2>3
<1>8. Tells(f, <<>>, c, w)
  BY <1>1, <1>3, <1>5, <1>7 DEF Tells
<1> QED
  BY <1>1, <1>3, <1>4, <1>5, <1>6, <1>8 DEF f, w

\* A filter that returns y0 from now on tells as many angles as its window is long, all
\* of them y0.
LEMMA SetTells ==
  ASSUME NEW w \in Nat \ {0}, NEW f \in FiltersOf(w), NEW c \in Int, NEW a \in Int
  PROVE  LET g == Library!SetOutput(f, c + a)
             s == [i \in 1 .. w |-> a]
         IN  /\ g \in FiltersOf(w) /\ Filled(g, s, w) /\ Tells(g, s, c, w)
             /\ g.valid = TRUE /\ g.count = f.count
<1> DEFINE y == c + a
           g == Library!SetOutput(f, y)
           s == [i \in 1 .. w |-> a]
<1>1. s \in Seq(Int) /\ Len(s) = w /\ \A i \in 1 .. w : s[i] = a
  OBVIOUS
<1>2. w * y = w * c + w * a /\ y = c + a
  OBVIOUS
<1>3. /\ f.z \in [0 .. w - 1 -> Int] /\ f.index \in 0 .. w - 1 /\ f.count \in Nat /\ y \in Int
      /\ w * y \in Int
  BY DEF FiltersOf
<1>4. s = [i \in 1 .. w |-> a]
  OBVIOUS
<1> HIDE DEF s, y
<1>5. /\ g.z = [j \in 0 .. w - 1 |-> y] /\ g.sum = w * y /\ g.valid = TRUE
      /\ g.count = f.count /\ g.index = f.index
      /\ g = [f EXCEPT !.z = [j \in 0 .. w - 1 |-> y], !.sum = w * y, !.valid = TRUE]
  BY <1>3, SizeIsWindow DEF Library!SetOutput, FiltersOf
<1>6. g \in FiltersOf(w)
  <2>1. [j \in 0 .. w - 1 |-> y] \in [0 .. w - 1 -> Int]
    BY <1>3
  <2> HIDE DEF g
  <2> QED
    BY <1>3, <1>5, <2>1 DEF FiltersOf
<1> HIDE DEF g
<1>7. Filled(g, s, w)
  BY <1>1, <1>5 DEF Filled
<1>8. Tells(g, s, c, w)
  <2>1. ASSUME NEW i \in 1 .. w  PROVE g.z[(g.index - i) % w] = c + s[i]
    <3>1. PICK x \in Int : x = g.index - i
      BY <1>3, <1>5
    <3>2. x % w \in 0 .. w - 1
      BY DivMod
    <3> QED
      BY <1>1, <1>2, <1>5, <3>1, <3>2
  <2>2. Library!Total(s) = w * a
    BY <1>4, TotalOfSame
  <2>3. (w - Len(s)) * g.z[w - 1] = 0
    <3>1. w - Len(s) = 0 /\ g.z[w - 1] = y
      BY <1>1, <1>5
    <3> QED
      BY <1>3, <3>1
  <2>4. PICK b \in Int, d \in Int : b = w * c /\ d = w * a
    OBVIOUS
  <2>5. g.sum = b + d /\ Len(s) * c = b /\ Library!Total(s) = d
    BY <1>1, <1>2, <1>5, <2>2, <2>4
  <2>6. g.sum = (Len(s) * c + Library!Total(s)) + (w - Len(s)) * g.z[w - 1]
    BY <2>3, <2>5
  <2> QED
    BY <1>1, <2>1, <2>6 DEF Tells
<1> QED
  BY <1>5, <1>6, <1>7, <1>8 DEF g, s, y

-----------------------------------------------------------------------------
(* The way round.                                                           *)

LEMMA WayIsTurn ==
  ASSUME NEW x \in 0 .. Period - 1, NEW turn \in Turns, NEW prev \in {x, x - Period},
         prev >= -(Period \div 2)
  PROVE  Library!Way(((x + turn) % Period) - prev) = turn
<1>1. PICK h \in Nat \ {0} : Period = 2 * h /\ Period \div 2 = h /\ Period \in Nat \ {0}
  BY FilterAssumption
<1>2. turn \in -h .. h - 1
  BY <1>1, FilterAssumption
<1>3. PICK y \in {x + turn - Period, x + turn, x + turn + Period} :
        y = (x + turn) % Period /\ y \in 0 .. Period - 1
  <2>1. CASE x + turn < 0
    <3>1. x + turn + Period \in 0 .. Period - 1 /\ x + turn = Period * (-1) + (x + turn + Period)
      BY <1>1, <1>2, <2>1
    <3>2. x + turn \in Int /\ -1 \in Int
      BY <1>1, <1>2
    <3>3. x + turn + Period = (x + turn) % Period
      BY <1>1, <3>1, <3>2, DivModUnique
    <3> QED
      BY <3>1, <3>3
  <2>2. CASE x + turn >= Period
    <3>1. PICK y \in Int, r \in 0 .. Period - 1, q \in Int :
            y = x + turn /\ r = x + turn - Period /\ q = 1
      <4>1. x + turn \in Int /\ x + turn - Period \in 0 .. Period - 1 /\ 1 \in Int
        BY <1>1, <1>2, <2>2
      <4> QED
        BY <4>1
    <3>2. y = Period * q + r
      BY <1>1, <1>2, <3>1
    <3>3. r = y % Period
      BY <1>1, <3>2, DivModUnique
    <3> QED
      BY <3>1, <3>3
  <2>3. CASE x + turn >= 0 /\ x + turn < Period
    <3>1. x + turn \in 0 .. Period - 1
      BY <1>1, <1>2, <2>3
    <3>2. (x + turn) % Period = x + turn
      BY <1>1, <3>1, ModSmall
    <3> QED
      BY <3>1, <3>2
  <2> QED
    BY <1>1, <1>2, <2>1, <2>2, <2>3
<1>4. Library!Way(y - prev) = turn
  <2>1. Library!Way(y - prev) = IF y - prev >= h THEN (y - prev) - Period
                                ELSE IF y - prev < -h THEN (y - prev) + Period ELSE y - prev
    BY <1>1 DEF Library!Way
  <2> QED
    BY <1>1, <1>2, <1>3, <2>1
<1> QED
  BY <1>3, <1>4

\* Where a quick filter is: half of the window is counted down, once.
Quick(f, s) ==
  /\ ~f.valid => f.count = (Samples \div 2 + 1) - Len(s) /\ Len(s) < Samples \div 2
  /\ f.valid => f.count <= 1

\* What is remembered of r when f takes the last one of them.
Kept(f, r) ==
  IF ~f.valid /\ Len(r) = Samples \div 2
  THEN [i \in 1 .. Samples |-> Library!Total(r) \div (Samples \div 2)] ELSE r

LEMMA HalfIsLess ==
  /\ Samples \in Nat \ {0, 1} /\ Samples \div 2 \in Nat \ {0} /\ Samples \div 2 < Samples
BY FilterAssumption

\* The same for a quick filter; that everything was shifted early spoils what it tells,
\* not how it is filled.
LEMMA QuickTells ==
  ASSUME NEW f \in FiltersOf(Samples), NEW s \in Seq(Int), Len(s) <= Samples,
         NEW c \in Int, NEW t \in Int, Filled(f, s, Samples), Quick(f, s),
         NEW r, Follows(r, s, t, Samples), NEW e \in BOOLEAN,
         ~e /\ ~f.valid => f.z[Samples - 1] = 0,
         ~e => Tells(f, s, c, Samples)
  PROVE  LET g == Library!TakeQuick(f, c + t)
             q == Kept(f, r)
         IN  /\ g \in FiltersOf(Samples) /\ q \in Seq(Int) /\ Len(q) <= Samples
             /\ Filled(g, q, Samples) /\ Quick(g, q)
             /\ ~e /\ ~g.valid => g.z[Samples - 1] = 0
             /\ ~e => Tells(g, q, c + t, Samples)
<1> DEFINE w == Samples
           half == Samples \div 2
           x == c + t
           g == Library!TakeQuick(f, x)
           q == Kept(f, r)
           first == Library!Take(f, x)
           down == IF f.count > 0 THEN f.count - 1 ELSE 0
           next == [first EXCEPT !.count = down]
<1>1. w \in Nat \ {0} /\ half \in Nat \ {0} /\ half < w /\ x \in Int
  BY HalfIsLess
<1>2. /\ first \in FiltersOf(w) /\ Filled(first, r, w)
      /\ first.valid = (f.valid \/ f.index + 1 = w) /\ first.count = f.count
      /\ ~first.valid => first.z[w - 1] = f.z[w - 1]
      /\ Tells(f, s, c, w) => Tells(first, r, x, w)
  <2> HIDE DEF w
  <2> QED
    BY <1>1, TakeTells DEF w
<1>3. /\ f.count \in Nat /\ f.valid \in BOOLEAN /\ f.index \in 0 .. w - 1
  BY DEF FiltersOf
<1>4. g = IF next.count = 1 THEN Library!SetOutput(next, next.sum \div half) ELSE next
  BY DEF Library!TakeQuick
<1>5. r \in Seq(Int) /\ Len(r) = (IF Len(s) < w THEN Len(s) + 1 ELSE w) /\ Len(s) \in Nat
  BY DEF Follows
<1> HIDE DEF w, half, x, g, q, first
<1>6. /\ next \in FiltersOf(w) /\ next.count = down /\ down \in Nat
      /\ next.z = first.z /\ next.index = first.index /\ next.valid = first.valid
      /\ next.sum = first.sum
  <2>1. down \in Nat
    BY <1>3
  <2> HIDE DEF down
  <2> QED
    BY <1>2, <2>1 DEF FiltersOf
<1> HIDE DEF next
<1>7. Filled(next, r, w) /\ (Tells(first, r, x, w) => Tells(next, r, x, w))
  BY <1>2, <1>6 DEF Filled, Tells
<1>8. ~next.valid => next.z[w - 1] = f.z[w - 1]
  BY <1>2, <1>6
<1>9. next.valid <=> f.valid \/ f.index + 1 = w
  BY <1>2, <1>6
<1>10. Library!Total(r) \in Int
  BY <1>5, TotalInt
<1>11. CASE ~f.valid
  <2>1. f.count = (half + 1) - Len(s) /\ Len(s) < half /\ f.index = Len(s)
    <3>1. f.count = (half + 1) - Len(s) /\ Len(s) < half
      BY <1>11 DEF Quick, half
    <3>2. f.index = Len(s)
      BY <1>11 DEF Filled
    <3> QED
      BY <3>1, <3>2
  <2>2. next.count = (half + 1) - Len(r) /\ Len(r) = Len(s) + 1 /\ Len(r) <= half
    BY <1>1, <1>5, <1>6, <2>1
  <2>3. ~next.valid
    BY <1>1, <1>9, <1>11, <2>1
  <2>4. CASE Len(r) = half
    <3> DEFINE a == Library!Total(r) \div half
               y == next.sum \div half
    <3>1. a \in Int /\ y \in Int
      <4>1. next.sum \in Int
        BY <1>6 DEF FiltersOf
      <4> QED
        BY <1>1, <1>10, <4>1, DivMod
    <3>2. g = Library!SetOutput(next, y) /\ q = [i \in 1 .. w |-> a]
      BY <1>1, <1>4, <1>11, <2>2, <2>4 DEF q, Kept, w, half
    <3> HIDE DEF a, y
    <3>3. q \in Seq(Int) /\ Len(q) = w /\ \A i \in 1 .. w : q[i] = a
      BY <1>1, <3>1, <3>2
    <3>4. next.count = 1
      BY <1>1, <2>2, <2>4
    <3>5. ASSUME NEW d \in Int, d + a = y
          PROVE  /\ g \in FiltersOf(w) /\ Filled(g, q, w) /\ g.valid /\ g.count = 1
                 /\ Tells(g, q, d, w)
      <4>1. w \in Nat \ {0} /\ next \in FiltersOf(w) /\ d \in Int /\ a \in Int
        BY <1>1, <1>6, <3>1
      <4>2. LET h == Library!SetOutput(next, d + a)
                p == [i \in 1 .. w |-> a]
            IN  /\ h \in FiltersOf(w) /\ Filled(h, p, w) /\ Tells(h, p, d, w)
                /\ h.valid = TRUE /\ h.count = next.count
        BY ONLY <4>1, SetTells
      <4> QED
        BY <3>2, <3>4, <3>5, <4>2
    <3>6. g \in FiltersOf(w) /\ Filled(g, q, w) /\ g.valid /\ g.count = 1
      <4>1. y - a \in Int /\ (y - a) + a = y
        BY <3>1
      <4> QED
        BY <3>5, <4>1
    <3>7. Quick(g, q)
      BY <3>6 DEF Quick
    <3>8. ASSUME ~e  PROVE Tells(g, q, x, w)
      <4>1. next.z[w - 1] = 0
        BY <1>8, <1>11, <2>3, <3>8 DEF w
      <4>2. next.sum = (Len(r) * x + Library!Total(r)) + (w - Len(r)) * next.z[w - 1]
        BY <1>2, <1>7, <3>8 DEF Tells, w
      <4>3. (w - Len(r)) * 0 = 0
        BY <1>1, <2>4
      <4>4. PICK b \in Int : b = half * x
        BY <1>1
      <4>5. next.sum = half * x + Library!Total(r)
        BY <1>10, <2>4, <4>1, <4>2, <4>3, <4>4
      <4>6. x + a = y
        <5>1. PICK T \in Int : T = Library!Total(r)
          BY <1>10
        <5>2. T % half \in 0 .. half - 1 /\ T = half * a + (T % half)
          BY <1>1, <5>1, DivMod DEF a
        <5>3. PICK m \in 0 .. half - 1, k \in Int : m = T % half /\ k = half * a
          BY <1>1, <3>1, <5>2
        <5>4. half * (x + a) = b + k
          <6>1. half * (x + a) = half * x + half * a
            BY <1>1, <3>1
          <6> QED
            BY <4>4, <5>3, <6>1
        <5>5. T = k + m
          BY <5>2, <5>3
        <5>6. b + T = half * (x + a) + m
          BY <5>4, <5>5
        <5>7. x + a \in Int /\ b + T \in Int
          BY <1>1, <3>1
        <5>8. x + a = (b + T) \div half
          BY <1>1, <5>6, <5>7, DivModUnique
        <5> QED
          BY <4>4, <4>5, <5>1, <5>8 DEF y
      <4> QED
        BY <1>1, <3>5, <4>6
    <3> QED
      BY <1>1, <3>3, <3>6, <3>7, <3>8 DEF w, x, g, q
  <2>5. CASE Len(r) # half
    <3>1. g = next /\ q = r
      BY <1>1, <1>4, <1>5, <2>2, <2>5 DEF q, Kept, half
    <3>2. Quick(next, r)
      BY <1>1, <1>5, <2>2, <2>3, <2>5 DEF Quick, half
    <3>3. Len(r) <= w
      BY <1>1, <1>5, <2>2
    <3> QED
      BY <1>2, <1>5, <1>6, <1>7, <1>8, <1>11, <3>1, <3>2, <3>3 DEF w, x, g, q
  <2> QED
    BY <2>4, <2>5
<1>12. CASE f.valid
  <2>1. f.count <= 1
    BY <1>12 DEF Quick
  <2>2. next.count = 0 /\ next.valid
    BY <1>3, <1>6, <1>9, <1>12, <2>1
  <2>3. g = next /\ q = r
    BY <1>4, <1>12, <2>2 DEF q, Kept
  <2>4. Quick(next, r)
    BY <2>2 DEF Quick
  <2>5. Len(r) <= w
    BY <1>1, <1>5
  <2> QED
    BY <1>2, <1>5, <1>6, <1>7, <2>2, <2>3, <2>4, <2>5 DEF w, x, g, q
<1> QED
  BY <1>3, <1>11, <1>12

\* What the model remembers follows what it remembered.
LEMMA RecentFollows ==
  ASSUME NEW w \in Nat \ {0}, NEW s \in Seq(Int), Len(s) <= w, NEW t \in Int
  PROVE  LET all == <<0>> \o [i \in DOMAIN s |-> s[i] - t]
         IN  Follows(SubSeq(all, 1, Library!Smaller(Len(all), w)), s, t, w)
<1> DEFINE moved == [i \in DOMAIN s |-> s[i] - t]
           all == <<0>> \o moved
           m == Library!Smaller(Len(all), w)
           r == SubSeq(all, 1, m)
<1>1. moved \in Seq(Int) /\ Len(moved) = Len(s) /\ \A i \in 1 .. Len(s) : moved[i] = s[i] - t
  OBVIOUS
<1> HIDE DEF moved
<1>2. /\ all \in Seq(Int) /\ Len(all) = Len(s) + 1 /\ all[1] = 0
      /\ \A i \in 1 .. Len(s) : all[i + 1] = s[i] - t
  BY <1>1
<1> HIDE DEF all
<1>3. m = (IF Len(s) < w THEN Len(s) + 1 ELSE w) /\ m \in 1 .. Len(all)
  BY <1>2 DEF Library!Smaller
<1> HIDE DEF m
<1>4. r \in Seq(Int) /\ Len(r) = m /\ \A i \in 1 .. m : r[i] = all[i]
  BY <1>2, <1>3
<1> HIDE DEF r
<1>5. \A i \in 1 .. Len(r) - 1 : r[i + 1] = s[i] - t
  <2>1. ASSUME NEW i \in 1 .. Len(r) - 1  PROVE r[i + 1] = s[i] - t
    <3>1. i + 1 \in 1 .. m /\ i \in 1 .. Len(s)
      BY <1>2, <1>3, <1>4
    <3> QED
      BY <1>2, <1>4, <3>1
  <2> QED
    BY <2>1
<1>6. r[1] = 0
  BY <1>2, <1>3, <1>4
<1>7. Follows(r, s, t, w)
  BY <1>3, <1>4, <1>5, <1>6 DEF Follows
<1> QED
  BY <1>7 DEF r, m, all, moved

LEMMA Multiples ==
  ASSUME NEW m \in Nat \ {0}, NEW q \in Int
  PROVE  (m * q) % m = 0
<1>1. PICK y \in Int, z \in Int : y = m * q /\ z = 0
  OBVIOUS
<1>2. y = m * q + z /\ z \in 0 .. m - 1
  BY <1>1
<1>3. z = y % m
  BY <1>2, DivModUnique
<1> QED
  BY <1>1, <1>3

\* The continuous angle goes on from c, and jumps back when it has become too big.
LEMMA GoesOn ==
  ASSUME NEW x \in 0 .. Period - 1, NEW c \in -(2 * Period) .. 2 * Period, (c - x) % Period = 0,
         NEW turn \in Turns
  PROVE  LET jump == Library!Jump(c + turn)
             v == (c + turn) + jump
             y == (x + turn) % Period
         IN  /\ jump \in Int /\ y \in 0 .. Period - 1
             /\ v \in -(2 * Period) .. 2 * Period /\ (v - y) % Period = 0
             /\ jump # 0 => v \in {y, y - Period} /\ v >= -(Period \div 2)
<1> DEFINE jump == Library!Jump(c + turn)
           v == (c + turn) + jump
           y == (x + turn) % Period
<1>1. PICK h \in Nat \ {0} : Period = 2 * h /\ Period \div 2 = h /\ Period \in Nat \ {0}
  BY FilterAssumption
<1>2. turn \in -h .. h - 1 /\ turn \in Int
  BY <1>1, FilterAssumption
<1>3. PICK j \in {-2, 0, 2} : jump = j * Period /\ v \in -(2 * Period) .. 2 * Period
                              /\ (j # 0 => v \in -h .. h)
  <2>1. jump = IF c + turn > 2 * Period THEN -(2 * Period)
               ELSE IF c + turn < -(2 * Period) THEN 2 * Period ELSE 0
    BY <1>1, <1>2 DEF Library!Jump, Library!Limit
  <2> HIDE DEF jump
  <2>2. CASE c + turn > 2 * Period
    <3>1. jump = (-2) * Period /\ v \in -(2 * Period) .. 2 * Period /\ v \in -h .. h
      BY <1>1, <1>2, <2>1, <2>2
    <3> QED
      BY <3>1
  <2>3. CASE c + turn < -(2 * Period)
    <3>1. jump = 2 * Period /\ v \in -(2 * Period) .. 2 * Period /\ v \in -h .. h
      BY <1>1, <1>2, <2>1, <2>3
    <3> QED
      BY <3>1
  <2>4. CASE ~(c + turn > 2 * Period) /\ ~(c + turn < -(2 * Period))
    <3>1. jump = 0 * Period /\ v \in -(2 * Period) .. 2 * Period
      BY <1>1, <1>2, <2>1, <2>4
    <3> QED
      BY <3>1
  <2> QED
    BY <2>2, <2>3, <2>4
<1>4. PICK p \in Int : c - x = Period * p
  <2>1. PICK u \in Int : u = c - x
    OBVIOUS
  <2>2. u = Period * (u \div Period) + (u % Period) /\ u \div Period \in Int
    BY <1>1, DivMod
  <2>3. u % Period = 0
    BY <2>1
  <2>4. PICK p \in Int : p = u \div Period
    BY <2>2
  <2>5. Period * p \in Int
    BY <1>1
  <2>6. u = Period * p
    BY <2>2, <2>3, <2>4, <2>5
  <2> QED
    BY <2>1, <2>6
<1>5. PICK q \in Int : x + turn = Period * q + y /\ y \in 0 .. Period - 1
  <2>1. x + turn \in Int
    BY <1>2
  <2> QED
    BY <1>1, <2>1, DivMod
<1> HIDE DEF y, jump
<1>6. PICK m \in Int : v - y = Period * m
  <2>1. Period * (p + q + j) = Period * p + Period * q + j * Period /\ p + q + j \in Int
    BY <1>1, <1>3
  <2>2. PICK a \in Int, b \in Int, d \in Int : a = Period * p /\ b = Period * q /\ d = j * Period
    BY <1>1, <1>3
  <2>3. v - y = a + b + d
    BY <1>2, <1>3, <1>4, <1>5, <2>2
  <2> QED
    BY <2>1, <2>2, <2>3
<1>7. (v - y) % Period = 0
  BY <1>1, <1>6, Multiples
<1>8. ASSUME j # 0  PROVE v \in {y, y - Period} /\ v >= -(Period \div 2)
  <2>1. v \in -h .. h
    BY <1>3, <1>8
  <2>2. Period * m < Period /\ Period * m > -2 * Period
    BY <1>1, <1>5, <1>6, <2>1
  <2>3. m < 1 /\ m > -2
    BY <1>1, <2>2
  <2>4. m = 0 \/ m = -1
    BY <2>3
  <2> QED
    BY <1>1, <1>5, <1>6, <2>1, <2>4
<1>9. jump \in Int /\ (jump # 0 => j # 0)
  BY <1>1, <1>3
<1> QED
  BY <1>3, <1>5, <1>7, <1>8, <1>9 DEF y, jump

-----------------------------------------------------------------------------
\* Where the filter around is: it has not started, or its angle is that of the boat but for
\* whole turns.
AroundIs(a, x, k, f, s, e) ==
  IF a.initial
  THEN s = <<>> /\ f = Library!NewFilter(k) /\ ~e
  ELSE /\ a.continuous \in -(2 * Period) .. 2 * Period /\ (a.continuous - x) % Period = 0
       /\ a.prev \in {x, x - Period} /\ a.prev >= -(Period \div 2)

FilterType ==
  /\ kind \in Library!Kinds
  /\ around \in [initial : BOOLEAN, prev : Int, continuous : Int]
  /\ course \in 0 .. Period - 1 /\ early \in BOOLEAN
  /\ past \in Seq(Int) /\ Len(past) <= Library!Window(kind)
  /\ inner \in FiltersOf(Library!Window(kind))

FilterInv ==
  /\ FilterType
  /\ AroundIs(around, course, kind, inner, past, early)
  /\ Filled(inner, past, Library!Window(kind))
  /\ kind = "quick" => Quick(inner, past)
  /\ ~early /\ ~inner.valid => inner.z[Library!Window(kind) - 1] = 0
  /\ ~(kind = "quick" /\ early) =>
       around.initial \/ Tells(inner, past, around.continuous, Library!Window(kind))

LEMMA FilterStarts ==
  ASSUME Library!Init
  PROVE  FilterInv
<1>1. /\ kind \in Library!Kinds /\ inner = Library!NewFilter(kind) /\ course = 0 /\ past = <<>>
      /\ around = [initial |-> TRUE, prev |-> 0, continuous |-> 0] /\ early = FALSE
  BY DEF Library!Init
<1> DEFINE w == Library!Window(kind)
<1>2. /\ w \in Nat \ {0} /\ inner \in FiltersOf(w) /\ Filled(inner, <<>>, w)
      /\ ~inner.valid /\ inner.count = Samples \div 2 + 1 /\ inner.z[w - 1] = 0
  <2>1. 0 \in Int
    OBVIOUS
  <2> QED
    BY <1>1, <2>1, NewTells
<1>3. 0 \in 0 .. Period - 1
  BY FilterAssumption
<1>4. past \in Seq(Int) /\ Len(past) = 0
  BY <1>1
<1>5. Quick(inner, past)
  BY <1>2, <1>4, HalfIsLess DEF Quick
<1>6. FilterType
  <2>1. around \in [initial : BOOLEAN, prev : Int, continuous : Int]
    BY <1>1
  <2>2. early \in BOOLEAN
    BY <1>1
  <2>3. Len(past) <= w
    BY <1>2, <1>4
  <2> QED
    BY <1>1, <1>2, <1>3, <1>4, <2>1, <2>2, <2>3 DEF FilterType
<1>7. AroundIs(around, course, kind, inner, past, early)
  BY <1>1 DEF AroundIs
<1> QED
  BY <1>1, <1>2, <1>5, <1>6, <1>7 DEF FilterInv

LEMMA FilterGoesOn ==
  ASSUME FilterInv, Library!Next
  PROVE  FilterInv'
<1>1. PICK turn \in Turns :
        /\ course' = (course + turn) % Period
        /\ Library!Measure(course')
        /\ past' = Library!Recent(turn)
        /\ kind' = kind
  BY DEF Library!Next, Library!Sample
<1> DEFINE w == Library!Window(kind)
           x == course'
           prev == IF around.initial THEN x ELSE around.prev
           from == IF around.initial THEN x ELSE around.continuous
           reached == from + Library!Way(x - prev)
           jump == Library!Jump(reached)
           v == reached + jump
           c == IF around.initial THEN x - turn ELSE around.continuous
           f == IF jump = 0 THEN inner ELSE Library!Shift(inner, jump)
           all == <<0>> \o [i \in DOMAIN past |-> past[i] - turn]
           r == SubSeq(all, 1, Library!Smaller(Len(all), w))
<1>2. /\ kind \in Library!Kinds /\ around \in [initial : BOOLEAN, prev : Int, continuous : Int]
      /\ course \in 0 .. Period - 1 /\ early \in BOOLEAN
      /\ past \in Seq(Int) /\ Len(past) <= w /\ inner \in FiltersOf(w)
      /\ AroundIs(around, course, kind, inner, past, early)
      /\ Filled(inner, past, w) /\ (kind = "quick" => Quick(inner, past))
      /\ (~early /\ ~inner.valid => inner.z[w - 1] = 0)
      /\ (~(kind = "quick" /\ early) => around.initial \/ Tells(inner, past, around.continuous, w))
  BY DEF FilterInv, FilterType
<1>3. /\ inner' = Library!Filter(kind, f, v)
      /\ around' = [initial |-> FALSE, continuous |-> v, prev |-> IF jump = 0 THEN x ELSE v]
      /\ early' = (early \/ (jump # 0 /\ ~inner.valid))
  BY <1>1 DEF Library!Measure
<1>4. w \in Nat \ {0} /\ Period \in Nat \ {0} /\ turn \in Int /\ turn < Period
  BY FilterAssumption DEF Library!Window
<1>5. x \in 0 .. Period - 1
  <2>1. course + turn \in Int
    BY <1>2, <1>4
  <2> QED
    BY <1>1, <1>4, <2>1, DivMod
<1>6. /\ jump \in Int /\ c \in Int /\ v = (c + jump) + turn
      /\ around.initial => jump = 0
      /\ v \in -(2 * Period) .. 2 * Period /\ (v - x) % Period = 0
      /\ jump # 0 => v \in {x, x - Period} /\ v >= -(Period \div 2)
  <2>1. CASE around.initial
    <3>1. Library!Way(x - prev) = 0
      <4>1. prev = x
        BY <2>1
      <4>2. x - prev = 0
        <5> HIDE DEF x, prev
        <5> QED
          BY <1>5, <4>1
      <4>3. Period \div 2 \in Nat \ {0}
        BY FilterAssumption
      <4> QED
        BY <1>4, <4>2, <4>3 DEF Library!Way
    <3>2. reached = x
      BY <1>5, <2>1, <3>1
    <3>3. jump = 0
      BY <1>4, <1>5, <3>2 DEF Library!Jump, Library!Limit
    <3>4. v = x
      BY <1>5, <3>2, <3>3
    <3>5. (v - x) % Period = 0
      <4>1. v - x = Period * 0
        BY <1>4, <1>5, <3>4
      <4>2. 0 \in Int
        OBVIOUS
      <4> QED
        BY <1>4, <4>1, <4>2, Multiples
    <3>6. c = x - turn /\ x \in Int
      BY <1>5, <2>1
    <3> HIDE DEF v, reached, jump, c, x
    <3>7. jump \in Int /\ c \in Int /\ v = (c + jump) + turn
      BY <1>4, <3>3, <3>4, <3>6
    <3>8. v \in -(2 * Period) .. 2 * Period
      BY <1>4, <1>5, <3>4
    <3> QED
      BY <3>3, <3>5, <3>7, <3>8
  <2>2. CASE ~around.initial
    <3>1. /\ c = around.continuous /\ c \in -(2 * Period) .. 2 * Period /\ (c - course) % Period = 0
          /\ prev = around.prev /\ prev \in {course, course - Period} /\ prev >= -(Period \div 2)
          /\ from = c
      BY <1>2, <2>2 DEF AroundIs
    <3>2. Library!Way(x - prev) = turn
      BY <1>1, <1>2, <3>1, WayIsTurn
    <3>3. reached = c + turn
      BY <3>1, <3>2
    <3>4. /\ jump \in Int /\ v \in -(2 * Period) .. 2 * Period /\ (v - x) % Period = 0
          /\ jump # 0 => v \in {x, x - Period} /\ v >= -(Period \div 2)
      BY <1>1, <1>2, <3>1, <3>3, GoesOn
    <3> HIDE DEF jump, c
    <3> QED
      BY <1>4, <2>2, <3>1, <3>3, <3>4
  <2> QED
    BY <2>1, <2>2
<1> HIDE DEF w, x, jump, reached, v, c, f, r
<1>7. AroundIs(around', course', kind', inner', past', early')
  <2>1. /\ around'.initial = FALSE /\ around'.continuous = v
        /\ around'.prev = IF jump = 0 THEN x ELSE v
    BY <1>3
  <2>2. Period \div 2 \in Nat
    BY FilterAssumption
  <2>3. x >= -(Period \div 2)
    BY <1>5, <2>2
  <2> QED
    BY <1>6, <2>1, <2>3 DEF AroundIs, x
<1>8. around' \in [initial : BOOLEAN, prev : Int, continuous : Int]
  BY <1>3, <1>5, <1>6
<1>9. Tells(inner, past, c, w) \/ (kind = "quick" /\ early)
  <2>1. CASE around.initial
    <3>1. Tells(Library!NewFilter(kind), <<>>, c, w)
      BY <1>2, <1>6, NewTells DEF w
    <3> QED
      BY <1>2, <2>1, <3>1 DEF AroundIs
  <2>2. CASE ~around.initial
    BY <1>2, <2>2 DEF c
  <2> QED
    BY <2>1, <2>2
<1>10. /\ f \in FiltersOf(w) /\ Filled(f, past, w) /\ f.valid = inner.valid /\ f.count = inner.count
       /\ Tells(inner, past, c, w) => Tells(f, past, c + jump, w)
       /\ ~early' /\ ~f.valid => f.z[w - 1] = 0
  <2>1. CASE jump = 0
    <3>1. f = inner /\ c + jump = c
      BY <1>6, <2>1 DEF f
    <3> QED
      BY <1>2, <1>3, <3>1
  <2>2. CASE jump # 0
    <3>1. f = Library!Shift(inner, jump)
      BY <2>2 DEF f
    <3>2. /\ f \in FiltersOf(w) /\ Filled(f, past, w) /\ f.valid = inner.valid /\ f.count = inner.count
          /\ Tells(inner, past, c, w) => Tells(f, past, c + jump, w)
      <4>1. /\ w \in Nat \ {0} /\ inner \in FiltersOf(w) /\ past \in Seq(Int) /\ Len(past) <= w
            /\ c \in Int /\ jump \in Int /\ Filled(inner, past, w) /\ f = Library!Shift(inner, jump)
        BY <1>2, <1>4, <1>6, <3>1
      <4> QED
        BY ONLY <4>1, ShiftTells
    <3> QED
      BY <1>3, <2>2, <3>2
  <2> QED
    BY <2>1, <2>2
<1>11. Follows(r, past, turn, w)
  BY <1>2, <1>4, RecentFollows DEF r
<1>12. past' = IF kind = "quick" THEN Kept(f, r) ELSE r
  <2>1. past' = Library!Remembered(r)
    BY <1>1 DEF Library!Recent, r, w
  <2> QED
    BY <1>10, <2>1 DEF Library!Remembered, Kept
<1>13. early' \in BOOLEAN /\ (early => early')
  BY <1>2, <1>3
<1>14. CASE kind # "quick"
  <2>1. inner' = Library!Take(f, (c + jump) + turn)
    BY <1>3, <1>6, <1>14 DEF Library!Filter
  <2>2. /\ inner' \in FiltersOf(w) /\ Filled(inner', r, w)
        /\ inner'.valid = (f.valid \/ f.index + 1 = w)
        /\ ~inner'.valid => inner'.z[w - 1] = f.z[w - 1]
        /\ Tells(f, past, c + jump, w) => Tells(inner', r, v, w)
    <3>1. /\ w \in Nat \ {0} /\ f \in FiltersOf(w) /\ past \in Seq(Int) /\ Len(past) <= w
          /\ c + jump \in Int /\ turn \in Int /\ Filled(f, past, w) /\ Follows(r, past, turn, w)
      BY <1>2, <1>4, <1>6, <1>10, <1>11
    <3>2. LET g == Library!Take(f, (c + jump) + turn) IN
          /\ g \in FiltersOf(w) /\ Filled(g, r, w)
          /\ g.valid = (f.valid \/ f.index + 1 = w) /\ g.count = f.count
          /\ ~g.valid => g.z[w - 1] = f.z[w - 1]
          /\ Tells(f, past, c + jump, w) => Tells(g, r, (c + jump) + turn, w)
      BY ONLY <3>1, TakeTells
    <3> QED
      BY <1>6, <2>1, <3>2
  <2>3. past' = r /\ r \in Seq(Int) /\ Len(r) <= w
    BY <1>4, <1>11, <1>12, <1>14 DEF Follows
  <2>4. around'.continuous = v
    BY <1>3
  <2>5. Tells(inner', r, v, w)
    BY <1>9, <1>10, <1>14, <2>2
  <2>6. ~early' /\ ~inner'.valid => inner'.z[w - 1] = 0
    BY <1>10, <2>2
  <2> QED
    BY <1>1, <1>2, <1>5, <1>7, <1>8, <1>13, <1>14, <2>2, <2>3, <2>4, <2>5, <2>6
    DEF w, x, FilterInv, FilterType
<1>15. CASE kind = "quick"
  <2>1. inner' = Library!TakeQuick(f, (c + jump) + turn)
    BY <1>3, <1>6, <1>15 DEF Library!Filter
  <2>2. w = Samples
    BY <1>15 DEF w, Library!Window
  <2>3. Quick(f, past)
    BY <1>2, <1>10, <1>15 DEF Quick
  <2>4. ~early' => Tells(f, past, c + jump, w)
    BY <1>9, <1>10, <1>13
  <2>5. /\ inner' \in FiltersOf(w) /\ past' \in Seq(Int) /\ Len(past') <= w
        /\ Filled(inner', past', w) /\ Quick(inner', past')
        /\ ~early' /\ ~inner'.valid => inner'.z[w - 1] = 0
        /\ ~early' => Tells(inner', past', v, w)
    <3>1. /\ f \in FiltersOf(Samples) /\ past \in Seq(Int) /\ Len(past) <= Samples
          /\ c + jump \in Int /\ turn \in Int /\ Filled(f, past, Samples) /\ Quick(f, past)
          /\ Follows(r, past, turn, Samples) /\ early' \in BOOLEAN
          /\ (~early' /\ ~f.valid => f.z[Samples - 1] = 0)
          /\ (~early' => Tells(f, past, c + jump, Samples))
      BY <1>2, <1>4, <1>6, <1>10, <1>11, <1>13, <2>2, <2>3, <2>4
    <3>2. LET g == Library!TakeQuick(f, (c + jump) + turn)
              q == Kept(f, r)
          IN  /\ g \in FiltersOf(Samples) /\ q \in Seq(Int) /\ Len(q) <= Samples
              /\ Filled(g, q, Samples) /\ Quick(g, q)
              /\ ~early' /\ ~g.valid => g.z[Samples - 1] = 0
              /\ ~early' => Tells(g, q, (c + jump) + turn, Samples)
      BY ONLY <3>1, QuickTells
    <3> QED
      BY <1>6, <1>12, <1>15, <2>1, <2>2, <3>2
  <2>6. around'.continuous = v
    BY <1>3
  <2> QED
    BY <1>1, <1>2, <1>5, <1>7, <1>8, <1>13, <1>15, <2>5, <2>6
    DEF w, x, FilterInv, FilterType
<1> QED
  BY <1>14, <1>15

-----------------------------------------------------------------------------
(* What a valid filter tells.                                               *)

\* One for each place that is in S, and none for one that is not.
One(S, i) == IF i \in S THEN 1 ELSE 0

LEMMA CountNext ==
  ASSUME NEW S, NEW n \in Nat
  PROVE  /\ Cardinality(S \cap (1 .. n)) \in Nat
         /\ Cardinality(S \cap (1 .. n + 1)) = Cardinality(S \cap (1 .. n)) + One(S, n + 1)
<1>1. IsFiniteSet(1 .. n) /\ IsFiniteSet(S \cap (1 .. n))
  <2>1. IsFiniteSet(1 .. n)
    BY FS_Interval
  <2> QED
    BY <2>1, FS_Subset
<1>2. Cardinality(S \cap (1 .. n)) \in Nat
  BY <1>1, FS_CardinalityType
<1>3. CASE n + 1 \in S
  <2>1. S \cap (1 .. n + 1) = (S \cap (1 .. n)) \cup {n + 1} /\ n + 1 \notin S \cap (1 .. n)
    BY <1>3
  <2>2. Cardinality((S \cap (1 .. n)) \cup {n + 1}) = Cardinality(S \cap (1 .. n)) + 1
    BY <1>1, <2>1, FS_AddElement
  <2> QED
    BY <1>2, <1>3, <2>1, <2>2 DEF One
<1>4. CASE n + 1 \notin S
  <2>1. S \cap (1 .. n + 1) = S \cap (1 .. n)
    BY <1>4
  <2> QED
    BY <1>2, <1>4, <2>1 DEF One
<1> QED
  BY <1>2, <1>3, <1>4

LEMMA CountThree ==
  ASSUME NEW S \in SUBSET (1 .. 3)
  PROVE  Cardinality(S) = One(S, 1) + One(S, 2) + One(S, 3)
<1>1. S \cap (1 .. 0) = {} /\ S \cap (1 .. 3) = S
  <2>1. \A i \in 1 .. 0 : FALSE
    OBVIOUS
  <2>2. S \cap (1 .. 3) = S
    OBVIOUS
  <2>3. S \cap (1 .. 0) = {}
    BY <2>1, Zenon
  <2> QED
    BY <2>2, <2>3
<1>2. Cardinality(S \cap (1 .. 0)) = 0
  BY <1>1, FS_EmptySet
<1>3. Cardinality(S \cap (1 .. 1)) = Cardinality(S \cap (1 .. 0)) + One(S, 1)
  <2>1. 0 \in Nat /\ 0 + 1 = 1
    OBVIOUS
  <2> QED
    BY <2>1, CountNext
<1>4. Cardinality(S \cap (1 .. 2)) = Cardinality(S \cap (1 .. 1)) + One(S, 2)
  <2>1. 1 \in Nat /\ 1 + 1 = 2
    OBVIOUS
  <2> QED
    BY <2>1, CountNext
<1>5. Cardinality(S \cap (1 .. 3)) = Cardinality(S \cap (1 .. 2)) + One(S, 3)
  <2>1. 2 \in Nat /\ 2 + 1 = 3
    OBVIOUS
  <2> QED
    BY <2>1, CountNext
<1> QED
  BY <1>1, <1>2, <1>3, <1>4, <1>5 DEF One

LEMMA CountFive ==
  ASSUME NEW S \in SUBSET (1 .. 5)
  PROVE  Cardinality(S) = One(S, 1) + One(S, 2) + One(S, 3) + One(S, 4) + One(S, 5)
<1>1. S \cap (1 .. 3) \in SUBSET (1 .. 3) /\ S \cap (1 .. 5) = S
  OBVIOUS
<1>2. Cardinality(S \cap (1 .. 3)) = One(S, 1) + One(S, 2) + One(S, 3)
  <2>1. Cardinality(S \cap (1 .. 3)) = One(S \cap (1 .. 3), 1) + One(S \cap (1 .. 3), 2)
                                   + One(S \cap (1 .. 3), 3)
    BY <1>1, CountThree
  <2> QED
    BY <2>1 DEF One
<1>3. Cardinality(S \cap (1 .. 4)) = Cardinality(S \cap (1 .. 3)) + One(S, 4)
  <2>1. 3 \in Nat /\ 3 + 1 = 4
    OBVIOUS
  <2> QED
    BY <2>1, CountNext
<1>4. Cardinality(S \cap (1 .. 5)) = Cardinality(S \cap (1 .. 4)) + One(S, 5)
  <2>1. 4 \in Nat /\ 4 + 1 = 5
    OBVIOUS
  <2> QED
    BY <2>1, CountNext
<1> QED
  BY <1>1, <1>2, <1>3, <1>4 DEF One

Below(s, m) == {i \in DOMAIN s : s[i] < m}
Above(s, m) == {i \in DOMAIN s : s[i] > m}

\* There is only one median.
LEMMA OneMiddle ==
  ASSUME NEW s \in Seq(Int), NEW m \in {s[i] : i \in DOMAIN s},
         2 * Cardinality(Below(s, m)) < Len(s), 2 * Cardinality(Above(s, m)) < Len(s)
  PROVE  Library!Middle(s) = m
<1> DEFINE n == Len(s)
           Good(o) == /\ o \in {s[i] : i \in DOMAIN s}
                      /\ 2 * Cardinality(Below(s, o)) < n /\ 2 * Cardinality(Above(s, o)) < n
<1>1. n \in Nat /\ DOMAIN s = 1 .. n /\ (\A i \in 1 .. n : s[i] \in Int) /\ m \in Int
  <2>1. n \in Nat /\ DOMAIN s = 1 .. n /\ \A i \in 1 .. n : s[i] \in Int
    OBVIOUS
  <2>2. PICK i \in DOMAIN s : m = s[i]
    OBVIOUS
  <2> QED
    BY <2>1, <2>2
<1>2. IsFiniteSet(1 .. n) /\ Cardinality(1 .. n) = n
  <2> HIDE DEF n
  <2> QED
    BY <1>1, FS_Interval
<1>3. ASSUME NEW o, NEW p, Good(o), Good(p), o < p, o \in Int, p \in Int  PROVE FALSE
  <2> DEFINE B == Below(s, p)
             A == Above(s, o)
  <2>1. 1 .. n = A \cup B /\ A \subseteq 1 .. n /\ B \subseteq 1 .. n
    <3>1. ASSUME NEW i \in 1 .. n  PROVE i \in A \cup B
      BY <1>1, <1>3 DEF Above, Below
    <3> QED
      BY <1>1, <3>1 DEF Above, Below
  <2>2. IsFiniteSet(A) /\ IsFiniteSet(B) /\ IsFiniteSet(A \cap B)
    BY <1>2, <2>1, FS_Subset
  <2>3. Cardinality(A \cup B) = Cardinality(A) + Cardinality(B) - Cardinality(A \cap B)
    BY <2>2, FS_Union
  <2>4. Cardinality(A) \in Nat /\ Cardinality(B) \in Nat /\ Cardinality(A \cap B) \in Nat
    BY <2>2, FS_CardinalityType
  <2>5. Cardinality(A \cup B) = n
    BY <1>2, <2>1
  <2>6. 2 * Cardinality(A) < n /\ 2 * Cardinality(B) < n
    BY <1>3
  <2> HIDE DEF A, B, n
  <2> QED
    BY <1>1, <2>3, <2>4, <2>5, <2>6
<1>4. Good(m)
  OBVIOUS
<1>5. Library!Middle(s) = CHOOSE o : Good(o)
  <2>1. ASSUME NEW o
        PROVE  /\ Library!Cardinality({i \in DOMAIN s : s[i] < o}) = Cardinality(Below(s, o))
               /\ Library!Cardinality({i \in DOMAIN s : s[i] > o}) = Cardinality(Above(s, o))
    BY SameCardinality DEF Below, Above
  <2>2. Library!Middle(s) = CHOOSE o \in {s[i] : i \in DOMAIN s} :
          /\ 2 * Cardinality(Below(s, o)) < n
          /\ 2 * Cardinality(Above(s, o)) < n
    BY <2>1, Zenon DEF Library!Middle
  <2> QED
    BY <2>2
<1> DEFINE o == CHOOSE p : Good(p)
<1>6. Good(o)
  <2> HIDE DEF Good
  <2> QED
    BY <1>4
<1>7. o \in Int
  BY <1>1, <1>6
<1> HIDE DEF o
<1>8. ~(o < m) /\ ~(m < o)
  <2> HIDE DEF Good
  <2> QED
    BY <1>1, <1>3, <1>4, <1>6, <1>7
<1> QED
  BY <1>1, <1>5, <1>7, <1>8 DEF o

\* One if x is less than y.
Less(x, y) == IF x < y THEN 1 ELSE 0

\* The comparisons find the median.
LEMMA MedianOfThree ==
  ASSUME NEW a \in Int, NEW b \in Int, NEW c \in Int
  PROVE  LET m == Library!Median3(a, b, c) IN
         /\ m \in Int /\ m \in {a, b, c}
         /\ Less(a, m) + Less(b, m) + Less(c, m) <= 1
         /\ Less(m, a) + Less(m, b) + Less(m, c) <= 1
BY DEF Less, Library!Median3, Library!Smaller, Library!Greater

LEMMA MedianOfFive ==
  ASSUME NEW a \in Int, NEW b \in Int, NEW c \in Int, NEW d \in Int, NEW e \in Int
  PROVE  LET m == Library!Median5(a, b, c, d, e) IN
         /\ m \in Int /\ m \in {a, b, c, d, e}
         /\ Less(a, m) + Less(b, m) + Less(c, m) + Less(d, m) + Less(e, m) <= 2
         /\ Less(m, a) + Less(m, b) + Less(m, c) + Less(m, d) + Less(m, e) <= 2
BY DEF Less, Library!Median5, Library!Median3, Library!Smaller, Library!Greater

\* Where the angles are, wherever the next one goes.
LEMMA RingPlace ==
  ASSUME NEW w \in Nat \ {0}, NEW index \in 0 .. w - 1, NEW i \in 1 .. w
  PROVE  (index - i) % w = (IF i <= index THEN index - i ELSE (index + w) - i)
<1>1. PICK x \in Int : x = index - i
  OBVIOUS
<1>2. CASE i <= index
  <2>1. x \in 0 .. w - 1
    BY <1>1, <1>2
  <2>2. x % w = x
    BY <2>1, ModSmall
  <2> QED
    BY <1>1, <1>2, <2>2
<1>3. CASE ~(i <= index)
  <2>1. PICK y \in 0 .. w - 1 : y = (index + w) - i /\ x = y - w
    <3>1. (index + w) - i \in 0 .. w - 1 /\ x = ((index + w) - i) - w
      BY <1>1, <1>3
    <3> QED
      BY <3>1
  <2>2. y % w = y
    BY ModSmall
  <2>3. (y - w) % w = y % w
    <3>1. y \in Int
      OBVIOUS
    <3> QED
      BY <3>1, ModAround
  <2> QED
    BY <1>1, <1>3, <2>1, <2>2, <2>3
<1> QED
  BY <1>2, <1>3

LEMMA ThreePlaces ==
  ASSUME NEW f \in FiltersOf(3), NEW s \in Seq(Int), Len(s) = 3, NEW c \in Int, Tells(f, s, c, 3)
  PROVE  \/ f.z[0] = c + s[1] /\ f.z[1] = c + s[3] /\ f.z[2] = c + s[2]
         \/ f.z[0] = c + s[2] /\ f.z[1] = c + s[1] /\ f.z[2] = c + s[3]
         \/ f.z[0] = c + s[3] /\ f.z[1] = c + s[2] /\ f.z[2] = c + s[1]
<1>1. f.index = 0 \/ f.index = 1 \/ f.index = 2
  BY DEF FiltersOf
<1>2. /\ f.z[(f.index - 1) % 3] = c + s[1] /\ f.z[(f.index - 2) % 3] = c + s[2]
      /\ f.z[(f.index - 3) % 3] = c + s[3]
  BY DEF Tells
<1>3. \A i \in 1 .. 3 : (f.index - i) % 3 = (IF i <= f.index THEN f.index - i ELSE (f.index + 3) - i)
  <2>1. 3 \in Nat \ {0} /\ f.index \in 0 .. 3 - 1
    BY <1>1
  <2> QED
    BY <2>1, RingPlace
<1>4. CASE f.index = 0
  <2>1. (f.index - 1) % 3 = 2 /\ (f.index - 2) % 3 = 1 /\ (f.index - 3) % 3 = 0
    BY <1>3, <1>4
  <2> QED
    BY <1>2, <1>4, <2>1
<1>5. CASE f.index = 1
  <2>1. (f.index - 1) % 3 = 0 /\ (f.index - 2) % 3 = 2 /\ (f.index - 3) % 3 = 1
    BY <1>3, <1>5
  <2> QED
    BY <1>2, <1>5, <2>1
<1>6. CASE f.index = 2
  <2>1. (f.index - 1) % 3 = 1 /\ (f.index - 2) % 3 = 0 /\ (f.index - 3) % 3 = 2
    BY <1>3, <1>6
  <2> QED
    BY <1>2, <1>6, <2>1
<1> QED
  BY <1>1, <1>4, <1>5, <1>6

LEMMA FivePlaces ==
  ASSUME NEW f \in FiltersOf(5), NEW s \in Seq(Int), Len(s) = 5, NEW c \in Int, Tells(f, s, c, 5)
  PROVE  \/ f.z[0] = c + s[1] /\ f.z[1] = c + s[5] /\ f.z[2] = c + s[4]
            /\ f.z[3] = c + s[3] /\ f.z[4] = c + s[2]
         \/ f.z[0] = c + s[2] /\ f.z[1] = c + s[1] /\ f.z[2] = c + s[5]
            /\ f.z[3] = c + s[4] /\ f.z[4] = c + s[3]
         \/ f.z[0] = c + s[3] /\ f.z[1] = c + s[2] /\ f.z[2] = c + s[1]
            /\ f.z[3] = c + s[5] /\ f.z[4] = c + s[4]
         \/ f.z[0] = c + s[4] /\ f.z[1] = c + s[3] /\ f.z[2] = c + s[2]
            /\ f.z[3] = c + s[1] /\ f.z[4] = c + s[5]
         \/ f.z[0] = c + s[5] /\ f.z[1] = c + s[4] /\ f.z[2] = c + s[3]
            /\ f.z[3] = c + s[2] /\ f.z[4] = c + s[1]
<1>1. f.index = 0 \/ f.index = 1 \/ f.index = 2 \/ f.index = 3 \/ f.index = 4
  BY DEF FiltersOf
<1>2. /\ f.z[(f.index - 1) % 5] = c + s[1] /\ f.z[(f.index - 2) % 5] = c + s[2]
      /\ f.z[(f.index - 3) % 5] = c + s[3] /\ f.z[(f.index - 4) % 5] = c + s[4]
      /\ f.z[(f.index - 5) % 5] = c + s[5]
  BY DEF Tells
<1>3. \A i \in 1 .. 5 : (f.index - i) % 5 = (IF i <= f.index THEN f.index - i ELSE (f.index + 5) - i)
  <2>1. 5 \in Nat \ {0} /\ f.index \in 0 .. 5 - 1
    BY <1>1
  <2> QED
    BY <2>1, RingPlace
<1>4. CASE f.index = 0
  <2>1. /\ (f.index - 1) % 5 = 4 /\ (f.index - 2) % 5 = 3 /\ (f.index - 3) % 5 = 2
        /\ (f.index - 4) % 5 = 1 /\ (f.index - 5) % 5 = 0
    BY <1>3, <1>4
  <2> QED
    BY <1>2, <1>4, <2>1
<1>5. CASE f.index = 1
  <2>1. /\ (f.index - 1) % 5 = 0 /\ (f.index - 2) % 5 = 4 /\ (f.index - 3) % 5 = 3
        /\ (f.index - 4) % 5 = 2 /\ (f.index - 5) % 5 = 1
    BY <1>3, <1>5
  <2> QED
    BY <1>2, <1>5, <2>1
<1>6. CASE f.index = 2
  <2>1. /\ (f.index - 1) % 5 = 1 /\ (f.index - 2) % 5 = 0 /\ (f.index - 3) % 5 = 4
        /\ (f.index - 4) % 5 = 3 /\ (f.index - 5) % 5 = 2
    BY <1>3, <1>6
  <2> QED
    BY <1>2, <1>6, <2>1
<1>7. CASE f.index = 3
  <2>1. /\ (f.index - 1) % 5 = 2 /\ (f.index - 2) % 5 = 1 /\ (f.index - 3) % 5 = 0
        /\ (f.index - 4) % 5 = 4 /\ (f.index - 5) % 5 = 3
    BY <1>3, <1>7
  <2> QED
    BY <1>2, <1>7, <2>1
<1>8. CASE f.index = 4
  <2>1. /\ (f.index - 1) % 5 = 3 /\ (f.index - 2) % 5 = 2 /\ (f.index - 3) % 5 = 1
        /\ (f.index - 4) % 5 = 0 /\ (f.index - 5) % 5 = 4
    BY <1>3, <1>8
  <2> QED
    BY <1>2, <1>8, <2>1
<1> QED
  BY <1>1, <1>4, <1>5, <1>6, <1>7, <1>8

\* A valid median is that of the last angles.
LEMMA ThreeTold ==
  ASSUME NEW f \in FiltersOf(3), NEW s \in Seq(Int), Len(s) = 3, NEW c \in Int, Tells(f, s, c, 3)
  PROVE  /\ Library!Middle(s) \in Int
         /\ Library!Median3(f.z[0], f.z[1], f.z[2]) = c + Library!Middle(s)
<1>1. f.z[0] \in Int /\ f.z[1] \in Int /\ f.z[2] \in Int
  BY DEF FiltersOf
<1>2. PICK m : m = Library!Median3(f.z[0], f.z[1], f.z[2])
  OBVIOUS
<1>3. PICK a \in Int, b \in Int, d \in Int : a = s[1] /\ b = s[2] /\ d = s[3]
  <2>1. s[1] \in Int /\ s[2] \in Int /\ s[3] \in Int
    OBVIOUS
  <2> QED
    BY <2>1
<1>4. DOMAIN s = 1 .. 3
  OBVIOUS
<1> DEFINE o == m - c
           B == Below(s, o)
           A == Above(s, o)
<1>5. /\ m \in Int /\ o \in {a, b, d}
      /\ Less(a, o) + Less(b, o) + Less(d, o) <= 1
      /\ Less(o, a) + Less(o, b) + Less(o, d) <= 1
  <2>1. /\ m \in Int /\ m \in {f.z[0], f.z[1], f.z[2]}
        /\ Less(f.z[0], m) + Less(f.z[1], m) + Less(f.z[2], m) <= 1
        /\ Less(m, f.z[0]) + Less(m, f.z[1]) + Less(m, f.z[2]) <= 1
    <3> DEFINE p == f.z[0]
               q == f.z[1]
               t == f.z[2]
    <3>1. p \in Int /\ q \in Int /\ t \in Int /\ m = Library!Median3(p, q, t)
      BY <1>1, <1>2
    <3> HIDE DEF p, q, t
    <3>2. /\ m \in Int /\ m \in {p, q, t}
          /\ Less(p, m) + Less(q, m) + Less(t, m) <= 1
          /\ Less(m, p) + Less(m, q) + Less(m, t) <= 1
      BY ONLY <3>1, MedianOfThree
    <3> QED
      BY <3>2 DEF p, q, t
  <2>2. \/ f.z[0] = c + a /\ f.z[1] = c + d /\ f.z[2] = c + b
        \/ f.z[0] = c + b /\ f.z[1] = c + a /\ f.z[2] = c + d
        \/ f.z[0] = c + d /\ f.z[1] = c + b /\ f.z[2] = c + a
    BY <1>3, ThreePlaces
  <2> QED
    BY <2>1, <2>2 DEF Less
<1>6. o \in {s[i] : i \in DOMAIN s}
  BY <1>3, <1>4, <1>5
<1>7. 2 * Cardinality(B) < 3
  <2>1. B \in SUBSET (1 .. 3)
    BY <1>4 DEF Below
  <2>2. One(B, 1) = Less(a, o) /\ One(B, 2) = Less(b, o) /\ One(B, 3) = Less(d, o)
    BY <1>3, <1>4 DEF One, Below, Less
  <2>3. Cardinality(B) = One(B, 1) + One(B, 2) + One(B, 3)
    BY <2>1, CountThree
  <2> HIDE DEF B, o
  <2> QED
    BY <1>5, <2>2, <2>3 DEF Less
<1>8. 2 * Cardinality(A) < 3
  <2>1. A \in SUBSET (1 .. 3)
    BY <1>4 DEF Above
  <2>2. One(A, 1) = Less(o, a) /\ One(A, 2) = Less(o, b) /\ One(A, 3) = Less(o, d)
    BY <1>3, <1>4 DEF One, Above, Less
  <2>3. Cardinality(A) = One(A, 1) + One(A, 2) + One(A, 3)
    BY <2>1, CountThree
  <2> HIDE DEF A, o
  <2> QED
    BY <1>5, <2>2, <2>3 DEF Less
<1>9. Library!Middle(s) = o
  <2> HIDE DEF o
  <2> QED
    BY <1>6, <1>7, <1>8, OneMiddle
<1> QED
  BY <1>2, <1>5, <1>9

LEMMA FiveAngles ==
  ASSUME NEW s \in Seq(Int), Len(s) = 5
  PROVE  s \in [1 .. 5 -> Int]
OBVIOUS

LEMMA FiveTold ==
  ASSUME NEW f \in FiltersOf(5), NEW s \in Seq(Int), Len(s) = 5, NEW c \in Int, Tells(f, s, c, 5)
  PROVE  /\ Library!Middle(s) \in Int
         /\ Library!Median5(f.z[0], f.z[1], f.z[2], f.z[3], f.z[4]) = c + Library!Middle(s)
<1>1. f.z[0] \in Int /\ f.z[1] \in Int /\ f.z[2] \in Int /\ f.z[3] \in Int /\ f.z[4] \in Int
  BY DEF FiltersOf
<1>2. PICK m : m = Library!Median5(f.z[0], f.z[1], f.z[2], f.z[3], f.z[4])
  OBVIOUS
<1> DEFINE a == s[1]
           b == s[2]
           d == s[3]
           e == s[4]
           g == s[5]
<1>3. a \in Int /\ b \in Int /\ d \in Int /\ e \in Int /\ g \in Int
  <2>1. s \in [1 .. 5 -> Int]
    BY FiveAngles
  <2>2. \A i \in 1 .. 5 : s[i] \in Int
    BY <2>1
  <2> QED
    BY <2>2
<1>4. DOMAIN s = 1 .. 5
  OBVIOUS
<1> DEFINE o == m - c
           B == Below(s, o)
           A == Above(s, o)
<1>5. /\ m \in Int /\ o \in {a, b, d, e, g}
      /\ Less(a, o) + Less(b, o) + Less(d, o)
         + Less(e, o) + Less(g, o) <= 2
      /\ Less(o, a) + Less(o, b) + Less(o, d)
         + Less(o, e) + Less(o, g) <= 2
  <2>1. /\ m \in Int /\ m \in {f.z[0], f.z[1], f.z[2], f.z[3], f.z[4]}
        /\ Less(f.z[0], m) + Less(f.z[1], m) + Less(f.z[2], m)
           + Less(f.z[3], m) + Less(f.z[4], m) <= 2
        /\ Less(m, f.z[0]) + Less(m, f.z[1]) + Less(m, f.z[2])
           + Less(m, f.z[3]) + Less(m, f.z[4]) <= 2
    <3> DEFINE p == f.z[0]
               q == f.z[1]
               t == f.z[2]
               u == f.z[3]
               v == f.z[4]
    <3>1. /\ p \in Int /\ q \in Int /\ t \in Int /\ u \in Int /\ v \in Int
          /\ m = Library!Median5(p, q, t, u, v)
      BY <1>1, <1>2
    <3> HIDE DEF p, q, t, u, v
    <3>2. /\ m \in Int /\ m \in {p, q, t, u, v}
          /\ Less(p, m) + Less(q, m) + Less(t, m) + Less(u, m) + Less(v, m) <= 2
          /\ Less(m, p) + Less(m, q) + Less(m, t) + Less(m, u) + Less(m, v) <= 2
      BY ONLY <3>1, MedianOfFive
    <3> QED
      BY <3>2 DEF p, q, t, u, v
  <2>2. \/ f.z[0] = c + a /\ f.z[1] = c + g /\ f.z[2] = c + e /\ f.z[3] = c + d /\ f.z[4] = c + b
        \/ f.z[0] = c + b /\ f.z[1] = c + a /\ f.z[2] = c + g /\ f.z[3] = c + e /\ f.z[4] = c + d
        \/ f.z[0] = c + d /\ f.z[1] = c + b /\ f.z[2] = c + a /\ f.z[3] = c + g /\ f.z[4] = c + e
        \/ f.z[0] = c + e /\ f.z[1] = c + d /\ f.z[2] = c + b /\ f.z[3] = c + a /\ f.z[4] = c + g
        \/ f.z[0] = c + g /\ f.z[1] = c + e /\ f.z[2] = c + d /\ f.z[3] = c + b /\ f.z[4] = c + a
    BY FivePlaces
  <2>3. ASSUME NEW x \in Int
        PROVE  /\ Less(c + x, m) = Less(x, o) /\ Less(m, c + x) = Less(o, x)
               /\ Less(x, o) \in Int /\ Less(o, x) \in Int
    BY <2>1 DEF Less
  <2> HIDE DEF a, b, d, e, g
  <2>4. o \in {a, b, d, e, g}
    <3>1. m = c + a \/ m = c + b \/ m = c + d \/ m = c + e \/ m = c + g
      BY <2>1, <2>2
    <3> QED
      BY <1>3, <2>1, <3>1
  <2>5. /\ Less(c + a, m) = Less(a, o) /\ Less(c + b, m) = Less(b, o) /\ Less(c + d, m) = Less(d, o)
        /\ Less(c + e, m) = Less(e, o) /\ Less(c + g, m) = Less(g, o)
        /\ Less(a, o) \in Int /\ Less(b, o) \in Int /\ Less(d, o) \in Int
        /\ Less(e, o) \in Int /\ Less(g, o) \in Int
    BY <1>3, <2>3
  <2>6. /\ Less(m, c + a) = Less(o, a) /\ Less(m, c + b) = Less(o, b) /\ Less(m, c + d) = Less(o, d)
        /\ Less(m, c + e) = Less(o, e) /\ Less(m, c + g) = Less(o, g)
        /\ Less(o, a) \in Int /\ Less(o, b) \in Int /\ Less(o, d) \in Int
        /\ Less(o, e) \in Int /\ Less(o, g) \in Int
    BY <1>3, <2>3
  <2> HIDE DEF o
  <2>7. Less(a, o) + Less(b, o) + Less(d, o) + Less(e, o) + Less(g, o) <= 2
    BY <2>1, <2>2, <2>5
  <2>8. Less(o, a) + Less(o, b) + Less(o, d) + Less(o, e) + Less(o, g) <= 2
    BY <2>1, <2>2, <2>6
  <2> QED
    BY <2>1, <2>4, <2>7, <2>8
<1>6. o \in {s[i] : i \in DOMAIN s}
  BY <1>3, <1>4, <1>5
<1>7. 2 * Cardinality(B) < 5
  <2>1. B \in SUBSET (1 .. 5)
    BY <1>4 DEF Below
  <2>2. /\ One(B, 1) = Less(a, o) /\ One(B, 2) = Less(b, o)
        /\ One(B, 3) = Less(d, o) /\ One(B, 4) = Less(e, o)
        /\ One(B, 5) = Less(g, o)
    BY <1>3, <1>4 DEF One, Below, Less
  <2>3. Cardinality(B) = One(B, 1) + One(B, 2) + One(B, 3) + One(B, 4) + One(B, 5)
    BY <2>1, CountFive
  <2> HIDE DEF B, o
  <2> QED
    BY <1>5, <2>2, <2>3 DEF Less
<1>8. 2 * Cardinality(A) < 5
  <2>1. A \in SUBSET (1 .. 5)
    BY <1>4 DEF Above
  <2>2. /\ One(A, 1) = Less(o, a) /\ One(A, 2) = Less(o, b)
        /\ One(A, 3) = Less(o, d) /\ One(A, 4) = Less(o, e)
        /\ One(A, 5) = Less(o, g)
    BY <1>3, <1>4 DEF One, Above, Less
  <2>3. Cardinality(A) = One(A, 1) + One(A, 2) + One(A, 3) + One(A, 4) + One(A, 5)
    BY <2>1, CountFive
  <2> HIDE DEF A, o
  <2> QED
    BY <1>5, <2>2, <2>3 DEF Less
<1>9. Library!Middle(s) = o
  <2> HIDE DEF o
  <2> QED
    BY <1>6, <1>7, <1>8, OneMiddle
<1> QED
  BY <1>2, <1>5, <1>9

LEMMA FilterTells ==
  ASSUME FilterInv
  PROVE  FollowsTheTurn
<1> DEFINE w == Library!Window(kind)
           c == around.continuous
<1> SUFFICES ASSUME inner.valid, ~(kind = "quick" /\ early)
             PROVE  /\ Len(past) = w
                    /\ (Library!Output(kind, inner) - (Library!Multiple * course + Library!Meant(past)))
                         % (Library!Multiple * Period) = 0
  BY DEF FollowsTheTurn, Library!FollowsTheTurn
<1>1. /\ kind \in Library!Kinds /\ course \in 0 .. Period - 1 /\ past \in Seq(Int)
      /\ inner \in FiltersOf(w) /\ Filled(inner, past, w)
      /\ AroundIs(around, course, kind, inner, past, early)
  BY DEF FilterInv, FilterType
<1>2. ~around.initial
  BY <1>1, NewTells DEF AroundIs
<1>3. Tells(inner, past, c, w) /\ c \in Int /\ (c - course) % Period = 0
  BY <1>1, <1>2 DEF FilterInv, AroundIs
<1>4. Len(past) = w
  BY <1>1 DEF Filled
<1>5. w \in Nat \ {0} /\ Period \in Nat \ {0}
  BY FilterAssumption DEF Library!Window
<1>6. PICK k \in Int : c - course = Period * k
  <2>1. PICK u \in Int : u = c - course
    BY <1>1, <1>3
  <2>2. u = Period * (u \div Period) + (u % Period) /\ u \div Period \in Int /\ u % Period = 0
    BY <1>3, <1>5, <2>1, DivMod
  <2>3. PICK k \in Int : k = u \div Period
    BY <2>2
  <2>4. Period * k \in Int
    BY <1>5
  <2>5. u = Period * k
    BY <2>2, <2>3, <2>4
  <2> QED
    BY <2>1, <2>5
<1>7. CASE kind \in {"average", "quick"}
  <2>1. w = Samples /\ Library!Multiple = Samples /\ Library!Meant(past) = Library!Total(past)
        /\ Library!Output(kind, inner) = inner.sum
    BY <1>7 DEF Library!Window, Library!Multiple, Library!Meant, Library!Output
  <2>2. PICK T \in Int : T = Library!Total(past)
    BY <1>1, TotalInt
  <2>3. inner.sum = w * c + T
    <3>1. inner.sum = (w * c + T) + (w - w) * inner.z[w - 1]
      BY <1>3, <1>4, <2>2 DEF Tells
    <3>2. inner.z[w - 1] \in Int
      BY <1>1, <1>5 DEF FiltersOf
    <3>3. (w - w) * inner.z[w - 1] = 0
      BY <1>5, <3>2
    <3>4. w * c \in Int
      BY <1>3, <1>5
    <3> QED
      BY <2>2, <3>1, <3>3, <3>4
  <2>4. inner.sum - (w * course + T) = (w * Period) * k
    <3>1. w * (c - course) = w * c - w * course
      BY <1>1, <1>3, <1>5
    <3>2. w * (Period * k) = (w * Period) * k
      BY <1>5
    <3>3. PICK a \in Int, b \in Int : a = w * c /\ b = w * course
      BY <1>1, <1>3, <1>5
    <3>4. w * (c - course) = w * (Period * k)
      BY <1>6
    <3>5. inner.sum - (w * course + T) = a - b
      BY <2>3, <3>3
    <3> QED
      BY <3>1, <3>2, <3>3, <3>4, <3>5
  <2>5. w * Period \in Nat \ {0}
    BY <1>5
  <2>6. ((w * Period) * k) % (w * Period) = 0
    BY <2>5, Multiples
  <2> QED
    BY <1>4, <2>1, <2>2, <2>4, <2>6
<1>8. CASE kind \in {"median3", "median5"}
  <2>1. Library!Multiple = 1 /\ Library!Meant(past) = Library!Middle(past)
    BY <1>8 DEF Library!Multiple, Library!Meant
  <2>2. Library!Middle(past) \in Int /\ Library!Output(kind, inner) = c + Library!Middle(past)
    <3>1. CASE kind = "median3"
      <4>1. w = 3 /\ Library!Output(kind, inner) = Library!Median3(inner.z[0], inner.z[1], inner.z[2])
        BY <3>1 DEF Library!Window, Library!Output
      <4>2. inner \in FiltersOf(3) /\ Len(past) = 3 /\ Tells(inner, past, c, 3)
        BY <1>1, <1>3, <1>4, <4>1
      <4> QED
        BY <1>1, <1>3, <4>1, <4>2, ThreeTold
    <3>2. CASE kind = "median5"
      <4>1. w = 5 /\ Library!Output(kind, inner)
                     = Library!Median5(inner.z[0], inner.z[1], inner.z[2], inner.z[3], inner.z[4])
        BY <3>2 DEF Library!Window, Library!Output
      <4>2. inner \in FiltersOf(5) /\ Len(past) = 5 /\ Tells(inner, past, c, 5)
        BY <1>1, <1>3, <1>4, <4>1
      <4> QED
        BY <1>1, <1>3, <4>1, <4>2, FiveTold
    <3> QED
      BY <1>8, <3>1, <3>2
  <2>3. Library!Output(kind, inner) - (1 * course + Library!Middle(past)) = (1 * Period) * k
    BY <1>1, <1>3, <1>5, <1>6, <2>2
  <2>4. 1 * Period = Period /\ (Period * k) % Period = 0
    BY <1>5, Multiples
  <2> QED
    BY <1>4, <2>1, <2>3, <2>4
<1> QED
  BY <1>1, <1>7, <1>8 DEF Library!Kinds

\* However often the boat has turned round, for every measure of a turn, every length of the
\* averages and all turns of at most half of one, a filter that says it is valid tells the
\* average, or the median, of the last headings and of nothing else
\* (wrap_around_filter.cc:27-66, median_n.cc:5-88).
THEOREM FiltersTell == MCSpec => []FollowsTheTurn
<1>1. MCInit => FilterInv
  BY FilterStarts DEF MCInit
<1>2. FilterInv /\ [ShipMoves \/ BlockMoves \/ LibraryMoves]_<<subject, vars, blockVars, filterVars>> => FilterInv'
  <2> SUFFICES ASSUME FilterInv, [ShipMoves \/ BlockMoves \/ LibraryMoves]_<<subject, vars, blockVars, filterVars>>
               PROVE  FilterInv'
    OBVIOUS
  <2>1. CASE Library!Next
    BY <2>1, FilterGoesOn
  <2>2. CASE UNCHANGED filterVars
    BY <2>2 DEF filterVars, FilterInv, FilterType
  <2> QED
    BY <2>1, <2>2 DEF ShipMoves, BlockMoves, LibraryMoves
<1>3. FilterInv => FollowsTheTurn
  BY FilterTells
<1> QED
  BY <1>1, <1>2, <1>3, PTL DEF MCSpec
=============================================================================
