--------------------------- MODULE HelmsmanProofs ---------------------------
(***************************************************************************)
(* Proofs about Helmsman for all time-outs, hold-ups and settings of the   *)
(* clock, and about what its controllers compute, as MCHelmsman runs it,   *)
(* for all time limits of the test of the drives and of the sail.          *)
(***************************************************************************)
EXTENDS MCHelmsman, Sequences, Counting

\* The mode and the state machine never disagree.
Agreed == meta_state = MetaOf(control_mode)

\* The clock runs with the true time but for the settings.
ClockInv ==
  /\ silence <= age + setBack
  /\ age <= silence + setAhead

\* Both deadlines: what was still in time at the last complete turn of the
\* loop is late by the time since then only.
DeadlineInv ==
  /\ control_mode \in Watched => silence <= TimeOut + setBack + held
  /\ due + gap <= 1 + setBack
  /\ gap <= setBack + held

\* Each step of a burst moves the next call ahead.
BurstInv ==
  /\ burst > 0 => burst <= 1 + due + setAhead
  /\ burst <= 2 + setAhead

IInv == TypeOK /\ Agreed /\ ClockInv /\ DeadlineInv /\ BurstInv

\* What the fail-safe leaves: mode and meta state agree, and an operator is
\* given up only when the last line is older than the time-out.
LEMMA FailSafeFacts ==
  ASSUME IInv
  PROVE  /\ FailSafeMode \in Modes /\ FailSafeMeta \in MetaStates
         /\ FailSafeMeta = MetaOf(FailSafeMode)
         /\ FailSafeMode \in Watched => control_mode \in Watched /\ age <= TimeOut
         /\ FailSafeMode # control_mode => age > TimeOut /\ FailSafeMode = "kBrakeControlMode"
BY HelmsmanAssumption
   DEF IInv, TypeOK, Agreed, FailSafeMode, FailSafeMeta, Abandoned, MetaOf, Modes,
       MetaStates, Watched

\* The invariant holds initially.
LEMMA InitIInv == Init => IInv
<1> SUFFICES ASSUME Init PROVE IInv
  OBVIOUS
<1> USE HelmsmanAssumption
<1>1. /\ meta_state \in MetaStates /\ controller \in Controllers
      /\ control_mode \in Modes /\ heading \in Headings
      /\ control_mode \notin Watched /\ Agreed
  BY DEF Init, StatesInit, FirstHeading, Headings, Agreed, MetaOf, Modes, MetaStates, Controllers, Watched
<1>2. /\ age = 0 /\ due = 1 /\ timeout = 1 /\ loops = 0 /\ held = 0 /\ silence = 0 /\ gap = 0
      /\ burst = 0 /\ setBack = 0 /\ setAhead = 0 /\ lost = 0
      /\ query \in BOOLEAN /\ settled \in BOOLEAN /\ sent = "nothing"
  BY DEF Init
<1>3. TypeOK
  BY <1>1, <1>2 DEF TypeOK
<1> QED
  BY <1>1, <1>2, <1>3 DEF IInv, ClockInv, DeadlineInv, BurstInv

\* A line of the remote control keeps the invariant.
LEMMA RemoteStep ==
  ASSUME IInv, NEW command \in Modes \cup {"illegal"}, NEW alpha \in {"operator", "NaN"},
         Remote(command, alpha)
  PROVE  IInv'
<1> USE HelmsmanAssumption
<1>1. /\ control_mode' \in Modes /\ meta_state' = MetaOf(control_mode')
      /\ meta_state' \in MetaStates /\ controller' = controller
  BY DEF Remote, Command, IInv, TypeOK, Agreed, Modes, MetaOf, MetaStates
<1>2. heading' \in Headings
  BY DEF Remote, IInv, TypeOK, Headings
<1>3. /\ age' = 0 /\ silence' = 0
      /\ UNCHANGED <<loops, query, sent, due, timeout, held, gap, burst, environment>>
  BY DEF Remote
<1> QED
  BY <1>1, <1>2, <1>3
     DEF IInv, TypeOK, Agreed, ClockInv, DeadlineInv, BurstInv, environment

\* So do the steps of skipper and bus, and the settling of the environment.
LEMMA QuietSteps ==
  ASSUME IInv, SkipperAnswers \/ LineLost \/ Settle \/ UNCHANGED vars
  PROVE  IInv' /\ UNCHANGED control_mode
<1> USE HelmsmanAssumption
        DEF IInv, TypeOK, Agreed, ClockInv, DeadlineInv, BurstInv, environment, timing, loop
<1>1. CASE SkipperAnswers
  <2>1. heading' \in Headings /\ query' \in BOOLEAN
    BY <1>1 DEF SkipperAnswers, Headings
  <2> QED
    BY <1>1, <2>1 DEF SkipperAnswers
<1>2. CASE LineLost
  <2>1. lost < MaxLoss /\ lost' = lost + 1
    BY <1>2 DEF LineLost
  <2>2. lost' \in 0..MaxLoss
    BY <2>1
  <2> QED
    BY <1>2, <2>2 DEF LineLost
<1>3. CASE Settle
  BY <1>3 DEF Settle
<1>4. CASE UNCHANGED vars
  BY <1>4 DEF vars
<1> QED
  BY <1>1, <1>2, <1>3, <1>4

\* A turn without a control step.
LEMMA WakeStep ==
  ASSUME IInv, Wake
  PROVE  IInv'
<1> USE HelmsmanAssumption
<1>1. /\ control_mode' = FailSafeMode /\ meta_state' = FailSafeMeta
      /\ due > 0 /\ timeout' = 1 /\ held' = 0
      /\ UNCHANGED <<controller, heading, loops, query, sent, age, due, silence, gap, burst,
                     environment>>
  BY DEF Wake, UntilCall, IInv, TypeOK
<1>2. TypeOK' /\ Agreed'
  BY <1>1, FailSafeFacts DEF IInv, TypeOK, Agreed, environment
<1>3. DeadlineInv'
  BY <1>1, FailSafeFacts DEF IInv, TypeOK, ClockInv, DeadlineInv, environment
<1> QED
  BY <1>1, <1>2, <1>3 DEF IInv, ClockInv, BurstInv, environment

\* A turn with a control step, and whose reference it sends.
LEMMA ControlStepStep ==
  ASSUME IInv, NEW ready \in BOOLEAN, NEW located \in BOOLEAN, ControlStep(ready, located)
  PROVE  IInv' /\ sent' \in Allowed(control_mode')
<1> USE HelmsmanAssumption
<1>1. /\ control_mode' = FailSafeMode /\ meta_state' = FailSafeMeta
      /\ due <= 0 /\ due' = NextDue /\ timeout' = 0
      /\ held' = 0 /\ gap' = 0 /\ burst' = burst + 1
      /\ loops' = (loops + 1) % QueryEvery
      /\ query' \in BOOLEAN
      /\ sent' = IF controller' = "idle" THEN "nothing" ELSE controller'
      /\ UNCHANGED <<heading, age, silence, environment>>
  BY DEF ControlStep, UntilCall, IInv, TypeOK
<1>2. due' \in Int /\ due' <= 1 /\ due' >= 0 /\ due' >= due + 1
  BY <1>1 DEF NextDue, IInv, TypeOK
<1>3. loops' \in 0..(QueryEvery - 1)
  BY <1>1 DEF IInv, TypeOK
<1>4. controller' \in Controllers /\ sent' \in Allowed(control_mode')
  BY <1>1, FailSafeFacts
     DEF ControlStep, NextController, MetaOf, Modes, Allowed, Controllers, IInv
<1>5. sent' \in (Controllers \ {"idle"}) \cup {"nothing"}
  BY <1>1, <1>4
<1>6. TypeOK' /\ Agreed'
  BY <1>1, <1>2, <1>3, <1>4, <1>5, FailSafeFacts DEF IInv, TypeOK, Agreed, environment
<1>7. DeadlineInv'
  BY <1>1, <1>2, FailSafeFacts DEF IInv, TypeOK, ClockInv, DeadlineInv, environment
<1>8. BurstInv'
  BY <1>1, <1>2 DEF IInv, TypeOK, BurstInv, environment
<1> QED
  BY <1>1, <1>4, <1>6, <1>7, <1>8 DEF IInv, ClockInv, environment

\* The passing of time.
LEMMA TickStep ==
  ASSUME IInv, Tick
  PROVE  IInv'
<1> USE HelmsmanAssumption
<1>1. /\ held < timeout + Slack /\ held' = held + 1 /\ due' = due - 1
      /\ gap' = gap + 1 /\ burst' = 0
      /\ \/ control_mode \in Watched /\ age' = age + 1 /\ silence' = silence + 1
         \/ control_mode \notin Watched /\ age' = age /\ silence' = silence
      /\ UNCHANGED <<meta_state, controller, loop, timeout, environment>>
  BY DEF Tick
<1>2. TypeOK' /\ Agreed'
  BY <1>1 DEF IInv, TypeOK, Agreed, loop, environment
<1>3. ClockInv' /\ DeadlineInv' /\ BurstInv'
  BY <1>1 DEF IInv, TypeOK, ClockInv, DeadlineInv, BurstInv, loop, environment
<1> QED
  BY <1>2, <1>3 DEF IInv

\* The setting of the clock.
LEMMA ClockStep ==
  ASSUME IInv, NEW d \in -MaxShift..MaxShift, ClockSet(d)
  PROVE  IInv'
<1> USE HelmsmanAssumption
<1>1. /\ due' = due - d
      /\ age' = age + d \/ (age' = age /\ control_mode \notin Watched)
      /\ \/ d < 0 /\ setBack' = setBack - d /\ setAhead' = setAhead
         \/ d >= 0 /\ setAhead' = setAhead + d /\ setBack' = setBack
      /\ setBack' + setAhead' <= MaxShift
      /\ UNCHANGED <<meta_state, controller, loop, timeout, held, silence, gap, burst,
                     settled, lost>>
  BY DEF ClockSet
<1>2. TypeOK' /\ Agreed'
  BY <1>1 DEF IInv, TypeOK, Agreed, loop
<1>3. ClockInv' /\ DeadlineInv' /\ BurstInv'
  BY <1>1 DEF IInv, TypeOK, ClockInv, DeadlineInv, BurstInv, loop
<1> QED
  BY <1>2, <1>3 DEF IInv

LEMMA NextIInv == IInv /\ [Next]_vars => IInv'
<1> SUFFICES ASSUME IInv, [Next]_vars PROVE IInv'
  OBVIOUS
<1>1. CASE Turn
  BY <1>1, WakeStep, ControlStepStep DEF Turn
<1> QED
  BY <1>1, RemoteStep, QuietSteps, TickStep, ClockStep DEF Next

-----------------------------------------------------------------------------
\* Helmsman has the declared types.
THEOREM TypeCorrect == Spec => []TypeOK
<1>1. IInv => TypeOK
  BY DEF IInv
<1> QED
  BY <1>1, InitIInv, NextIInv, PTL DEF Spec

\* The modes that need an operator end when the operator is silent.
THEOREM NobodyLeftIdling == Spec => []SilentOperator
<1>1. IInv => SilentOperator
  BY HelmsmanAssumption DEF IInv, TypeOK, DeadlineInv, SilentOperator, Watched
<1> QED
  BY <1>1, InitIInv, NextIInv, PTL DEF Spec

\* The ship control runs in time, but for the time the clock was set back.
THEOREM InTime == Spec => []ControlledInTime
<1>1. IInv => ControlledInTime
  BY HelmsmanAssumption DEF IInv, TypeOK, DeadlineInv, ControlledInTime
<1> QED
  BY <1>1, InitIInv, NextIInv, PTL DEF Spec

\* No burst of control steps follows a hold-up.
THEOREM NoBurst == Spec => []CatchesUpOnce
<1>1. IInv => CatchesUpOnce
  BY DEF IInv, BurstInv, CatchesUpOnce
<1> QED
  BY <1>1, InitIInv, NextIInv, PTL DEF Spec

\* Every control step obeys the mode in force.
THEOREM ModesObeyed == Spec => ModeDecides
<1>1. IInv => [ControlSteps => sent' \in Allowed(control_mode')]_vars
  BY ControlStepStep DEF ControlSteps
<1> QED
  BY <1>1, InitIInv, NextIInv, PTL DEF Spec, ModeDecides

\* The operator is not cut off before the time-out.
THEOREM OperatorHasTime == Spec => FailSafePatient
<1>1. IInv => [Turn /\ control_mode' # control_mode => silence + setAhead > TimeOut]_vars
  <2> SUFFICES ASSUME IInv, Turn, control_mode' # control_mode
               PROVE  silence + setAhead > TimeOut
    OBVIOUS
  <2>1. control_mode' = FailSafeMode
    BY DEF Turn, Wake, ControlStep
  <2>2. age > TimeOut
    BY <2>1, FailSafeFacts
  <2> QED
    BY <2>2, HelmsmanAssumption DEF IInv, TypeOK, ClockInv
<1> QED
  BY <1>1, InitIInv, NextIInv, PTL DEF Spec, FailSafePatient

\* A heading set by the operator outlives whatever answers are under way.
THEOREM OperatorKeepsCourse == Spec => OverrideKeepsHeading
<1> DEFINE Keeps == control_mode = "kOverrideSkipperMode" /\ control_mode' = "kOverrideSkipperMode"
                      /\ heading = "operator" => heading' = "operator"
<1>1. ASSUME Next PROVE Keeps
  <2>1. CASE \E command \in Modes \cup {"illegal"}, alpha \in {"operator", "NaN"} : Remote(command, alpha)
    BY <2>1 DEF Remote
  <2>2. CASE SkipperAnswers
    BY <2>2 DEF SkipperAnswers
  <2>3. CASE LineLost \/ Tick \/ Settle
    BY <2>3 DEF LineLost, Tick, Settle, loop
  <2>4. CASE Turn
    BY <2>4 DEF Turn, Wake, ControlStep
  <2>5. CASE \E d \in -MaxShift..MaxShift : ClockSet(d)
    BY <2>5 DEF ClockSet, loop
  <2> QED
    BY <1>1, <2>1, <2>2, <2>3, <2>4, <2>5 DEF Next
<1>2. [Next]_vars => [Keeps]_vars
  BY <1>1
<1> QED
  BY <1>2, PTL DEF Spec, OverrideKeepsHeading

-----------------------------------------------------------------------------
(* The test of the drives (TestController).                                *)

\* The steps of the drive tests are done in order, each with what was set up for it,
\* and the homing forgets the steps done before.
TestInv ==
  /\ phase \in {"HOME", "ZERO", "DRIVE_TESTS", "ZERO_2", "WIND_SENSOR", "DONE", "FAILED"}
  /\ count \in Nat
  /\ phase # "DRIVE_TESTS" => test_index = 1
  /\ phase = "ZERO" => tested = {}
  /\ phase = "DRIVE_TESTS" =>
       /\ test_index \in 1..6
       /\ tested = {<<i, i>> : i \in 1..(test_index - 1)}
       /\ count > 1 => set_up = test_index
  /\ EveryDriveTested

LEMMA TestSteps == Tests!Tests = 1..6
BY DEF Tests!Tests, Tests!test_param

\* A step of the drive tests.
LEMMA DriveTestStep ==
  ASSUME TestInv, NEW in \in Tests!Findings, Tests!DoDriveTest(in)
  PROVE  TestInv'
<1>1. /\ phase = "DRIVE_TESTS" /\ test_index \in 1..6 /\ count \in Nat
      /\ tested = {<<i, i>> : i \in 1..(test_index - 1)}
      /\ set_up' = test_index
  BY DEF TestInv, Tests!DoDriveTest
<1>2. CASE Tests!Until(100, DriveTimeout)
  <2>1. phase' = phase /\ count' \in Nat /\ UNCHANGED <<test_index, tested>>
    BY <1>1, <1>2 DEF Tests!DoDriveTest, Tests!Stay
  <2> QED
    BY <1>1, <2>1 DEF TestInv, EveryDriveTested, Tests!EveryDriveTested
<1>3. CASE ~Tests!Until(100, DriveTimeout)
  <2>1. tested' = tested \cup {<<test_index, test_index>>}
    BY <1>1, <1>3 DEF Tests!DoDriveTest, TestInv
  <2>2. tested' = {<<i, i>> : i \in 1..test_index}
    BY <1>1, <2>1
  <2>3. CASE test_index + 1 \in 1..6
    <3>1. test_index' = test_index + 1 /\ phase' = phase /\ count' = 1
      BY <1>3, <2>3, TestSteps DEF Tests!DoDriveTest
    <3>2. tested' = {<<i, i>> : i \in 1..(test_index' - 1)}
      BY <1>1, <2>2, <3>1
    <3> QED
      BY <1>1, <2>3, <3>1, <3>2 DEF TestInv, EveryDriveTested, Tests!EveryDriveTested
  <2>4. CASE test_index + 1 \notin 1..6
    <3>1. test_index' = 1 /\ phase' = "ZERO_2" /\ count' = 1
      BY <1>3, <2>4, TestSteps DEF Tests!DoDriveTest, Tests!NextPhase
    <3>2. test_index = 6
      BY <1>1, <2>4
    <3> QED
      BY <2>2, <3>1, <3>2, TestSteps DEF TestInv, EveryDriveTested, Tests!EveryDriveTested
  <2> QED
    BY <2>3, <2>4
<1> QED
  BY <1>2, <1>3

\* Every step of the test keeps the invariant.
LEMMA TestStep ==
  ASSUME TestInv, [Tests!Run]_testing
  PROVE  TestInv'
<1> USE DEF TestInv, EveryDriveTested, Tests!EveryDriveTested, Tests!NextPhase, Tests!Stay, Tests!tests
<1>1. ASSUME NEW in \in Tests!Findings, Tests!Home(in) PROVE TestInv'
  BY <1>1 DEF Tests!Home
<1>2. ASSUME NEW in \in Tests!Findings, Tests!Zero(in) PROVE TestInv'
  BY <1>2 DEF Tests!Zero
<1>3. ASSUME NEW in \in Tests!Findings, Tests!Zero2(in) PROVE TestInv'
  BY <1>3 DEF Tests!Zero2
<1>4. ASSUME NEW in \in Tests!Findings, Tests!DoWindTest(in) PROVE TestInv'
  BY <1>4 DEF Tests!DoWindTest
<1>5. CASE Tests!Finished \/ Tests!Failed
  BY <1>5 DEF Tests!Finished, Tests!Failed
<1>6. CASE UNCHANGED testing
  BY <1>6 DEF testing
<1> QED
  BY <1>1, <1>2, <1>3, <1>4, <1>5, <1>6, DriveTestStep DEF Tests!Run

\* The test ends, other than in the failure state, only when every step of the drive tests was done since the drives
\* were homed last, each measured with what was set up for it; not that the steps passed, which the code forgets
\* (test_controller.cc:148).
THEOREM AllTested == MCSpec => []EveryDriveTested
<1>1. MCInit => TestInv
  BY DEF MCInit, Tests!Init, TestInv, EveryDriveTested, Tests!EveryDriveTested
<1>2. TestInv /\ [MCNext]_<<subject, vars, turning, trimming, testing, telling, watching>> => TestInv'
  BY TestStep DEF MCNext, LoopMoves, BoatTurns, SailIsTrimmed, DrivesAreTested,
       StatusIsTold, BusIsWatched, WatchIsOver
<1>3. TestInv => EveryDriveTested
  BY DEF TestInv
<1> QED
  BY <1>1, <1>2, <1>3, PTL DEF MCSpec

-----------------------------------------------------------------------------
(* The trim of the sail (SailTrim).                                        *)

\* The delay is counted from the last change of the mode at the earliest.
TrimInv ==
  /\ mode \in {"WING", "SPINNAKER"} /\ app_sign \in {-1, 1}
  /\ delay_counter \in Int /\ since \in Nat
  /\ delay_counter <= since \/ since > Delay

\* What the choice of the mode leads to: another mode after the delay or for a wind that
\* asks for it, and a count that is reset, or one more.
LEMMA ModeChosen ==
  ASSUME TrimInv, NEW a, NEW w,
         mode' = Sails!BestStabilizedMode(mode, delay_counter, a, w).mode,
         delay_counter' = Sails!BestStabilizedMode(mode, delay_counter, a, w).count,
         since' = IF mode' # mode THEN 0 ELSE IF since > Delay THEN since ELSE since + 1
  PROVE  /\ mode' \in {"WING", "SPINNAKER"}
         /\ delay_counter' \in Int /\ since' \in Nat
         /\ delay_counter' <= since' \/ since' > Delay
         /\ mode' # mode => \/ since >= Delay \/ w > Sails!kSpinakkerLimit
                            \/ Sails!FarBeyond(mode, a)
BY TrimAssumption DEF TrimInv, Sails!BestStabilizedMode, Sails!Switched

\* Every step of the trim keeps the invariant, and does not flap.
LEMMA TrimStep ==
  ASSUME TrimInv, Sails!Next
  PROVE  /\ TrimInv'
         /\ mode' # mode => \/ since >= Delay
                            \/ speed' > Sails!kSpinakkerLimit
                            \/ \E sign \in {-1, 1}, a \in {angle', Sails!Opposite(angle')} :
                                  Sails!FarBeyond(mode, Sails!OnSide(a, sign))
                            \/ Sails!Reset
<1>1. CASE Sails!Trim
  <2>1. PICK a \in Sails!Signed, w \in Speeds :
          angle' = a /\ speed' = w /\ UNCHANGED app_sign /\ Sails!StableGammaSail(a, w, app_sign)
    BY <1>1 DEF Sails!Trim
  <2> QED
    BY <2>1, ModeChosen DEF Sails!StableGammaSail, TrimInv
<1>2. CASE Sails!SetAppSign
  <2>1. app_sign' \in {-1, 1}
    BY <1>2 DEF Sails!SetAppSign, TrimInv
  <2> QED
    BY <1>2, <2>1, ModeChosen DEF Sails!SetAppSign, Sails!StableGammaSail, TrimInv
<1>3. CASE Sails!ReverseGammaSail
  <2>1. app_sign' \in {-1, 1} /\ -app_sign \in {-1, 1} /\ speed' = speed /\ angle' = angle
    BY <1>3 DEF Sails!ReverseGammaSail, TrimInv
  <2>2. CASE speed = 0
    BY <1>3, <2>1, <2>2 DEF Sails!ReverseGammaSail, TrimInv
  <2>3. CASE speed # 0
    <3> DEFINE side == Sails!OnSide(Sails!Opposite(angle), -app_sign)
    <3>1. /\ mode' = Sails!BestStabilizedMode(mode, delay_counter, side, speed).mode
          /\ delay_counter' = Sails!BestStabilizedMode(mode, delay_counter, side, speed).count
          /\ since' = IF mode' # mode THEN 0 ELSE IF since > Delay THEN since ELSE since + 1
      BY <1>3, <2>3 DEF Sails!ReverseGammaSail
    <3>2. /\ mode' \in {"WING", "SPINNAKER"}
          /\ delay_counter' \in Int /\ since' \in Nat
          /\ delay_counter' <= since' \/ since' > Delay
          /\ mode' # mode => \/ since >= Delay \/ speed > Sails!kSpinakkerLimit
                             \/ Sails!FarBeyond(mode, side)
      BY <3>1, ModeChosen
    <3> QED
      BY <2>1, <3>2 DEF TrimInv
  <2> QED
    BY <2>2, <2>3
<1>4. CASE Sails!Reset
  BY <1>4 DEF Sails!Reset, TrimInv
<1> QED
  BY <1>1, <1>2, <1>3, <1>4 DEF Sails!Next

\* The sail does not flap between wing and spinnaker.
THEOREM SailIsSteady == MCSpec => NoFlapping
<1> DEFINE Steady ==
      mode' # mode => \/ since >= Delay
                      \/ speed' > Sails!kSpinakkerLimit
                      \/ \E sign \in {-1, 1}, a \in {angle', Sails!Opposite(angle')} :
                            Sails!FarBeyond(mode, Sails!OnSide(a, sign))
                      \/ Sails!Reset
<1>1. MCInit => TrimInv
  BY TrimAssumption DEF MCInit, Sails!Init, TrimInv
<1>2. TrimInv /\ [MCNext]_<<subject, vars, turning, trimming, testing, telling, watching>> => TrimInv' /\ [Steady]_(Sails!vars)
  <2> SUFFICES ASSUME TrimInv, [MCNext]_<<subject, vars, turning, trimming, testing, telling, watching>>
               PROVE  TrimInv' /\ [Steady]_(Sails!vars)
    OBVIOUS
  <2>1. CASE Sails!Next
    BY <2>1, TrimStep
  <2>2. CASE UNCHANGED trimming
    BY <2>2 DEF TrimInv, trimming, Sails!vars
  <2> QED
    BY <2>1, <2>2 DEF MCNext, LoopMoves, BoatTurns, SailIsTrimmed, DrivesAreTested,
       StatusIsTold, BusIsWatched, WatchIsOver
<1> QED
  BY <1>1, <1>2, PTL DEF MCSpec, NoFlapping, Sails!NoFlapping
-----------------------------------------------------------------------------
(* Where the drives are (DriveSts).                                        *)

\* Stamps and the times the code keeps are off the true time by what the clock was set;
\* who is active was told of within its longest time before the last line.
StatusInv ==
  /\ time \in Nat /\ ahead \in Nat /\ back \in Nat /\ last_line \in Nat /\ last_line <= time
  /\ up \in BOOLEAN /\ (up => time - last_line <= Gap)
  /\ homed \in [Status!Rudders -> BOOLEAN]
  /\ started \in [Status!Drives -> Int] /\ told \in [Status!Drives -> Nat]
  /\ readings \subseteq [age : Nat, us : Int]
  /\ \A r \in readings : r.age <= Lag /\ time - r.age - back <= r.us /\ r.us <= time + ahead
  /\ \A d \in Status!Drives : /\ told[d] - Lag - back <= started[d] /\ started[d] <= told[d] + ahead
                              /\ Status!Active(d, homed) =>
                                    last_line - Lag - back <= started[d] + Status!KeepAlive(d)

\* A line leaves nobody behind and tells of nobody too soon.
LEMMA StatusRead ==
  ASSUME StatusInv, NEW line \in Status!Lines, NEW r \in readings, Status!ReadLine(line, r.us)
  PROVE  StatusInv' /\ Status!NotTooOften
<1> USE StatusAssumption
<1>1. /\ time' = time /\ ahead' = ahead /\ back' = back /\ readings' = readings /\ up' = up /\ last_line' = time
      /\ homed' = Status!HomedBy(line)
      /\ r.us \in Int /\ time - Lag - back <= r.us /\ r.us <= time + ahead
      /\ started' = [d \in Status!Drives |-> IF d \in Status!Printed(line, r.us) THEN r.us ELSE started[d]]
      /\ told' = [d \in Status!Drives |-> IF d \in Status!Printed(line, r.us) THEN time ELSE told[d]]
  BY DEF Status!ReadLine, StatusInv
<1>2. homed' \in [Status!Rudders -> BOOLEAN]
  BY <1>1 DEF Status!HomedBy, Status!Lines, StatusInv
<1>3. ASSUME NEW d \in Status!Drives
      PROVE  /\ told'[d] - Lag - back <= started'[d] /\ started'[d] <= told'[d] + ahead
             /\ Status!Active(d, homed') => time - Lag - back <= started'[d] + Status!KeepAlive(d)
             /\ started'[d] # started[d] => time - told[d] > MinUs - Lag - ahead - back
  <2>1. /\ started[d] \in Int /\ told[d] \in Nat /\ time \in Nat /\ ahead \in Nat /\ back \in Nat
        /\ told[d] - Lag - back <= started[d] /\ started[d] <= told[d] + ahead
        /\ Status!KeepAlive(d) \in Nat /\ Status!KeepAlive(d) >= MinUs
    BY DEF StatusInv, Status!KeepAlive
  <2>2. CASE d \in Status!Printed(line, r.us)
    <3>1. r.us > started[d] + MinUs
      BY <1>1, <2>1, <2>2 DEF Status!Printed
    <3>2. started'[d] = r.us /\ told'[d] = time
      BY <1>1, <2>2
    <3> QED
      BY <1>1, <2>1, <3>1, <3>2
  <2>3. CASE d \notin Status!Printed(line, r.us)
    <3>1. started'[d] = started[d] /\ told'[d] = told[d]
      BY <1>1, <2>3
    <3>2. Status!Active(d, homed') => r.us <= started[d] + Status!KeepAlive(d)
      BY <1>1, <2>1, <2>3 DEF Status!Printed
    <3> QED
      BY <1>1, <2>1, <3>1, <3>2
  <2> QED
    BY <2>2, <2>3
<1>4. started' \in [Status!Drives -> Int] /\ told' \in [Status!Drives -> Nat]
  BY <1>1 DEF StatusInv
<1>5. StatusInv'
  BY <1>1, <1>2, <1>3, <1>4 DEF StatusInv, Status!Active, Status!KeepAlive
<1>6. Status!NotTooOften
  BY <1>3 DEF Status!NotTooOften, Status!Tolerance, StatusInv
<1> QED
  BY <1>5, <1>6

\* Time and the clock move on together with what may still arrive.
LEMMA StatusStep ==
  ASSUME StatusInv, Status!Next \/ UNCHANGED telling
  PROVE  StatusInv' /\ (Status!NotTooOften \/ UNCHANGED Status!vars)
<1> USE StatusAssumption
<1>1. CASE \E line \in Status!Lines, r \in readings : Status!ReadLine(line, r.us)
  BY <1>1, StatusRead
<1>2. ASSUME started' = started, told' = told, homed' = homed, last_line' = last_line, StatusInv'
      PROVE  StatusInv' /\ Status!NotTooOften
  BY <1>2 DEF Status!NotTooOften
<1>3. CASE \E by \in 1 .. MaxSet - ahead - back : Status!SetAhead(by) \/ Status!SetBack(by)
  <2>1. PICK by \in 1 .. MaxSet - ahead - back : Status!SetAhead(by) \/ Status!SetBack(by)
    BY <1>3
  <2>2. by \in Nat
    BY <2>1, WatchAssumption DEF StatusInv
  <2>3. CASE Status!SetAhead(by)
    <3>1. StatusInv'
      BY <2>2, <2>3 DEF Status!SetAhead, Status!Reads, Status!clock, StatusInv, Status!Active, Status!KeepAlive
    <3> QED
      BY <3>1, <2>3, <1>2 DEF Status!SetAhead
  <2>4. CASE Status!SetBack(by)
    <3>1. StatusInv'
      BY <2>2, <2>4 DEF Status!SetBack, Status!Reads, Status!clock, StatusInv, Status!Active, Status!KeepAlive
    <3> QED
      BY <3>1, <2>4, <1>2 DEF Status!SetBack
  <2> QED
    BY <2>1, <2>3, <2>4
<1>4. CASE Status!Tick
  <2>1. /\ time' = time + 1 /\ UNCHANGED <<ahead, back, homed, started, up, told, last_line>>
        /\ up => time - last_line < Gap
        /\ readings' = {[q EXCEPT !.age = @ + 1] : q \in {p \in readings : p.age < Lag}}
                         \cup {Status!Reads(Status!clock + 1)}
    BY <1>4 DEF Status!Tick
  <2>2. \A r \in readings' : /\ r \in [age : Nat, us : Int] /\ r.age <= Lag
                             /\ time' - r.age - back <= r.us /\ r.us <= time' + ahead
    <3>1. ASSUME NEW q \in readings, q.age < Lag
          PROVE  LET r == [q EXCEPT !.age = @ + 1]
                 IN  /\ r \in [age : Nat, us : Int] /\ r.age <= Lag
                     /\ time' - r.age - back <= r.us /\ r.us <= time' + ahead
      <4>1. /\ q \in [age : Nat, us : Int]
            /\ time - q.age - back <= q.us /\ q.us <= time + ahead
        BY <3>1 DEF StatusInv
      <4>2. [q EXCEPT !.age = @ + 1] = [age |-> q.age + 1, us |-> q.us]
        BY <4>1
      <4> QED
        BY <4>1, <4>2, <3>1, <2>1 DEF StatusInv
    <3>2. LET r == Status!Reads(Status!clock + 1)
          IN  /\ r \in [age : Nat, us : Int] /\ r.age <= Lag
              /\ time' - r.age - back <= r.us /\ r.us <= time' + ahead
      BY <2>1 DEF Status!Reads, Status!clock, StatusInv
    <3> QED
      BY <3>1, <3>2, <2>1
  <2>3. StatusInv'
    BY <2>1, <2>2 DEF StatusInv, Status!Active, Status!KeepAlive
  <2> QED
    BY <2>1, <2>3, <1>2
<1>5. CASE Status!Ends
  BY <1>5 DEF Status!Ends, StatusInv, Status!Active, Status!KeepAlive, Status!NotTooOften
<1>6. CASE UNCHANGED telling
  BY <1>6 DEF telling, Status!vars, StatusInv, Status!Active, Status!KeepAlive
<1> QED
  BY <1>1, <1>3, <1>4, <1>5, <1>6 DEF Status!Next

\* A line about every drive that moves or is still there, not too often and not too seldom.
THEOREM DrivesAreTold == MCSpec => Status!StatusIsPaced
<1>1. MCInit => StatusInv
  BY StatusAssumption DEF MCInit, Status!Init, Status!Reads, StatusInv, Status!Active, Status!KeepAlive, Status!Drives, Status!Rudders
<1>2. StatusInv /\ [MCNext]_<<subject, vars, turning, trimming, testing, telling, watching>>
        => StatusInv' /\ [Status!NotTooOften]_(Status!vars)
  BY StatusStep DEF MCNext, LoopMoves, BoatTurns, SailIsTrimmed, DrivesAreTested, StatusIsTold, BusIsWatched, WatchIsOver
<1>3. StatusInv => Status!KeptAlive
  <2> SUFFICES ASSUME StatusInv, up, NEW d \in Status!Drives, Status!Active(d, homed)
               PROVE  time - told[d] <= Status!KeepAlive(d) + Gap + Status!Tolerance
    BY DEF Status!KeptAlive
  <2>1. /\ Status!KeepAlive(d) \in Nat /\ time \in Nat /\ last_line \in Nat /\ told[d] \in Nat /\ started[d] \in Int
        /\ ahead \in Nat /\ back \in Nat /\ time - last_line <= Gap
        /\ last_line - Lag - back <= started[d] + Status!KeepAlive(d) /\ started[d] <= told[d] + ahead
    BY StatusAssumption DEF StatusInv, Status!KeepAlive
  <2> QED
    BY <2>1, StatusAssumption DEF Status!Tolerance
<1> QED
  BY <1>1, <1>2, <1>3, PTL DEF MCSpec, Status!StatusIsPaced
-----------------------------------------------------------------------------
(* Who watches the bus (BusWatch).                                         *)

\* The next check is due: in true time, now that the clock stands where it does.
Due == next_run - watch_ahead + watch_back
ProgramTime == Interval + CommandTime + watch_back

\* The next check comes in time, and not before it; what is due now was due after the last.
DueInv ==
  /\ pc = "select" =>
        /\ Due <= judged + ProgramTime /\ wake <= judged + ProgramTime
        /\ wake <= Due + watch_ahead /\ watch_time <= wake + runnable /\ runnable <= Latency
        /\ ~again => Due >= judged + Interval - watch_ahead - Latency
  /\ pc = "command" =>
        /\ Due <= judged + watch_back /\ watch_time <= judged + CommandTime
        /\ Due >= judged - watch_ahead - Latency

\* Who was read since the last check is counted, who was not was noted within the round before.
SeenInv ==
  \A p \in Prefixes :
     /\ p \in seen => noted[p] >= judged
     /\ p \notin seen => heard[p] <= judged /\ judged - noted[p] <= ProgramTime + Latency

WatchTypes ==
  /\ watch_time \in Nat /\ watch_ahead \in Nat /\ watch_back \in Nat /\ runnable \in Nat
  /\ next_run \in Int /\ wake \in Int /\ judged \in Nat /\ judged <= watch_time
  /\ pc \in {"select", "command", "dead"} /\ again \in BOOLEAN
  /\ noted \in [Prefixes -> Nat] /\ heard \in [Prefixes -> Nat]
  /\ \A p \in Prefixes : heard[p] <= watch_time

WatchInv == WatchTypes /\ DueInv /\ SeenInv

\* The loop that advances next_run ends with the first time ahead.
LEMMA AdvancedAhead ==
  ASSUME WatchTypes
  PROVE  /\ Watch!clock < next_run => Watch!Advanced = next_run
         /\ Watch!clock >= next_run =>
               /\ Watch!Advanced \in Int /\ Watch!Advanced > Watch!clock
               /\ Watch!Advanced <= Watch!clock + Interval /\ Watch!Advanced >= next_run + Interval
<1>1. Watch!clock \in Int /\ next_run \in Int /\ Interval \in Nat \ {0}
  BY WatchAssumption DEF WatchTypes, Watch!clock
<1>2. CASE Watch!clock < next_run
  BY <1>1, <1>2 DEF Watch!Advanced
<1>3. CASE Watch!clock >= next_run
  <2> DEFINE x == Watch!clock - next_run
             q == x \div Interval
             r == x % Interval
  <2>1. x \in Nat
    BY <1>1, <1>3
  <2>2. q \in Int /\ r \in 0..(Interval - 1) /\ x = Interval * q + r
    <3>1. x \in Int
      BY <2>1
    <3> QED
      BY <1>1, <3>1, DivMod
  <2>3. r <= x
    <3>1. CASE x < Interval
      <4>1. x \in 0..(Interval - 1)
        BY <1>1, <2>1, <3>1
      <4> QED
        BY <1>1, <4>1, ModSmall
    <3>2. CASE x >= Interval
      BY <1>1, <2>1, <2>2, <3>2
    <3> QED
      BY <1>1, <2>1, <3>1, <3>2
  <2>4. Watch!Advanced = next_run + Interval * (q + 1)
    BY <1>1, <1>3 DEF Watch!Advanced
  <2> HIDE DEF q, r
  <2>5. Interval * (q + 1) = x - r + Interval
    BY <1>1, <2>1, <2>2
  <2> QED
    BY <1>1, <1>3, <2>1, <2>2, <2>3, <2>4, <2>5
<1> QED
  BY <1>1, <1>2, <1>3

\* What is read in a turn is counted.
LEMMA WatchReads ==
  ASSUME WatchInv, NEW k, heard' = [p \in Prefixes |-> IF p \in Watch!Read(k) THEN watch_time ELSE heard[p]],
         Watch!Listens(k),
         pc = "select", UNCHANGED <<watch_time, watch_ahead, watch_back>>, runnable' = 0
  PROVE  WatchInv'
<1> USE WatchAssumption
<1>1. /\ watch_time' = watch_time /\ watch_ahead' = watch_ahead /\ watch_back' = watch_back /\ runnable' = 0
      /\ UNCHANGED <<pc, next_run, judged, again>>
      /\ seen' = seen \cup Watch!Read(k)
      /\ noted' = [p \in Prefixes |-> IF p \in Watch!Read(k) THEN watch_time ELSE noted[p]]
      /\ Watch!clock < next_run /\ wake' = watch_time + (next_run - Watch!clock)
  BY DEF Watch!Listens, Watch!Rest, Watch!Counted
<1>2. WatchTypes'
  BY <1>1 DEF WatchInv, WatchTypes, Watch!clock
<1>3. DueInv'
  BY <1>1 DEF WatchInv, WatchTypes, DueInv, Due, ProgramTime, Watch!clock
<1>4. SeenInv'
  <2> SUFFICES ASSUME NEW p \in Prefixes
               PROVE  /\ p \in seen' => noted'[p] >= judged'
                      /\ p \notin seen' => heard'[p] <= judged' /\ judged' - noted'[p] <= (ProgramTime + Latency)'
    BY DEF SeenInv
  <2> QED
    BY <1>1 DEF WatchInv, WatchTypes, SeenInv, ProgramTime
<1> QED
  BY <1>2, <1>3, <1>4 DEF WatchInv

\* A check names those who were not read since the last, who were silent for the interval.
LEMMA WatchChecks ==
  ASSUME WatchInv, NEW k, heard' = [p \in Prefixes |-> IF p \in Watch!Read(k) THEN watch_time ELSE heard[p]],
         Watch!Checks(k),
         pc = "select", UNCHANGED <<watch_time, watch_ahead, watch_back>>, runnable' = 0
  PROVE  WatchInv' /\ Watch!NoFalseAlarm
<1> USE WatchAssumption
<1> DEFINE missing == Prefixes \ (seen \cup Watch!Read(k))
<1>1. /\ watch_time' = watch_time /\ watch_ahead' = watch_ahead /\ watch_back' = watch_back /\ runnable' = 0
      /\ Watch!clock >= next_run
      /\ seen' = {} /\ judged' = watch_time /\ named' = missing
      /\ noted' = [p \in Prefixes |-> IF p \in Watch!Read(k) \cup missing THEN watch_time ELSE noted[p]]
  BY DEF Watch!Checks, Watch!Counted
<1>2. \/ /\ next_run' = Watch!Advanced /\ wake' = watch_time + Watch!Rest(Watch!Advanced)
         /\ again' = FALSE /\ pc' = "select"
      \/ pc' \in {"dead", "command"} /\ next_run' = next_run /\ wake' = wake /\ again' = again
  BY DEF Watch!Checks
<1>3. /\ watch_time <= judged + ProgramTime + Latency
      /\ watch_time <= Due + watch_ahead + Latency /\ Due <= watch_time
      /\ ~again => Due >= judged + Interval - watch_ahead - Latency
  BY <1>1 DEF WatchInv, WatchTypes, DueInv, Due, ProgramTime, Watch!clock
<1>4. WatchTypes' /\ DueInv'
  <2>1. CASE pc' \in {"dead", "command"} /\ next_run' = next_run /\ wake' = wake /\ again' = again
    BY <1>1, <1>3, <2>1 DEF WatchInv, WatchTypes, DueInv, Due, ProgramTime
  <2>2. CASE /\ next_run' = Watch!Advanced /\ wake' = watch_time + Watch!Rest(Watch!Advanced)
             /\ again' = FALSE /\ pc' = "select"
    <3>1. /\ Watch!Advanced \in Int /\ Watch!Advanced > Watch!clock
          /\ Watch!Advanced <= Watch!clock + Interval /\ Watch!Advanced >= next_run + Interval
      BY <1>1, AdvancedAhead DEF WatchInv
    <3>2. wake' = watch_time + (Watch!Advanced - Watch!clock)
      BY <2>2, <3>1 DEF Watch!Rest
    <3>3. Watch!clock = watch_time + watch_ahead - watch_back
      BY DEF Watch!clock
    <3> HIDE DEF missing
    <3>4. next_run' \in Int /\ wake' \in Int
      BY <2>2, <3>1, <3>2, <3>3 DEF WatchInv, WatchTypes
    <3>6. /\ noted' \in [Prefixes -> Nat] /\ heard' \in [Prefixes -> Nat]
          /\ \A p \in Prefixes : heard'[p] <= watch_time'
      BY <1>1 DEF WatchInv, WatchTypes
    <3>8. again' \in BOOLEAN /\ pc' \in {"select", "command", "dead"}
      BY <2>2
    <3>9. /\ watch_time' \in Nat /\ watch_ahead' \in Nat /\ watch_back' \in Nat /\ runnable' \in Nat
          /\ judged' \in Nat /\ judged' <= watch_time'
      BY <1>1 DEF WatchInv, WatchTypes
    <3>10. WatchTypes'
      BY <3>4, <3>6, <3>8, <3>9 DEF WatchTypes
    <3>5. DueInv'
      BY <1>1, <1>3, <2>2, <3>1, <3>2, <3>3 DEF WatchInv, WatchTypes, DueInv, Due, ProgramTime
    <3> QED
      BY <3>5, <3>10
  <2> QED
    BY <1>2, <2>1, <2>2
<1>5. SeenInv'
  <2> SUFFICES ASSUME NEW p \in Prefixes
               PROVE  heard'[p] <= watch_time /\ watch_time - noted'[p] <= ProgramTime + Latency
    BY <1>1 DEF SeenInv, ProgramTime
  <2>1. CASE p \in Watch!Read(k) \cup missing
    <3>1. noted'[p] = watch_time
      BY <1>1, <2>1
    <3>2. heard'[p] <= watch_time
      BY <2>1 DEF WatchInv, WatchTypes, SeenInv
    <3> QED
      BY <3>1, <3>2 DEF WatchInv, WatchTypes, ProgramTime
  <2>2. CASE p \notin Watch!Read(k) \cup missing
    <3>1. p \in seen /\ noted'[p] = noted[p] /\ heard'[p] = heard[p]
      BY <1>1, <2>2
    <3>2. noted[p] >= judged /\ noted[p] \in Nat /\ heard[p] <= watch_time
      BY <3>1 DEF WatchInv, WatchTypes, SeenInv
    <3> QED
      BY <3>1, <3>2, <1>3 DEF WatchInv, WatchTypes, ProgramTime
  <2> QED
    BY <2>1, <2>2
<1>6. Watch!NoFalseAlarm
  <2> SUFFICES ASSUME ~again, NEW p \in missing PROVE watch_time - heard'[p] >= Interval - Latency - watch_ahead
    BY <1>1 DEF Watch!NoFalseAlarm
  <2>1. heard'[p] = heard[p] /\ heard[p] <= judged /\ heard[p] \in Nat
    BY DEF WatchInv, WatchTypes, SeenInv
  <2> HIDE DEF missing
  <2> QED
    BY <1>3, <2>1 DEF WatchInv, WatchTypes, Due
<1> QED
  BY <1>4, <1>5, <1>6 DEF WatchInv
\* The other steps: the command, the clock, the time.
LEMMA WatchCommand ==
  ASSUME WatchInv, Watch!CommandEnds
  PROVE  WatchInv'
<1> USE WatchAssumption
<1>1. /\ pc = "command" /\ pc' = "select" /\ next_run' = Watch!Advanced
      /\ wake' = watch_time + Watch!Rest(Watch!Advanced) /\ again' = (Watch!clock < next_run) /\ runnable' = 0
      /\ UNCHANGED <<watch_time, watch_ahead, watch_back, seen, noted, heard, judged>>
  BY DEF Watch!CommandEnds
<1>2. Watch!clock = watch_time + watch_ahead - watch_back /\ Watch!clock \in Int
  BY DEF Watch!clock, WatchInv, WatchTypes
<1>3. \/ Watch!clock < next_run /\ Watch!Advanced = next_run /\ again'
      \/ /\ Watch!clock >= next_run /\ Watch!Advanced \in Int /\ Watch!Advanced > Watch!clock
         /\ Watch!Advanced <= Watch!clock + Interval /\ Watch!Advanced >= next_run + Interval
  <2>1. CASE Watch!clock < next_run
    BY <1>1, <2>1, AdvancedAhead DEF WatchInv
  <2>2. CASE Watch!clock >= next_run
    BY <2>2, AdvancedAhead DEF WatchInv
  <2> QED
    BY <1>2, <2>1, <2>2 DEF WatchInv, WatchTypes
<1>4. /\ Watch!Advanced \in Int /\ Watch!Advanced > Watch!clock
      /\ wake' = watch_time + (Watch!Advanced - Watch!clock)
  BY <1>1, <1>2, <1>3 DEF Watch!Rest, WatchInv, WatchTypes
<1>5. WatchTypes'
  <2>1. again' \in BOOLEAN
    BY <1>1
  <2>2. wake' \in Int
    BY <1>2, <1>4 DEF WatchInv, WatchTypes
  <2> QED
    BY <1>1, <1>4, <2>1, <2>2 DEF WatchInv, WatchTypes
<1>6. DueInv'
  BY <1>1, <1>2, <1>3, <1>4 DEF WatchInv, WatchTypes, DueInv, Due, ProgramTime
<1>7. SeenInv'
  BY <1>1 DEF WatchInv, SeenInv, ProgramTime
<1> QED
  BY <1>5, <1>6, <1>7 DEF WatchInv

\* Every step of the watch.
LEMMA WatchStep ==
  ASSUME WatchInv, Watch!Next \/ UNCHANGED watching
  PROVE  WatchInv' /\ [Watch!NoFalseAlarm]_(Watch!vars)
<1> USE WatchAssumption
<1>1. CASE Watch!Turn
  <2>1. PICK k \in (IF pipe = <<>> THEN 0 ELSE 1) .. Len(pipe) :
          /\ Watch!Listens(k) \/ Watch!Checks(k)
          /\ heard' = [p \in Prefixes |-> IF p \in Watch!Read(k) THEN watch_time ELSE heard[p]]
    BY <1>1 DEF Watch!Turn
  <2>2. pc = "select" /\ UNCHANGED <<watch_time, watch_ahead, watch_back>> /\ runnable' = 0
    BY <1>1 DEF Watch!Turn
  <2>3. CASE Watch!Listens(k)
    BY <2>1, <2>2, <2>3, WatchReads DEF Watch!NoFalseAlarm, Watch!Listens
  <2>4. CASE Watch!Checks(k)
    BY <2>1, <2>2, <2>4, WatchChecks
  <2> QED
    BY <2>1, <2>3, <2>4
<1>2. CASE Watch!CommandEnds
  BY <1>2, WatchCommand DEF Watch!CommandEnds, Watch!NoFalseAlarm
<1>3. CASE Watch!BusEnds
  BY <1>3 DEF Watch!BusEnds, Watch!NoFalseAlarm, WatchInv, WatchTypes, DueInv, SeenInv, ProgramTime, Due
<1>4. CASE \E by \in 1 .. MaxSet - watch_ahead - watch_back : Watch!SetAhead(by) \/ Watch!SetBack(by)
  <2>1. PICK by \in 1 .. MaxSet - watch_ahead - watch_back : Watch!SetAhead(by) \/ Watch!SetBack(by)
    BY <1>4
  <2>2. by \in Nat
    BY <2>1 DEF WatchInv, WatchTypes
  <2>3. UNCHANGED <<watch_time, runnable, pc, next_run, seen, wake, noted, heard, judged, again>>
    BY <2>1 DEF Watch!SetAhead, Watch!SetBack, Watch!program
  <2>4. \/ watch_ahead' = watch_ahead + by /\ watch_back' = watch_back
        \/ watch_ahead' = watch_ahead /\ watch_back' = watch_back + by
    BY <2>1 DEF Watch!SetAhead, Watch!SetBack
  <2>5. WatchTypes'
    BY <2>2, <2>3, <2>4 DEF WatchInv, WatchTypes
  <2>6. DueInv'
    BY <2>2, <2>3, <2>4 DEF WatchInv, WatchTypes, DueInv, Due, ProgramTime
  <2>7. SeenInv'
    BY <2>2, <2>3, <2>4 DEF WatchInv, WatchTypes, SeenInv, ProgramTime
  <2> QED
    BY <2>3, <2>5, <2>6, <2>7 DEF WatchInv, Watch!NoFalseAlarm
<1>5. CASE \/ Watch!Tick \/ \E line \in Watch!SomeLine : Watch!Say(line)
           \/ UNCHANGED watching
  <2>1. UNCHANGED <<watch_ahead, watch_back, pc, next_run, seen, wake, noted, heard, judged, again>>
    BY <1>5 DEF Watch!Tick, Watch!Say, Watch!program, watching
  <2>2. \/ watch_time' = watch_time /\ runnable' = runnable
        \/ /\ watch_time' = watch_time + 1
           /\ pc = "select" /\ Watch!Ready => runnable < Latency
           /\ pc = "command" => watch_time - judged < CommandTime
           /\ runnable' = IF pc = "select" /\ Watch!Ready THEN runnable + 1 ELSE 0
    BY <1>5 DEF Watch!Tick, Watch!Say, Watch!program, watching
  <2>3. pc = "select" /\ watch_time >= wake => Watch!Ready
    BY DEF Watch!Ready
  <2>4. WatchTypes'
    BY <2>1, <2>2 DEF WatchInv, WatchTypes
  <2>5. DueInv'
    BY <2>1, <2>2, <2>3 DEF WatchInv, WatchTypes, DueInv, Due, ProgramTime
  <2>6. SeenInv'
    BY <2>1 DEF WatchInv, SeenInv, ProgramTime
  <2> QED
    BY <2>1, <2>4, <2>5, <2>6 DEF WatchInv, Watch!NoFalseAlarm
<1> QED
  BY <1>1, <1>2, <1>3, <1>4, <1>5 DEF Watch!Next

\* Whoever falls silent is named in time, and whoever is named was silent.
THEOREM AlarmsTellTheTruth == MCSpec => Watch!AlarmsAreTrue
<1>1. MCInit => WatchInv
  <2> SUFFICES ASSUME Watch!Init PROVE WatchInv
    BY DEF MCInit
  <2>1. /\ watch_time = 0 /\ watch_ahead = 0 /\ watch_back = 0 /\ pc = "select" /\ runnable = 0
        /\ next_run = Interval /\ wake = Interval /\ judged = 0 /\ seen = {}
    BY DEF Watch!Init
  <2>2. /\ noted = [p \in Prefixes |-> 0] /\ heard = [p \in Prefixes |-> 0] /\ again \in BOOLEAN
    BY DEF Watch!Init
  <2>3. WatchTypes
    BY <2>1, <2>2, WatchAssumption DEF WatchTypes
  <2>4. DueInv
    BY <2>1, WatchAssumption DEF DueInv, Due, ProgramTime
  <2>5. SeenInv
    BY <2>1, <2>2, WatchAssumption DEF SeenInv, ProgramTime
  <2> QED
    BY <2>3, <2>4, <2>5 DEF WatchInv
<1>2. WatchInv /\ [MCNext]_<<subject, vars, turning, trimming, testing, telling, watching>>
        => WatchInv' /\ [Watch!NoFalseAlarm]_(Watch!vars)
  BY WatchStep DEF MCNext, LoopMoves, BoatTurns, SailIsTrimmed, DrivesAreTested, StatusIsTold, BusIsWatched, WatchIsOver
<1>3. WatchInv => Watch!NoticesSilence
  <2> SUFFICES ASSUME WatchInv, pc # "dead", NEW p \in Prefixes
               PROVE  watch_time - noted[p] <= 2 * Watch!Round
    BY DEF Watch!NoticesSilence
  <2>1. watch_time - judged <= ProgramTime + Latency
    BY WatchAssumption DEF WatchInv, WatchTypes, DueInv, Due, ProgramTime
  <2>2. judged - noted[p] <= ProgramTime + Latency
    BY WatchAssumption DEF WatchInv, WatchTypes, SeenInv, ProgramTime
  <2>3. noted[p] \in Nat
    BY DEF WatchInv, WatchTypes
  <2> QED
    BY <2>1, <2>2, <2>3, WatchAssumption DEF Watch!Round, ProgramTime, WatchInv, WatchTypes
<1> QED
  BY <1>1, <1>2, <1>3, PTL DEF MCSpec, Watch!AlarmsAreTrue

\* The status lines come as often as they should, and who watches them is right about who is silent.
THEOREM SilenceIsNoticed == MCSpec => WatchedInTime
BY DrivesAreTold, AlarmsTellTheTruth, PTL DEF WatchedInTime
=============================================================================
