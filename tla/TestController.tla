---------------------------- MODULE TestController ----------------------------
(***************************************************************************)
(* The test of drives and wind sensor before the boat sails                  *)
(* (helmsman/test_controller.cc), which ShipControl runs when it is built to  *)
(* start with it.  A step is one call of Run; the positions of the drives are *)
(* what the test asks of them: homed, at zero, fast, where the sail is wanted. *)
(***************************************************************************)
EXTENDS Integers, FiniteSets

CONSTANTS
    HomingTimeoutCount,     \* of 30 s
    ZeroTimeoutCount,       \* of 10 s
    Zero2Count,             \* 3 s for the sail
    RepeatCount,            \* of 30 s
    DriveTimeout,           \* steps of a drive test: 5 to 12 s
    WindTimeout,            \* steps of the wind test: 60 s
    MaxSteps                \* bound: more than the others

VARIABLES
    phase, count, test_index, test_success,
    set_up,         \* the test that test_start_, thresholds_ and test_times_ are set up for
    samples,        \* which of the three parts of the wind test have been measured
    tested          \* history: drive tests done since the drives were homed
vars == <<phase, count, test_index, test_success, set_up, samples, tested>>

Drives == {"RUDDER_LEFT", "RUDDER_RIGHT", "SAIL"}
test_param ==
    <<"RUDDER_LEFT", "RUDDER_LEFT", "RUDDER_RIGHT", "RUDDER_RIGHT", "SAIL", "SAIL">>
Tests == DOMAIN test_param
NoTest == 0

\* What a step finds.
Findings ==
    [homed: SUBSET Drives, zero: BOOLEAN, fast: BOOLEAN, straight: BOOLEAN,
     wind: {"unknown", "unfit", "kNormalWind"}]
CanSail(in) == "SAIL" \in in.homed /\ Cardinality(in.homed) >= 2

-----------------------------------------------------------------------------
\* Run counts after every phase, so that the first step of a phase sees 1.
NextPhaseKeepsCount(p) == phase' = p /\ count' = IF count < MaxSteps THEN count + 1 ELSE count  \* mutant
NextPhase(p) == phase' = p /\ count' = 1
\* Bound: a longer count compares like MaxSteps with every limit.
Stay == phase' = phase /\ count' = IF count < MaxSteps THEN count + 1 ELSE count

Until(hundredths, timeout) == 100 * count < hundredths * timeout
In(from, to, timeout) == ~Until(from, timeout) /\ Until(to, timeout)

tests == <<test_index, test_success, set_up, samples, tested>>

Home(in) ==
    /\ phase = "HOME"
    /\ \/ in.homed = Drives /\ NextPhase("ZERO")
       \/ in.homed # Drives /\ count > HomingTimeoutCount
          /\ NextPhase(IF CanSail(in) THEN "ZERO" ELSE "FAILED")
       \/ in.homed # Drives /\ count <= HomingTimeoutCount /\ Stay
    /\ tested' = {}
    /\ UNCHANGED <<test_index, test_success, set_up, samples>>

Zero(in) ==
    /\ phase = "ZERO"
    /\ \/ count > ZeroTimeoutCount /\ NextPhase("FAILED")
       \/ count <= ZeroTimeoutCount /\ in.zero /\ NextPhase("DRIVE_TESTS")
       \/ count <= ZeroTimeoutCount /\ ~in.zero /\ Stay
    /\ UNCHANGED tests

\* A drive is as good as its speed and delay; one that is not homed seems not to move.
Passes(in) == in.fast /\ test_param[test_index] \in in.homed
DoDriveTest(in) ==
    LET ready == IF count <= 1 THEN test_index ELSE set_up
        success == Passes(in)
    IN  /\ phase = "DRIVE_TESTS"
        /\ set_up' = ready
        /\ IF Until(100, DriveTimeout) THEN Stay /\ UNCHANGED <<test_index, test_success, tested>>
           ELSE /\ tested' = tested \union {<<test_index, ready>>}
                \* PrepareNextTest.
                /\ IF test_index + 1 \in Tests
                   THEN /\ test_index' = test_index + 1 /\ test_success' = (test_success /\ success)
                        /\ phase' = phase /\ count' = 1
                   ELSE test_index' = 1 /\ test_success' = TRUE /\ NextPhase("ZERO_2")
        /\ UNCHANGED samples

Zero2(in) ==
    LET give_up == ~test_success \/ (~in.zero /\ count > ZeroTimeoutCount)
        ready == in.zero /\ count > Zero2Count /\ in.wind # "unknown"
    IN  /\ phase = "ZERO_2"
        /\ \/ give_up /\ NextPhase("FAILED")
           \/ ~give_up /\ ready /\ NextPhase(IF in.wind = "kNormalWind" THEN "WIND_SENSOR" ELSE "DONE")
           \/ ~give_up /\ ~ready /\ Stay
        /\ UNCHANGED tests

\* The sail is told to be straight, right and left for a while, and measured at the end of
\* each of them.  A sail that is not there ends the test.
DoWindTest(in) ==
    LET part == CASE In(0, 9, WindTimeout) -> {1} [] In(30, 39, WindTimeout) -> {2}
                  [] In(90, 99, WindTimeout) -> {3} [] OTHER -> {}
        before == IF count <= 1 THEN {} ELSE samples
    IN  /\ phase = "WIND_SENSOR"
        /\ IF Until(100, WindTimeout) /\ (part = {} \/ in.straight)
           THEN Stay /\ samples' = before \union part
           ELSE NextPhase("DONE") /\ samples' = before
        /\ UNCHANGED <<test_index, test_success, set_up, tested>>

Finished == phase = "DONE" /\ Stay /\ UNCHANGED tests
Failed ==
    /\ phase = "FAILED"
    /\ IF count > RepeatCount THEN NextPhase("HOME") ELSE Stay
    /\ UNCHANGED tests

Run == \/ \E in \in Findings : Home(in) \/ Zero(in) \/ DoDriveTest(in) \/ Zero2(in) \/ DoWindTest(in)
       \/ Finished
       \/ Failed

Init ==
    /\ phase = "HOME" /\ count = 0 /\ test_index = 1 /\ test_success = TRUE
    /\ set_up = NoTest /\ samples = {} /\ tested = {}
Spec == Init /\ [][Run]_vars

-----------------------------------------------------------------------------
\* Whatever was tried and failed before, no step of the drive tests is left out, and none
\* is measured with what was set up for another one (counting starts again on every way
\* into the phases): the boat gets through with every step of every drive tested anew.  That
\* they passed is not claimed: the last step forgets the verdict before Zero2 reads it (line 148).
EveryDriveTested == phase \in {"ZERO_2", "WIND_SENSOR", "DONE"} => tested = {<<i, i>> : i \in Tests}
=============================================================================
