------------------------------ MODULE MCHelmsman ------------------------------
(* Small instances of the main loop of the helmsman and of what its controllers   *)
(* compute: the manoeuvres, the trim of the sail and the test of the drives; and   *)
(* of those who tell it where the drives are and who watch that it and they speak.  *)
(* They run on their own: subject says which one moves.                           *)
EXTENDS Helmsman

CONSTANTS Circle, TackZone, JibeZone, Overshoot, AppOffset, Clip, Reach, JibeSixths,
          Stabilization, Winds, Stars, Boats, Apps,
          Delay, MaxCount, Angles, Speeds, Shift,
          HomingTimeoutCount, ZeroTimeoutCount, Zero2Count, RepeatCount, DriveTimeout,
          WindTimeout, MaxSteps,
          MinUs, MaxUs, Lag, Gap, StatusTime,
          Prefixes, Interval, Dies, Latency, CommandTime, Room, WatchTime, MaxSet

ASSUME TrimAssumption == Delay \in Nat /\ MaxCount \in Nat
ASSUME StatusAssumption ==
    /\ MinUs \in Nat /\ MaxUs \in Nat /\ MinUs <= MaxUs
    /\ Lag \in Nat /\ Gap \in Nat /\ StatusTime \in Nat
ASSUME WatchAssumption ==
    /\ Interval \in Nat \ {0} /\ Latency \in Nat /\ CommandTime \in Nat
    /\ Room \in Nat /\ WatchTime \in Nat /\ MaxSet \in Nat
    /\ Dies \in BOOLEAN

VARIABLES subject,
          wind, star, boat, app, limited, old, sector, type, plan, buffer1, buffer2, steady, begun,
          angle, speed, app_sign, mode, delay_counter, gamma_sail, since,
          phase, count, test_index, test_success, set_up, samples, tested,
          time, ahead, back, readings, homed, started, up, told, last_line,
          watch_time, watch_ahead, watch_back,
          pc, next_run, seen, pipe, wake, runnable, noted, heard, judged, again, named
turning == <<wind, star, boat, app, limited, old, sector, type, plan, buffer1, buffer2, steady, begun>>
trimming == <<angle, speed, app_sign, mode, delay_counter, gamma_sail, since>>
testing == <<phase, count, test_index, test_success, set_up, samples, tested>>
telling == <<time, ahead, back, readings, homed, started, up, told, last_line>>
watching == <<watch_time, watch_ahead, watch_back, pc, next_run, seen, pipe, wake, runnable, noted, heard,
              judged, again, named>>

Turns == INSTANCE Maneuver
Sails == INSTANCE SailTrim WITH age <- since
Tests == INSTANCE TestController
Status == INSTANCE DriveSts WITH MaxTime <- StatusTime
Watch == INSTANCE BusWatch WITH MaxTime <- WatchTime, time <- watch_time,
                                  ahead <- watch_ahead, back <- watch_back

MCInit ==
    /\ Init /\ Turns!Init /\ Sails!Init /\ Tests!Init /\ Status!Init /\ Watch!Init
    /\ subject \in {"loop", "turns", "sails", "test", "status", "watch"}
    /\ subject # "turns" => wind = 0 /\ star = 2 /\ boat = 16
    /\ subject # "sails" => angle = 0 /\ speed = 3

LoopMoves == subject = "loop" /\ Next /\ UNCHANGED <<subject, turning, trimming, testing, telling, watching>>
BoatTurns == subject = "turns" /\ Turns!Next /\ UNCHANGED <<subject, vars, trimming, testing, telling, watching>>
SailIsTrimmed == subject = "sails" /\ Sails!Next /\ UNCHANGED <<subject, vars, turning, testing, telling, watching>>
DrivesAreTested == subject = "test" /\ Tests!Run /\ UNCHANGED <<subject, vars, turning, trimming, telling, watching>>
StatusIsTold == subject = "status" /\ Status!Next /\ UNCHANGED <<subject, vars, turning, trimming, testing, watching>>
BusIsWatched == subject = "watch" /\ Watch!Next /\ UNCHANGED <<subject, vars, turning, trimming, testing, telling>>
WatchIsOver ==      \* the bound of time
    /\ <<subject, time, watch_time>> \in {<<"status", StatusTime, 0>>, <<"watch", 0, WatchTime>>}
    /\ UNCHANGED <<subject, vars, turning, trimming, testing, telling, watching>>
MCNext == LoopMoves \/ BoatTurns \/ SailIsTrimmed \/ DrivesAreTested \/ StatusIsTold \/ BusIsWatched \/ WatchIsOver
MCFairness ==
    /\ WF_vars(subject = "loop" /\ Turn)
    /\ WF_vars(subject = "loop" /\ Tick)
    /\ WF_vars(subject = "loop" /\ SkipperAnswers)
MCSpec == MCInit /\ [][MCNext]_<<subject, vars, turning, trimming, testing, telling, watching>> /\ MCFairness

MustNotJump == Turns!MustNotJump
Settles == Turns!Settles
NoFlapping == Sails!NoFlapping
EveryDriveTested == Tests!EveryDriveTested
WatchedInTime == Status!StatusIsPaced /\ Watch!AlarmsAreTrue
=============================================================================
