------------------------------ MODULE Helmsman ------------------------------
(***************************************************************************)
(* The main loop of the helmsman (helmsman/helmsman_main.cc): it reads the *)
(* lines of remote control and skipper, falls back to braking when the     *)
(* remote control is silent, and runs the ship control every kPeriodMicros.*)
(* The ship control is the state machine of HelmStates.tla, the skipper a  *)
(* process that answers each query with one heading, both connected by a   *)
(* bus that may lose lines.                                                *)
(*                                                                         *)
(* The unit of time is a control period.  Deadlines in the code are        *)
(* absolute and compared with the wall clock, which imutime may set; the   *)
(* variables hold them relative to that clock.  pselect waits on a clock   *)
(* nobody sets.                                                            *)
(***************************************************************************)
EXTENDS Integers, HelmStates

CONSTANTS
  TimeOut,      \* kRemoteControlTimeOutSeconds in control periods (50)
  QueryEvery,   \* control steps between two queries to the skipper (600)
  Slack,        \* bound: periods by which the process is held up in one turn
  MaxShift,     \* bound: periods by which the clock is set, altogether
  MaxLoss       \* bound: lines between helmsman and skipper that are lost

Unknown == "unknown"   \* kUnknown

\* A heading is told by whom it is from.
Headings == {Unknown, "southwest", "skipper", "operator"}

NoHeading == Unknown            \* mutant: alpha_star_rad as Reset leaves it
FirstHeading == "southwest"     \* "breaks up a deadlock"

ASSUME HelmsmanAssumption ==
  /\ TimeOut \in Nat /\ QueryEvery \in Nat \ {0}
  /\ Slack \in Nat /\ MaxShift \in Nat /\ MaxLoss \in Nat

VARIABLES
  control_mode,  \* the mode the remote control last asked for, or braking
  heading,       \* ctrl_in.alpha_star_rad, by whom it was set
  age,           \* clock - last_remote_message_millis
  due,           \* next_call_micros - clock
  timeout,       \* what CalculateTimeOut left for the next pselect
  loops,         \* loops % QueryEvery
  query,         \* the skipper has a query to answer
  sent,          \* what the last control step told the drives: whose reference
  held,          \* time since the last complete turn of the loop
  settled,       \* the environment stays fair from now on
  silence,       \* history: true time since the last line of the remote control
  gap,           \* history: true time since the last control step
  burst,         \* history: control steps since time passed last
  setBack,       \* history: how far the clock was set back, altogether
  setAhead,      \* history: how far the clock was set ahead, altogether
  lost           \* history: lines lost between helmsman and skipper

loop == <<control_mode, heading, loops, query, sent>>
timing == <<age, due, timeout, held, silence, gap, burst>>
environment == <<settled, setBack, setAhead, lost>>
vars == <<meta_state, controller, loop, timing, environment>>

Modes == {"kNormalControlMode", "kDockingControlMode", "kBrakeControlMode",
          "kOverrideSkipperMode", "kPowerCycleMode", "kIdleHelmsmanMode"}

\* The meta state HandleRemoteControl asks the ship control for.
MetaOf(mode) ==
  CASE mode \in {"kNormalControlMode", "kOverrideSkipperMode"} -> "kNormal"
    [] mode = "kDockingControlMode"                             -> "kDocking"
    [] mode \in {"kBrakeControlMode", "kPowerCycleMode"}        -> "kBraking"
    [] mode = "kIdleHelmsmanMode"                               -> "kIdle"

\* The modes in which somebody has to be at the remote control.
Watched == {"kIdleHelmsmanMode", "kOverrideSkipperMode"}

-----------------------------------------------------------------------------
Init ==
  /\ StatesInit
  /\ control_mode = "kNormalControlMode"
  /\ heading = FirstHeading
  /\ age = 0 /\ due = 1 /\ timeout = 1
  /\ loops = 0 /\ query = FALSE /\ sent = "nothing"
  /\ held = 0 /\ settled = FALSE
  /\ silence = 0 /\ gap = 0 /\ burst = 0 /\ setBack = 0 /\ setAhead = 0 /\ lost = 0

\* A line of the remote control: the mode is taken over unless the command is
\* illegal, the time of the line in any case, its heading (or none: NaN) in
\* the override mode only.
Remote(command, alpha) ==
  /\ ~settled
  /\ IF command \in Modes
     THEN control_mode' = command /\ Command(MetaOf(command))
     ELSE UNCHANGED <<control_mode, meta_state, controller>>
  /\ age' = 0 /\ silence' = 0
  /\ heading' = IF control_mode' = "kOverrideSkipperMode" /\ alpha # "NaN"
                THEN alpha ELSE heading
  /\ UNCHANGED <<loops, query, sent, due, timeout, held, gap, burst, environment>>

SkipperTakesOver ==             \* mutant: no look at the mode
  /\ query /\ query' = FALSE /\ heading' = "skipper"
  /\ UNCHANGED <<meta_state, controller, control_mode, loops, sent, timing, environment>>

\* The answer of the skipper (skipper_main.cc:158) arrives; in the override
\* mode it is ignored.
SkipperAnswers ==
  /\ query
  /\ query' = FALSE
  /\ heading' = IF control_mode # "kOverrideSkipperMode" THEN "skipper" ELSE heading
  /\ UNCHANGED <<meta_state, controller, control_mode, loops, sent, timing, environment>>

\* The bus drops the query or its answer.
LineLost ==
  /\ query /\ lost < MaxLoss /\ ~settled
  /\ query' = FALSE
  /\ lost' = lost + 1
  /\ UNCHANGED <<meta_state, controller, control_mode, heading, loops, sent,
                 timing, settled, setBack, setAhead>>

-----------------------------------------------------------------------------
\* HandleRemoteControlFailSafe: control_mode and meta_state after it.
AbandonedIdling == control_mode = "kIdleHelmsmanMode" /\ age > TimeOut   \* mutant: override forgotten
Abandoned == control_mode \in Watched /\ age > TimeOut

FailSafeMode == IF Abandoned THEN "kBrakeControlMode" ELSE control_mode
FailSafeMeta == IF Abandoned THEN "kBraking" ELSE meta_state

UntilCall == IF due <= 0 THEN 0 ELSE IF due > 1 THEN 1 ELSE due

\* The end of a turn of the loop before the next call is due.
Wake ==
  /\ UntilCall > 0
  /\ control_mode' = FailSafeMode
  /\ meta_state' = FailSafeMeta
  /\ timeout' = UntilCall
  /\ held' = 0
  /\ UNCHANGED <<controller, heading, loops, query, sent, age, due, silence, gap, burst, environment>>

\* AdvanceCallTime.
NextDueSwapped == IF due + 1 < 0 THEN -due ELSE due + 1    \* mutant: now - next_call added
NextDue == IF due + 1 < 0 THEN 0 ELSE due + 1

\* The end of a turn with a control step: the state machine, with the meta
\* state the fail-safe left, picks the controller; ready is what it finds of
\* the boat, located whether true wind and position are known.  The
\* controllers that run when the boat is not sailing clear the input for the
\* skipper again, except the idle controller.
ControlStep(ready, located) ==
  /\ UntilCall = 0
  /\ control_mode' = FailSafeMode
  /\ meta_state' = FailSafeMeta
  /\ controller' = NextController(FailSafeMeta,
                                  ready /\ (controller = "initial" => heading # Unknown))
  /\ sent' = IF controller' = "idle" THEN "nothing" ELSE controller'
  /\ query' = (query \/ (loops = 0 /\ located /\ controller' \in {"normal", "idle"}))
  /\ loops' = (loops + 1) % QueryEvery
  /\ timeout' = 0
  /\ due' = NextDue
  /\ held' = 0 /\ gap' = 0 /\ burst' = burst + 1
  /\ UNCHANGED <<heading, age, silence, environment>>

\* Every turn of the loop that the code completes.
Turn ==
  \/ Wake
  \/ \E ready, located \in BOOLEAN :
       /\ settled => ready /\ located
       /\ ControlStep(ready, located)

-----------------------------------------------------------------------------
\* One period passes.  A turn ends at its timeout at the latest, up to Slack
\* periods later when the process is held up, or when lines come in pieces
\* and each wakes the loop without completing a turn (line 219).  The age of
\* the last remote line is not read outside the watched modes, which are
\* entered with such a line; it stands still there.
Tick ==
  /\ held < timeout + Slack
  /\ held' = held + 1
  /\ due' = due - 1
  /\ gap' = gap + 1 /\ burst' = 0
  /\ IF control_mode \in Watched
     THEN age' = age + 1 /\ silence' = silence + 1
     ELSE UNCHANGED <<age, silence>>
  /\ UNCHANGED <<meta_state, controller, loop, timeout, environment>>

\* imutime sets the clock by d periods.
ClockSet(d) ==
  /\ ~settled
  /\ due' = due - d
  /\ age' = IF control_mode \in Watched THEN age + d ELSE age
  /\ IF d < 0 THEN setBack' = setBack - d /\ UNCHANGED setAhead
              ELSE setAhead' = setAhead + d /\ UNCHANGED setBack
  /\ setBack' + setAhead' <= MaxShift
  /\ UNCHANGED <<meta_state, controller, loop, timeout, held, silence, gap, burst, settled, lost>>

Settle ==
  /\ ~settled
  /\ settled' = TRUE
  /\ UNCHANGED <<meta_state, controller, loop, timing, setBack, setAhead, lost>>

Next ==
  \/ \E command \in Modes \cup {"illegal"}, alpha \in {"operator", "NaN"} : Remote(command, alpha)
  \/ SkipperAnswers
  \/ LineLost
  \/ Turn
  \/ Tick
  \/ \E d \in -MaxShift..MaxShift : ClockSet(d)
  \/ Settle

Spec == Init /\ [][Next]_vars

FairSpec == Spec /\ WF_vars(Turn) /\ WF_vars(Tick) /\ WF_vars(SkipperAnswers)

-----------------------------------------------------------------------------
TypeOK ==
  /\ meta_state \in MetaStates /\ controller \in Controllers
  /\ control_mode \in Modes /\ heading \in Headings
  /\ loops \in 0..(QueryEvery - 1) /\ query \in BOOLEAN
  /\ sent \in (Controllers \ {"idle"}) \cup {"nothing"}
  /\ age \in Int /\ due \in Int /\ timeout \in {0, 1} /\ held \in 0..(1 + Slack)
  /\ silence \in Nat /\ gap \in Nat /\ burst \in Nat
  /\ settled \in BOOLEAN /\ lost \in 0..MaxLoss
  /\ setBack \in 0..MaxShift /\ setAhead \in 0..MaxShift

ControlSteps == \E ready, located \in BOOLEAN : ControlStep(ready, located)

\* Whose reference the drives may get in each mode; nobody's while the
\* helmsman idles and somebody moves them by hand.
Allowed(mode) ==
  CASE mode \in {"kNormalControlMode", "kOverrideSkipperMode"} -> {"initial", "normal"}
    [] mode = "kDockingControlMode"                             -> {"docking"}
    [] mode \in {"kBrakeControlMode", "kPowerCycleMode"}        -> {"brake"}
    [] mode = "kIdleHelmsmanMode"                               -> {"nothing"}

\* Every control step obeys the mode in force, the one the fail-safe has just
\* chosen included, whatever controller ran before.
ModeDecides == [][ControlSteps => sent' \in Allowed(control_mode')]_vars

\* Nobody idles or overrides without an operator: the modes that need one end
\* at most one period and one hold-up after the time-out, and by as much
\* later as the clock was set back.
SilentOperator ==
  control_mode \in Watched => silence <= TimeOut + 1 + Slack + setBack

\* ...and the operator is not cut off before the time-out, unless the clock
\* was set ahead.
FailSafePatient ==
  [][Turn /\ control_mode' # control_mode => silence + setAhead > TimeOut]_vars

\* The ship control runs every period: no gap is longer than a period and a
\* hold-up, and the time by which the clock was set back.
ControlledInTime == gap <= 1 + Slack + setBack

\* A late control step is made up for by one at most: the steps missed in a
\* hold-up do not run in a burst.
CatchesUpOnce == burst <= 2 + setAhead

\* An answer of the skipper that was under way when the operator took over
\* does not turn the boat: while the override lasts, its heading stays.
OverrideKeepsHeading ==
  [][control_mode = "kOverrideSkipperMode" /\ control_mode' = "kOverrideSkipperMode"
       /\ heading = "operator" => heading' = "operator"]_vars

\* Left alone in the normal mode, in fair conditions, the boat ends up sailing
\* where the skipper wants, although the skipper is asked only by a boat that
\* sails, and a boat sails only with a heading.
SkipperSteers ==
  <>[](settled /\ control_mode = "kNormalControlMode") =>
    <>[](controller = "normal" /\ heading = "skipper")
=============================================================================
