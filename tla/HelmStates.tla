----------------------------- MODULE HelmStates -----------------------------
(***************************************************************************)
(* What the main loop of the helmsman may rely on of ShipControl: the meta *)
(* state (helmsman/ship_control.h) is set by commands, and in each control *)
(* step the state machine picks the controller that runs.  Braking,        *)
(* docking and idling are obeyed at once; back in the normal meta state    *)
(* the initial controller comes first, and it hands over to the normal     *)
(* controller, and keeps it, only while the boat is ready.  Everything the *)
(* two ask for (homed drives, wind, speed, patience) is one flag here;     *)
(* ShipControl.tla says what it stands for and implements this module.     *)
(* The test controller, which the code selects at compile time only, is    *)
(* left out.                                                               *)
(***************************************************************************)
VARIABLES
  meta_state,   \* ShipControl::meta_state_
  controller    \* ShipControl::controller_

MetaStates == {"kBraking", "kDocking", "kNormal", "kIdle"}

Controllers == {"initial", "normal", "brake", "docking", "idle"}

\* The controller of the next step, given the meta state.
NextController(meta, ready) ==
  CASE meta = "kBraking" -> "brake"
    [] meta = "kDocking" -> "docking"
    [] meta = "kIdle"    -> "idle"
    [] meta = "kNormal"  ->
         IF controller \in {"initial", "normal"} /\ ready
         THEN "normal" ELSE "initial"

StatesInit ==
  /\ meta_state = "kNormal"
  /\ controller = "initial"

\* ShipControl::Brake(), Docking(), Normal() and Idle().
Command(m) ==
  /\ meta_state' = m
  /\ UNCHANGED controller

\* One run of ShipControl::StateMachine.
Step(ready) ==
  /\ controller' = NextController(meta_state, ready)
  /\ UNCHANGED meta_state

StatesNext ==
  \/ \E m \in MetaStates : Command(m)
  \/ \E ready \in BOOLEAN : Step(ready)

StatesSpec == StatesInit /\ [][StatesNext]_<<meta_state, controller>>
=============================================================================
