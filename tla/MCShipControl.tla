---------------------------- MODULE MCShipControl ----------------------------
(***************************************************************************)
(* Small instances of ShipControl, of the filter block that provides its   *)
(* input, and of the filters that one is made of; subject says which one   *)
(* moves.  The program always has a heading (helmsman_main.cc:190 sets     *)
(* one, only numbers replace it), and without valid measurements nobody    *)
(* looks at the wind angle.                                                *)
(***************************************************************************)
EXTENDS ShipControl, Integers

CONSTANTS OmegaLen, HeadingLen, SpeedLen, AppLen, TrueLen, Period, Samples, Turns

ASSUME FilterAssumption ==
  /\ Period \in Nat \ {0} /\ Period % 2 = 0
  /\ Samples \in Nat \ {0, 1}
  /\ Turns \subseteq -(Period \div 2) .. (Period \div 2) - 1

VARIABLES subject,
          imu_fault, valid_app_wind, om_z, phi_z, speed, app, true, fil, up, speedless,
          kind, inner, around, course, past, early
blockVars == <<imu_fault, valid_app_wind, om_z, phi_z, speed, app, true, fil, up, speedless>>
filterVars == <<kind, inner, around, course, past, early>>

Block == INSTANCE FilterBlock
Library == INSTANCE Filters
\* Straight on, half a turn to port, and less to starboard.
MCTurns == {0, -(Period \div 2), Period \div 3}

MCInputs ==
  {in \in InputType :
     /\ in.heading
     /\ in.wind \in {0, 1, 3, 4}
     /\ in.valid \/ in.trueWind => in.sail
     /\ ~in.valid => in.downwind}

MCInit ==
  /\ Init /\ Block!Init /\ Library!Init
  /\ subject \in {"ship", "block", "library"}
  /\ subject # "library" => kind = "median3"

ShipMoves == subject = "ship" /\ Next /\ UNCHANGED <<subject, blockVars, filterVars>>
BlockMoves == subject = "block" /\ Block!Next /\ UNCHANGED <<subject, vars, filterVars>>
LibraryMoves == subject = "library" /\ Library!Next /\ UNCHANGED <<subject, vars, blockVars>>
MCSpec ==
  /\ MCInit
  /\ [][ShipMoves \/ BlockMoves \/ LibraryMoves]_<<subject, vars, blockVars, filterVars>>
  /\ WF_vars(subject = "ship" /\ ControlStep)

ValidWindIsKnown == Block!ValidWindIsKnown
FollowsTheTurn == Library!FollowsTheTurn
=============================================================================
