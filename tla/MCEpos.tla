-------------------------------- MODULE MCEpos --------------------------------
(* What stands between the helmsman's angles and the motors, piece by piece: the      *)
(* register cache, the serial line to the drives, the control of the sail and the      *)
(* measuring of its skew.  None of them sees another's state, so that one run explores *)
(* them side by side: subject says which one moves.                                    *)
EXTENDS EposClient

CONSTANTS Nodes, Present, LinkValues, MaxMistaken, MaxFaults, MaxNoise,
          SailHalf, Targets, SailSkews, NaN, MaxSteers, MaxLines, MaxLate,
          SkewHalf, Bias, ReportTimeout, MaxInterval, Dating, MaxAge, Turns,
          MaxPos, MaxTime, MaxAsked

\* The samples before the first ones are dated so far back that no skew can come of them
\* (skewmon_main.c:78-81; the clock counts from 1970).
ASSUME SkewAssumption ==
    /\ SkewHalf \in Nat \ {0} /\ Bias \in Int
    /\ ReportTimeout \in Nat \ {0}
    /\ MaxInterval \in Int /\ MaxInterval <= 2 * ReportTimeout
    /\ MaxAge \in Nat /\ Turns \subseteq {-1, 0, 1}

ASSUME SailAssumption ==
    SailHalf \in Nat \ {0} /\ Targets \subseteq Int /\ SailSkews \subseteq Int

VARIABLES subject,
          mode, node, nodeidmap, linkReq, try, step, frame, want, up, down,
          dev, todo, answer, linkRegs, seen, said, mistaken, faults, noise,
          sailRegs, state, loop, target, sailSkew, sailReq, inbox, drive, brake, left,
          clock, pos, off, requests, taken, wire, motor, mc, bmmh, skew, stamp

linkVars == <<mode, node, nodeidmap, linkReq, try, step, frame, want, up, down,
              dev, todo, answer, linkRegs, seen, said, mistaken, faults, noise>>
sailVars == <<sailRegs, state, loop, target, sailSkew, sailReq, inbox, drive, brake, left>>
skewVars == <<clock, pos, off, requests, taken, wire, motor, mc, bmmh, skew, stamp>>

SomeTargets == {-2, 1}
EitherWay == {-1, 1}
Link == INSTANCE EposLink WITH req <- linkReq, regs <- linkRegs, Values <- LinkValues
Sail == INSTANCE SailCtl WITH regs <- sailRegs, skew <- sailSkew, req <- sailReq,
                              Half <- SailHalf, Skews <- SailSkews
Mon == INSTANCE SkewMon WITH now <- clock, Half <- SkewHalf, Skews <- {5}

\* Only the one that moves starts in all the ways it may.
MCInit ==
    /\ subject \in {"client", "link", "sail", "skew"}
    /\ Init /\ Link!Init /\ Sail!Init /\ Mon!Init
    /\ subject # "link" => linkRegs = [n \in Present |-> 1]
    /\ subject # "sail" => drive = Sail!ColdDrive
ClientMoves == subject = "client" /\ Next /\ UNCHANGED <<linkVars, sailVars, skewVars>>
LinkMoves == subject = "link" /\ Link!Next /\ UNCHANGED <<vars, sailVars, skewVars>>
SailMoves == subject = "sail" /\ Sail!Next /\ UNCHANGED <<vars, linkVars, skewVars>>
MonMoves == subject = "skew" /\ Mon!Next /\ UNCHANGED <<vars, linkVars, sailVars>>
MCFairness ==
    /\ WF_inbox(subject = "sail" /\ Sail!Consumed)
    /\ WF_sailReq(subject = "sail" /\ Sail!Answered)
    /\ WF_drive(subject = "sail" /\ Sail!Work)
    /\ SF_sailReq(subject = "sail" /\ Sail!Probe)
MCSpec ==
    /\ MCInit
    /\ [][(ClientMoves \/ LinkMoves \/ SailMoves \/ MonMoves) /\ UNCHANGED subject]_<<subject, vars, linkVars, sailVars, skewVars>>
    /\ MCFairness

AnswersTrue == Link!AnswersTrue
SailFollows == Sail!SailFollows
DrivenWithCare == Sail!DrivenWithCare
TurnsTheShortWay == Sail!TurnsTheShortWay
MovedWithCare == Sail!MovedWithCare
SkewIsNear == Mon!SkewIsNear
=============================================================================
