-------------------------------- MODULE SailCtl --------------------------------
(***************************************************************************)
(* io2/sailctl_main.c: turn the boom so that it stands at the angle the helmsman  *)
(* asks for.  The motor's own angle is off by the skew between the gear and the     *)
(* boom, which skewmon reports.  As in RudderCtl the program works through its       *)
(* register cache (EposCell) on a drive behind eposcom (EposDrive); the drive has   *)
(* no home, turns any number of times and is stopped by a brake.  Angles and          *)
(* positions are in the same unit, Half of which are 180 degrees.                       *)
(***************************************************************************)
EXTENDS Integers, EposCell, EposDrive

CONSTANTS Half,         \* 180 degrees
          Targets,      \* angles the helmsman asks for
          Skews,        \* skews that skewmon reports
          NaN,          \* no angle
          MaxSteers,    \* bound on the lines from the helmsman and from skewmon
          MaxLines,     \* bound on the lines on the bus when eposprobe adds one
          MaxLate       \* bound on valid registers that expire

Registers == {"STATUS", "CONTROL", "OPMODE", "TARGPOS", "ERROR", "CONFIG", "BRAKE"}

VARIABLES regs, state, loop,    \* sailctl: its cache, state, and main's loop it is in
          target, skew,         \* target_angle_deg, skew.angle_deg
          req, inbox,           \* lines on their way to eposcom and to sailctl
          drive, brake,         \* the EPOS, with one more register
          left                  \* what is left of the bounds
vars == <<regs, state, loop, target, skew, req, inbox, drive, brake, left>>

\* angle_to_qc and qc_to_angle of the sail: the motor counts against the angle.
AngleToQc(angle) == IF angle < -Half THEN Half ELSE IF angle > Half THEN -Half ELSE -angle
QcToAngle(qc) == -qc

\* The two loops that bring an angle to -180 .. 180.
Wrapped(a) == CHOOSE w \in -Half .. Half :
                 (w - a) % (2 * Half) = 0 /\ (a = -Half => w = a) /\ (a > -Half => w # -Half)

-----------------------------------------------------------------------------
Result(b, s) == [client |-> b, state |-> s]

Force(b, c) == Then(Then(b, Drop("CONTROL")), Put("CONTROL", c))
ClearFault(b) ==
    Then(Then(Then(Force(b, CONTROL_CLEARFAULT), Drop("ERROR")), Ask("ERROR")), Drop("STATUS"))
Command(b, c) == Then(Force(b, c), Drop("STATUS"))

\* The block of device_set_register calls ends with the brake.
Configure(b) == Then(Then(Then(b, Put("OPMODE", OPMODE_PPM)), Put("CONFIG", 1)), Put("BRAKE", 0))
Configured(b) == /\ SetHits(b.regs["OPMODE"], OPMODE_PPM)
                 /\ SetHits(b.regs["CONFIG"], 1) /\ SetHits(b.regs["BRAKE"], 0)

SailInit(b) ==
    IF ~Hit(b, "STATUS") THEN Result(Then(b, Ask("STATUS")), "DEFUNCT")
    ELSE IF Has(Val(b, "STATUS"), STATUS_FAULT) THEN Result(ClearFault(b), "DEFUNCT")
    ELSE IF ~Hit(b, "CONTROL") THEN Result(Then(b, Ask("CONTROL")), "DEFUNCT")
    ELSE IF ~Configured(b) THEN Result(Command(Configure(b), CONTROL_SHUTDOWN), "DEFUNCT")
    ELSE IF Val(b, "CONTROL") = CONTROL_SHUTDOWN
         THEN Result(Command(b, CONTROL_SWITCHON), "DEFUNCT")
    ELSE Result(b, "TARGETTING")

MoveToCached(b, qc) ==                  \* mutant: the last START still cached
    Then(Then(b, Put("TARGPOS", qc)), Put("CONTROL", CONTROL_START))
MoveTo(b, qc) ==
    Then(Then(Then(b, Drop("CONTROL")), Put("TARGPOS", qc)), Put("CONTROL", CONTROL_START))

SailControl(b, angle, off) ==
    LET status == Val(b, "STATUS")
        asked == Then(Then(b, Ask("OPMODE")), Ask("TARGPOS"))
        curr == Val(b, "TARGPOS")
        new == curr + AngleToQc(Wrapped(angle - off - QcToAngle(curr)))
    IN  IF ~Hit(b, "STATUS") THEN Result(Then(b, Ask("STATUS")), "DEFUNCT")
        ELSE IF Has(status, STATUS_FAULT) THEN Result(ClearFault(b), "HOMING")
        ELSE IF ~(Hit(b, "OPMODE") /\ Hit(b, "TARGPOS")) THEN Result(asked, "DEFUNCT")
        ELSE IF Val(b, "OPMODE") # OPMODE_PPM THEN Result(b, "HOMING")
        ELSE IF off = NaN THEN Result(b, "DEFUNCT")
        ELSE IF angle = NaN THEN Result(b, "REACHED")
        ELSE IF new = curr THEN Result(Then(b, Drop("STATUS")), IF Has(status, STATUS_TARGETREACHED)
                                                              THEN "REACHED" ELSE "TARGETTING")
        ELSE IF ~SetHits(b.regs["BRAKE"], 0) THEN Result(Then(b, Put("BRAKE", 0)), "DEFUNCT")
        ELSE Result(Then(MoveTo(b, new), Drop("STATUS")), "TARGETTING")

\* device_invalidate_all and the first request, at the top of main's loop.
Reinit(b) == Then(DropAll(b), Ask("STATUS"))

\* main after processinput returned 1: initialise until TARGETTING, then control until
\* HOMING.  The wait for a skew between the two loops is left at once: see Init.  What b
\* asks is behind the lines that are on their way to eposcom already.
React(b, angle, off) ==
    LET res == IF loop = "init" THEN SailInit(b) ELSE SailControl(b, angle, off)
        restart == loop = "control" /\ res.state = "HOMING"
        after == IF restart THEN Reinit(res.client) ELSE res.client
    IN  /\ regs' = after.regs /\ req' = after.out
        /\ state' = res.state
        /\ loop' = CASE restart -> "init"
                     [] loop = "init" /\ res.state = "TARGETTING" -> "control"
                     [] OTHER -> loop

\* processinput with a line of the helmsman or of skewmon.
TakeAngle ==
    /\ inbox # <<>> /\ Head(inbox).op \in {"TARGET", "SKEW"}
    /\ inbox' = Tail(inbox)
    /\ target' = IF Head(inbox).op = "TARGET" THEN Head(inbox).value ELSE target
    /\ skew' = IF Head(inbox).op = "SKEW" THEN Head(inbox).value ELSE skew
    /\ React([regs |-> regs, out |-> req], target', skew')
    /\ UNCHANGED <<drive, brake, left>>

\* processinput with a response: bus_receive, then bus_expire (of at most one cell here).
TakeResponse ==
    /\ inbox # <<>> /\ Head(inbox).op = "ACK"
    /\ LET line == Head(inbox)
           got == [regs EXCEPT ![line.key] = ReceiveCell(@, line.op, line.value, 0)]
           valid == {r \in Registers : got[r].state = "VALID"}
       IN  \E stale \in {{}} \cup (IF left.late = 0 THEN {} ELSE {{r} : r \in valid}) :
             /\ left' = [left EXCEPT !.late = IF stale = {} THEN @ ELSE @ - 1]
             /\ React([regs |-> [r \in Registers |-> IF r \in stale THEN InvalidateCell(got[r], 0)
                                                      ELSE got[r]], out |-> req], target, skew)
    /\ inbox' = Tail(inbox)
    /\ UNCHANGED <<target, skew, drive, brake>>

-----------------------------------------------------------------------------
(* The rest of the bus. *)
Serve ==
    /\ req # <<>>
    /\ LET q == Head(req)
           isBrake == q.key = "BRAKE"
           read == IF isBrake THEN brake ELSE ReadRegister(drive, q.key)
       IN  /\ drive' = IF q.op = "SET" /\ ~isBrake THEN WriteRegister(drive, q.key, q.value) ELSE drive
           /\ brake' = IF q.op = "SET" /\ isBrake THEN q.value ELSE brake
           /\ inbox' = Append(inbox, [op |-> "ACK", key |-> q.key,
                                      value |-> IF q.op = "SET" THEN q.value ELSE read])
    /\ req' = Tail(req)
    /\ UNCHANGED <<regs, state, loop, target, skew, left>>

Send ==
    /\ left.steers > 0
    /\ left' = [left EXCEPT !.steers = @ - 1]
    /\ \E line \in {[op |-> "TARGET", key |-> "angle", value |-> a] : a \in Targets}
                   \cup {[op |-> "SKEW", key |-> "angle", value |-> a] : a \in Skews} :
          inbox' = Append(inbox, line)
    /\ UNCHANGED <<regs, state, loop, target, skew, req, drive, brake>>

\* eposprobe asks for the STATUS twice a second.
Probe ==
    /\ Len(req) + Len(inbox) < MaxLines
    /\ req' = Append(req, Get("STATUS"))
    /\ UNCHANGED <<regs, state, loop, target, skew, inbox, drive, brake, left>>

Work ==
    /\ drive.goal # drive.pos /\ brake = 0
    /\ drive' = Moved(drive)
    /\ UNCHANGED <<regs, state, loop, target, skew, req, inbox, brake, left>>

Next == TakeAngle \/ TakeResponse \/ Serve \/ Send \/ Probe \/ Work

-----------------------------------------------------------------------------
\* The motor is cold, or was left at rest by an earlier sailctl.
LeftAt(p) == [ColdDrive EXCEPT !.pos = p, !.goal = p, !.targpos = p, !.config = 1,
              !.opmode = OPMODE_PPM, !.control = CONTROL_START, !.enabled = TRUE]
ColdCache == [regs |-> [r \in Registers |-> AbsentCell], out |-> <<>>]

\* The skew starts as 0, not as "none", so that nobody waits for the first one.
Init ==
    /\ regs = Reinit(ColdCache).regs /\ req = Reinit(ColdCache).out
    /\ state = "DEFUNCT" /\ loop = "init" /\ target = NaN /\ skew = 0
    /\ inbox = <<>>
    /\ \/ drive = ColdDrive /\ brake = 1
       \/ drive \in {LeftAt(p) : p \in {0, Half + 1}} /\ brake = 0
    /\ left = [steers |-> MaxSteers, late |-> MaxLate]

\* sailctl and eposcom take what comes, the motor turns, eposprobe polls.
Consumed == inbox # <<>> /\ inbox' = Tail(inbox)
Answered == req # <<>> /\ req' = Tail(req)
Spec == Init /\ [][Next]_vars /\ WF_inbox(Consumed) /\ WF_req(Answered) /\ WF_drive(Work)
        /\ SF_req(Probe)

-----------------------------------------------------------------------------
\* The boom is driven only with the configuration applied, the brake off and, after the
\* shutdown that the code says "we must have issued", the motor switched on: what the
\* cache tells of that is true of the drive (sailctl_main.c:123-171).
DrivenWithCare ==
    loop = "control" \/ drive.goal # drive.pos => drive.config = 1 /\ brake = 0 /\ drive.enabled

\* However answers, expiries and new angles fall together, no set point is further than
\* half a turn from the one before (sailctl_main.c:198-218).
TurnsTheShortWay == [][drive.goal' # drive.goal => drive.goal' - drive.goal \in -Half .. Half]_vars

\* The boom is moved only by a drive that is ready, and by half a turn at most
\* (sailctl_main.c:93-219).
MovedWithCare == [][/\ DrivenWithCare'
                   /\ drive.goal' # drive.goal => drive.goal' - drive.goal \in -Half .. Half]_vars

AtTarget == target # NaN /\ (QcToAngle(drive.pos) + skew - target) % (2 * Half) = 0
\* Whatever targets and skews come, in whatever order and however often registers
\* expire: once they stay, the motor comes to stand, modulo whole turns, where the boom
\* is at the target (sailctl_main.c:196-218).
SailFollows == <>[](target # NaN) => <>[]AtTarget
=============================================================================
