------------------------------ MODULE EposDrive ------------------------------
(***************************************************************************)
(* The EPOS motor controller, which is not in the repository: what the         *)
(* control programs rely on when they write its CONTROL, OPMODE, TARGPOS and   *)
(* configuration registers and read its STATUS word.                            *)
(***************************************************************************)
EXTENDS Integers

\* The words of actuator.h.
CONTROL_CLEARFAULT == 128
CONTROL_SHUTDOWN == 6
CONTROL_START == 63
CONTROL_SWITCHON == 15
OPMODE_HOMING == 6
OPMODE_PPM == 1
STATUS_FAULT == 8
STATUS_HOMEREF == 32768
STATUS_HOMINGERROR == 8192
STATUS_TARGETREACHED == 1024
Has(status, bit) == (status \div bit) % 2 = 1

\* A drive as it is found: powered, not homed, not configured.
ColdDrive == [control |-> 0, opmode |-> 0, targpos |-> 0, config |-> 0,
              enabled |-> FALSE, homed |-> FALSE, homing |-> FALSE,
              homingErr |-> FALSE, fault |-> FALSE, pos |-> 0, goal |-> 0]

Status(d) ==
    LET word(flag, bit) == IF flag THEN bit ELSE 0
    IN  word(d.fault, STATUS_FAULT) + word(d.homed, STATUS_HOMEREF)
        + word(d.homingErr, STATUS_HOMINGERROR) + word(d.goal = d.pos, STATUS_TARGETREACHED)

ReadRegister(d, r) ==
    CASE r = "STATUS"  -> Status(d)
      [] r = "CONTROL" -> d.control
      [] r = "OPMODE"  -> d.opmode
      [] r = "TARGPOS" -> d.targpos
      [] r = "CONFIG"  -> d.config
      [] r = "ERROR"   -> 0

\* Without power on the motor it stays where it is.
Halted(d) == [d EXCEPT !.enabled = FALSE, !.homing = FALSE, !.goal = d.pos]

\* A new set point is taken, or a homing run begun, by a START of an enabled drive.
Started(d) ==
    CASE d.enabled /\ d.opmode = OPMODE_HOMING ->
            [d EXCEPT !.homing = TRUE, !.homed = FALSE, !.homingErr = FALSE]
      [] d.enabled /\ d.opmode = OPMODE_PPM    -> [d EXCEPT !.goal = d.targpos]
      [] OTHER                                 -> d

Controlled(d, v) ==
    CASE v = CONTROL_CLEARFAULT            -> [d EXCEPT !.fault = FALSE]
      [] v = CONTROL_SHUTDOWN              -> Halted(d)
      [] v = CONTROL_SWITCHON /\ ~d.fault  -> [d EXCEPT !.enabled = TRUE, !.homing = FALSE]
      [] v = CONTROL_START /\ ~d.fault     -> Started(d)
      [] OTHER                       -> d

WriteRegister(d, r, v) ==
    CASE r = "CONTROL" -> [Controlled(d, v) EXCEPT !.control = v]
      [] r = "OPMODE"  -> [d EXCEPT !.opmode = v]
      [] r = "TARGPOS" -> [d EXCEPT !.targpos = v]
      [] r = "CONFIG"  -> [d EXCEPT !.config = v]

Homed(d)   == [d EXCEPT !.homing = FALSE, !.homed = TRUE, !.pos = 0, !.goal = 0]
Stuck(d)   == [d EXCEPT !.homing = FALSE, !.homingErr = TRUE]
Faulted(d) == [Halted(d) EXCEPT !.fault = TRUE]
Moved(d)   == [d EXCEPT !.pos = IF d.pos < d.goal THEN d.pos + 1 ELSE d.pos - 1]
=============================================================================
