------------------------------ MODULE RudderCtl ------------------------------
(***************************************************************************)
(* io2/rudderctl_main.c: keep one rudder homed and at the angle the helmsman  *)
(* asks for, through the register cache, over a line bus that may lose lines.  *)
(* Composed of: rudderctl with its cache (EposCell), the queue of requests to *)
(* eposcom and of lines to rudderctl, the drive behind eposcom (EposDrive),    *)
(* eposprobe, which polls the same drive, and the helmsman, which sends angles. *)
(* The nineteen registers that rudder_init configures in one block are one      *)
(* register CONFIG here.                                                        *)
(***************************************************************************)
EXTENDS Integers, FiniteSets, EposCell, EposDrive

CONSTANTS Angles,       \* angles the helmsman may send
          MinPos, MaxPos, \* home_pos_qc and extr_pos_qc
          NaN,          \* no angle yet
          MaxLines,     \* bound on lines on the bus when somebody else adds one
          MaxTargets,   \* bound on the lines the helmsman sends
          MaxLoss,      \* bound on lines the bus drops
          MaxErr,       \* bound on requests that eposcom answers with an error
          MaxFault,     \* bound on drive faults and failed homing runs
          MaxStale,     \* bound on VALID cells that expire
          Prompt,       \* TRUE: more than REQ_TIMEOUT_US passes between two lines
          Probing       \* eposprobe runs

ASSUME RudderAssumption ==
    /\ Angles \subseteq Int
    /\ MinPos \in Int /\ MaxPos \in Int /\ 0 \in MinPos .. MaxPos    \* homed at 0
    /\ {MaxLines, MaxTargets, MaxLoss, MaxErr, MaxFault, MaxStale} \subseteq Nat
    /\ {Prompt, Probing} \subseteq BOOLEAN

Registers == {"STATUS", "CONTROL", "OPMODE", "TARGPOS", "ERROR", "CONFIG"}

VARIABLES regs,         \* rudderctl's cache
          state,        \* DEFUNCT, HOMING, TARGETTING or REACHED
          loop,         \* which of main's two loops it is in: "init" or "control"
          target,       \* target_angle_deg
          woken,        \* what the last processinput returned
          req,          \* requests on their way to eposcom
          inbox,        \* lines on their way to rudderctl
          drive,        \* the EPOS
          left          \* what is left of the bounds on environment steps

vars == <<regs, state, loop, target, woken, req, inbox, drive, left>>

States == {"DEFUNCT", "HOMING", "TARGETTING", "REACHED"}

\* angle_to_qc: linear, and clamped to the two extreme positions.
AngleToQc(angle) ==
    CASE angle < MinPos -> MinPos
      [] angle > MaxPos -> MaxPos
      [] OTHER          -> angle

-----------------------------------------------------------------------------
(* rudder_init and rudder_control: [client, state] after the call.            *)

Result(b, s) == [client |-> b, state |-> s]

ClearFault(b) == b ++ Drop("CONTROL") ++ Put("CONTROL", CONTROL_CLEARFAULT)
                   ++ Drop("ERROR") ++ Ask("ERROR") ++ Drop("STATUS")
Shutdown(b) == b ++ Drop("CONTROL") ++ Put("CONTROL", CONTROL_SHUTDOWN)
SetMode(b, mode) == Shutdown(b ++ Put("OPMODE", mode)) ++ Drop("STATUS")

Homeref(status) == Has(status, STATUS_HOMEREF)

\* r after the block of device_set_register calls, all of which are always made.
Configure(b) == b ++ Put("CONFIG", 1)
ConfiguredIfSent(b) == b.regs["CONFIG"].state \in {"PENDING", "VALID"}    \* mutant: r ignored
Configured(b) == SetHits(b.regs["CONFIG"], 1)

\* Homing, one command further than the last one acknowledged.
HomingStep(b, control, status) ==
    CASE control = CONTROL_SHUTDOWN -> b ++ Put("CONTROL", CONTROL_SWITCHON)
      [] control = CONTROL_SWITCHON -> b ++ Put("CONTROL", CONTROL_START)
      [] control = CONTROL_START /\ ~Has(status, STATUS_HOMINGERROR) -> b
      [] OTHER -> Shutdown(b ++ Drop("OPMODE") ++ Put("OPMODE", OPMODE_HOMING))

RudderInit(b) ==
    LET status  == Val(b, "STATUS")
        control == Val(b, "CONTROL")
        opmode  == Val(b, "OPMODE")
        asked   == b ++ Ask("CONTROL") ++ Ask("OPMODE")
    IN  IF ~Hit(b, "STATUS") THEN Result(b ++ Ask("STATUS"), "DEFUNCT")
        ELSE IF Has(status, STATUS_FAULT) THEN Result(ClearFault(b), "DEFUNCT")
        ELSE IF ~(Hit(b, "CONTROL") /\ Hit(b, "OPMODE")) THEN Result(asked, "DEFUNCT")
        ELSE IF ~Configured(b) THEN Result(Shutdown(Configure(b)), "DEFUNCT")
        ELSE IF ~Homeref(status) /\ opmode # OPMODE_HOMING
             THEN Result(SetMode(b, OPMODE_HOMING), "HOMING")
        ELSE IF ~Homeref(status)
             THEN Result(HomingStep(b, control, status) ++ Drop("STATUS"), "HOMING")
        ELSE IF opmode # OPMODE_PPM THEN Result(SetMode(b, OPMODE_PPM), "DEFUNCT")
        ELSE IF control # CONTROL_SWITCHON
             THEN Result(b ++ Drop("CONTROL") ++ Put("CONTROL", CONTROL_SWITCHON) ++ Drop("STATUS"),
                         "DEFUNCT")
        ELSE Result(b, "TARGETTING")

MoveToStartFirst(b, qc) == b ++ Drop("CONTROL") ++ Put("CONTROL", CONTROL_START)   \* mutant: order
                             ++ Put("TARGPOS", qc) ++ Drop("STATUS")
MoveTo(b, qc) == b ++ Drop("CONTROL") ++ Put("TARGPOS", qc)
                   ++ Put("CONTROL", CONTROL_START) ++ Drop("STATUS")

RudderControl(b, angle) ==
    LET status == Val(b, "STATUS")
        opmode == Val(b, "OPMODE")
        asked  == b ++ Ask("OPMODE") ++ Ask("TARGPOS")
    IN  IF ~Hit(b, "STATUS") THEN Result(b ++ Ask("STATUS"), "DEFUNCT")
        ELSE IF Has(status, STATUS_FAULT) THEN Result(ClearFault(b), "HOMING")
        ELSE IF ~(Hit(b, "OPMODE") /\ Hit(b, "TARGPOS")) THEN Result(asked, "DEFUNCT")
        ELSE IF ~Homeref(status) \/ opmode # OPMODE_PPM THEN Result(b, "HOMING")
        ELSE IF angle = NaN THEN Result(b, "REACHED")
        ELSE IF AngleToQc(angle) # Val(b, "TARGPOS")
             THEN Result(MoveTo(b, AngleToQc(angle)), "TARGETTING")
        ELSE Result(b ++ Drop("STATUS"),
                    IF Has(status, STATUS_TARGETREACHED) THEN "REACHED" ELSE "TARGETTING")

\* The top of main's outer loop.
Reinit(b) == DropAll(b) ++ Ask("STATUS")

-----------------------------------------------------------------------------
ColdCache == [regs |-> [r \in Registers |-> AbsentCell], out |-> <<>>]

Init ==
    /\ regs = Reinit(ColdCache).regs
    /\ req = Reinit(ColdCache).out
    /\ state = "DEFUNCT" /\ loop = "init"
    /\ target = NaN
    /\ woken = 0
    /\ inbox = <<>>
    /\ drive = ColdDrive
    /\ left = [targets |-> MaxTargets, loss |-> MaxLoss, err |-> MaxErr,
               fault |-> MaxFault, stale |-> MaxStale]

\* No request for r is on its way, and no answer.
Forgotten(r) == /\ \A i \in DOMAIN req : req[i].key # r
                /\ \A i \in DOMAIN inbox : inbox[i].key # r

\* What main does once processinput has returned 1: call the function of the loop
\* it is in, and change loops on its result.
React(b, angle) ==
    LET res == IF loop = "init" THEN RudderInit(b) ELSE RudderControl(b, angle)
        restart == loop = "control" /\ res.state = "HOMING"
        after == IF restart THEN Reinit(res.client) ELSE res.client
    IN  /\ regs' = after.regs
        /\ req' = req \o after.out
        /\ state' = res.state
        /\ loop' = CASE restart -> "init"
                     [] loop = "init" /\ res.state = "TARGETTING" -> "control"
                     [] OTHER -> loop

\* processinput with a 'rudderctl:' line: no bus_receive and no bus_expire.
TakeTarget ==
    /\ inbox # <<>> /\ Head(inbox).op = "TARGET"
    /\ inbox' = Tail(inbox)
    /\ target' = Head(inbox).value
    /\ woken' = 1
    /\ React([regs |-> regs, out |-> <<>>], Head(inbox).value)
    /\ UNCHANGED <<drive, left>>

\* processinput with any other line: bus_receive, then bus_expire of the cells
\* in late.  A pending cell may be late when its request or its answer was lost,
\* and is if lines are few (Prompt).
TakeResponse ==
    /\ inbox # <<>> /\ Head(inbox).op # "TARGET"
    /\ LET line == Head(inbox)
           known == line.key \in Registers /\ regs[line.key].state # "ABSENT"
           got == IF known
                  THEN [regs EXCEPT ![line.key] = ReceiveCell(@, line.op, line.value, 0)]
                  ELSE regs
           lost == {r \in Registers : got[r].state = "PENDING" /\ Forgotten(r)}
           valid == {r \in Registers : got[r].state = "VALID"}
       IN  \E waited \in (IF Prompt THEN {lost} ELSE SUBSET lost),
              stale \in (IF left.stale = 0 THEN {{}} ELSE SUBSET valid) :
             LET b == [regs |-> [r \in Registers |-> IF r \in waited \cup stale
                                                      THEN InvalidateCell(got[r], 0) ELSE got[r]],
                       out |-> <<>>]
             IN  /\ Cardinality(stale) <= left.stale
                 /\ left' = [left EXCEPT !.stale = @ - Cardinality(stale)]
                 /\ inbox' = Tail(inbox)
                 /\ IF known THEN woken' = 1 /\ React(b, target)
                             ELSE woken' = 0 /\ regs' = b.regs /\ UNCHANGED <<req, state, loop>>
    /\ UNCHANGED <<target, drive>>

-----------------------------------------------------------------------------
(* The rest of the bus.                                                       *)

Room == Len(req) + Len(inbox) < MaxLines

\* eposcom takes the next request, has the drive carry it out and answers on
\* the bus, where rudderctl gets every answer for its drive.
Serve ==
    /\ req # <<>>
    /\ LET q == Head(req)
           after == IF q.op = "SET" THEN WriteRegister(drive, q.key, q.value) ELSE drive
           value == IF q.op = "SET" THEN q.value ELSE ReadRegister(drive, q.key)
       IN  /\ drive' = after
           /\ inbox' = Append(inbox, [op |-> "ACK", key |-> q.key, value |-> value])
    /\ req' = Tail(req)
    /\ UNCHANGED <<regs, state, loop, target, woken, left>>

ServeError ==
    /\ req # <<>> /\ left.err > 0
    /\ left' = [left EXCEPT !.err = @ - 1]
    /\ inbox' = Append(inbox, [op |-> "ERR", key |-> Head(req).key, value |-> 0])
    /\ req' = Tail(req)
    /\ UNCHANGED <<regs, state, loop, target, woken, drive>>

\* linebusd drops a line for a client that does not keep up.
Lose ==
    /\ left.loss > 0
    /\ left' = [left EXCEPT !.loss = @ - 1]
    /\ \/ req # <<>> /\ req' = Tail(req) /\ UNCHANGED inbox
       \/ inbox # <<>> /\ inbox' = Tail(inbox) /\ UNCHANGED req
    /\ UNCHANGED <<regs, state, loop, target, woken, drive>>

\* eposprobe asks for STATUS and for the position, which rudderctl has no cell for.
ProbeStatus ==
    /\ Probing /\ Room
    /\ req' = Append(req, Get("STATUS"))
    /\ UNCHANGED <<regs, state, loop, target, woken, inbox, drive, left>>
ProbePosition ==
    /\ Probing /\ Room
    /\ inbox' = Append(inbox, [op |-> "ACK", key |-> "CURRPOS", value |-> 0])
    /\ UNCHANGED <<regs, state, loop, target, woken, req, drive, left>>

Steer ==
    /\ left.targets > 0 /\ Room
    /\ \E a \in Angles : inbox' = Append(inbox, [op |-> "TARGET", key |-> "rudderctl", value |-> a])
    /\ left' = [left EXCEPT !.targets = @ - 1]
    /\ UNCHANGED <<regs, state, loop, target, woken, req, drive>>

Work ==
    /\ \/ drive.homing /\ drive' = Homed(drive)
       \/ ~drive.homing /\ drive.goal # drive.pos /\ drive' = Moved(drive)
    /\ UNCHANGED <<regs, state, loop, target, woken, req, inbox, left>>
Fail ==
    /\ left.fault > 0
    /\ left' = [left EXCEPT !.fault = @ - 1]
    /\ drive' \in {Faulted(drive)} \cup (IF drive.homing THEN {Stuck(drive)} ELSE {})
    /\ UNCHANGED <<regs, state, loop, target, woken, req, inbox>>

ProcessInput == TakeTarget \/ TakeResponse
Next == ProcessInput \/ Serve \/ ServeError \/ Lose \/ ProbeStatus \/ ProbePosition
        \/ Steer \/ Work \/ Fail

\* rudderctl and eposcom block on their input and take it when there is some; the
\* drive does what it is told; eposprobe polls twice a second, so again and again when
\* the lines before have been taken.  (Each is stated on the queue it serves: a
\* line leaves inbox or req in no other way, but for the bounded losses and errors.)
Consumed == inbox # <<>> /\ inbox' = Tail(inbox)
Answered == req # <<>> /\ req' = Tail(req)
Fairness == /\ WF_inbox(Consumed) /\ WF_req(Answered) /\ WF_drive(Work)
            /\ SF_req(ProbeStatus)
Spec == Init /\ [][Next]_vars
FairSpec == Spec /\ Fairness

-----------------------------------------------------------------------------
TypeOK ==
    /\ \A r \in Registers : /\ regs[r].state \in {"ABSENT", "INVALID", "PENDING", "VALID"}
                             /\ regs[r].running <=> regs[r].state = "PENDING"
    /\ state \in States
    /\ loop \in {"init", "control"}
    /\ target \in Angles \cup {NaN}
    /\ woken \in {0, 1}
    /\ left.stale \in 0 .. MaxStale

\* The drive moves only with the configuration applied: neither a homing run nor
\* a move starts before all registers of the block were acknowledged, however
\* often initialisation is interrupted and repeated (rudderctl_main.c:163-193).
MovesConfigured == drive.homing \/ drive.goal # drive.pos => drive.config = 1

\* Whatever angle arrives, the drive is never told to leave the range between
\* its extreme positions (actuator.c:23-28, rudderctl_main.c:298-304).
TargetInRange == drive.targpos \in MinPos .. MaxPos /\ drive.goal \in MinPos .. MaxPos

\* rudderctl_main.c:5-6: the rudder is kept homed and close to the reference: if
\* the reference stays at an angle, the rudder comes to it.
Follows ==
    \A a \in Angles : (<>[](target = a)) => <>[](drive.homed /\ drive.pos = AngleToQc(a))

\* rudderctl_main.c:264: REACHED means the rudder is at the target.
ReachedIsThere ==
    state = "REACHED" /\ target # NaN => drive.pos = AngleToQc(target)
=============================================================================
