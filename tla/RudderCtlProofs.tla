--------------------------- MODULE RudderCtlProofs ---------------------------
(* What holds of the rudder control for every range of positions, every set of *)
(* angles and any number of lost lines, errors, faults and stale registers.    *)
EXTENDS RudderCtl, FiniteSetTheorems, TLAPS

CellRecords == [state : {"ABSENT", "INVALID", "PENDING", "VALID"}, value : Int,
                running : BOOLEAN, at : Int]
Disciplined(c) == c.running <=> c.state = "PENDING"
Cells == {c \in CellRecords : Disciplined(c)}
Calls == [call : {"get", "set", "invalidate"}, reg : Registers, value : Int]
Requests == [op : {"GET", "SET"}, key : Registers, value : Int]
Lines == [op : {"ACK", "ERR", "TARGET"}, key : Registers \cup {"CURRPOS", "rudderctl"}, value : Int]
Drives == [control : Int, opmode : Int, targpos : MinPos .. MaxPos, config : Int,
           enabled : BOOLEAN, homed : BOOLEAN, homing : BOOLEAN, homingErr : BOOLEAN,
           fault : BOOLEAN, pos : MinPos .. MaxPos, goal : MinPos .. MaxPos]

Lefts == [targets : Nat, loss : Nat, err : Nat, fault : Nat, stale : 0 .. MaxStale]

\* What rudderctl may ask of a drive whose CONFIG register is cfg: only writable
\* registers are written, the configuration only as it should be, set points in
\* range, and START only when the configuration is there.
Careful(q, cfg) ==
    /\ q.op = "SET" => q.key \in {"CONTROL", "OPMODE", "TARGPOS", "CONFIG"}
    /\ q.key = "CONFIG" => q.op = "SET" /\ q.value = 1
    /\ q.key = "TARGPOS" /\ q.op = "SET" => q.value \in MinPos .. MaxPos
    /\ q.key = "CONTROL" /\ q.op = "SET" /\ q.value = CONTROL_START => cfg = 1
CarefulCall(c, cfg) ==
    /\ c.call = "set" => Careful(Set(c.reg, c.value), cfg)
    /\ c.call = "get" => c.reg # "CONFIG"

Client(b, cfg) ==
    /\ b \in [regs : [Registers -> Cells], out : Seq(Requests)]
    /\ \A i \in DOMAIN b.out : Careful(b.out[i], cfg)
    /\ b.regs["CONFIG"].state = "VALID" => cfg = 1

-----------------------------------------------------------------------------
(* One call, and the chains of calls that rudder_init and rudder_control make. *)

LEMMA CallsKeepDiscipline ==
    ASSUME NEW c \in CellRecords, Disciplined(c), NEW t \in Int, NEW v \in Int,
           NEW op \in {"ACK", "ERR"}
    PROVE  /\ GetCell(c, t) \in CellRecords /\ Disciplined(GetCell(c, t))
           /\ SetCell(c, v, t) \in CellRecords /\ Disciplined(SetCell(c, v, t))
           /\ InvalidateCell(c, t) \in CellRecords /\ Disciplined(InvalidateCell(c, t))
           /\ ReceiveCell(c, op, v, t) \in CellRecords /\ Disciplined(ReceiveCell(c, op, v, t))
<1> USE DEF CellRecords, Disciplined, Tick
<1>1. GetCell(c, t) \in CellRecords /\ Disciplined(GetCell(c, t))
  BY DEF GetCell, GetAsks
<1>2. SetCell(c, v, t) \in CellRecords /\ Disciplined(SetCell(c, v, t))
  BY DEF SetCell, SetAsks
<1>3. InvalidateCell(c, t) \in CellRecords /\ Disciplined(InvalidateCell(c, t))
  BY DEF InvalidateCell
<1>4. ReceiveCell(c, op, v, t) \in CellRecords /\ Disciplined(ReceiveCell(c, op, v, t))
  BY DEF ReceiveCell
<1>5. QED
  BY <1>1, <1>2, <1>3, <1>4

LEMMA CellsStayCells ==
    ASSUME NEW c \in Cells, NEW v \in Int, NEW op \in {"ACK", "ERR"}
    PROVE  /\ GetCell(c, 0) \in Cells /\ SetCell(c, v, 0) \in Cells
           /\ InvalidateCell(c, 0) \in Cells /\ ReceiveCell(c, op, v, 0) \in Cells
<1>1. c \in CellRecords /\ Disciplined(c) /\ 0 \in Int
  BY DEF Cells
<1>2. QED
  BY <1>1, CallsKeepDiscipline DEF Cells

\* No call of the program makes a register valid: only an answer does.
LEMMA CallsDoNotValidate ==
    ASSUME NEW c \in Cells, NEW v \in Int
    PROVE  /\ GetCell(c, 0).state = "VALID" => c.state = "VALID"
           /\ SetCell(c, v, 0).state = "VALID" => c.state = "VALID"
           /\ InvalidateCell(c, 0).state # "VALID"
<1>1. c \in CellRecords
  BY DEF Cells
<1>2. QED
  BY <1>1 DEF CellRecords, Tick, GetCell, GetAsks, SetCell, SetAsks, InvalidateCell

LEMMA CarefulCallKeepsClient ==
    ASSUME NEW cfg, NEW b, Client(b, cfg), NEW c \in Calls, CarefulCall(c, cfg)
    PROVE  Client(b ++ c, cfg)
<1>1. /\ b.regs \in [Registers -> Cells] /\ b.out \in Seq(Requests)
      /\ c.reg \in Registers /\ c.value \in Int /\ c.call \in {"get", "set", "invalidate"}
  BY DEF Client, Calls
<1>2. Made(c, b.regs[c.reg]) \in Cells
  BY <1>1, CellsStayCells DEF Made
<1>3. /\ Written(c, b.regs[c.reg]) \in Seq(Requests)
      /\ \A i \in DOMAIN Written(c, b.regs[c.reg]) : Careful(Written(c, b.regs[c.reg])[i], cfg)
  <2>1. CASE Written(c, b.regs[c.reg]) = << >>
    BY <2>1
  <2>2. CASE c.call = "get" /\ Written(c, b.regs[c.reg]) = <<Get(c.reg)>>
    <3>1. Get(c.reg) \in Requests
      BY <1>1 DEF Get, Requests
    <3>2. Careful(Get(c.reg), cfg)
      BY <2>2 DEF CarefulCall, Careful, Get
    <3>3. QED
      BY <2>2, <3>1, <3>2
  <2>3. CASE c.call = "set" /\ Written(c, b.regs[c.reg]) = <<Set(c.reg, c.value)>>
    <3>1. Set(c.reg, c.value) \in Requests
      BY <1>1 DEF Set, Requests
    <3>2. Careful(Set(c.reg, c.value), cfg)
      BY <2>3 DEF CarefulCall
    <3>3. QED
      BY <2>3, <3>1, <3>2
  <2>4. QED
    BY <1>1, <2>1, <2>2, <2>3 DEF Written
<1>4. \A i \in DOMAIN (b.out \o Written(c, b.regs[c.reg])) :
          Careful((b.out \o Written(c, b.regs[c.reg]))[i], cfg)
  <2> DEFINE w == Written(c, b.regs[c.reg])
  <2> SUFFICES ASSUME NEW i \in DOMAIN (b.out \o w) PROVE Careful((b.out \o w)[i], cfg)
    OBVIOUS
  <2>1. w \in Seq(Requests) /\ \A j \in DOMAIN w : Careful(w[j], cfg)
    BY <1>3
  <2>2. \A j \in DOMAIN b.out : Careful(b.out[j], cfg)
    BY DEF Client
  <2> HIDE DEF w
  <2>3. CASE i <= Len(b.out)
    <3>1. (b.out \o w)[i] = b.out[i] /\ i \in DOMAIN b.out
      BY <1>1, <2>1, <2>3
    <3>2. QED
      BY <2>2, <3>1
  <2>4. CASE i > Len(b.out)
    <3>1. (b.out \o w)[i] = w[i - Len(b.out)] /\ i - Len(b.out) \in DOMAIN w
      BY <1>1, <2>1, <2>4
    <3>2. QED
      BY <2>1, <3>1
  <2>5. QED
    BY <1>1, <2>1, <2>3, <2>4
<1>5. (b ++ c).regs["CONFIG"].state = "VALID" => cfg = 1
  <2>1. "CONFIG" \in Registers
    BY DEF Registers
  <2>2. Made(c, b.regs[c.reg]).state = "VALID" => b.regs[c.reg].state = "VALID"
    BY <1>1, CallsDoNotValidate DEF Made
  <2>3. QED
    BY <1>1, <2>1, <2>2 DEF ++, Then, Client
<1>6. QED
  <2>1. b ++ c \in [regs : [Registers -> Cells], out : Seq(Requests)]
    BY <1>1, <1>2, <1>3 DEF ++, Then
  <2>2. (b ++ c).out = b.out \o Written(c, b.regs[c.reg])
    BY DEF ++, Then
  <2>3. QED
    BY <1>4, <1>5, <2>1, <2>2 DEF Client

LEMMA TheCalls ==
    ASSUME NEW cfg, NEW r \in Registers, NEW v \in Int
    PROVE  /\ Drop(r) \in Calls /\ CarefulCall(Drop(r), cfg)
           /\ Ask(r) \in Calls /\ (r # "CONFIG" => CarefulCall(Ask(r), cfg))
           /\ Put(r, v) \in Calls /\ (Careful(Set(r, v), cfg) => CarefulCall(Put(r, v), cfg))
BY DEF Drop, Ask, Put, Calls, CarefulCall

\* The calls, each on its own, for a chain of them.
LEMMA Dropped == ASSUME NEW cfg, NEW b, Client(b, cfg), NEW r \in Registers
                 PROVE  Client(b ++ Drop(r), cfg)
BY TheCalls, CarefulCallKeepsClient

LEMMA Asked == ASSUME NEW cfg, NEW b, Client(b, cfg), NEW r \in Registers, r # "CONFIG"
               PROVE  Client(b ++ Ask(r), cfg)
BY TheCalls, CarefulCallKeepsClient

LEMMA PutDown == ASSUME NEW cfg, NEW b, Client(b, cfg), NEW r \in Registers, NEW v \in Int,
                        Careful(Set(r, v), cfg)
                 PROVE  Client(b ++ Put(r, v), cfg)
BY TheCalls, CarefulCallKeepsClient

LEMMA Commanded ==
    ASSUME NEW cfg, NEW b, Client(b, cfg), NEW v \in Int, v = CONTROL_START => cfg = 1
    PROVE  Client(b ++ Put("CONTROL", v), cfg)
<1>1. "CONTROL" \in Registers /\ Careful(Set("CONTROL", v), cfg)
  BY DEF Registers, Careful, Set
<1>2. QED
  BY <1>1, PutDown

LEMMA ModeSet == ASSUME NEW cfg, NEW b, Client(b, cfg), NEW v \in Int
                 PROVE  Client(b ++ Put("OPMODE", v), cfg)
<1>1. "OPMODE" \in Registers /\ Careful(Set("OPMODE", v), cfg)
  BY DEF Registers, Careful, Set
<1>2. QED
  BY <1>1, PutDown

LEMMA ControlWords ==
    /\ {CONTROL_CLEARFAULT, CONTROL_SHUTDOWN, CONTROL_START, CONTROL_SWITCHON} \subseteq Int
    /\ CONTROL_START \notin {CONTROL_CLEARFAULT, CONTROL_SHUTDOWN, CONTROL_SWITCHON}
    /\ {OPMODE_HOMING, OPMODE_PPM} \subseteq Int
BY DEF CONTROL_CLEARFAULT, CONTROL_SHUTDOWN, CONTROL_START, CONTROL_SWITCHON,
       OPMODE_HOMING, OPMODE_PPM

LEMMA TheRegisters ==
    /\ {"STATUS", "CONTROL", "OPMODE", "TARGPOS", "ERROR", "CONFIG"} = Registers
    /\ "CONFIG" \notin {"STATUS", "CONTROL", "OPMODE", "TARGPOS", "ERROR"}
BY DEF Registers

LEMMA RegistersFinite == IsFiniteSet(Registers)
<1> DEFINE some == {"STATUS"} \cup {"CONTROL"} \cup {"OPMODE"}
           rest == {"TARGPOS"} \cup {"ERROR"} \cup {"CONFIG"}
<1>1. IsFiniteSet({"STATUS"} \cup {"CONTROL"}) /\ IsFiniteSet({"TARGPOS"} \cup {"ERROR"})
  BY FS_Singleton, FS_Union
<1>2. IsFiniteSet(some) /\ IsFiniteSet(rest)
  BY <1>1, FS_Singleton, FS_Union
<1>3. Registers = some \cup rest
  BY DEF Registers
<1> HIDE DEF some, rest
<1>4. QED
  BY <1>2, <1>3, FS_Union

LEMMA ShutdownIsCareful == ASSUME NEW cfg, NEW b, Client(b, cfg)
                           PROVE  Client(Shutdown(b), cfg)
<1>1. Client(b ++ Drop("CONTROL"), cfg)
  BY Dropped, TheRegisters
<1>2. Client(b ++ Drop("CONTROL") ++ Put("CONTROL", CONTROL_SHUTDOWN), cfg)
  BY <1>1, Commanded, ControlWords
<1>3. QED
  BY <1>2 DEF Shutdown

LEMMA ClearFaultIsCareful == ASSUME NEW cfg, NEW b, Client(b, cfg)
                             PROVE  Client(ClearFault(b), cfg)
<1> DEFINE b1 == b ++ Drop("CONTROL")
           b2 == b1 ++ Put("CONTROL", CONTROL_CLEARFAULT)
           b3 == b2 ++ Drop("ERROR")
           b4 == b3 ++ Ask("ERROR")
<1>1. Client(b1, cfg)
  BY Dropped, TheRegisters
<1>2. Client(b2, cfg)
  BY <1>1, Commanded, ControlWords
<1>3. Client(b3, cfg)
  BY <1>2, Dropped, TheRegisters
<1>4. Client(b4, cfg)
  BY <1>3, Asked, TheRegisters
<1>5. Client(b4 ++ Drop("STATUS"), cfg)
  BY <1>4, Dropped, TheRegisters
<1>6. QED
  BY <1>5 DEF ClearFault

LEMMA SetModeIsCareful == ASSUME NEW cfg, NEW b, Client(b, cfg), NEW mode \in Int
                          PROVE  Client(SetMode(b, mode), cfg)
<1>1. Client(b ++ Put("OPMODE", mode), cfg)
  BY ModeSet
<1>2. Client(Shutdown(b ++ Put("OPMODE", mode)), cfg)
  BY <1>1, ShutdownIsCareful
<1>3. QED
  BY <1>2, Dropped, TheRegisters DEF SetMode

\* Homing gives START, which only a configured drive may get.
LEMMA HomingStepIsCareful == ASSUME NEW cfg, NEW b, Client(b, cfg), cfg = 1, NEW control, NEW status
                             PROVE  Client(HomingStep(b, control, status), cfg)
<1>1. Client(b ++ Put("CONTROL", CONTROL_SWITCHON), cfg)
  BY Commanded, ControlWords
<1>2. Client(b ++ Put("CONTROL", CONTROL_START), cfg)
  BY Commanded, ControlWords
<1>3. Client(Shutdown(b ++ Drop("OPMODE") ++ Put("OPMODE", OPMODE_HOMING)), cfg)
  <2>1. Client(b ++ Drop("OPMODE"), cfg)
    BY Dropped, TheRegisters
  <2>2. Client(b ++ Drop("OPMODE") ++ Put("OPMODE", OPMODE_HOMING), cfg)
    BY <2>1, ModeSet, ControlWords
  <2>3. QED
    BY <2>2, ShutdownIsCareful
<1>4. QED
  BY <1>1, <1>2, <1>3 DEF HomingStep

\* rudder_init asks carefully, and ends in TARGETTING only with the configuration done.
LEMMA InitIsCareful ==
    ASSUME NEW cfg, NEW b, Client(b, cfg)
    PROVE  /\ Client(RudderInit(b).client, cfg)
           /\ RudderInit(b).state \in States
           /\ RudderInit(b).state = "TARGETTING" => cfg = 1
<1> DEFINE status  == Val(b, "STATUS")
           control == Val(b, "CONTROL")
           opmode  == Val(b, "OPMODE")
<1>1. Client(b ++ Ask("STATUS"), cfg)
  BY Asked, TheRegisters
<1>2. Client(ClearFault(b), cfg)
  BY ClearFaultIsCareful
<1>3. Client(b ++ Ask("CONTROL") ++ Ask("OPMODE"), cfg)
  <2>1. Client(b ++ Ask("CONTROL"), cfg)
    BY Asked, TheRegisters
  <2>2. QED
    BY <2>1, Asked, TheRegisters
<1>4. Client(Shutdown(Configure(b)), cfg)
  <2>1. "CONFIG" \in Registers /\ Careful(Set("CONFIG", 1), cfg)
    BY DEF Registers, Careful, Set
  <2>2. Client(b ++ Put("CONFIG", 1), cfg)
    BY <2>1, PutDown
  <2>3. QED
    BY <2>2, ShutdownIsCareful DEF Configure
<1>5. Configured(b) => cfg = 1
  BY DEF Configured, SetHits, Client
<1>6. Client(SetMode(b, OPMODE_HOMING), cfg) /\ Client(SetMode(b, OPMODE_PPM), cfg)
  BY SetModeIsCareful, ControlWords
<1>7. Configured(b) => Client(HomingStep(b, control, status) ++ Drop("STATUS"), cfg)
  <2> HAVE Configured(b)
  <2>1. Client(HomingStep(b, control, status), cfg)
    BY <1>5, HomingStepIsCareful
  <2>2. QED
    BY <2>1, Dropped, TheRegisters
<1>8. Client(b ++ Drop("CONTROL") ++ Put("CONTROL", CONTROL_SWITCHON) ++ Drop("STATUS"), cfg)
  <2>1. Client(b ++ Drop("CONTROL"), cfg)
    BY Dropped, TheRegisters
  <2>2. Client(b ++ Drop("CONTROL") ++ Put("CONTROL", CONTROL_SWITCHON), cfg)
    BY <2>1, Commanded, ControlWords
  <2>3. QED
    BY <2>2, Dropped, TheRegisters
<1>9. QED
  <2> HIDE DEF status, control, opmode
  <2>1. QED
    BY <1>1, <1>2, <1>3, <1>4, <1>5, <1>6, <1>7, <1>8
       DEF RudderInit, Result, States, status, control, opmode

LEMMA ClampInRange == ASSUME NEW a \in Int
                      PROVE  AngleToQc(a) \in MinPos .. MaxPos
BY RudderAssumption DEF AngleToQc

\* rudder_control asks carefully of a configured drive: its set points are in range.
LEMMA ControlIsCareful ==
    ASSUME NEW cfg, NEW b, Client(b, cfg), cfg = 1, NEW a \in Angles \cup {NaN}
    PROVE  /\ Client(RudderControl(b, a).client, cfg)
           /\ RudderControl(b, a).state \in States
<1>1. Client(b ++ Ask("STATUS"), cfg) /\ Client(b ++ Drop("STATUS"), cfg)
  BY Asked, Dropped, TheRegisters
<1>2. Client(ClearFault(b), cfg)
  BY ClearFaultIsCareful
<1>3. Client(b ++ Ask("OPMODE") ++ Ask("TARGPOS"), cfg)
  <2>1. Client(b ++ Ask("OPMODE"), cfg)
    BY Asked, TheRegisters
  <2>2. QED
    BY <2>1, Asked, TheRegisters
<1>4. a # NaN => Client(MoveTo(b, AngleToQc(a)), cfg)
  <2> HAVE a # NaN
  <2> DEFINE qc == AngleToQc(a)
  <2>1. qc \in MinPos .. MaxPos /\ qc \in Int
    BY RudderAssumption, ClampInRange
  <2> HIDE DEF qc
  <2>2. Client(b ++ Drop("CONTROL"), cfg)
    BY Dropped, TheRegisters
  <2>3. "TARGPOS" \in Registers /\ Careful(Set("TARGPOS", qc), cfg)
    BY <2>1 DEF Registers, Careful, Set
  <2>4. Client(b ++ Drop("CONTROL") ++ Put("TARGPOS", qc), cfg)
    BY <2>1, <2>2, <2>3, PutDown
  <2>5. Client(b ++ Drop("CONTROL") ++ Put("TARGPOS", qc) ++ Put("CONTROL", CONTROL_START), cfg)
    BY <2>4, Commanded, ControlWords
  <2>6. Client(MoveTo(b, qc), cfg)
    BY <2>5, Dropped, TheRegisters DEF MoveTo
  <2>7. QED
    BY <2>6 DEF qc
<1>5. QED
  BY <1>1, <1>2, <1>3, <1>4 DEF RudderControl, Result, States

LEMMA ReinitIsCareful == ASSUME NEW cfg, NEW b, Client(b, cfg)
                         PROVE  Client(Reinit(b), cfg)
<1>1. b.regs \in [Registers -> Cells] /\ b.out \in Seq(Requests) /\ DOMAIN b.regs = Registers
  BY DEF Client
<1>2. \A r \in Registers : /\ InvalidateCell(b.regs[r], 0) \in Cells
                            /\ InvalidateCell(b.regs[r], 0).state # "VALID"
  BY <1>1, CellsStayCells, CallsDoNotValidate
<1>3. Client(DropAll(b), cfg)
  <2> DEFINE cells == [r \in Registers |-> InvalidateCell(b.regs[r], 0)]
  <2>1. cells \in [Registers -> Cells] /\ cells["CONFIG"].state # "VALID"
    BY <1>2, TheRegisters
  <2>2. DropAll(b) = [b EXCEPT !.regs = cells]
    BY <1>1 DEF DropAll
  <2> HIDE DEF cells
  <2>3. DropAll(b) \in [regs : [Registers -> Cells], out : Seq(Requests)]
        /\ DropAll(b).out = b.out /\ DropAll(b).regs = cells
    BY <2>1, <2>2 DEF Client
  <2>4. QED
    BY <2>1, <2>3 DEF Client
<1>4. QED
  BY <1>3, Asked, TheRegisters DEF Reinit

-----------------------------------------------------------------------------
(* The invariant.  The drive is configured when anything tells rudderctl so:  *)
(* a valid cell, an acknowledgement on its way, or the loop it is in; and      *)
(* requests already on their way stay careful whatever is sent before them.    *)

Typed ==
    /\ regs \in [Registers -> Cells]
    /\ state \in States
    /\ loop \in {"init", "control"}
    /\ target \in Angles \cup {NaN}
    /\ woken \in {0, 1}
    /\ req \in Seq(Requests)
    /\ inbox \in Seq(Lines)
    /\ drive \in Drives
    /\ left \in Lefts

CarefulLine(l, cfg) ==
    /\ l.op = "TARGET" => l.value \in Angles
    /\ l.op = "ACK" /\ l.key = "CONFIG" => cfg = 1

Prepared ==
    /\ \A i \in DOMAIN req : Careful(req[i], drive.config)
    /\ \A i \in DOMAIN inbox : CarefulLine(inbox[i], drive.config)
    /\ regs["CONFIG"].state = "VALID" => drive.config = 1
    /\ loop = "control" => drive.config = 1
    /\ MovesConfigured

IInv == Typed /\ Prepared

LEMMA TailElements ==
    ASSUME NEW S, NEW s \in Seq(S), s # << >>
    PROVE  /\ Head(s) \in S /\ Head(s) = s[1] /\ 1 \in DOMAIN s
           /\ Tail(s) \in Seq(S)
           /\ \A i \in DOMAIN Tail(s) : i + 1 \in DOMAIN s /\ Tail(s)[i] = s[i + 1]
OBVIOUS

LEMMA AppendElements ==
    ASSUME NEW S, NEW s \in Seq(S), NEW e \in S
    PROVE  /\ Append(s, e) \in Seq(S)
           /\ \A i \in DOMAIN Append(s, e) :
                 (i \in DOMAIN s /\ Append(s, e)[i] = s[i]) \/ Append(s, e)[i] = e
OBVIOUS

LEMMA ConcatElements ==
    ASSUME NEW S, NEW s \in Seq(S), NEW t \in Seq(S)
    PROVE  /\ s \o t \in Seq(S)
           /\ \A i \in DOMAIN (s \o t) :
                 \/ i \in DOMAIN s /\ (s \o t)[i] = s[i]
                 \/ \E j \in DOMAIN t : (s \o t)[i] = t[j]
<1>1. s \o t \in Seq(S)
  OBVIOUS
<1>2. ASSUME NEW i \in DOMAIN (s \o t)
      PROVE  \/ i \in DOMAIN s /\ (s \o t)[i] = s[i]
             \/ \E j \in DOMAIN t : (s \o t)[i] = t[j]
  <2>1. CASE i <= Len(s)
    BY <2>1
  <2>2. CASE i > Len(s)
    <3>1. (s \o t)[i] = t[i - Len(s)] /\ i - Len(s) \in DOMAIN t
      BY <2>2
    <3>2. QED
      BY <3>1
  <2>3. QED
    BY <2>1, <2>2
<1>3. QED
  BY <1>1, <1>2

\* What a sequence of careful elements loses or gets leaves it careful.
LEMMA InboxTail ==
    ASSUME Typed, Prepared, inbox # << >>
    PROVE  /\ Tail(inbox) \in Seq(Lines) /\ Head(inbox) \in Lines
           /\ CarefulLine(Head(inbox), drive.config)
           /\ \A i \in DOMAIN Tail(inbox) : CarefulLine(Tail(inbox)[i], drive.config)
<1>1. inbox \in Seq(Lines) /\ \A i \in DOMAIN inbox : CarefulLine(inbox[i], drive.config)
  BY DEF Typed, Prepared
<1>2. QED
  BY <1>1, TailElements

LEMMA ReqTail ==
    ASSUME Typed, Prepared, req # << >>
    PROVE  /\ Tail(req) \in Seq(Requests) /\ Head(req) \in Requests
           /\ Careful(Head(req), drive.config)
           /\ \A i \in DOMAIN Tail(req) : Careful(Tail(req)[i], drive.config)
<1>1. req \in Seq(Requests) /\ \A i \in DOMAIN req : Careful(req[i], drive.config)
  BY DEF Typed, Prepared
<1>2. QED
  BY <1>1, TailElements

LEMMA InboxAppend ==
    ASSUME Typed, Prepared, NEW l \in Lines, CarefulLine(l, drive.config)
    PROVE  /\ Append(inbox, l) \in Seq(Lines)
           /\ \A i \in DOMAIN Append(inbox, l) : CarefulLine(Append(inbox, l)[i], drive.config)
<1>1. inbox \in Seq(Lines) /\ \A i \in DOMAIN inbox : CarefulLine(inbox[i], drive.config)
  BY DEF Typed, Prepared
<1>2. QED
  BY <1>1, AppendElements

\* The reaction to a line, whatever the cache is when it is made.
LEMMA ReactIsCareful ==
    ASSUME Typed, Prepared, NEW b, Client(b, drive.config),
           NEW a \in Angles \cup {NaN}, React(b, a)
    PROVE  /\ regs' \in [Registers -> Cells]
           /\ req' \in Seq(Requests)
           /\ \A i \in DOMAIN req' : Careful(req'[i], drive.config)
           /\ state' \in States /\ loop' \in {"init", "control"}
           /\ regs'["CONFIG"].state = "VALID" => drive.config = 1
           /\ loop' = "control" => drive.config = 1
<1> DEFINE cfg == drive.config
           res == IF loop = "init" THEN RudderInit(b) ELSE RudderControl(b, a)
           restart == loop = "control" /\ res.state = "HOMING"
           after == IF restart THEN Reinit(res.client) ELSE res.client
<1>1. /\ regs' = after.regs /\ req' = req \o after.out /\ state' = res.state
      /\ loop' = CASE restart -> "init"
                   [] loop = "init" /\ res.state = "TARGETTING" -> "control"
                   [] OTHER -> loop
  BY DEF React
<1>2. /\ Client(res.client, cfg) /\ res.state \in States
      /\ loop = "init" /\ res.state = "TARGETTING" => cfg = 1
  <2>1. CASE loop = "init"
    BY <2>1, InitIsCareful
  <2>2. CASE loop # "init"
    <3>1. cfg = 1
      BY <2>2 DEF Typed, Prepared
    <3>2. QED
      BY <2>2, <3>1, ControlIsCareful
  <2>3. QED
    BY <2>1, <2>2
<1>3. Client(after, cfg)
  BY <1>2, ReinitIsCareful
<1>4. req \in Seq(Requests) /\ \A i \in DOMAIN req : Careful(req[i], cfg)
  BY DEF Typed, Prepared
<1>5. loop \in {"init", "control"} /\ (loop = "control" => cfg = 1)
  BY DEF Typed, Prepared
<1> HIDE DEF cfg, res, restart, after
<1>6. /\ after.regs \in [Registers -> Cells] /\ after.out \in Seq(Requests)
      /\ \A i \in DOMAIN after.out : Careful(after.out[i], cfg)
      /\ after.regs["CONFIG"].state = "VALID" => cfg = 1
  BY <1>3 DEF Client
<1>7. req' \in Seq(Requests) /\ \A i \in DOMAIN req' : Careful(req'[i], cfg)
  BY <1>1, <1>4, <1>6, ConcatElements
<1>8. loop' \in {"init", "control"} /\ (loop' = "control" => cfg = 1)
  BY <1>1, <1>2, <1>5
<1>9. QED
  BY <1>1, <1>2, <1>6, <1>7, <1>8 DEF cfg

-----------------------------------------------------------------------------
(* The drive.                                                                 *)

\* What the drive may be, given that it moves only when configured.
Sound(d) == d \in Drives /\ (d.homing \/ d.goal # d.pos => d.config = 1)

LEMMA ControlledIsSound ==
    ASSUME NEW d, Sound(d), NEW v \in Int, v = CONTROL_START => d.config = 1
    PROVE  Sound(Controlled(d, v)) /\ Controlled(d, v).config = d.config
<1>1. d \in Drives /\ (d.homing \/ d.goal # d.pos => d.config = 1)
  BY DEF Sound
<1>2. Sound(Halted(d)) /\ Halted(d).config = d.config
  BY <1>1 DEF Sound, Drives, Halted
<1>3. Sound([d EXCEPT !.fault = FALSE]) /\ [d EXCEPT !.fault = FALSE].config = d.config
  BY <1>1 DEF Sound, Drives
<1>4. Sound([d EXCEPT !.enabled = TRUE, !.homing = FALSE])
      /\ [d EXCEPT !.enabled = TRUE, !.homing = FALSE].config = d.config
  BY <1>1 DEF Sound, Drives
<1>5. d.config = 1 => Sound(Started(d)) /\ Started(d).config = d.config
  BY <1>1 DEF Sound, Drives, Started
<1>6. QED
  BY <1>1, <1>2, <1>3, <1>4, <1>5, Sound(d) DEF Controlled

LEMMA WriteIsSound ==
    ASSUME NEW d, Sound(d), NEW q \in Requests, q.op = "SET", Careful(q, d.config)
    PROVE  /\ Sound(WriteRegister(d, q.key, q.value))
           /\ d.config = 1 \/ q.key = "CONFIG" => WriteRegister(d, q.key, q.value).config = 1
<1>1. d \in Drives /\ (d.homing \/ d.goal # d.pos => d.config = 1) /\ q.value \in Int
  BY DEF Sound, Requests
<1>2. q.key \in {"CONTROL", "OPMODE", "TARGPOS", "CONFIG"}
  BY DEF Careful
<1>3. CASE q.key = "CONTROL"
  <2> DEFINE c == Controlled(d, q.value)
  <2>1. Sound(c) /\ c.config = d.config
    BY <1>1, <1>3, ControlledIsSound DEF Careful
  <2>2. WriteRegister(d, q.key, q.value) = [c EXCEPT !.control = q.value]
    BY <1>3 DEF WriteRegister
  <2> HIDE DEF c
  <2>3. QED
    BY <1>1, <1>3, <2>1, <2>2 DEF Sound, Drives
<1>4. CASE q.key = "OPMODE"
  BY <1>1, <1>4 DEF WriteRegister, Sound, Drives
<1>5. CASE q.key = "TARGPOS"
  BY <1>1, <1>5 DEF WriteRegister, Sound, Drives, Careful
<1>6. CASE q.key = "CONFIG"
  BY <1>1, <1>6 DEF WriteRegister, Sound, Drives, Careful
<1>7. QED
  BY <1>2, <1>3, <1>4, <1>5, <1>6

LEMMA ReadIsInt == ASSUME NEW d \in Drives, NEW r \in Registers PROVE ReadRegister(d, r) \in Int
<1>1. Status(d) \in Int
  BY DEF Status, STATUS_FAULT, STATUS_HOMEREF, STATUS_HOMINGERROR, STATUS_TARGETREACHED
<1>2. d.control \in Int /\ d.opmode \in Int /\ d.targpos \in Int /\ d.config \in Int
  BY RudderAssumption DEF Drives
<1>3. QED
  BY <1>1, <1>2 DEF ReadRegister, Registers

LEMMA WorkIsSound ==
    ASSUME NEW d, Sound(d)
    PROVE  /\ Sound(Faulted(d)) /\ Faulted(d).config = d.config
           /\ Sound(Stuck(d)) /\ Stuck(d).config = d.config
           /\ Sound(Homed(d)) /\ Homed(d).config = d.config
           /\ d.goal # d.pos => Sound(Moved(d)) /\ Moved(d).config = d.config
<1>1. d \in Drives /\ (d.homing \/ d.goal # d.pos => d.config = 1)
  BY DEF Sound
<1>2. Sound(Faulted(d)) /\ Faulted(d).config = d.config
  BY <1>1 DEF Sound, Drives, Faulted, Halted
<1>3. Sound(Stuck(d)) /\ Stuck(d).config = d.config
  BY <1>1 DEF Sound, Drives, Stuck
<1>4. Sound(Homed(d)) /\ Homed(d).config = d.config
  BY <1>1, RudderAssumption DEF Sound, Drives, Homed
<1>5. ASSUME d.goal # d.pos PROVE Sound(Moved(d)) /\ Moved(d).config = d.config
  <2>1. d.config = 1 /\ {d.pos, d.goal} \subseteq MinPos .. MaxPos
    BY <1>1, <1>5 DEF Drives
  <2> DEFINE p == IF d.pos < d.goal THEN d.pos + 1 ELSE d.pos - 1
  <2>2. p \in MinPos .. MaxPos
    BY <2>1, <1>5, RudderAssumption
  <2>3. Moved(d) = [d EXCEPT !.pos = p]
    BY DEF Moved
  <2> HIDE DEF p
  <2>4. QED
    BY <1>1, <2>1, <2>2, <2>3 DEF Sound, Drives
<1>6. QED
  BY <1>2, <1>3, <1>4, <1>5

-----------------------------------------------------------------------------
(* The steps.                                                                 *)

LEMMA InvDrive == ASSUME IInv PROVE Sound(drive)
BY DEF IInv, Typed, Prepared, MovesConfigured, Sound

\* A step of the environment uses up one of what is left.
LEMMA Spent ==
    ASSUME NEW l \in Lefts
    PROVE  /\ l.targets > 0 => [l EXCEPT !.targets = @ - 1] \in Lefts
           /\ l.loss > 0 => [l EXCEPT !.loss = @ - 1] \in Lefts
           /\ l.err > 0 => [l EXCEPT !.err = @ - 1] \in Lefts
           /\ l.fault > 0 => [l EXCEPT !.fault = @ - 1] \in Lefts
<1>1. /\ l.targets \in Nat /\ l.loss \in Nat /\ l.err \in Nat /\ l.fault \in Nat
      /\ l.stale \in 0 .. MaxStale
  BY DEF Lefts
<1>2. /\ l.targets > 0 => l.targets - 1 \in Nat
      /\ l.loss > 0 => l.loss - 1 \in Nat
      /\ l.err > 0 => l.err - 1 \in Nat
      /\ l.fault > 0 => l.fault - 1 \in Nat
  BY <1>1
<1>3. QED
  BY <1>1, <1>2 DEF Lefts

\* Enough for the invariant to hold after a step that is not of the drive.
LEMMA StillDrive == ASSUME IInv, drive' = drive PROVE MovesConfigured' /\ drive' \in Drives
BY DEF IInv, Typed, Prepared, MovesConfigured

LEMMA InitIInv == Init => IInv
<1> HAVE Init
<1>1. \A r \in Registers : AbsentCell \in Cells
  BY DEF AbsentCell, Cells, CellRecords, Disciplined
<1>2. Client(ColdCache, 0)
  BY <1>1, TheRegisters DEF ColdCache, AbsentCell, Client
<1>3. Client(Reinit(ColdCache), 0)
  BY <1>2, ReinitIsCareful
<1>4. drive \in Drives /\ drive.config = 0 /\ MovesConfigured
  BY RudderAssumption DEF Init, ColdDrive, Drives, MovesConfigured
<1>5. left \in Lefts
  BY RudderAssumption DEF Init, Lefts
<1>6. Typed
  BY <1>3, <1>4, <1>5 DEF Init, Typed, Client, States
<1>7. Prepared
  BY <1>3, <1>4, RudderAssumption DEF Init, Prepared, Client
<1>8. QED
  BY <1>6, <1>7 DEF IInv

LEMMA TakeTargetKeeps == IInv /\ TakeTarget => IInv'
<1> HAVE IInv /\ TakeTarget
<1> DEFINE b == [regs |-> regs, out |-> << >>]
           a == Head(inbox).value
<1>1. Typed /\ Prepared
  BY DEF IInv
<1>2. inbox # << >> /\ Head(inbox).op = "TARGET" /\ inbox' = Tail(inbox) /\ target' = a
      /\ woken' = 1 /\ drive' = drive /\ left' = left
  BY DEF TakeTarget
<1>3. React(b, a)
  BY DEF TakeTarget
<1>4. Client(b, drive.config)
  BY <1>1 DEF Typed, Prepared, Client
<1>5. a \in Angles
  BY <1>1, <1>2, InboxTail DEF CarefulLine
<1> HIDE DEF b, a
<1>6. /\ regs' \in [Registers -> Cells] /\ req' \in Seq(Requests)
      /\ \A i \in DOMAIN req' : Careful(req'[i], drive'.config)
      /\ state' \in States /\ loop' \in {"init", "control"}
      /\ regs'["CONFIG"].state = "VALID" => drive'.config = 1
      /\ loop' = "control" => drive'.config = 1
  BY <1>1, <1>2, <1>3, <1>4, <1>5, ReactIsCareful
<1>7. inbox' \in Seq(Lines) /\ \A i \in DOMAIN inbox' : CarefulLine(inbox'[i], drive'.config)
  BY <1>1, <1>2, InboxTail
<1>8. Typed'
  BY <1>1, <1>2, <1>5, <1>6, <1>7 DEF Typed
<1>9. Prepared'
  BY <1>2, <1>6, <1>7, StillDrive DEF Prepared
<1>10. QED
  BY <1>8, <1>9 DEF IInv

\* A cell gets valid by an acknowledgement of what the drive did.
LEMMA TakeResponseKeeps == IInv /\ TakeResponse => IInv'
<1> HAVE IInv /\ TakeResponse
<1>0. Typed /\ Prepared
  BY DEF IInv
<1>1. inbox # << >> /\ Head(inbox).op # "TARGET" /\ target' = target /\ drive' = drive
  BY DEF TakeResponse
<1> DEFINE line == Head(inbox)
           known == line.key \in Registers /\ regs[line.key].state # "ABSENT"
           got == IF known THEN [regs EXCEPT ![line.key] = ReceiveCell(@, line.op, line.value, 0)]
                           ELSE regs
<1> DEFINE lost == {r \in Registers : got[r].state = "PENDING" /\ Forgotten(r)}
           valid == {r \in Registers : got[r].state = "VALID"}
<1>2. PICK waited \in (IF Prompt THEN {lost} ELSE SUBSET lost),
           stale \in (IF left.stale = 0 THEN {{}} ELSE SUBSET valid) :
        LET b == [regs |-> [r \in Registers |-> IF r \in waited \cup stale
                                                 THEN InvalidateCell(got[r], 0) ELSE got[r]],
                  out |-> << >>]
        IN  /\ Cardinality(stale) <= left.stale
            /\ left' = [left EXCEPT !.stale = @ - Cardinality(stale)]
            /\ inbox' = Tail(inbox)
            /\ IF known THEN woken' = 1 /\ React(b, target)
                        ELSE woken' = 0 /\ regs' = b.regs /\ UNCHANGED <<req, state, loop>>
  BY DEF TakeResponse
<1>2a. stale \subseteq Registers
  OBVIOUS
<1> HIDE DEF lost, valid
<1> DEFINE cells == [r \in Registers |-> IF r \in waited \cup stale
                                           THEN InvalidateCell(got[r], 0) ELSE got[r]]
           b == [regs |-> cells, out |-> << >>]
<1>3. line \in Lines /\ CarefulLine(line, drive.config) /\ line.op \in {"ACK", "ERR"}
  BY <1>0, <1>1, InboxTail DEF Lines
<1>4. /\ got \in [Registers -> Cells]
      /\ got["CONFIG"].state = "VALID" => drive.config = 1
  <2>1. regs \in [Registers -> Cells] /\ (regs["CONFIG"].state = "VALID" => drive.config = 1)
    BY <1>0 DEF Typed, Prepared
  <2>2. CASE ~known
    BY <2>1, <2>2
  <2>3. CASE known
    <3> DEFINE new == ReceiveCell(regs[line.key], line.op, line.value, 0)
    <3>1. new \in Cells
      BY <1>3, <2>1, <2>3, CellsStayCells DEF Lines
    <3>2. new.state = "VALID" => line.op = "ACK"
      BY <1>3, <2>1, <2>3 DEF ReceiveCell, Tick, Cells, CellRecords
    <3>3. got = [regs EXCEPT ![line.key] = new]
      BY <2>3
    <3>4. line.key = "CONFIG" /\ line.op = "ACK" => drive.config = 1
      BY <1>3 DEF CarefulLine
    <3> HIDE DEF new, got
    <3>5. QED
      BY <2>1, <2>3, <3>1, <3>2, <3>3, <3>4, TheRegisters
  <2>4. QED
    BY <2>2, <2>3
<1> HIDE DEF got
<1>5. cells \in [Registers -> Cells] /\ (cells["CONFIG"].state = "VALID" => drive.config = 1)
  <2>1. \A r \in Registers : /\ InvalidateCell(got[r], 0) \in Cells
                              /\ InvalidateCell(got[r], 0).state # "VALID"
    BY <1>4, CellsStayCells, CallsDoNotValidate
  <2>2. QED
    BY <1>4, <2>1, TheRegisters
<1> HIDE DEF cells, known
<1>6. Client(b, drive.config)
  BY <1>5 DEF Client
<1>7. left' \in Lefts
  <2>1. IsFiniteSet(Registers)
    BY RegistersFinite
  <2>2. Cardinality(stale) \in Nat
    BY <1>2a, <2>1, FS_Subset, FS_CardinalityType
  <2>3. Cardinality(stale) <= left.stale /\ left' = [left EXCEPT !.stale = @ - Cardinality(stale)]
    BY <1>2
  <2>4. left \in Lefts
    BY <1>0 DEF Typed
  <2>5. QED
    BY <2>2, <2>3, <2>4, RudderAssumption DEF Lefts
<1>8. /\ regs' \in [Registers -> Cells] /\ req' \in Seq(Requests)
      /\ \A i \in DOMAIN req' : Careful(req'[i], drive'.config)
      /\ state' \in States /\ loop' \in {"init", "control"} /\ woken' \in {0, 1}
      /\ regs'["CONFIG"].state = "VALID" => drive'.config = 1
      /\ loop' = "control" => drive'.config = 1
  <2>1. CASE known
    <3>1. React(b, target) /\ woken' = 1
      BY <1>2, <2>1 DEF cells
    <3>2. target \in Angles \cup {NaN}
      BY <1>0 DEF Typed
    <3> HIDE DEF b
    <3>3. QED
      BY <1>0, <1>1, <1>6, <3>1, <3>2, ReactIsCareful
  <2>2. CASE ~known
    <3>1. woken' = 0 /\ regs' = cells /\ req' = req /\ state' = state /\ loop' = loop
      BY <1>2, <2>2 DEF cells
    <3>2. QED
      BY <1>0, <1>1, <1>5, <3>1 DEF Typed, Prepared
  <2>3. QED
    BY <2>1, <2>2
<1>9. inbox' = Tail(inbox)
  BY <1>2
<1>10. inbox' \in Seq(Lines) /\ \A i \in DOMAIN inbox' : CarefulLine(inbox'[i], drive'.config)
  BY <1>0, <1>1, <1>9, InboxTail
<1>11. Typed'
  BY <1>0, <1>1, <1>7, <1>8, <1>10, StillDrive DEF Typed
<1>12. Prepared'
  BY <1>1, <1>8, <1>10, StillDrive DEF Prepared
<1>13. QED
  BY <1>11, <1>12 DEF IInv

LEMMA ServeKeeps == IInv /\ Serve => IInv'
<1> HAVE IInv /\ Serve
<1> DEFINE q == Head(req)
           v == IF q.op = "SET" THEN q.value ELSE ReadRegister(drive, q.key)
           l == [op |-> "ACK", key |-> q.key, value |-> v]
<1>1. Typed /\ Prepared /\ Sound(drive)
  BY InvDrive DEF IInv
<1>2. /\ req # << >> /\ req' = Tail(req) /\ inbox' = Append(inbox, l)
      /\ drive' = IF q.op = "SET" THEN WriteRegister(drive, q.key, q.value) ELSE drive
      /\ UNCHANGED <<regs, state, loop, target, woken, left>>
  BY DEF Serve
<1>3. q \in Requests /\ Careful(q, drive.config)
      /\ req' \in Seq(Requests) /\ \A i \in DOMAIN req' : Careful(req'[i], drive.config)
  BY <1>1, <1>2, ReqTail
<1> HIDE DEF q
<1>4. Sound(drive') /\ (drive.config = 1 => drive'.config = 1)
      /\ (q.key = "CONFIG" => drive'.config = 1)
  <2>1. CASE q.op = "SET"
    BY <1>1, <1>2, <1>3, <2>1, WriteIsSound
  <2>2. CASE q.op # "SET"
    BY <1>1, <1>2, <1>3, <2>2 DEF Careful
  <2>3. QED
    BY <2>1, <2>2
<1>5. l \in Lines /\ CarefulLine(l, drive'.config)
  <2>1. v \in Int
    BY <1>1, <1>3, ReadIsInt DEF Requests, Typed
  <2> HIDE DEF v
  <2>2. QED
    BY <1>3, <1>4, <2>1 DEF Requests, Lines, CarefulLine
<1> HIDE DEF l
<1>6. inbox' \in Seq(Lines) /\ \A i \in DOMAIN inbox' : CarefulLine(inbox'[i], drive'.config)
  <2>1. inbox \in Seq(Lines) /\ \A i \in DOMAIN inbox : CarefulLine(inbox[i], drive'.config)
    BY <1>1, <1>4 DEF Typed, Prepared, CarefulLine
  <2>2. QED
    BY <1>2, <1>5, <2>1, AppendElements
<1>7. \A i \in DOMAIN req' : Careful(req'[i], drive'.config)
  BY <1>3, <1>4 DEF Careful
<1>8. Typed'
  BY <1>1, <1>2, <1>3, <1>4, <1>6 DEF Typed, Sound
<1>9. Prepared'
  BY <1>1, <1>2, <1>4, <1>6, <1>7 DEF Prepared, Sound, MovesConfigured
<1>10. QED
  BY <1>8, <1>9 DEF IInv

LEMMA ServeErrorKeeps == IInv /\ ServeError => IInv'
<1> HAVE IInv /\ ServeError
<1> DEFINE l == [op |-> "ERR", key |-> Head(req).key, value |-> 0]
<1>1. Typed /\ Prepared /\ drive' = drive
  BY DEF IInv, ServeError
<1>2. req # << >> /\ req' = Tail(req) /\ inbox' = Append(inbox, l)
  BY DEF ServeError
<1>3. Head(req) \in Requests /\ req' \in Seq(Requests)
      /\ \A i \in DOMAIN req' : Careful(req'[i], drive.config)
  BY <1>1, <1>2, ReqTail
<1>4. l \in Lines /\ CarefulLine(l, drive.config)
  BY <1>3 DEF Requests, Lines, CarefulLine
<1>5. inbox' \in Seq(Lines) /\ \A i \in DOMAIN inbox' : CarefulLine(inbox'[i], drive.config)
  BY <1>1, <1>2, <1>4, InboxAppend
<1>6. Typed'
  <2>1. left' \in Lefts
    BY <1>1, Spent DEF ServeError, Typed
  <2>2. UNCHANGED <<regs, state, loop, target, woken, drive>>
    BY DEF ServeError
  <2>3. QED
    BY <1>1, <1>3, <1>5, <2>1, <2>2 DEF Typed
<1>7. Prepared'
  BY <1>1, <1>3, <1>5, StillDrive DEF ServeError, Prepared
<1>8. QED
  BY <1>6, <1>7 DEF IInv

LEMMA LoseKeeps == IInv /\ Lose => IInv'
<1> HAVE IInv /\ Lose
<1>1. Typed /\ Prepared /\ drive' = drive
  BY DEF IInv, Lose
<1>2. req' \in Seq(Requests) /\ \A i \in DOMAIN req' : Careful(req'[i], drive.config)
  <2>1. CASE req # << >> /\ req' = Tail(req)
    BY <1>1, <2>1, ReqTail
  <2>2. CASE req' = req
    BY <1>1, <2>2 DEF Typed, Prepared
  <2>3. QED
    BY <2>1, <2>2 DEF Lose
<1>3. inbox' \in Seq(Lines) /\ \A i \in DOMAIN inbox' : CarefulLine(inbox'[i], drive.config)
  <2>1. CASE inbox # << >> /\ inbox' = Tail(inbox)
    BY <1>1, <2>1, InboxTail
  <2>2. CASE inbox' = inbox
    BY <1>1, <2>2 DEF Typed, Prepared
  <2>3. QED
    BY <2>1, <2>2 DEF Lose
<1>4. Typed'
  <2>1. left' \in Lefts
    BY <1>1, Spent DEF Lose, Typed
  <2>2. UNCHANGED <<regs, state, loop, target, woken, drive>>
    BY DEF Lose
  <2>3. QED
    BY <1>1, <1>2, <1>3, <2>1, <2>2 DEF Typed
<1>5. Prepared'
  BY <1>1, <1>2, <1>3, StillDrive DEF Lose, Prepared
<1>6. QED
  BY <1>4, <1>5 DEF IInv

LEMMA ProbeKeeps == IInv /\ (ProbeStatus \/ ProbePosition \/ Steer) => IInv'
<1> HAVE IInv /\ (ProbeStatus \/ ProbePosition \/ Steer)
<1>0. Typed /\ Prepared
  BY DEF IInv
<1>1. CASE ProbeStatus
  <2>1. Get("STATUS") \in Requests /\ Careful(Get("STATUS"), drive.config)
    BY DEF Get, Requests, Registers, Careful
  <2>2. req \in Seq(Requests) /\ \A i \in DOMAIN req : Careful(req[i], drive.config)
    BY <1>0 DEF Typed, Prepared
  <2>3. req' \in Seq(Requests) /\ \A i \in DOMAIN req' : Careful(req'[i], drive.config)
    BY <1>1, <2>1, <2>2, AppendElements DEF ProbeStatus
  <2>4. Typed'
    BY <1>0, <1>1, <2>3 DEF ProbeStatus, Typed
  <2>5. Prepared'
    BY <1>0, <1>1, <2>3 DEF ProbeStatus, Prepared, MovesConfigured
  <2>6. QED
    BY <2>4, <2>5 DEF IInv
<1>2. CASE ProbePosition
  <2> DEFINE l == [op |-> "ACK", key |-> "CURRPOS", value |-> 0]
  <2>1. l \in Lines /\ CarefulLine(l, drive.config)
    BY DEF Lines, CarefulLine
  <2>2. inbox' \in Seq(Lines) /\ \A i \in DOMAIN inbox' : CarefulLine(inbox'[i], drive.config)
    BY <1>0, <1>2, <2>1, InboxAppend DEF ProbePosition
  <2>3. Typed'
    BY <1>0, <1>2, <2>2 DEF ProbePosition, Typed
  <2>4. Prepared'
    BY <1>0, <1>2, <2>2 DEF ProbePosition, Prepared, MovesConfigured
  <2>5. QED
    BY <2>3, <2>4 DEF IInv
<1>3. CASE Steer
  <2>1. PICK a \in Angles : inbox' = Append(inbox, [op |-> "TARGET", key |-> "rudderctl", value |-> a])
    BY <1>3 DEF Steer
  <2> DEFINE l == [op |-> "TARGET", key |-> "rudderctl", value |-> a]
  <2>2. l \in Lines /\ CarefulLine(l, drive.config)
    BY RudderAssumption DEF Lines, CarefulLine
  <2>3. inbox' \in Seq(Lines) /\ \A i \in DOMAIN inbox' : CarefulLine(inbox'[i], drive.config)
    BY <1>0, <2>1, <2>2, InboxAppend
  <2>4. Typed'
    <3>1. left' \in Lefts
      BY <1>0, <1>3, Spent DEF Steer, Typed
    <3>2. UNCHANGED <<regs, state, loop, target, woken, req, drive>>
      BY <1>3 DEF Steer
    <3>3. QED
      BY <1>0, <2>3, <3>1, <3>2 DEF Typed
  <2>5. Prepared'
    BY <1>0, <1>3, <2>3 DEF Steer, Prepared, MovesConfigured
  <2>6. QED
    BY <2>4, <2>5 DEF IInv
<1>4. QED
  BY <1>1, <1>2, <1>3

LEMMA MotorKeeps == IInv /\ (Work \/ Fail) => IInv'
<1> HAVE IInv /\ (Work \/ Fail)
<1>1. Typed /\ Prepared /\ Sound(drive)
  BY InvDrive DEF IInv
<1>2. Sound(drive') /\ drive'.config = drive.config
  BY <1>1, WorkIsSound DEF Work, Fail
<1>3. UNCHANGED <<regs, state, loop, target, woken, req, inbox>>
  BY DEF Work, Fail
<1>4. left' \in Lefts
  BY <1>1, Spent DEF Work, Fail, Typed
<1>5. Typed'
  BY <1>1, <1>2, <1>3, <1>4 DEF Typed, Sound
<1>6. Prepared'
  BY <1>1, <1>2, <1>3 DEF Prepared, Sound, MovesConfigured
<1>7. QED
  BY <1>5, <1>6 DEF IInv

LEMMA NextIInv == IInv /\ [Next]_vars => IInv'
<1> HAVE IInv /\ [Next]_vars
<1>1. CASE UNCHANGED vars
  BY <1>1 DEF vars, IInv, Typed, Prepared, MovesConfigured
<1>2. CASE Next
  BY <1>2, TakeTargetKeeps, TakeResponseKeeps, ServeKeeps, ServeErrorKeeps, LoseKeeps,
     ProbeKeeps, MotorKeeps DEF Next, ProcessInput
<1>3. QED
  BY <1>1, <1>2

LEMMA SpecIInv == Spec => []IInv
BY InitIInv, NextIInv, PTL DEF Spec

-----------------------------------------------------------------------------
\* Every reachable state of the composition is typed.
THEOREM TypeCorrect == Spec => []TypeOK
<1>1. IInv => TypeOK
  BY DEF IInv, Typed, TypeOK, Cells, CellRecords, Disciplined, Lefts
<1>2. QED
  BY <1>1, SpecIInv, PTL

\* The drive neither homes nor moves before its configuration was acknowledged,
\* whatever lines are lost, answered with an error, doubled by eposprobe or late,
\* and however often rudder_init is interrupted (rudderctl_main.c:86-309).
THEOREM ConfiguredBeforeMoving == Spec => []MovesConfigured
<1>1. IInv => MovesConfigured
  BY DEF IInv, Prepared
<1>2. QED
  BY <1>1, SpecIInv, PTL

\* No set point and no goal of the drive is ever outside its range, whatever
\* angles the helmsman sends (actuator.c:23-28, rudderctl_main.c:298-305).
THEOREM SetPointsInRange == Spec => []TargetInRange
<1>1. IInv => TargetInRange
  BY DEF IInv, Typed, Drives, TargetInRange
<1>2. QED
  BY <1>1, SpecIInv, PTL
=============================================================================
