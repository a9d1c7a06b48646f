------------------------------ MODULE EposProofs ------------------------------
(* What holds of the register cache for every set of devices, registers,     *)
(* values and times, and for every pair of timeouts; of the skew that is      *)
(* measured, for every bias and interval; and of the control of the sail, for  *)
(* every half turn, target and skew.                                            *)
EXTENDS MCEpos, Counting, FiniteSetTheorems, TLAPS

\* Every call leaves a well-formed cell whose timer agrees with its state, if it
\* was given one: the part of every step that is the same for each call.
Disciplined(c) == c.running <=> c.state = "PENDING"

LEMMA CallsKeepDiscipline ==
    ASSUME NEW c \in Cell, Disciplined(c), NEW t \in Time, NEW v \in Values,
           NEW op \in {"ACK", "ERR"}
    PROVE  /\ GetCell(c, t) \in Cell /\ Disciplined(GetCell(c, t))
           /\ SetCell(c, v, t) \in Cell /\ Disciplined(SetCell(c, v, t))
           /\ InvalidateCell(c, t) \in Cell /\ Disciplined(InvalidateCell(c, t))
           /\ ReceiveCell(c, op, v, t) \in Cell /\ Disciplined(ReceiveCell(c, op, v, t))
           /\ ExpireCell(c, t) \in Cell /\ Disciplined(ExpireCell(c, t))
<1> USE DEF Cell, States, Disciplined, Tick
<1>1. GetCell(c, t) \in Cell /\ Disciplined(GetCell(c, t))
  BY DEF GetCell, GetAsks
<1>2. SetCell(c, v, t) \in Cell /\ Disciplined(SetCell(c, v, t))
  BY DEF SetCell, SetAsks
<1>3. InvalidateCell(c, t) \in Cell /\ Disciplined(InvalidateCell(c, t))
  BY DEF InvalidateCell
<1>4. ReceiveCell(c, op, v, t) \in Cell /\ Disciplined(ReceiveCell(c, op, v, t))
  BY DEF ReceiveCell
<1>5. ExpireCell(c, t) \in Cell /\ Disciplined(ExpireCell(c, t))
  BY <1>3 DEF ExpireCell
<1>6. QED
  BY <1>1, <1>2, <1>3, <1>4, <1>5

LEMMA NoCellYet == AbsentCell \in Cell /\ Disciplined(AbsentCell)
BY ClientAssumption DEF AbsentCell, Cell, States, Disciplined

\* One invariant carries types and discipline together: a cell keeps its type
\* only with the timer's agreement, and the agreement only on cells.
DisciplineInv == TypeOK /\ TimerRunsWhilePending

LEMMA InitDiscipline == Init => DisciplineInv
BY NoCellYet, ClientAssumption
   DEF Init, DisciplineInv, TypeOK, TimerRunsWhilePending, Disciplined, Request

LEMMA NextDiscipline == DisciplineInv /\ [Next]_vars => DisciplineInv'
<1> SUFFICES ASSUME DisciplineInv, [Next]_vars PROVE DisciplineInv'
  OBVIOUS
<1> USE DEF DisciplineInv
<1>0. /\ now \in Time /\ TypeOK /\ 0 \in Values /\ Time \subseteq Int
      /\ \A k \in Key : regs[k] \in Cell /\ Disciplined(regs[k])
  BY ClientAssumption DEF TypeOK, TimerRunsWhilePending, Disciplined
\* It is enough that the new cells are disciplined cells and the rest is typed.
<1>1. ASSUME regs' \in [Key -> Cell], \A k \in Key : Disciplined(regs'[k]),
             devices' \subseteq Serials, now' \in Time, ctl' \in Seq(Request), ret' \in Int,
             asked' \in [Key -> [op : {"NONE", "GET", "SET"}, value : Values, at : Time]],
             heard' \in [Key -> [value : Values, at : Time]], steady' \in BOOLEAN
      PROVE  DisciplineInv'
  BY <1>1 DEF TypeOK, TimerRunsWhilePending, Disciplined
<1>2. ASSUME NEW k \in Key, GetRegister(k) PROVE DisciplineInv'
  <2>1. GetCell(regs[k], now) \in Cell /\ Disciplined(GetCell(regs[k], now))
    BY <1>0, CallsKeepDiscipline
  <2>2. Get(k) \in Request
    BY <1>0 DEF Get, Request
  <2>3. /\ asked' \in [Key -> [op : {"NONE", "GET", "SET"}, value : Values, at : Time]]
        /\ ctl' \in Seq(Request)
    BY <1>2, <1>0, <2>2 DEF GetRegister, Issue, Get, TypeOK
  <2>4. QED
    <3>1. regs' \in [Key -> Cell] /\ \A j \in Key : Disciplined(regs'[j])
      BY <1>0, <1>2, <2>1 DEF GetRegister, TypeOK
    <3>2. ret' \in Int
      BY <1>2 DEF GetRegister, GetHits
    <3>3. devices' \subseteq Serials /\ now' \in Time
      BY <1>0, <1>2 DEF GetRegister, TypeOK
    <3>4. heard' \in [Key -> [value : Values, at : Time]] /\ steady' \in BOOLEAN
      BY <1>0, <1>2 DEF GetRegister, TypeOK
    <3>5. QED
      BY <1>1, <2>3, <3>1, <3>2, <3>3, <3>4
<1>3. ASSUME NEW k \in Key, NEW v \in Values, SetRegister(k, v) PROVE DisciplineInv'
  <2>1. SetCell(regs[k], v, now) \in Cell /\ Disciplined(SetCell(regs[k], v, now))
    BY <1>0, CallsKeepDiscipline
  <2>2. Set(k, v) \in Request
    BY DEF Set, Request
  <2>3. /\ asked' \in [Key -> [op : {"NONE", "GET", "SET"}, value : Values, at : Time]]
        /\ ctl' \in Seq(Request)
    BY <1>3, <1>0, <2>2 DEF SetRegister, Issue, Set, TypeOK
  <2>4. QED
    <3>1. regs' \in [Key -> Cell] /\ \A j \in Key : Disciplined(regs'[j])
      BY <1>0, <1>3, <2>1 DEF SetRegister, TypeOK
    <3>2. ret' \in Int
      BY <1>3 DEF SetRegister, SetHits
    <3>3. devices' \subseteq Serials /\ now' \in Time
      BY <1>0, <1>3 DEF SetRegister, TypeOK
    <3>4. heard' \in [Key -> [value : Values, at : Time]] /\ steady' \in BOOLEAN
      BY <1>0, <1>3 DEF SetRegister, TypeOK
    <3>5. QED
      BY <1>1, <2>3, <3>1, <3>2, <3>3, <3>4
<1>4. ASSUME NEW k \in Key, InvalidateRegister(k) PROVE DisciplineInv'
  <2>1. InvalidateCell(regs[k], now) \in Cell /\ Disciplined(InvalidateCell(regs[k], now))
    BY <1>0, CallsKeepDiscipline
  <2>2. QED
    BY <1>0, <1>1, <1>4, <2>1 DEF InvalidateRegister, TypeOK
<1>5. ASSUME NEW s \in Serials, InvalidateAll(s) PROVE DisciplineInv'
  <2>1. \A k \in Key : /\ InvalidateCell(regs[k], now) \in Cell
                       /\ Disciplined(InvalidateCell(regs[k], now))
    BY <1>0, CallsKeepDiscipline
  <2>2. QED
    BY <1>0, <1>1, <1>5, <2>1 DEF InvalidateAll, TypeOK
<1>6. ASSUME NEW k \in Key, NEW v \in Values, NEW op \in {"ACK", "ERR"}, BusReceive(k, op, v)
      PROVE  DisciplineInv'
  <2>1. /\ ReceiveCell(regs[k], op, v, now) \in Cell
        /\ Disciplined(ReceiveCell(regs[k], op, v, now))
    BY <1>0, CallsKeepDiscipline
  <2>2. regs[k].at \in Int /\ now \in Int
    BY <1>0 DEF Cell
  <2>3. ret' \in Int
    BY <1>6, <2>2 DEF BusReceive, Latency
  <2>4. heard' \in [Key -> [value : Values, at : Time]]
    BY <1>6, <1>0 DEF BusReceive, TypeOK
  <2>5. QED
    BY <1>0, <1>1, <1>6, <2>1, <2>3, <2>4 DEF BusReceive, TypeOK
<1>7. ASSUME BusExpire PROVE DisciplineInv'
  <2>1. \A k \in Key : ExpireCell(regs[k], now) \in Cell /\ Disciplined(ExpireCell(regs[k], now))
    BY <1>0, CallsKeepDiscipline
  <2>2. ret' \in Int
    <3> DEFINE Late == {k \in Key : regs[k].state = "PENDING" /\ Expires(regs[k], now)}
    <3>1. IsFiniteSet(Late)
      BY ClientAssumption, FS_Subset, Late \subseteq Key
    <3>2. Cardinality(Late) \in Nat
      BY <3>1, FS_CardinalityType
    <3>3. QED
      BY <1>7, <3>2 DEF BusExpire
  <2>3. QED
    BY <1>0, <1>1, <1>7, <2>1, <2>2 DEF BusExpire, TypeOK
<1>8. ASSUME NEW s \in Serials, OpenDevice(s) PROVE DisciplineInv'
  BY <1>0, <1>1, <1>8 DEF OpenDevice, TypeOK
<1>9. ASSUME Clock PROVE DisciplineInv'
  BY <1>0, <1>1, <1>9 DEF Clock, TypeOK
<1>10. ASSUME UNCHANGED vars PROVE DisciplineInv'
  BY <1>0, <1>1, <1>10 DEF vars, TypeOK
<1>11. QED
  BY <1>2, <1>3, <1>4, <1>5, <1>6, <1>7, <1>8, <1>9, <1>10 DEF Next

\* Types hold of every reachable state of the cache.
THEOREM TypeCorrect == Spec => []TypeOK
<1>1. DisciplineInv => TypeOK
  BY DEF DisciplineInv
<1>2. QED
  BY <1>1, InitDiscipline, NextDiscipline, PTL DEF Spec

\* The asserts in bus_receive and bus_expire never fire: a register's timer runs
\* exactly while its request is pending (eposclient.c:89, 111, 120).
THEOREM AssertsHold == Spec => []TimerRunsWhilePending
<1>1. DisciplineInv => TimerRunsWhilePending
  BY DEF DisciplineInv
<1>2. QED
  BY <1>1, InitDiscipline, NextDiscipline, PTL DEF Spec

-----------------------------------------------------------------------------
(* What the cells have to do with the lines that were written and received.  *)

Asked == [op : {"NONE", "GET", "SET"}, value : Values, at : Time]
Report == [value : Values, at : Time]

Explained(c, a, h) ==
    /\ c.state = "PENDING" => /\ a.op # "NONE" /\ c.at = a.at
                              /\ a.op = "SET" => c.value = a.value
    /\ c.state = "VALID" => c.value = h.value
\* Only a clock that never goes back keeps events in order: a VALID cell's timer
\* stopped no later than its value was reported.
Ordered(c, a, h, t) ==
    /\ c.at <= t /\ a.at <= t /\ h.at <= t
    /\ c.state = "VALID" => c.at <= h.at
Traced(c, a, h, t, s) == Explained(c, a, h) /\ (s => Ordered(c, a, h, t))

HistoryInv == DisciplineInv /\ \A k \in Key : Traced(regs[k], asked[k], heard[k], now, steady)

LEMMA CallsKeepTrace ==
    ASSUME NEW c \in Cell, Disciplined(c), NEW a \in Asked, NEW h \in Report,
           NEW t \in Time, NEW v \in Values, NEW s \in BOOLEAN, Traced(c, a, h, t, s)
    PROVE  /\ Traced(GetCell(c, t),
                     IF GetAsks(c) THEN [op |-> "GET", value |-> 0, at |-> t] ELSE a, h, t, s)
           /\ Traced(SetCell(c, v, t),
                     IF SetAsks(c, v) THEN [op |-> "SET", value |-> v, at |-> t] ELSE a, h, t, s)
           /\ Traced(InvalidateCell(c, t), a, h, t, s)
           /\ Traced(ExpireCell(c, t), a, h, t, s)
           /\ Traced(ReceiveCell(c, "ERR", v, t), a, h, t, s)
           /\ c.state # "ABSENT" =>
                Traced(ReceiveCell(c, "ACK", v, t), a, [value |-> v, at |-> t], t, s)
<1> USE DEF Traced, Explained, Ordered, Cell, States, Tick, Asked, Report
<1>0. /\ t \in Int /\ c.at \in Int /\ a.at \in Int /\ h.at \in Int
  BY ClientAssumption
<1>1. Traced(GetCell(c, t),
             IF GetAsks(c) THEN [op |-> "GET", value |-> 0, at |-> t] ELSE a, h, t, s)
  BY <1>0 DEF GetCell, GetAsks
<1>2. Traced(SetCell(c, v, t),
             IF SetAsks(c, v) THEN [op |-> "SET", value |-> v, at |-> t] ELSE a, h, t, s)
  BY <1>0 DEF SetCell, SetAsks
<1>3. Traced(InvalidateCell(c, t), a, h, t, s)
  BY <1>0 DEF InvalidateCell
<1>4. Traced(ExpireCell(c, t), a, h, t, s)
  BY <1>3 DEF ExpireCell
<1>5. Traced(ReceiveCell(c, "ERR", v, t), a, h, t, s)
  BY <1>0 DEF ReceiveCell
<1>6. c.state # "ABSENT" => Traced(ReceiveCell(c, "ACK", v, t), a, [value |-> v, at |-> t], t, s)
  <2> SUFFICES ASSUME c.state # "ABSENT"
               PROVE  Traced(ReceiveCell(c, "ACK", v, t), a, [value |-> v, at |-> t], t, s)
    OBVIOUS
  <2> DEFINE r == ReceiveCell(c, "ACK", v, t)
  <2>1. r.state = "VALID" /\ r.value = v /\ r.at \in {t, c.at}
    BY DEF ReceiveCell
  <2> HIDE DEF r
  <2>2. s => r.at <= t
    BY <1>0, <2>1
  <2>3. QED
    BY <1>0, <2>1, <2>2 DEF r
<1>7. QED
  BY <1>1, <1>2, <1>3, <1>4, <1>5, <1>6

LEMMA InitHistory == Init => HistoryInv
<1> SUFFICES ASSUME Init PROVE HistoryInv
  OBVIOUS
<1>1. DisciplineInv
  BY InitDiscipline
<1>2. ASSUME NEW k \in Key PROVE Traced(regs[k], asked[k], heard[k], now, steady)
  BY DEF Init, Traced, Explained, Ordered, AbsentCell
<1>3. QED
  BY <1>1, <1>2 DEF HistoryInv

LEMMA NextHistory == HistoryInv /\ [Next]_vars => HistoryInv'
<1> SUFFICES ASSUME HistoryInv, [Next]_vars,
                    NEW j \in Key
             PROVE  Traced(regs[j], asked[j], heard[j], now, steady)'
  BY NextDiscipline DEF HistoryInv
<1>0. /\ regs \in [Key -> Cell] /\ asked \in [Key -> Asked] /\ heard \in [Key -> Report]
      /\ now \in Time /\ Time \subseteq Int /\ 0 \in Values /\ steady \in BOOLEAN
      /\ regs[j] \in Cell /\ asked[j] \in Asked /\ heard[j] \in Report
      /\ Disciplined(regs[j]) /\ Traced(regs[j], asked[j], heard[j], now, steady)
  BY ClientAssumption
     DEF HistoryInv, DisciplineInv, TypeOK, TimerRunsWhilePending, Disciplined, Asked, Report
<1>1. ASSUME NEW k \in Key, GetRegister(k) PROVE Traced(regs[j], asked[j], heard[j], now, steady)'
  <2>1. CASE j = k
    <3>1. Traced(GetCell(regs[j], now),
                 IF GetAsks(regs[j]) THEN [op |-> "GET", value |-> 0, at |-> now] ELSE asked[j],
                 heard[j], now, steady)
      BY <1>0, CallsKeepTrace
    <3>2. asked'[j] = IF GetAsks(regs[j]) THEN [op |-> "GET", value |-> 0, at |-> now]
                                          ELSE asked[j]
      BY <1>0, <1>1, <2>1 DEF GetRegister, Issue, Get
    <3>3. regs'[j] = GetCell(regs[j], now) /\ heard' = heard /\ now' = now
                                      /\ steady' = steady
      BY <1>0, <1>1, <2>1 DEF GetRegister
    <3>4. QED
      BY <3>1, <3>2, <3>3
  <2>2. CASE j # k
    BY <1>0, <1>1, <2>2 DEF GetRegister, Issue, Get
  <2>3. QED
    BY <2>1, <2>2
<1>2. ASSUME NEW k \in Key, NEW v \in Values, SetRegister(k, v)
      PROVE  Traced(regs[j], asked[j], heard[j], now, steady)'
  <2>1. CASE j = k
    <3>1. Traced(SetCell(regs[j], v, now),
                 IF SetAsks(regs[j], v) THEN [op |-> "SET", value |-> v, at |-> now] ELSE asked[j],
                 heard[j], now, steady)
      BY <1>0, CallsKeepTrace
    <3>2. asked'[j] = IF SetAsks(regs[j], v) THEN [op |-> "SET", value |-> v, at |-> now]
                                             ELSE asked[j]
      BY <1>0, <1>2, <2>1 DEF SetRegister, Issue, Set
    <3>3. regs'[j] = SetCell(regs[j], v, now) /\ heard' = heard /\ now' = now
                                      /\ steady' = steady
      BY <1>0, <1>2, <2>1 DEF SetRegister
    <3>4. QED
      BY <3>1, <3>2, <3>3
  <2>2. CASE j # k
    BY <1>0, <1>2, <2>2 DEF SetRegister, Issue, Set
  <2>3. QED
    BY <2>1, <2>2
<1>3. ASSUME NEW k \in Key, InvalidateRegister(k)
      PROVE  Traced(regs[j], asked[j], heard[j], now, steady)'
  <2>1. Traced(InvalidateCell(regs[j], now), asked[j], heard[j], now, steady)
    BY <1>0, CallsKeepTrace
  <2>2. QED
    BY <1>0, <1>3, <2>1 DEF InvalidateRegister
<1>4. ASSUME NEW s \in Serials, InvalidateAll(s)
      PROVE  Traced(regs[j], asked[j], heard[j], now, steady)'
  <2>1. Traced(InvalidateCell(regs[j], now), asked[j], heard[j], now, steady)
    BY <1>0, CallsKeepTrace
  <2>2. QED
    BY <1>0, <1>4, <2>1 DEF InvalidateAll
<1>5. ASSUME NEW k \in Key, NEW v \in Values, NEW op \in {"ACK", "ERR"}, BusReceive(k, op, v)
      PROVE  Traced(regs[j], asked[j], heard[j], now, steady)'
  <2>1. CASE j = k /\ op = "ACK" /\ regs[j].state # "ABSENT"
    <3>1. Traced(ReceiveCell(regs[j], "ACK", v, now), asked[j], [value |-> v, at |-> now], now, steady)
      BY <1>0, <2>1, CallsKeepTrace
    <3>2. QED
      BY <1>0, <1>5, <2>1, <3>1 DEF BusReceive
  <2>2. CASE j = k /\ op = "ERR"
    <3>1. Traced(ReceiveCell(regs[j], "ERR", v, now), asked[j], heard[j], now, steady)
      BY <1>0, CallsKeepTrace
    <3>2. QED
      BY <1>0, <1>5, <2>2, <3>1 DEF BusReceive
  <2>3. CASE j # k \/ regs[j].state = "ABSENT"
    BY <1>0, <1>5, <2>3 DEF BusReceive, ReceiveCell
  <2>4. QED
    BY <2>1, <2>2, <2>3
<1>6. ASSUME BusExpire PROVE Traced(regs[j], asked[j], heard[j], now, steady)'
  <2>1. Traced(ExpireCell(regs[j], now), asked[j], heard[j], now, steady)
    BY <1>0, CallsKeepTrace
  <2>2. QED
    BY <1>0, <1>6, <2>1 DEF BusExpire
<1>7. ASSUME NEW s \in Serials, OpenDevice(s) PROVE Traced(regs[j], asked[j], heard[j], now, steady)'
  BY <1>0, <1>7 DEF OpenDevice
<1>8. ASSUME Clock PROVE Traced(regs[j], asked[j], heard[j], now, steady)'
  <2>0. steady' => steady /\ now' > now
    BY <1>8, Zenon DEF Clock
  <2>1. /\ regs'[j] = regs[j] /\ asked'[j] = asked[j] /\ heard'[j] = heard[j]
        /\ now \in Int /\ now' \in Int
    BY <1>0, <1>8 DEF Clock
  <2>2. regs[j].at \in Int /\ asked[j].at \in Int /\ heard[j].at \in Int
    BY <1>0 DEF Cell, Asked, Report
  <2>3. Explained(regs[j], asked[j], heard[j])'
    BY <1>0, <2>1 DEF Traced, Explained
  <2>4. steady' => Ordered(regs[j], asked[j], heard[j], now)'
    <3> SUFFICES ASSUME steady' PROVE Ordered(regs[j], asked[j], heard[j], now)'
      OBVIOUS
    <3>1. Ordered(regs[j], asked[j], heard[j], now)
      BY <1>0, <2>0, Zenon DEF Traced
    <3>2. now' > now
      BY <2>0
    <3>3. QED
      BY <2>1, <2>2, <3>1, <3>2 DEF Ordered
  <2>5. QED
    BY <2>3, <2>4 DEF Traced
<1>9. ASSUME UNCHANGED vars PROVE Traced(regs[j], asked[j], heard[j], now, steady)'
  BY <1>0, <1>9 DEF vars
<1>10. QED
  BY <1>1, <1>2, <1>3, <1>4, <1>5, <1>6, <1>7, <1>8, <1>9 DEF Next

\* A pending cell dates and keeps the last request written for its register, so
\* that timeouts and repeated sets are judged by the right request.
THEOREM PendingIsLastRequest == Spec => []PendingDatesLastRequest
<1>1. HistoryInv => PendingDatesLastRequest
  BY DEF HistoryInv, PendingDatesLastRequest, Traced, Explained
<1>2. QED
  BY <1>1, InitHistory, NextHistory, PTL DEF Spec

\* The cache never serves a value of its own that the device did not report.
THEOREM CacheServesReports == Spec => []ValidWasHeard
<1>1. HistoryInv => ValidWasHeard
  BY DEF HistoryInv, ValidWasHeard, Traced, Explained
<1>2. QED
  BY <1>1, InitHistory, NextHistory, PTL DEF Spec

\* As long as the clock was never set back, what survives bus_expire is younger than
\* its timeout: values since they were reported, requests since they were sent.
THEOREM SurvivorsAreYoung == Spec => ExpireBoundsAge
<1>1. ASSUME HistoryInv, BusExpire, steady, NEW k \in Key
      PROVE  /\ regs'[k].state = "VALID" => now - heard[k].at < RspTimeout
             /\ regs'[k].state = "PENDING" => now - asked[k].at < ReqTimeout
  <2>0. /\ regs[k] \in Cell /\ asked[k] \in Asked /\ heard[k] \in Report
        /\ now \in Int /\ regs[k].at \in Int /\ asked[k].at \in Int /\ heard[k].at \in Int
        /\ Ordered(regs[k], asked[k], heard[k], now) /\ Explained(regs[k], asked[k], heard[k])
        /\ ReqTimeout \in Int /\ RspTimeout \in Int
    <3>1. regs[k] \in Cell /\ asked[k] \in Asked /\ heard[k] \in Report /\ now \in Time
      BY <1>1 DEF HistoryInv, DisciplineInv, TypeOK, Asked, Report
    <3>2. Traced(regs[k], asked[k], heard[k], now, steady)
      BY <1>1 DEF HistoryInv
    <3>3. Ordered(regs[k], asked[k], heard[k], now) /\ Explained(regs[k], asked[k], heard[k])
      BY <1>1, <3>2, Zenon DEF Traced
    <3>4. now \in Int /\ ReqTimeout \in Int /\ RspTimeout \in Int
      BY <3>1, ClientAssumption
    <3>5. regs[k].at \in Int /\ asked[k].at \in Int /\ heard[k].at \in Int
      BY <3>1, ClientAssumption DEF Asked, Report, Cell
    <3>6. QED
      BY <3>1, <3>3, <3>4, <3>5
  <2>1. regs'[k] = ExpireCell(regs[k], now)
    BY <1>1 DEF BusExpire
  <2>2. ASSUME regs'[k].state \in {"VALID", "PENDING"} PROVE ~Expires(regs[k], now) /\ regs'[k] = regs[k]
    BY <2>0, <2>1, <2>2 DEF ExpireCell, Expires, InvalidateCell, Tick, Cell
  <2>3. QED
    BY <2>0, <2>2 DEF Expires, TooOld, Ordered, Explained
<1>2. ASSUME HistoryInv, [Next]_vars
      PROVE  [BusExpire /\ steady => \A k \in Key :
                /\ regs'[k].state = "VALID" => now - heard[k].at < RspTimeout
                /\ regs'[k].state = "PENDING" => now - asked[k].at < ReqTimeout]_vars
  BY <1>1, <1>2
<1>3. QED
  BY <1>2, InitHistory, NextHistory, PTL DEF Spec, ExpireBoundsAge

\* What the cache serves was heard on the bus, and after bus_expire lately.
THEOREM CacheServesFresh == Spec => ServesFresh
BY CacheServesReports, SurvivorsAreYoung, PTL DEF ServesFresh

\* bus_receive's three answers can be told apart by its caller.
THEOREM ReceiveTellsApart == Spec => ReceiveReturn
<1>1. ASSUME DisciplineInv, NEW k \in Key, NEW v \in Values, NEW op \in {"ACK", "ERR"},
             BusReceive(k, op, v)
      PROVE  /\ ret' = 0 => regs' = regs
             /\ ret' >= 2 <=> regs[k].state = "PENDING"
  <2>0. /\ regs \in [Key -> Cell] /\ regs[k] \in Cell /\ now \in Int /\ regs[k].at \in Int
    BY <1>1, ClientAssumption DEF DisciplineInv, TypeOK, Cell
  <2>1. CASE regs[k].state = "ABSENT"
    BY <1>1, <2>0, <2>1 DEF BusReceive, ReceiveCell
  <2>2. CASE regs[k].state = "PENDING"
    BY <1>1, <2>0, <2>2 DEF BusReceive, Latency
  <2>3. CASE regs[k].state \notin {"ABSENT", "PENDING"}
    BY <1>1, <2>0, <2>3 DEF BusReceive
  <2>4. QED
    BY <2>1, <2>2, <2>3
<1>2. ASSUME DisciplineInv, [Next]_vars
      PROVE  [\A k \in Key, v \in Values, op \in {"ACK", "ERR"} :
                BusReceive(k, op, v) =>
                  /\ ret' = 0 => regs' = regs
                  /\ ret' >= 2 <=> regs[k].state = "PENDING"]_vars
  BY <1>1, <1>2
<1>3. QED
  BY <1>2, InitDiscipline, NextDiscipline, PTL DEF Spec, ReceiveReturn

-----------------------------------------------------------------------------
(* The monitor of the skew. *)

Full == 2 * SkewHalf
Near(a, b, d) == a - b <= d /\ b - a <= d
Apart(t, u) == IF t < u THEN u - t ELSE t - u
Readings == [value : Int, us : Int, at : Int, from : Int]

\* The samples in S are of one motor, which is at p at time t and turned by one in a tick at most.
Coherent(S, t, p) ==
    /\ \A x \in S : x \in Readings /\ x.at \in 0 .. t /\ Near(x.from, p, t - x.at)
    /\ \A x, y \in S : Near(x.from, y.from, Apart(x.at, y.at))

\* What a drive says when the motor is where it is and the boom off by o; and not long ago.
Says(d, x, o) == x.value = IF d = "motor" THEN x.from ELSE (x.from + o + Bias) % Full
Timely(x) == x.us - x.at \in 0 .. MaxAge

\* What the samples m of the motor and b of the boom say of a boom that is off by o.
Seen(m, b, o) ==
    /\ m \in [{0, 1} -> Readings] /\ b \in Readings
    /\ \A i \in {0, 1} : m[i] # Mon!Never => m[i].at \in Nat /\ Timely(m[i]) /\ Says("motor", m[i], o)
    /\ b # Mon!Never => b.at \in Nat /\ Timely(b) /\ Says("bmmh", b, o)
    /\ \A i \in {0, 1} : m[i] # Mon!Never /\ b # Mon!Never => Near(b.from, m[i].from, Apart(b.at, m[i].at))

LEMMA WholeTurn == Full \in Nat \ {0} /\ Full = 2 * SkewHalf /\ SkewHalf \in Nat \ {0} /\ Bias \in Int
BY SkewAssumption DEF Full

\* Turning by full turns does not change an angle.
LEMMA WrapTurns ==
  ASSUME NEW x \in Int, NEW j \in Int
  PROVE  Mon!Wrap(x + Full * j) = Mon!Wrap(x) /\ Mon!Wrap(x) \in Int
<1> DEFINE a == x + SkewHalf
           q == a \div Full
           r == a % Full
<1>1. a \in Int /\ Full \in Nat \ {0} /\ SkewHalf \in Int
  BY WholeTurn
<1>2. q \in Int /\ r \in 0..(Full - 1) /\ a = Full * q + r
  <2> HIDE DEF a
  <2> QED
    BY <1>1, DivMod
<1>3. (x + Full * j) + SkewHalf = Full * (q + j) + r
  <2>1. (x + Full * j) + SkewHalf = a + Full * j
    BY <1>1
  <2> HIDE DEF a, q, r
  <2>2. a + Full * j = Full * (q + j) + r
    BY <1>1, <1>2
  <2> QED
    BY <2>1, <2>2
<1>4. PICK b \in Int : b = (x + Full * j) + SkewHalf
  BY <1>1
<1>5. q + j \in Int
  BY <1>2
<1> HIDE DEF q
<1>6. r = b % Full
  <2> HIDE DEF r
  <2> QED
    BY <1>1, <1>2, <1>3, <1>4, <1>5, DivModUnique
<1>7. r \in Int /\ Mon!Wrap(x) = r - SkewHalf
  BY <1>2, WholeTurn DEF Mon!Wrap, Full
<1>8. Mon!Wrap(x + Full * j) = r - SkewHalf
  BY <1>4, <1>6 DEF Mon!Wrap, Full
<1> QED
  BY <1>1, <1>7, <1>8

\* A wrapped angle is the angle up to full turns.
LEMMA WrapIsAngle ==
  ASSUME NEW x \in Int
  PROVE  \E j \in Int : Mon!Wrap(x) = x + Full * j
<1>1. PICK a \in Int : a = x + SkewHalf
  BY WholeTurn
<1>2. PICK q \in Int, r \in Int : r = a % Full /\ a = Full * q + r
  BY WholeTurn, <1>1, DivMod
<1>3. PICK j \in Int : j = -q
  BY <1>2
<1>4. r = a + Full * j
  <2>1. Full * j = -(Full * q) /\ Full * q \in Int
    BY <1>2, <1>3, WholeTurn
  <2> QED
    BY <1>1, <1>2, <2>1
<1>5. Mon!Wrap(x) = r - SkewHalf
  BY <1>1, <1>2 DEF Mon!Wrap, Full
<1> QED
  BY <1>1, <1>4, <1>5, WholeTurn

\* A small angle is left small.
LEMMA WrapSmall ==
  ASSUME NEW x \in Int, NEW d \in Int, x \in -d .. d
  PROVE  Mon!Wrap(x) \in -d .. d
<1>1. PICK a \in Int : a = x + SkewHalf
  BY WholeTurn
<1>2. Mon!Wrap(x) = (a % Full) - SkewHalf
  BY <1>1 DEF Mon!Wrap, Full
<1>3. a % Full \in 0 .. (Full - 1)
  BY WholeTurn, DivMod
<1>4. CASE d >= SkewHalf
  BY <1>2, <1>3, <1>4, WholeTurn
<1>5. CASE d < SkewHalf
  <2>1. a \in 0 .. (Full - 1)
    BY <1>1, <1>5, WholeTurn
  <2>2. a % Full = a
    BY <2>1, WholeTurn, ModSmall
  <2> QED
    BY <1>1, <1>2, <2>2, WholeTurn
<1> QED
  BY <1>4, <1>5, WholeTurn

\* A quotient lies between what its dividend lies between.
LEMMA QuotientBounds ==
  ASSUME NEW x \in Int, NEW m \in Nat \ {0}, NEW a \in Int
  PROVE  /\ m * a <= x => a <= x \div m
         /\ x <= m * a => x \div m <= a
<1>1. PICK q \in Int, r \in 0 .. (m - 1) : q = x \div m /\ x = m * q + r
  BY DivMod
<1>2. m * a <= x => a <= q
  <2> SUFFICES ASSUME m * a <= x, a >= q + 1 PROVE FALSE
    BY <1>1
  <2>1. PICK e \in Nat : a = q + 1 + e
    <3>1. a - (q + 1) \in Nat /\ a = q + 1 + (a - (q + 1))
      BY <1>1
    <3> QED
      BY <3>1
  <2>2. m * a = m * q + m + m * e /\ m * e \in Nat
    BY <2>1, <1>1
  <2> QED
    BY <1>1, <2>2
<1>3. x <= m * a => q <= a
  <2> SUFFICES ASSUME x <= m * a, q >= a + 1 PROVE FALSE
    BY <1>1
  <2>1. PICK e \in Nat : q = a + 1 + e
    <3>1. q - (a + 1) \in Nat /\ q = a + 1 + (q - (a + 1))
      BY <1>1
    <3> QED
      BY <3>1
  <2>2. m * q = m * a + m + m * e /\ m * e \in Nat
    BY <2>1, <1>1
  <2> QED
    BY <1>1, <2>2
<1> QED
  BY <1>1, <1>2, <1>3

LEMMA TruncatedBounds ==
  ASSUME NEW n \in Int, NEW d \in Nat \ {0}, NEW lo \in Int, NEW hi \in Int, d * lo <= n, n <= d * hi
  PROVE  Mon!Truncated(n, d) \in Int /\ lo <= Mon!Truncated(n, d) /\ Mon!Truncated(n, d) <= hi
<1>1. CASE n >= 0
  <2>1. n \div d \in Int
    BY DivMod
  <2>2. lo <= n \div d /\ n \div d <= hi
    BY QuotientBounds
  <2> QED
    BY <1>1, <2>1, <2>2 DEF Mon!Truncated
<1>2. CASE n < 0
  <2>1. PICK x \in Int, l \in Int, h \in Int : x = -n /\ l = -lo /\ h = -hi
    OBVIOUS
  <2>2. d * l = -(d * lo) /\ d * h = -(d * hi) /\ d * lo \in Int /\ d * hi \in Int
    BY <2>1
  <2>3. d * h <= x /\ x <= d * l
    BY <2>1, <2>2
  <2>4. h <= x \div d /\ x \div d <= l /\ x \div d \in Int
    BY <2>3, QuotientBounds, DivMod
  <2>5. Mon!Truncated(n, d) = -(x \div d)
    BY <1>2, <2>1 DEF Mon!Truncated
  <2> QED
    BY <2>1, <2>4, <2>5
<1> QED
  BY <1>1, <1>2

\* The mean of two positions, however the time divides them, is not beyond either.
LEMMA MeanBetween ==
  ASSUME NEW a \in Int, NEW c \in Int, NEW u \in Nat \ {0}, NEW w \in Nat \ {0}, NEW q \in Int,
         NEW l \in Nat, Near(q, a, u + l), Near(q, c, w + l)
  PROVE  LET p == Mon!Truncated(a * w + c * u, w + u)
         IN  p \in Int /\ Near(q, p, w + u - 1 + l)
<1>1. PICK lo \in Int, hi \in Int : /\ lo <= a /\ lo <= c /\ a <= hi /\ c <= hi
                                    /\ q - lo <= w + u - 1 + l /\ hi - q <= w + u - 1 + l
  <2>1. CASE a <= c
    BY <2>1 DEF Near
  <2>2. CASE c < a
    BY <2>2 DEF Near
  <2> QED
    BY <2>1, <2>2
<1>2. w * lo <= a * w /\ u * lo <= c * u /\ a * w <= w * hi /\ c * u <= u * hi
  <2>1. \A x, y \in Int, m \in Nat : x <= y => m * x <= y * m /\ x * m <= m * y
    <3> TAKE x, y \in Int, m \in Nat
    <3> HAVE x <= y
    <3>1. y - x \in Nat /\ y = x + (y - x)
      OBVIOUS
    <3>2. PICK e \in Nat : y = x + e
      BY <3>1
    <3>3. m * y = m * x + m * e /\ m * e \in Nat /\ y * m = m * y /\ x * m = m * x
      BY <3>2
    <3> QED
      BY <3>3
  <2> QED
    BY <1>1, <2>1
<1>3. PICK n \in Int, d \in Nat \ {0} : n = a * w + c * u /\ d = w + u
  OBVIOUS
<1>4. d * lo = w * lo + u * lo /\ d * hi = w * hi + u * hi
  BY <1>1, <1>3
<1>5. d * lo <= n /\ n <= d * hi
  BY <1>1, <1>2, <1>3, <1>4
<1>6. Mon!Truncated(n, d) \in Int /\ lo <= Mon!Truncated(n, d) /\ Mon!Truncated(n, d) <= hi
  BY <1>1, <1>3, <1>5, TruncatedBounds
<1> QED
  BY <1>1, <1>3, <1>6 DEF Near

\* Two samples of the motor around one of the boom give a skew that is near enough.
LEMMA SkewOfAround ==
  ASSUME NEW m, NEW b, NEW o \in Int, Seen(m, b, o),
         NEW i \in {0, 1}, NEW k \in {0, 1}, Mon!Around(m, b, i, k)
  PROVE  /\ Mon!Between(m, b, i, k) \in Int
         /\ Mon!Wrap(Mon!Wrap(b.value - Mon!Between(m, b, i, k) - Bias) - o) \in -Mon!Error .. Mon!Error
<1>0. /\ m[i] \in Readings /\ m[k] \in Readings /\ b \in Readings
      /\ m[i].us \in Int /\ m[k].us \in Int /\ b.us \in Int /\ b.value \in Int
      /\ m[i].value \in Int /\ m[k].value \in Int
      /\ MaxAge \in Nat /\ MaxInterval \in Int /\ Mon!Error = MaxInterval - 2 + MaxAge
  BY SkewAssumption DEF Seen, Readings, Mon!Error
<1>1. m[i].us < b.us /\ b.us < m[k].us /\ m[k].us - m[i].us < MaxInterval
  BY DEF Mon!Around
<1>2. m[i] # Mon!Never /\ b # Mon!Never /\ m[k] # Mon!Never
  <2>1. Mon!Never.us = -2 * ReportTimeout /\ MaxInterval <= 2 * ReportTimeout /\ ReportTimeout \in Nat \ {0}
    BY SkewAssumption DEF Mon!Never, Mon!NoAnswer, Mon!Dated
  <2>2. \A j \in {0, 1} : m[j] # Mon!Never => m[j].us >= 0
    BY <1>0 DEF Seen, Timely, Readings
  <2>3. b # Mon!Never => b.us >= 0
    BY <1>0 DEF Seen, Timely, Readings
  <2>4. m[i].us >= -2 * ReportTimeout
    BY <1>0, <2>1, <2>2
  <2>5. b # Mon!Never /\ m[k] # Mon!Never
    BY <1>0, <1>1, <2>1, <2>4
  <2> QED
    BY <1>0, <1>1, <2>1, <2>3, <2>5
<1>3. /\ m[i].at \in Int /\ m[k].at \in Int /\ b.at \in Int
      /\ m[i].us - m[i].at \in 0 .. MaxAge /\ m[k].us - m[k].at \in 0 .. MaxAge /\ b.us - b.at \in 0 .. MaxAge
      /\ m[i].value = m[i].from /\ m[k].value = m[k].from
      /\ Near(b.from, m[i].from, Apart(b.at, m[i].at)) /\ Near(b.from, m[k].from, Apart(b.at, m[k].at))
  BY <1>0, <1>2 DEF Seen, Timely, Says, Readings
<1>4. PICK u \in Nat \ {0}, w \in Nat \ {0} : u = b.us - m[i].us /\ w = m[k].us - b.us
  BY <1>0, <1>1
<1>q. PICK q \in Int : q = b.from /\ b.value = (q + o + Bias) % Full
  BY <1>0, <1>2 DEF Seen, Says, Readings
<1>5. /\ Near(q, m[i].value, u + MaxAge) /\ Near(q, m[k].value, w + MaxAge)
      /\ m[k].us - m[i].us = w + u
  <2>1. Apart(b.at, m[i].at) <= u + MaxAge /\ Apart(b.at, m[i].at) \in Int
    BY <1>0, <1>3, <1>4 DEF Apart
  <2>2. Apart(b.at, m[k].at) <= w + MaxAge /\ Apart(b.at, m[k].at) \in Int
    BY <1>0, <1>3, <1>4 DEF Apart
  <2> QED
    BY <1>0, <1>3, <1>4, <1>q, <2>1, <2>2 DEF Near
<1>6. PICK g : g = Mon!Between(m, b, i, k)
  OBVIOUS
<1>7. g \in Int /\ Near(q, g, w + u - 1 + MaxAge)
  <2>1. g = Mon!Truncated(m[i].value * w + m[k].value * u, w + u)
    BY <1>4, <1>5, <1>6 DEF Mon!Between
  <2> QED
    BY <1>0, <1>5, <2>1, MeanBetween
<1>8. PICK j \in Int : b.value = q + o + Bias - Full * j
  <2>1. PICK x \in Int : x = q + o + Bias
    BY WholeTurn
  <2>2. Full \in Nat \ {0} /\ x \in Int
    BY <2>1, WholeTurn
  <2>3. x \div Full \in Int /\ x % Full \in Int /\ x = Full * (x \div Full) + (x % Full)
    BY ONLY <2>2, DivMod
  <2>4. PICK h \in Int : x = Full * h + b.value
    BY <1>q, <2>1, <2>3
  <2>5. PICK e \in Int : e = Full * h
    BY <2>2
  <2>6. b.value = x - e
    BY <1>0, <2>1, <2>4, <2>5
  <2>7. b.value = q + o + Bias - Full * h
    BY <2>1, <2>5, <2>6, WholeTurn
  <2> QED
    BY <2>7
<1>9. PICK h \in Int : Mon!Wrap(b.value - g - Bias) = (b.value - g - Bias) + Full * h
  <2>1. b.value - g - Bias \in Int
    BY <1>0, <1>7, WholeTurn
  <2> QED
    BY <2>1, WrapIsAngle
<1>10. PICK y \in Int, z \in Int : y = q - g /\ z = h - j
  BY <1>7, <1>8, <1>9
<1>11. Mon!Wrap(b.value - g - Bias) - o = y + Full * z
  <2>1. Full * z = Full * h - Full * j /\ Full * h \in Int /\ Full * j \in Int
    BY <1>8, <1>9, <1>10, WholeTurn
  <2>2. Mon!Wrap(b.value - g - Bias) = (q - g + o) - Full * j + Full * h
    BY <1>0, <1>7, <1>8, <1>9, <2>1, WholeTurn
  <2> QED
    BY <1>7, <1>10, <2>1, <2>2
<1>12. Mon!Wrap(y + Full * z) = Mon!Wrap(y)
  BY <1>10, WrapTurns
<1>13. y \in -Mon!Error .. Mon!Error
  <2>1. w + u < MaxInterval
    BY <1>1, <1>5
  <2> QED
    BY <2>1, <1>0, <1>4, <1>7, <1>10 DEF Near
<1>14. Mon!Wrap(y) \in -Mon!Error .. Mon!Error
  BY <1>0, <1>10, <1>13, WrapSmall
<1> QED
  BY <1>6, <1>7, <1>11, <1>12, <1>14

-----------------------------------------------------------------------------
\* What holds of the monitor throughout: all samples, under way and kept, are of one motor
\* and say where it was; those with a date were taken not long before it; and the skew told
\* is near.
Flying(d) == {x \in {taken[d]} : x # Mon!NoAnswer} \cup {wire[d][i] : i \in DOMAIN wire[d]}
Kept(d) == {x \in IF d = "motor" THEN {motor[0], motor[1]} ELSE {bmmh} : x # Mon!Never}
Samples == UNION {Flying(d) \cup Kept(d) : d \in Mon!Drives}
Honest(d) ==
    /\ taken[d].us = Mon!Undated
    /\ \A x \in Flying(d) : /\ Says(d, x, off)
                            /\ IF x.us = Mon!Undated THEN clock - x.at <= MaxAge ELSE Timely(x)
    /\ \A x \in Kept(d) : Says(d, x, off) /\ Timely(x)
SkewIsSound == skew # Mon!None => Mon!Wrap(skew.value - off) \in -Mon!Error .. Mon!Error
MonTyped ==
    /\ clock \in Nat /\ pos \in Int /\ off \in Int /\ mc \in {0, 1}
    /\ taken \in [Mon!Drives -> Readings] /\ wire \in [Mon!Drives -> Seq(Readings)]
    /\ motor \in [{0, 1} -> Readings] /\ bmmh \in Readings
MonInv ==
    /\ MonTyped
    /\ Coherent(Samples, clock, pos)
    /\ \A d \in Mon!Drives : Honest(d)
    /\ SkewIsSound

LEMMA MonInitial == MCInit => MonInv
<1> SUFFICES ASSUME Mon!Init PROVE MonInv
  BY DEF MCInit
<1> USE DEF Mon!Init
<1>1. Mon!NoAnswer \in Readings /\ Mon!Never \in Readings
  BY SkewAssumption DEF Readings, Mon!NoAnswer, Mon!Never, Mon!Dated, Mon!Undated
<1>2. MonTyped
  BY <1>1 DEF MonTyped
<1>3. \A d \in Mon!Drives : Flying(d) = {} /\ Kept(d) = {}
  BY DEF Flying, Kept, Mon!Drives
<1>4. Samples = {}
  BY <1>3 DEF Samples
<1>5. \A d \in Mon!Drives : Honest(d)
  BY <1>3 DEF Honest, Mon!NoAnswer
<1> QED
  BY <1>2, <1>4, <1>5 DEF MonInv, Coherent, SkewIsSound

\* Time that passes while the motor turns leaves the samples what they are, ...
LEMMA TurnIsCoherent ==
  ASSUME NEW S, NEW t \in Nat, NEW p \in Int, Coherent(S, t, p), NEW d \in {-1, 0, 1}
  PROVE  Coherent(S, t + 1, p + d)
<1>1. ASSUME NEW x \in S
      PROVE  x \in Readings /\ x.at \in 0 .. (t + 1) /\ Near(x.from, p + d, (t + 1) - x.at)
  <2>1. x \in Readings /\ x.at \in 0 .. t /\ Near(x.from, p, t - x.at)
    BY DEF Coherent
  <2>2. x.from \in Int /\ x.at \in Int
    BY <2>1 DEF Readings
  <2> QED
    BY <2>1, <2>2 DEF Near
<1> QED
  BY <1>1 DEF Coherent

\* ... a new one is like them, ...
LEMMA NewIsCoherent ==
  ASSUME NEW S, NEW t \in Nat, NEW p \in Int, Coherent(S, t, p),
         NEW x \in Readings, x.at = t, x.from = p
  PROVE  Coherent(S \cup {x}, t, p)
<1>1. \A y \in S : y.from \in Int /\ y.at \in 0 .. t /\ Near(y.from, p, t - y.at)
  BY DEF Coherent, Readings
<1>2. \A y \in S : Near(y.from, x.from, Apart(y.at, x.at)) /\ Near(x.from, y.from, Apart(x.at, y.at))
  BY <1>1 DEF Near, Apart
<1>3. Near(x.from, p, t - x.at) /\ Near(x.from, x.from, Apart(x.at, x.at)) /\ x.at \in 0 .. t
  BY DEF Near, Apart
<1> QED
  BY <1>2, <1>3 DEF Coherent

\* ... and dating one does not change when it was taken.
LEMMA DatedIsCoherent ==
  ASSUME NEW S, NEW t \in Nat, NEW p \in Int, Coherent(S, t, p), NEW Z,
         \A x \in Z : x \in Readings /\ \E y \in S : x.at = y.at /\ x.from = y.from
  PROVE  Coherent(Z, t, p)
<1>1. \A x \in Z : x \in Readings /\ x.at \in 0 .. t /\ Near(x.from, p, t - x.at)
  BY DEF Coherent
<1>2. \A x, y \in Z : Near(x.from, y.from, Apart(x.at, y.at))
  <2> TAKE x, y \in Z
  <2>1. PICK v \in S : x.at = v.at /\ x.from = v.from
    OBVIOUS
  <2>2. PICK w \in S : y.at = w.at /\ y.from = w.from
    OBVIOUS
  <2> QED
    BY <2>1, <2>2 DEF Coherent
<1> QED
  BY <1>1, <1>2 DEF Coherent

LEMMA DatedParts ==
  ASSUME NEW x \in Readings, NEW t \in Int
  PROVE  /\ Mon!Dated(x, t) \in Readings /\ Mon!Dated(x, t).us = t
         /\ Mon!Dated(x, t).at = x.at /\ Mon!Dated(x, t).from = x.from /\ Mon!Dated(x, t).value = x.value
BY DEF Mon!Dated, Readings

\* A drive that is not concerned: what is under way from it and kept of it stays.
LEMMA OthersKeep ==
  ASSUME MonInv, NEW d \in Mon!Drives, taken'[d] = taken[d], wire'[d] = wire[d], off' = off, clock' = clock,
         d = "motor" => motor' = motor, d # "motor" => bmmh' = bmmh
  PROVE  Flying(d)' = Flying(d) /\ Kept(d)' = Kept(d) /\ Honest(d)'
<1>1. Flying(d)' = Flying(d) /\ Kept(d)' = Kept(d)
  BY DEF Flying, Kept
<1> QED
  BY <1>1 DEF Honest, MonInv

\* eposcom has a value taken, ...
LEMMA ServeKeeps ==
  ASSUME MonInv, NEW d \in Mon!Drives, Mon!Serve(d)
  PROVE  MonInv'
<1> DEFINE x == Mon!Reading(IF d = "motor" THEN pos ELSE (pos + off + Bias) % Full, clock)
<1>0. MonTyped
  BY DEF MonInv
<1>1. /\ taken[d] = Mon!NoAnswer /\ taken' = [taken EXCEPT ![d] = x]
      /\ UNCHANGED <<clock, pos, off, wire, motor, mc, bmmh, skew, stamp>>
  BY DEF Mon!Serve, Mon!monitor, Full
<1>2. x \in Readings /\ x.at = clock /\ x.from = pos /\ Says(d, x, off) /\ x.us = Mon!Undated
  <2>1. (pos + off + Bias) % Full \in Int
    <3>1. pos + off + Bias \in Int /\ Full \in Nat \ {0}
      BY <1>0, WholeTurn DEF MonTyped
    <3> QED
      BY ONLY <3>1, DivMod
  <2> QED
    BY <1>0, <2>1 DEF MonTyped, Readings, Mon!Reading, Mon!Undated, Says
<1> HIDE DEF x
<1>3. MonTyped'
  BY <1>0, <1>1, <1>2 DEF MonTyped
<1>4. \A e \in Mon!Drives : e # d => Flying(e)' = Flying(e) /\ Kept(e)' = Kept(e) /\ Honest(e)'
  <2> TAKE e \in Mon!Drives
  <2> HAVE e # d
  <2>1. taken'[e] = taken[e] /\ wire'[e] = wire[e] /\ off' = off /\ clock' = clock /\ motor' = motor /\ bmmh' = bmmh
    BY <1>0, <1>1 DEF MonTyped
  <2> QED
    BY <2>1, OthersKeep
<1>5. taken'[d] = x /\ Kept(d)' = Kept(d) /\ Flying(d)' \subseteq Flying(d) \cup {x}
  BY <1>0, <1>1 DEF MonTyped, Kept, Flying
<1>6. Honest(d)'
  <2>1. Honest(d)
    BY DEF MonInv
  <2>2. off' = off /\ clock' = clock /\ clock - x.at <= MaxAge
    BY <1>0, <1>1, <1>2, SkewAssumption DEF MonTyped
  <2> QED
    BY <1>2, <1>5, <2>1, <2>2 DEF Honest
<1>7. Samples' \subseteq Samples \cup {x}
  BY <1>4, <1>5 DEF Samples
<1>8. Coherent(Samples', clock, pos)
  <2>1. Coherent(Samples \cup {x}, clock, pos)
    BY <1>0, <1>2, NewIsCoherent DEF MonInv, MonTyped
  <2> QED
    BY <1>7, <2>1 DEF Coherent
<1>9. SkewIsSound'
  BY <1>1 DEF MonInv, SkewIsSound
<1> QED
  BY <1>1, <1>3, <1>4, <1>6, <1>8, <1>9 DEF MonInv

\* ... and answers.
LEMMA AnswerKeeps ==
  ASSUME MonInv, NEW d \in Mon!Drives, Mon!Answer(d)
  PROVE  MonInv'
<1> DEFINE x == IF d \in Dating THEN Mon!Dated(taken[d], clock) ELSE taken[d]
<1>0. MonTyped /\ Honest(d) /\ SkewIsSound
  BY DEF MonInv
<1>1. /\ taken[d] # Mon!NoAnswer /\ taken' = [taken EXCEPT ![d] = Mon!NoAnswer]
      /\ wire' = [wire EXCEPT ![d] = Append(@, x)] \/ wire' = wire
      /\ UNCHANGED <<clock, pos, off, motor, mc, bmmh, skew, stamp>>
  BY DEF Mon!Answer, Mon!monitor
<1>2. taken[d] \in Readings /\ taken[d] \in Flying(d) /\ wire[d] \in Seq(Readings)
      /\ taken[d] \in Samples /\ taken[d].at \in 0 .. clock
  <2>1. taken[d] \in Readings /\ taken[d] \in Flying(d) /\ wire[d] \in Seq(Readings)
    BY <1>0, <1>1 DEF MonTyped, Flying
  <2>2. taken[d] \in Samples
    BY <2>1 DEF Samples
  <2> QED
    BY <2>1, <2>2 DEF MonInv, Coherent
<1>3. x \in Readings /\ x.at = taken[d].at /\ x.from = taken[d].from /\ x.value = taken[d].value
  <2>1. clock \in Int /\ taken[d] \in Readings
    BY <1>0, <1>2 DEF MonTyped
  <2>2. LET z == Mon!Dated(taken[d], clock)
        IN  z \in Readings /\ z.at = taken[d].at /\ z.from = taken[d].from /\ z.value = taken[d].value
    BY ONLY <2>1, DatedParts
  <2> QED
    BY <2>1, <2>2
<1>4. Says(d, x, off) /\ IF x.us = Mon!Undated THEN clock - x.at <= MaxAge ELSE Timely(x)
  <2>1. Says(d, taken[d], off) /\ taken[d].us = Mon!Undated /\ clock - taken[d].at <= MaxAge
    BY <1>0, <1>2 DEF Honest
  <2>2. CASE d \in Dating
    <3>1. x.us = clock
      BY <1>0, <1>2, <2>2, DatedParts DEF MonTyped
    <3>2. Timely(x)
      BY <1>0, <1>2, <1>3, <2>1, <3>1, SkewAssumption DEF Timely, MonTyped
    <3> QED
      BY <1>0, <1>3, <2>1, <3>1, <3>2 DEF Says, Mon!Undated, MonTyped
  <2>3. CASE d \notin Dating
    BY <2>1, <2>3
  <2> QED
    BY <2>2, <2>3
<1> HIDE DEF x
<1>5. Flying(d)' \subseteq Flying(d) \cup {x} /\ Kept(d)' = Kept(d) /\ taken'[d] = Mon!NoAnswer /\ wire'[d] \in Seq(Readings)
  <2>1. taken'[d] = Mon!NoAnswer /\ (wire'[d] = Append(wire[d], x) \/ wire'[d] = wire[d])
    BY <1>0, <1>1 DEF MonTyped
  <2>2. /\ Append(wire[d], x) \in Seq(Readings)
        /\ \A i \in DOMAIN Append(wire[d], x) : Append(wire[d], x)[i] = x \/ (i \in DOMAIN wire[d] /\ Append(wire[d], x)[i] = wire[d][i])
    BY <1>2, <1>3
  <2>3. \A i \in DOMAIN wire'[d] : wire'[d][i] \in Flying(d) \cup {x}
    BY <2>1, <2>2 DEF Flying
  <2> QED
    BY <1>1, <1>2, <2>1, <2>2, <2>3 DEF Flying, Kept
<1>6. MonTyped'
  <2>1. Mon!NoAnswer \in Readings
    BY DEF Mon!NoAnswer, Readings, Mon!Undated
  <2> QED
    BY <1>0, <1>1, <1>5, <2>1 DEF MonTyped
<1>7. \A e \in Mon!Drives : e # d => Flying(e)' = Flying(e) /\ Kept(e)' = Kept(e) /\ Honest(e)'
  <2> TAKE e \in Mon!Drives
  <2> HAVE e # d
  <2>1. taken'[e] = taken[e] /\ wire'[e] = wire[e] /\ off' = off /\ clock' = clock /\ motor' = motor /\ bmmh' = bmmh
    BY <1>0, <1>1 DEF MonTyped
  <2> QED
    BY <2>1, OthersKeep
<1>8. Honest(d)'
  <2>1. taken'[d].us = Mon!Undated /\ off' = off /\ clock' = clock
    BY <1>1, <1>5 DEF Mon!NoAnswer
  <2> QED
    BY <1>0, <1>4, <1>5, <2>1 DEF Honest
<1>9. Coherent(Samples', clock, pos)
  <2>1. Samples' \subseteq Samples \cup {x}
    BY <1>5, <1>7 DEF Samples
  <2>2. \A y \in Samples' : y \in Readings /\ \E z \in Samples : y.at = z.at /\ y.from = z.from
    BY <1>2, <1>3, <2>1 DEF MonInv, Coherent
  <2> QED
    BY <1>0, <2>2, DatedIsCoherent DEF MonInv, MonTyped
<1>10. SkewIsSound'
  BY <1>0, <1>1 DEF SkewIsSound
<1> QED
  BY <1>1, <1>6, <1>7, <1>8, <1>9, <1>10 DEF MonInv

\* The main loop with one answer.
LEMMA LineKeeps ==
  ASSUME MonInv, NEW d \in Mon!Drives, Mon!ReadLine(d)
  PROVE  MonInv'
<1> DEFINE x == Head(wire[d])
           us == IF x.us = Mon!Undated THEN clock ELSE x.us
           y == Mon!Dated(x, us)
<1>0. MonTyped /\ Honest(d) /\ SkewIsSound /\ Coherent(Samples, clock, pos)
  BY DEF MonInv
<1>1. /\ wire[d] # <<>> /\ wire' = [wire EXCEPT ![d] = Tail(@)]
      /\ Mon!Take(d, x) /\ UNCHANGED <<clock, pos, off, taken>>
  BY DEF Mon!ReadLine
<1>2. wire[d] \in Seq(Readings) /\ x \in Readings /\ x \in Flying(d) /\ x \in Samples /\ x.at \in 0 .. clock
  <2>1. wire[d] \in Seq(Readings)
    BY <1>0 DEF MonTyped
  <2>2. x \in Readings /\ 1 \in DOMAIN wire[d] /\ x = wire[d][1]
    BY <1>1, <2>1
  <2>3. x \in Flying(d)
    BY <2>2 DEF Flying
  <2>4. x \in Samples
    BY <2>3 DEF Samples
  <2> QED
    BY <1>0, <2>1, <2>2, <2>3, <2>4 DEF Coherent
<1>3. us \in Int /\ y \in Readings /\ y.us = us /\ y.at = x.at /\ y.from = x.from /\ y.value = x.value
  <2>1. us \in Int
    BY <1>0, <1>2 DEF MonTyped, Readings
  <2> QED
    BY <1>2, <2>1, DatedParts
<1>4. Says(d, y, off) /\ Timely(y)
  <2>1. Says(d, x, off) /\ IF x.us = Mon!Undated THEN clock - x.at <= MaxAge ELSE Timely(x)
    BY <1>0, <1>2 DEF Honest
  <2>2. Timely(y)
    BY <1>0, <1>2, <1>3, <2>1, SkewAssumption DEF Timely, MonTyped
  <2> QED
    BY <1>3, <2>1, <2>2 DEF Says
<1>5. /\ motor' = IF d = "motor" THEN [motor EXCEPT ![mc % 2] = y] ELSE motor
      /\ bmmh' = IF d = "bmmh" THEN y ELSE bmmh
      /\ mc' = IF d = "motor" THEN (mc + 1) % 2 ELSE mc
      /\ skew' = skew \/ (skew' = Mon!SkewOf(motor', bmmh') /\ skew' # Mon!None)
  BY <1>1 DEF Mon!Take
<1> HIDE DEF us, y
<1>6. Flying(d)' \subseteq Flying(d) /\ wire'[d] \in Seq(Readings)
  <2>1. wire'[d] = Tail(wire[d]) /\ taken'[d] = taken[d]
    BY <1>0, <1>1 DEF MonTyped
  <2>2. Tail(wire[d]) \in Seq(Readings) /\ \A i \in DOMAIN Tail(wire[d]) : i + 1 \in DOMAIN wire[d] /\ Tail(wire[d])[i] = wire[d][i + 1]
    BY <1>1, <1>2
  <2> QED
    BY <2>1, <2>2 DEF Flying
<1>7. MonTyped' /\ Kept(d)' \subseteq Kept(d) \cup {y}
  <2>1. mc \in {0, 1} /\ mc % 2 \in {0, 1} /\ (mc + 1) % 2 \in {0, 1}
    BY <1>0 DEF MonTyped
  <2>2. motor' \in [{0, 1} -> Readings] /\ bmmh' \in Readings /\ mc' \in {0, 1}
    BY <1>0, <1>3, <1>5, <2>1 DEF MonTyped
  <2>3. wire' \in [Mon!Drives -> Seq(Readings)]
    BY <1>0, <1>1, <1>6 DEF MonTyped
  <2>4. d = "motor" => \A i \in {0, 1} : motor'[i] \in {motor[0], motor[1], y}
    BY <1>0, <1>5, <2>1 DEF MonTyped
  <2>5. d # "motor" => d = "bmmh"
    BY DEF Mon!Drives
  <2>6. Kept(d)' \subseteq Kept(d) \cup {y}
    BY <1>5, <2>4, <2>5 DEF Kept
  <2> QED
    BY <1>0, <1>1, <2>2, <2>3, <2>6 DEF MonTyped
<1>8. \A e \in Mon!Drives : e # d => Flying(e)' = Flying(e) /\ Kept(e)' = Kept(e) /\ Honest(e)'
  <2> TAKE e \in Mon!Drives
  <2> HAVE e # d
  <2>1. taken'[e] = taken[e] /\ wire'[e] = wire[e] /\ off' = off /\ clock' = clock
    BY <1>0, <1>1 DEF MonTyped
  <2>2. (e = "motor" => motor' = motor) /\ (e # "motor" => bmmh' = bmmh)
    BY <1>5 DEF Mon!Drives
  <2> QED
    BY <2>1, <2>2, OthersKeep
<1>9. Honest(d)'
  BY <1>0, <1>1, <1>4, <1>6, <1>7 DEF Honest
<1>10. Coherent(Samples', clock, pos)
  <2>1. Samples' \subseteq Samples \cup {y}
    BY <1>6, <1>7, <1>8 DEF Samples
  <2>2. \A z \in Samples' : z \in Readings /\ \E v \in Samples : z.at = v.at /\ z.from = v.from
    BY <1>0, <1>2, <1>3, <2>1 DEF Coherent
  <2> QED
    BY <1>0, <2>2, DatedIsCoherent DEF MonTyped
<1>11. SkewIsSound'
  <2>1. Seen(motor', bmmh', off')
    <3>1. \A z \in Kept("motor")' : z \in Samples' /\ Says("motor", z, off') /\ Timely(z)
      BY <1>8, <1>9 DEF Honest, Samples, Mon!Drives
    <3>2. \A z \in Kept("bmmh")' : z \in Samples' /\ Says("bmmh", z, off') /\ Timely(z)
      BY <1>8, <1>9 DEF Honest, Samples, Mon!Drives
    <3>3. \A i \in {0, 1} : motor'[i] # Mon!Never => motor'[i] \in Kept("motor")'
      BY DEF Kept
    <3>4. bmmh' # Mon!Never => bmmh' \in Kept("bmmh")'
      BY DEF Kept
    <3>5. \A z \in Samples' : z.at \in Nat
      BY <1>0, <1>10 DEF Coherent, MonTyped
    <3>6. \A z, v \in Samples' : Near(z.from, v.from, Apart(z.at, v.at))
      BY <1>10 DEF Coherent
    <3> QED
      BY <1>7, <3>1, <3>2, <3>3, <3>4, <3>5, <3>6 DEF Seen, MonTyped
  <2>2. CASE skew' = skew
    BY <1>0, <1>1, <2>2 DEF SkewIsSound
  <2>3. CASE skew' = Mon!SkewOf(motor', bmmh') /\ skew' # Mon!None
    <3>1. PICK i \in {0, 1}, k \in {0, 1} :
             /\ Mon!Around(motor', bmmh', i, k)
             /\ skew' = Mon!Skew(Mon!Wrap(bmmh'.value - Mon!Between(motor', bmmh', i, k) - Bias), bmmh'.us)
      BY <2>3 DEF Mon!SkewOf
    <3>2. off' \in Int
      BY <1>7 DEF MonTyped
    <3>3. Mon!Wrap(Mon!Wrap(bmmh'.value - Mon!Between(motor', bmmh', i, k) - Bias) - off') \in -Mon!Error .. Mon!Error
      BY <2>1, <3>1, <3>2, SkewOfAround
    <3>4. skew'.value = Mon!Wrap(bmmh'.value - Mon!Between(motor', bmmh', i, k) - Bias)
      BY <3>1 DEF Mon!Skew
    <3> QED
      BY <3>3, <3>4 DEF SkewIsSound
  <2> QED
    BY <1>5, <2>2, <2>3
<1> QED
  BY <1>1, <1>7, <1>8, <1>9, <1>10, <1>11 DEF MonInv

\* Time passes only while what has no date is young enough.
LEMMA TimeKeeps ==
  ASSUME MonInv, Mon!Turn
  PROVE  MonInv'
<1>0. MonTyped /\ SkewIsSound /\ Coherent(Samples, clock, pos) /\ \A d \in Mon!Drives : Honest(d)
  BY DEF MonInv
<1>1. PICK t \in Turns : pos' = pos + t
  BY DEF Mon!Turn
<1>2. /\ clock' = clock + 1
      /\ UNCHANGED <<off, taken, wire, motor, mc, bmmh, skew, stamp>>
      /\ \A x \in Mon!Waiting \ {Mon!NoAnswer} : x.us = Mon!Undated => clock - x.at < MaxAge
  BY DEF Mon!Turn, Mon!monitor
<1>3. \A d \in Mon!Drives : Flying(d)' = Flying(d) /\ Kept(d)' = Kept(d) /\ Flying(d) \subseteq Mon!Waiting
  BY <1>2 DEF Flying, Kept, Mon!Waiting
<1>4. Samples' = Samples
  BY <1>3 DEF Samples
<1>5. Coherent(Samples', clock', pos')
  BY <1>0, <1>1, <1>2, <1>4, TurnIsCoherent, SkewAssumption DEF MonTyped
<1>6. \A d \in Mon!Drives : Honest(d)'
  <2> TAKE d \in Mon!Drives
  <2>1. ASSUME NEW x \in Flying(d), x.us = Mon!Undated
        PROVE  clock' - x.at <= MaxAge
    <3>1. x \in Samples
      BY DEF Samples
    <3>2. x.at \in 0 .. clock /\ clock \in Nat
      BY <1>0, <3>1 DEF Coherent, MonTyped
    <3>3. x # Mon!NoAnswer
      BY <3>2 DEF Mon!NoAnswer
    <3> QED
      BY <1>2, <1>3, <2>1, <3>2, <3>3, SkewAssumption
  <2> QED
    BY <1>0, <1>2, <1>3, <2>1 DEF Honest
<1>7. MonTyped' /\ SkewIsSound'
  BY <1>0, <1>1, <1>2, SkewAssumption DEF MonTyped, SkewIsSound
<1> QED
  BY <1>5, <1>6, <1>7 DEF MonInv

LEMMA MonNextKeeps ==
  ASSUME MonInv, Mon!Next
  PROVE  MonInv'
<1>1. CASE Mon!Turn
  BY <1>1, TimeKeeps
<1>2. ASSUME NEW d \in Mon!Drives, Mon!Serve(d) \/ Mon!Answer(d) \/ Mon!ReadLine(d)
      PROVE  MonInv'
  BY <1>2, ServeKeeps, AnswerKeeps, LineKeeps
<1>3. ASSUME NEW d \in Mon!Drives, Mon!Probe(d)
      PROVE  MonInv'
  <2>1. UNCHANGED <<clock, pos, off, taken, wire, motor, mc, bmmh, skew, stamp>>
    BY <1>3 DEF Mon!Probe, Mon!monitor
  <2>2. \A e \in Mon!Drives : Flying(e)' = Flying(e) /\ Kept(e)' = Kept(e) /\ Honest(e)'
    BY <2>1, OthersKeep
  <2>3. Samples' = Samples
    BY <2>2 DEF Samples
  <2> QED
    BY <2>1, <2>2, <2>3 DEF MonInv, MonTyped, SkewIsSound
<1> QED
  BY <1>1, <1>2, <1>3 DEF Mon!Next

\* A skew that is told is off the true one by less than the motor can turn between the dates
\* of the two positions it was computed from, and before a value is dated, whoever asked for
\* them, however the answers overtook each other, whichever were lost and across the seam of
\* the angles, for every bias, interval and age (skewmon_main.c:118-139).
THEOREM SkewOfTheBoom == MCSpec => []SkewIsNear
<1> DEFINE Move == (ClientMoves \/ LinkMoves \/ SailMoves \/ MonMoves) /\ UNCHANGED subject
<1>1. MonInv /\ [Move]_<<subject, vars, linkVars, sailVars, skewVars>> => MonInv'
  <2> SUFFICES ASSUME MonInv, [Move]_<<subject, vars, linkVars, sailVars, skewVars>> PROVE MonInv'
    OBVIOUS
  <2>1. CASE UNCHANGED skewVars
    <3>1. UNCHANGED <<clock, pos, off, taken, wire, motor, mc, bmmh, skew>>
      BY <2>1 DEF skewVars
    <3>2. \A d \in Mon!Drives : Flying(d)' = Flying(d) /\ Kept(d)' = Kept(d) /\ Honest(d)'
      BY <3>1, OthersKeep
    <3>3. Samples' = Samples
      BY <3>2 DEF Samples
    <3> QED
      BY <3>1, <3>2, <3>3 DEF MonInv, MonTyped, SkewIsSound
  <2>2. CASE Mon!Next
    BY <2>2, MonNextKeeps
  <2> QED
    BY <2>1, <2>2 DEF ClientMoves, LinkMoves, SailMoves, MonMoves
<1>2. MonInv => SkewIsNear
  BY DEF MonInv, SkewIsSound, SkewIsNear, Mon!SkewIsNear
<1> QED
  BY <1>1, <1>2, MonInitial, PTL DEF MCSpec, Move

-----------------------------------------------------------------------------
(* The control of the sail.  A client b is the cache of sailctl with the requests on  *)
(* their way, a world w what it cannot see: the answers on their way and the drive.    *)
(* What a handler does to the client is followed call by call (CallEffect); what the   *)
(* drive does, request by request (RequestServed).                                     *)

SailRecords == [state : {"ABSENT", "INVALID", "PENDING", "VALID"}, value : Int,
                running : BOOLEAN, at : Int]
Timed(c) == c.running <=> c.state = "PENDING"
SailCells == {c \in SailRecords : Timed(c)}
SailCalls == [call : {"get", "set", "invalidate"}, reg : Sail!Registers, value : Int]
SailRequests == [op : {"GET", "SET"}, key : Sail!Registers, value : Int]
SailLines == [op : {"ACK", "TARGET", "SKEW"}, key : Sail!Registers \cup {"angle"}, value : Int]
SailDrives ==
    [control : {0, Sail!CONTROL_SHUTDOWN, Sail!CONTROL_SWITCHON, Sail!CONTROL_START},
     opmode : {0, Sail!OPMODE_PPM}, targpos : Int, config : Int, enabled : BOOLEAN,
     homed : BOOLEAN, homing : {FALSE}, homingErr : BOOLEAN, fault : {FALSE}, pos : Int, goal : Int]
SailClients == [regs : [Sail!Registers -> SailCells], out : Seq(SailRequests)]
Worlds == [box : Seq(SailLines), drive : SailDrives, brake : Int]

\* What sailctl may ask of the drive as it is: the configuration only as it should be, and
\* the mode only when it is right.
Orders(q, r, v) == q.op = "SET" /\ q.key = r /\ q.value = v
Sound(q, w) ==
    /\ q.op = "SET" => q.key \in {"CONTROL", "OPMODE", "TARGPOS", "CONFIG", "BRAKE"}
    /\ q.key = "CONFIG" => Orders(q, "CONFIG", 1)
    /\ q.key = "BRAKE" => Orders(q, "BRAKE", 0)
    /\ q.key = "OPMODE" => \/ Orders(q, "OPMODE", Sail!OPMODE_PPM)
                           \/ q.op = "GET" /\ w.drive.opmode = Sail!OPMODE_PPM
    /\ q.key = "CONTROL" /\ q.op = "SET" =>
          q.value \in {Sail!CONTROL_SHUTDOWN, Sail!CONTROL_SWITCHON, Sail!CONTROL_START}

\* A value of a register that says what is true.
Holds(r, v, w) ==
    /\ r = "CONFIG" => w.drive.config = 1
    /\ r = "BRAKE" => w.brake = 0
    /\ r = "OPMODE" => v = Sail!OPMODE_PPM /\ w.drive.opmode = Sail!OPMODE_PPM
    /\ r = "STATUS" => ~Sail!Has(v, Sail!STATUS_FAULT)
    /\ r = "TARGPOS" => v = w.drive.targpos
Answers(l, r) == l.op = "ACK" /\ l.key = r
Truthful(w) == \A i \in DOMAIN w.box : w.box[i].op = "ACK" => Holds(w.box[i].key, w.box[i].value, w)

\* One answer at most is to be expected, and is: nothing else can make the cell valid.
Quiet(b, w, r) ==
    /\ \A i \in DOMAIN b.out : b.out[i].key # r
    /\ \A i \in DOMAIN w.box : ~Answers(w.box[i], r)
Single(b, w, r) ==
    /\ \A i, j \in DOMAIN b.out : b.out[i].key = r /\ b.out[j].key = r => i = j
    /\ \A i, j \in DOMAIN w.box : Answers(w.box[i], r) /\ Answers(w.box[j], r) => i = j
    /\ \A i \in DOMAIN b.out, j \in DOMAIN w.box : ~(b.out[i].key = r /\ Answers(w.box[j], r))
    /\ b.regs[r].state # "PENDING" => Quiet(b, w, r)

SailClient(b, w) ==
    /\ b \in SailClients
    /\ \A i \in DOMAIN b.out : Sound(b.out[i], w)
    /\ \A r \in Sail!Registers : b.regs[r].state = "VALID" => Holds(r, b.regs[r].value, w)
    /\ Single(b, w, "TARGPOS")

\* While sailctl initialises, the boom rests, and what the cache says of CONTROL is true.
Rests(w) ==
    /\ w.drive.goal = w.drive.pos /\ w.drive.goal = w.drive.targpos
    /\ w.drive.control \in {Sail!CONTROL_SWITCHON, Sail!CONTROL_START} => w.drive.enabled
    /\ \A i \in DOMAIN w.box : Answers(w.box[i], "CONTROL") => w.box[i].value = w.drive.control
Starting(b, w) ==
    /\ Rests(w)
    /\ b.regs["TARGPOS"].state = "ABSENT"
    /\ \A i \in DOMAIN b.out : ~Orders(b.out[i], "CONTROL", Sail!CONTROL_START)
    /\ Single(b, w, "CONTROL")
    /\ b.regs["CONTROL"].state = "VALID" => b.regs["CONTROL"].value = w.drive.control
ControlOrder(b) == \E i \in DOMAIN b.out : b.out[i].op = "SET" /\ b.out[i].key = "CONTROL"
Worked(b, w) == b.regs["OPMODE"].state = "ABSENT" \/ w.drive.control # 0 \/ ControlOrder(b)

\* While it steers, a set point on its way is near the one before and followed by its START;
\* only a START on its way may still bring the goal there.
Close(p, q) == p - q \in -SailHalf .. SailHalf
Ready(w) ==
    /\ w.drive.enabled /\ w.drive.opmode = Sail!OPMODE_PPM
    /\ w.drive.config = 1 /\ w.brake = 0
SetPoint(q) == q.op = "SET" /\ q.key = "TARGPOS"
Steering(b, w) ==
    /\ Ready(w)
    /\ \A i \in DOMAIN b.out :
          b.out[i].op = "SET" /\ b.out[i].key = "CONTROL" => b.out[i].value = Sail!CONTROL_START
    /\ \A i \in DOMAIN b.out :
          SetPoint(b.out[i]) =>
             /\ Close(b.out[i].value, w.drive.targpos)
             /\ i + 1 \in DOMAIN b.out /\ Orders(b.out[i + 1], "CONTROL", Sail!CONTROL_START)
    /\ \/ w.drive.goal = w.drive.targpos
       \/ /\ Close(w.drive.targpos, w.drive.goal)
          /\ \E i \in DOMAIN b.out : /\ Orders(b.out[i], "CONTROL", Sail!CONTROL_START)
                                     /\ \A j \in 1 .. i : ~SetPoint(b.out[j])
Phase(l, b, w) == IF l = "init" THEN Starting(b, w) /\ Worked(b, w) ELSE Steering(b, w)

TheCache == [regs |-> sailRegs, out |-> sailReq]
TheWorld == [box |-> inbox, drive |-> drive, brake |-> brake]
SailInv ==
    /\ loop \in {"init", "control"} /\ target \in Int \cup {NaN} /\ sailSkew \in Int
    /\ TheWorld \in Worlds /\ Truthful(TheWorld)
    /\ SailClient(TheCache, TheWorld)
    /\ Phase(loop, TheCache, TheWorld)

-----------------------------------------------------------------------------
(* One call of the cache. *)
SailLine(c) == IF c.call = "get" THEN Sail!Get(c.reg) ELSE Sail!Set(c.reg, c.value)

LEMMA SailWords ==
    /\ Sail!CONTROL_CLEARFAULT = 128 /\ Sail!CONTROL_SHUTDOWN = 6 /\ Sail!CONTROL_START = 63
    /\ Sail!CONTROL_SWITCHON = 15 /\ Sail!OPMODE_PPM = 1 /\ Sail!OPMODE_HOMING = 6
    /\ Sail!Registers = {"STATUS", "CONTROL", "OPMODE", "TARGPOS", "ERROR", "CONFIG", "BRAKE"}
BY DEF Sail!CONTROL_CLEARFAULT, Sail!CONTROL_SHUTDOWN, Sail!CONTROL_START, Sail!CONTROL_SWITCHON,
       Sail!OPMODE_PPM, Sail!OPMODE_HOMING, Sail!Registers

LEMMA Appended ==
    ASSUME NEW S, NEW s \in Seq(S), NEW e \in S
    PROVE  /\ Append(s, e) \in Seq(S) /\ Len(s) \in Nat /\ DOMAIN s = 1 .. Len(s)
           /\ DOMAIN Append(s, e) = 1 .. (Len(s) + 1)
           /\ \A i \in DOMAIN s : i \in DOMAIN Append(s, e) /\ Append(s, e)[i] = s[i]
           /\ Append(s, e)[Len(s) + 1] = e
OBVIOUS

LEMMA Shortened ==
    ASSUME NEW S, NEW s \in Seq(S), s # << >>
    PROVE  /\ Head(s) \in S /\ Head(s) = s[1] /\ 1 \in DOMAIN s
           /\ Tail(s) \in Seq(S) /\ Len(s) \in Nat /\ DOMAIN s = 1 .. Len(s)
           /\ DOMAIN Tail(s) = 1 .. (Len(s) - 1)
           /\ \A i \in DOMAIN Tail(s) : i + 1 \in DOMAIN s /\ Tail(s)[i] = s[i + 1]
           /\ \A i \in DOMAIN s : i # 1 => i - 1 \in DOMAIN Tail(s) /\ Tail(s)[i - 1] = s[i]
OBVIOUS

LEMMA CallsKeepTiming ==
    ASSUME NEW c \in SailRecords, Timed(c), NEW t \in Int, NEW v \in Int, NEW op \in {"ACK", "ERR"}
    PROVE  /\ Sail!GetCell(c, t) \in SailRecords /\ Timed(Sail!GetCell(c, t))
           /\ Sail!SetCell(c, v, t) \in SailRecords /\ Timed(Sail!SetCell(c, v, t))
           /\ Sail!InvalidateCell(c, t) \in SailRecords /\ Timed(Sail!InvalidateCell(c, t))
           /\ Sail!ReceiveCell(c, op, v, t) \in SailRecords /\ Timed(Sail!ReceiveCell(c, op, v, t))
<1> USE DEF SailRecords, Timed, Sail!Tick
<1>1. Sail!GetCell(c, t) \in SailRecords /\ Timed(Sail!GetCell(c, t))
  BY DEF Sail!GetCell, Sail!GetAsks
<1>2. Sail!SetCell(c, v, t) \in SailRecords /\ Timed(Sail!SetCell(c, v, t))
  BY DEF Sail!SetCell, Sail!SetAsks
<1>3. Sail!InvalidateCell(c, t) \in SailRecords /\ Timed(Sail!InvalidateCell(c, t))
  BY DEF Sail!InvalidateCell
<1>4. Sail!ReceiveCell(c, op, v, t) \in SailRecords /\ Timed(Sail!ReceiveCell(c, op, v, t))
  BY DEF Sail!ReceiveCell
<1> QED
  BY <1>1, <1>2, <1>3, <1>4

LEMMA CellsStaySailCells ==
    ASSUME NEW cell \in SailCells, NEW v \in Int, NEW op \in {"ACK", "ERR"}
    PROVE  /\ Sail!GetCell(cell, 0) \in SailCells
           /\ Sail!SetCell(cell, v, 0) \in SailCells
           /\ Sail!InvalidateCell(cell, 0) \in SailCells
           /\ Sail!ReceiveCell(cell, op, v, 0) \in SailCells
<1>1. cell \in SailRecords /\ Timed(cell) /\ 0 \in Int
  BY DEF SailCells
<1> QED
  BY <1>1, CallsKeepTiming DEF SailCells

LEMMA CellEffect ==
    ASSUME NEW cell \in SailCells, NEW c \in SailCalls
    PROVE  /\ Sail!Made(c, cell) \in SailCells
           /\ Sail!Made(c, cell).state = "VALID" => Sail!Made(c, cell) = cell
           /\ \/ /\ Sail!Written(c, cell) = << >>
                 /\ \/ Sail!Made(c, cell) = cell
                    \/ c.call = "invalidate" /\ Sail!Made(c, cell).state \in {"ABSENT", "INVALID"}
              \/ /\ Sail!Written(c, cell) = <<SailLine(c)>>
                 /\ Sail!Made(c, cell).state = "PENDING"
                 /\ \/ c.call = "set"
                    \/ c.call = "get" /\ cell.state \in {"ABSENT", "INVALID"}
           /\ c.call = "set" /\ (cell.state \notin {"PENDING", "VALID"} \/ cell.value # c.value) =>
                 Sail!Written(c, cell) = <<SailLine(c)>>
<1>0. /\ c.call \in {"get", "set", "invalidate"} /\ c.value \in Int
      /\ cell.state \in {"ABSENT", "INVALID", "PENDING", "VALID"}
      /\ cell = [state |-> cell.state, value |-> cell.value, running |-> cell.running, at |-> cell.at]
  BY DEF SailCalls, SailCells, SailRecords
<1>1. CASE c.call = "get"
  <2>1. /\ Sail!Made(c, cell) = Sail!GetCell(cell, 0)
        /\ Sail!Written(c, cell) = IF cell.state \in {"ABSENT", "INVALID"} THEN <<SailLine(c)>> ELSE << >>
    BY <1>1 DEF Sail!Made, Sail!Written, SailLine, Sail!GetAsks
  <2>2. Sail!GetCell(cell, 0) \in SailCells
    BY <1>0, CellsStaySailCells
  <2>3. IF cell.state \in {"ABSENT", "INVALID"} THEN Sail!GetCell(cell, 0).state = "PENDING"
        ELSE Sail!GetCell(cell, 0) = cell
    BY <1>0 DEF Sail!GetCell, Sail!GetAsks, Sail!Tick
  <2> QED
    BY <1>1, <2>1, <2>2, <2>3
<1>2. CASE c.call = "set"
  <2>1. /\ Sail!Made(c, cell) = Sail!SetCell(cell, c.value, 0)
        /\ Sail!Written(c, cell) = IF Sail!SetAsks(cell, c.value) THEN <<SailLine(c)>> ELSE << >>
    BY <1>2 DEF Sail!Made, Sail!Written, SailLine
  <2>2. Sail!SetCell(cell, c.value, 0) \in SailCells
    BY <1>0, CellsStaySailCells
  <2>3. CASE Sail!SetAsks(cell, c.value)
    <3>1. Sail!SetCell(cell, c.value, 0).state = "PENDING"
      BY <1>0, <2>3 DEF Sail!SetCell, Sail!Tick
    <3> QED
      BY <1>2, <2>1, <2>2, <2>3, <3>1
  <2>4. CASE ~Sail!SetAsks(cell, c.value)
    <3>1. Sail!SetCell(cell, c.value, 0) = cell
      BY <1>0, <2>4 DEF Sail!SetCell
    <3>2. cell.state \in {"PENDING", "VALID"} /\ cell.value = c.value
      BY <2>4 DEF Sail!SetAsks
    <3> QED
      BY <2>1, <2>4, <3>1, <3>2
  <2> QED
    BY <2>3, <2>4
<1>3. CASE c.call = "invalidate"
  <2>1. Sail!Made(c, cell) = Sail!InvalidateCell(cell, 0) /\ Sail!Written(c, cell) = << >>
    BY <1>3 DEF Sail!Made, Sail!Written
  <2>2. Sail!InvalidateCell(cell, 0) \in SailCells
    BY <1>0, CellsStaySailCells
  <2>3. Sail!InvalidateCell(cell, 0).state \in {"ABSENT", "INVALID"}
    BY <1>0 DEF Sail!InvalidateCell, Sail!Tick
  <2> QED
    BY <1>3, <2>1, <2>2, <2>3
<1> QED
  BY <1>0, <1>1, <1>2, <1>3

\* A call leaves the other cells alone and makes none valid; it is silent, or adds its line
\* and waits for the answer.
Silent(b, c, d) ==
    /\ d.out = b.out
    /\ \/ d.regs = b.regs
       \/ c.call = "invalidate" /\ d.regs[c.reg].state \in {"ABSENT", "INVALID"}
Asking(b, c, d) ==
    /\ d.out = Append(b.out, SailLine(c)) /\ SailLine(c) \in SailRequests
    /\ d.regs[c.reg].state = "PENDING"
    /\ c.call = "set" \/ (c.call = "get" /\ b.regs[c.reg].state \in {"ABSENT", "INVALID"})
LEMMA CallEffect ==
    ASSUME NEW b \in SailClients, NEW c \in SailCalls, NEW d, d = Sail!Then(b, c)
    PROVE  /\ d \in SailClients
           /\ \A r \in Sail!Registers : r # c.reg => d.regs[r] = b.regs[r]
           /\ \A r \in Sail!Registers : d.regs[r].state = "VALID" => d.regs[r] = b.regs[r]
           /\ Silent(b, c, d) \/ Asking(b, c, d)
           /\ (/\ c.call = "set"
               /\ \/ b.regs[c.reg].state \notin {"PENDING", "VALID"}
                  \/ b.regs[c.reg].value # c.value) => Asking(b, c, d)
<1> DEFINE cell == b.regs[c.reg]
           made == Sail!Made(c, cell)
           words == Sail!Written(c, cell)
<1>1. /\ b.regs \in [Sail!Registers -> SailCells] /\ b.out \in Seq(SailRequests)
      /\ c.reg \in Sail!Registers /\ c.call \in {"get", "set", "invalidate"} /\ c.value \in Int
  BY DEF SailClients, SailCalls
<1>2. cell \in SailCells
  BY <1>1
<1>3. d = [regs |-> [b.regs EXCEPT ![c.reg] = made], out |-> b.out \o words]
  BY DEF Sail!Then
<1>4. SailLine(c) \in SailRequests
  BY <1>1 DEF SailLine, SailRequests, Sail!Get, Sail!Set
<1>5. /\ made \in SailCells
      /\ made.state = "VALID" => made = cell
      /\ \/ /\ words = << >>
            /\ \/ made = cell
               \/ c.call = "invalidate" /\ made.state \in {"ABSENT", "INVALID"}
         \/ /\ words = <<SailLine(c)>>
            /\ made.state = "PENDING"
            /\ \/ c.call = "set"
               \/ c.call = "get" /\ cell.state \in {"ABSENT", "INVALID"}
      /\ c.call = "set" /\ (cell.state \notin {"PENDING", "VALID"} \/ cell.value # c.value) =>
            words = <<SailLine(c)>>
  <2> HIDE DEF cell
  <2> QED
    BY <1>2, CellEffect
<1> HIDE DEF made, words
<1>6. words = << >> => b.out \o words = b.out
  BY <1>1
<1>7. words = <<SailLine(c)>> => b.out \o words = Append(b.out, SailLine(c))
  BY <1>1, <1>4
<1>8. words = << >> => ~(words = <<SailLine(c)>>)
  OBVIOUS
<1>9. d.regs = [b.regs EXCEPT ![c.reg] = made] /\ d.out = b.out \o words
  BY <1>3
<1>10. d \in SailClients
  <2>1. b.out \o words \in Seq(SailRequests)
    <3>1. CASE words = << >>
      BY <1>1, <1>6, <3>1
    <3>2. CASE words = <<SailLine(c)>>
      BY <1>1, <1>4, <1>7, <3>2
    <3> QED
      BY <1>5, <3>1, <3>2
  <2> QED
    BY <1>1, <1>3, <1>5, <2>1 DEF SailClients
<1>11. d.regs[c.reg] = made /\ \A r \in Sail!Registers : r # c.reg => d.regs[r] = b.regs[r]
  BY <1>1, <1>9
<1>12. made = cell => d.regs = b.regs
  BY <1>1, <1>9
<1>13. words = << >> => Silent(b, c, d)
  BY <1>5, <1>6, <1>8, <1>9, <1>11, <1>12 DEF Silent
<1>14. words = <<SailLine(c)>> => Asking(b, c, d)
  BY <1>4, <1>5, <1>7, <1>8, <1>9, <1>11 DEF Asking
<1> QED
  BY <1>5, <1>10, <1>11, <1>13, <1>14

\* An open question is asked once: a register is asked again only after its answer came.
LEMMA CallKeepsSingle ==
    ASSUME NEW b \in SailClients, NEW w \in Worlds, NEW c \in SailCalls, NEW r \in Sail!Registers,
           Single(b, w, r), c.reg = r => c.call = "get" \/ b.regs[r].state # "PENDING"
    PROVE  Single(Sail!Then(b, c), w, r)
<1> DEFINE d == Sail!Then(b, c)
<1>1. /\ d \in SailClients
      /\ r # c.reg => d.regs[r] = b.regs[r]
      /\ Silent(b, c, d) \/ Asking(b, c, d)
  BY CallEffect
<1>2. b.out \in Seq(SailRequests)
  BY DEF SailClients
<1> HIDE DEF d
<1>3. CASE Silent(b, c, d)
  <2>1. d.out = b.out
    BY <1>3 DEF Silent
  <2>2. d.regs[r].state # "PENDING" => b.regs[r].state # "PENDING"
    BY <1>1, <1>3 DEF Silent
  <2>3. Single(d, w, r)
    BY <2>1, <2>2 DEF Single, Quiet
  <2> QED
    BY <2>3 DEF d
<1>4. CASE Asking(b, c, d)
  <2>1. d.out = Append(b.out, SailLine(c)) /\ SailLine(c) \in SailRequests
    BY <1>4 DEF Asking
  <2>2. SailLine(c).key = c.reg
    BY DEF SailLine, Sail!Get, Sail!Set
  <2>3. /\ Len(b.out) \in Nat /\ DOMAIN b.out = 1 .. Len(b.out)
        /\ DOMAIN d.out = 1 .. (Len(b.out) + 1)
        /\ \A i \in DOMAIN b.out : i \in DOMAIN d.out /\ d.out[i] = b.out[i]
        /\ d.out[Len(b.out) + 1].key = c.reg
    BY <1>2, <2>1, <2>2, Appended
  <2>4. \A i \in DOMAIN d.out : i \in DOMAIN b.out \/ i = Len(b.out) + 1
    BY <2>3
  <2>5. CASE c.reg = r
    <3>1. b.regs[r].state # "PENDING" /\ d.regs[r].state = "PENDING"
      BY <1>4, <2>5 DEF Asking
    <3>2. Quiet(b, w, r)
      BY <3>1 DEF Single
    <3>3. Single(d, w, r)
      BY <2>3, <2>4, <3>1, <3>2 DEF Single, Quiet
    <3> QED
      BY <3>3 DEF d
  <2>6. CASE c.reg # r
    <3>1. d.regs[r] = b.regs[r]
      BY <1>1, <2>6
    <3>2. \A i \in DOMAIN d.out : d.out[i].key = r => i \in DOMAIN b.out /\ b.out[i].key = r
      BY <2>3, <2>4, <2>6
    <3>3. Single(d, w, r)
      BY <3>1, <3>2 DEF Single, Quiet
    <3> QED
      BY <3>3 DEF d
  <2> QED
    BY <2>5, <2>6
<1> QED
  BY <1>1, <1>3, <1>4

Fit(b, c, w) ==
    /\ c.call = "set" => Sound(Sail!Set(c.reg, c.value), w)
    /\ c.call = "get" => \/ c.reg \in {"STATUS", "CONTROL", "ERROR", "TARGPOS"}
                         \/ c.reg = "OPMODE" /\ w.drive.opmode = Sail!OPMODE_PPM
    /\ c.reg = "TARGPOS" => c.call = "get" \/ b.regs["TARGPOS"].state # "PENDING"

LEMMA CallKeepsClient ==
    ASSUME NEW b, NEW w \in Worlds, NEW c \in SailCalls, SailClient(b, w), Fit(b, c, w)
    PROVE  SailClient(Sail!Then(b, c), w)
<1> DEFINE d == Sail!Then(b, c)
<1>1. b \in SailClients /\ b.out \in Seq(SailRequests)
  BY DEF SailClient, SailClients
<1>2. /\ d \in SailClients
      /\ \A r \in Sail!Registers : d.regs[r].state = "VALID" => d.regs[r] = b.regs[r]
      /\ Silent(b, c, d) \/ Asking(b, c, d)
  BY <1>1, CallEffect
<1>3. "TARGPOS" \in Sail!Registers /\ Single(b, w, "TARGPOS")
  BY SailWords DEF SailClient
<1>4. Single(d, w, "TARGPOS")
  BY <1>1, <1>3, CallKeepsSingle DEF Fit
<1> HIDE DEF d
<1>5. \A r \in Sail!Registers : d.regs[r].state = "VALID" => Holds(r, d.regs[r].value, w)
  BY <1>2 DEF SailClient
<1>6. \A i \in DOMAIN d.out : Sound(d.out[i], w)
  <2>1. CASE Silent(b, c, d)
    BY <2>1 DEF Silent, SailClient
  <2>2. CASE Asking(b, c, d)
    <3>1. d.out = Append(b.out, SailLine(c)) /\ SailLine(c) \in SailRequests
      BY <2>2 DEF Asking
    <3>2. Sound(SailLine(c), w)
      <4>1. CASE c.call = "set"
        BY <4>1 DEF SailLine, Fit
      <4>2. CASE c.call = "get"
        BY <4>2, SailWords DEF SailLine, Fit, Sound, Orders, Sail!Get
      <4> QED
        BY <2>2, <4>1, <4>2 DEF Asking
    <3>3. \A i \in DOMAIN b.out : Sound(b.out[i], w)
      BY DEF SailClient
    <3>4. /\ Len(b.out) \in Nat /\ DOMAIN b.out = 1 .. Len(b.out)
          /\ DOMAIN d.out = 1 .. (Len(b.out) + 1)
          /\ \A i \in DOMAIN b.out : i \in DOMAIN d.out /\ d.out[i] = b.out[i]
          /\ d.out[Len(b.out) + 1] = SailLine(c)
      BY <1>1, <3>1, Appended
    <3>5. \A i \in DOMAIN d.out : i \in DOMAIN b.out \/ i = Len(b.out) + 1
      BY <3>4
    <3> QED
      BY <3>2, <3>3, <3>4, <3>5
  <2> QED
    BY <1>2, <2>1, <2>2
<1>7. SailClient(d, w)
  BY <1>2, <1>4, <1>5, <1>6 DEF SailClient
<1> QED
  BY <1>7 DEF d

LEMMA CallKeepsStarting ==
    ASSUME NEW b, NEW w \in Worlds, NEW c \in SailCalls, SailClient(b, w), Starting(b, w),
           c.reg # "TARGPOS",
           c.reg = "CONTROL" => c.call = "get" \/ b.regs["CONTROL"].state # "PENDING",
           ~(c.call = "set" /\ c.reg = "CONTROL" /\ c.value = Sail!CONTROL_START)
    PROVE  /\ Starting(Sail!Then(b, c), w)
           /\ ControlOrder(b) => ControlOrder(Sail!Then(b, c))
           /\ Worked(b, w) /\ c.reg # "OPMODE" => Worked(Sail!Then(b, c), w)
<1> DEFINE d == Sail!Then(b, c)
<1>1. b \in SailClients /\ b.out \in Seq(SailRequests)
  BY DEF SailClient, SailClients
<1>2. /\ d \in SailClients
      /\ \A r \in Sail!Registers : r # c.reg => d.regs[r] = b.regs[r]
      /\ \A r \in Sail!Registers : d.regs[r].state = "VALID" => d.regs[r] = b.regs[r]
      /\ Silent(b, c, d) \/ Asking(b, c, d)
  BY <1>1, CallEffect
<1>3. {"CONTROL", "TARGPOS", "OPMODE"} \subseteq Sail!Registers /\ Single(b, w, "CONTROL")
  BY SailWords DEF Starting
<1>4. Single(d, w, "CONTROL")
  BY <1>1, <1>3, CallKeepsSingle
<1> HIDE DEF d
<1>5. d.out = b.out \/ (d.out = Append(b.out, SailLine(c)) /\ SailLine(c) \in SailRequests)
  BY <1>2 DEF Silent, Asking
<1>6. Asking(b, c, d) => ~Orders(SailLine(c), "CONTROL", Sail!CONTROL_START)
  BY DEF SailLine, Orders, Sail!Get, Sail!Set, Asking
<1>7. /\ \A i \in DOMAIN d.out : (i \in DOMAIN b.out /\ d.out[i] = b.out[i]) \/ d.out[i] = SailLine(c)
      /\ \A i \in DOMAIN b.out : i \in DOMAIN d.out /\ d.out[i] = b.out[i]
  <2>1. CASE d.out = b.out
    BY <2>1
  <2>2. CASE d.out = Append(b.out, SailLine(c)) /\ SailLine(c) \in SailRequests
    BY <1>1, <2>2, Appended
  <2> QED
    BY <1>5, <2>1, <2>2
<1>8. \A i \in DOMAIN d.out : ~Orders(d.out[i], "CONTROL", Sail!CONTROL_START)
  <2>1. CASE Silent(b, c, d)
    BY <2>1 DEF Silent, Starting
  <2>2. CASE Asking(b, c, d)
    BY <1>6, <1>7, <2>2 DEF Starting
  <2> QED
    BY <1>2, <2>1, <2>2
<1>9. Starting(d, w)
  BY <1>2, <1>3, <1>4, <1>8 DEF Starting
<1>10. ControlOrder(b) => ControlOrder(d)
  BY <1>7 DEF ControlOrder
<1>11. Worked(b, w) /\ c.reg # "OPMODE" => Worked(d, w)
  BY <1>2, <1>3, <1>10 DEF Worked
<1> QED
  BY <1>9, <1>10, <1>11 DEF d

LEMMA CallKeepsSteering ==
    ASSUME NEW b, NEW w \in Worlds, NEW c \in SailCalls, b \in SailClients, Steering(b, w),
           ~(c.call = "set" /\ c.reg \in {"CONTROL", "TARGPOS"})
    PROVE  Steering(Sail!Then(b, c), w)
<1> DEFINE d == Sail!Then(b, c)
<1>1. b.out \in Seq(SailRequests)
  BY DEF SailClients
<1>2. Silent(b, c, d) \/ Asking(b, c, d)
  BY CallEffect
<1> HIDE DEF d
<1>3. CASE Silent(b, c, d)
  <2>1. d.out = b.out
    BY <1>3 DEF Silent
  <2>2. Steering(d, w)
    BY <2>1 DEF Steering
  <2> QED
    BY <2>2 DEF d
<1>4. CASE Asking(b, c, d)
  <2>1. d.out = Append(b.out, SailLine(c)) /\ SailLine(c) \in SailRequests
    BY <1>4 DEF Asking
  <2>2. ~(SailLine(c).op = "SET" /\ SailLine(c).key \in {"CONTROL", "TARGPOS"})
    BY <1>4 DEF SailLine, Sail!Get, Sail!Set, Asking
  <2>3. /\ \A i \in DOMAIN d.out : (i \in DOMAIN b.out /\ d.out[i] = b.out[i]) \/ d.out[i] = SailLine(c)
        /\ \A i \in DOMAIN b.out : i \in DOMAIN d.out /\ d.out[i] = b.out[i]
        /\ Len(b.out) \in Nat /\ DOMAIN b.out = 1 .. Len(b.out)
    BY <1>1, <2>1, Appended
  <2>4. \A i \in DOMAIN d.out :
           d.out[i].op = "SET" /\ d.out[i].key = "CONTROL" => d.out[i].value = Sail!CONTROL_START
    BY <2>2, <2>3 DEF Steering
  <2>5. \A i \in DOMAIN d.out :
          SetPoint(d.out[i]) =>
             /\ Close(d.out[i].value, w.drive.targpos)
             /\ i + 1 \in DOMAIN d.out /\ Orders(d.out[i + 1], "CONTROL", Sail!CONTROL_START)
    <3> SUFFICES ASSUME NEW i \in DOMAIN d.out, SetPoint(d.out[i])
                 PROVE  /\ Close(d.out[i].value, w.drive.targpos)
                        /\ i + 1 \in DOMAIN d.out
                        /\ Orders(d.out[i + 1], "CONTROL", Sail!CONTROL_START)
      OBVIOUS
    <3>1. i \in DOMAIN b.out /\ d.out[i] = b.out[i]
      BY <2>2, <2>3 DEF SetPoint
    <3> QED
      BY <2>3, <3>1 DEF Steering
  <2>6. \/ w.drive.goal = w.drive.targpos
        \/ /\ Close(w.drive.targpos, w.drive.goal)
           /\ \E i \in DOMAIN d.out : /\ Orders(d.out[i], "CONTROL", Sail!CONTROL_START)
                                      /\ \A j \in 1 .. i : ~SetPoint(d.out[j])
    <3> SUFFICES ASSUME w.drive.goal # w.drive.targpos
                 PROVE  /\ Close(w.drive.targpos, w.drive.goal)
                        /\ \E i \in DOMAIN d.out : /\ Orders(d.out[i], "CONTROL", Sail!CONTROL_START)
                                                   /\ \A j \in 1 .. i : ~SetPoint(d.out[j])
      OBVIOUS
    <3>1. Close(w.drive.targpos, w.drive.goal)
      BY DEF Steering
    <3>2. PICK i \in DOMAIN b.out : /\ Orders(b.out[i], "CONTROL", Sail!CONTROL_START)
                                    /\ \A j \in 1 .. i : ~SetPoint(b.out[j])
      BY DEF Steering
    <3>3. \A j \in 1 .. i : j \in DOMAIN b.out
      BY <2>3, <3>2
    <3> QED
      BY <2>3, <3>1, <3>2, <3>3
  <2>7. Steering(d, w)
    BY <2>4, <2>5, <2>6 DEF Steering
  <2> QED
    BY <2>7 DEF d
<1> QED
  BY <1>2, <1>3, <1>4

LEMMA ControlForgotten ==
    ASSUME NEW b \in SailClients, NEW d, d = Sail!Then(b, Sail!Drop("CONTROL"))
    PROVE  /\ d \in SailClients /\ d.out = b.out
           /\ \A r \in Sail!Registers : r # "CONTROL" => d.regs[r] = b.regs[r]
           /\ d.regs["CONTROL"].state \in {"ABSENT", "INVALID"}
<1> DEFINE c == Sail!Drop("CONTROL")
<1>1. c \in SailCalls /\ c.call = "invalidate" /\ c.reg = "CONTROL" /\ "CONTROL" \in Sail!Registers
  BY SailWords DEF SailCalls, Sail!Drop
<1>2. b.regs \in [Sail!Registers -> SailCells] /\ b.regs["CONTROL"] \in SailRecords
  BY <1>1 DEF SailClients, SailCells
<1>3. d.regs = [b.regs EXCEPT !["CONTROL"] = Sail!InvalidateCell(b.regs["CONTROL"], 0)]
  BY <1>1 DEF Sail!Then, Sail!Made
<1>4. d.regs["CONTROL"] = Sail!InvalidateCell(b.regs["CONTROL"], 0)
  BY <1>1, <1>2, <1>3
<1>5. d.regs["CONTROL"].state \in {"ABSENT", "INVALID"}
  BY <1>2, <1>4 DEF Sail!InvalidateCell, Sail!Tick, SailRecords
<1> HIDE DEF c
<1>6. d = Sail!Then(b, c)
  BY DEF c
<1>7. /\ d \in SailClients
      /\ \A r \in Sail!Registers : r # c.reg => d.regs[r] = b.regs[r]
      /\ Silent(b, c, d) \/ Asking(b, c, d)
  BY <1>1, <1>6, CallEffect
<1>8. d.out = b.out
  BY <1>1, <1>7 DEF Silent, Asking
<1> QED
  BY <1>1, <1>5, <1>7, <1>8

\* A new set point and its START.
LEMMA MoveKeepsSteering ==
    ASSUME NEW b, NEW w \in Worlds, SailClient(b, w), Steering(b, w),
           b.regs["TARGPOS"].state = "VALID", NEW new \in Int,
           new # b.regs["TARGPOS"].value, Close(new, b.regs["TARGPOS"].value)
    PROVE  /\ SailClient(Sail!MoveTo(b, new), w) /\ Steering(Sail!MoveTo(b, new), w)
<1> DEFINE c1 == Sail!Drop("CONTROL")
           c2 == Sail!Put("TARGPOS", new)
           c3 == Sail!Put("CONTROL", Sail!CONTROL_START)
           b1 == Sail!Then(b, c1)
           b2 == Sail!Then(b1, c2)
           b3 == Sail!Then(b2, c3)
<1>0. b \in SailClients /\ b.out \in Seq(SailRequests) /\ b.regs \in [Sail!Registers -> SailCells]
  BY DEF SailClient, SailClients
<1>1. /\ c1 \in SailCalls /\ c1.call = "invalidate" /\ c1.reg = "CONTROL"
      /\ c2 \in SailCalls /\ c2.call = "set" /\ c2.reg = "TARGPOS" /\ c2.value = new
      /\ c3 \in SailCalls /\ c3.call = "set" /\ c3.reg = "CONTROL" /\ c3.value = Sail!CONTROL_START
      /\ {"CONTROL", "TARGPOS"} \subseteq Sail!Registers
  BY SailWords DEF SailCalls, Sail!Drop, Sail!Put
<1> HIDE DEF c1, c2, c3
<1>2. Fit(b, c1, w)
  BY <1>1 DEF Fit
<1>3. SailClient(b1, w)
  BY <1>1, <1>2, CallKeepsClient
<1>4. /\ b1 \in SailClients /\ b1.regs["TARGPOS"] = b.regs["TARGPOS"]
      /\ b1.out = b.out
      /\ b1.regs["CONTROL"].state \notin {"PENDING", "VALID"}
  <2>1. b1 = Sail!Then(b, Sail!Drop("CONTROL"))
    BY DEF b1, c1
  <2> HIDE DEF b1
  <2>2. /\ b1 \in SailClients /\ b1.out = b.out
        /\ \A r \in Sail!Registers : r # "CONTROL" => b1.regs[r] = b.regs[r]
        /\ b1.regs["CONTROL"].state \in {"ABSENT", "INVALID"}
    BY <1>0, <2>1, ControlForgotten
  <2> QED
    BY <1>1, <2>2
<1>5. /\ SailClient(b1, w) /\ Steering(b1, w)
      /\ Single(b, w, "TARGPOS") /\ Quiet(b, w, "TARGPOS") /\ b.regs["TARGPOS"].value = w.drive.targpos
      /\ Quiet(b1, w, "TARGPOS")
  <2> HIDE DEF b1
  <2> QED
    BY <1>0, <1>1, <1>3, <1>4, SailWords DEF SailClient, Steering, Single, Quiet, Holds
<1>6. Fit(b1, c2, w)
  <2>1. Sound(Sail!Set("TARGPOS", new), w)
    BY DEF Sound, Sail!Set
  <2> QED
    BY <1>1, <1>4, <2>1 DEF Fit
<1> HIDE DEF b1
<1>7. SailClient(b2, w)
  BY <1>1, <1>5, <1>6, CallKeepsClient
<1>8. /\ b2 \in SailClients /\ Asking(b1, c2, b2)
      /\ b2.regs["CONTROL"] = b1.regs["CONTROL"]
  <2>1. /\ b2 \in SailClients
        /\ \A r \in Sail!Registers : r # c2.reg => b2.regs[r] = b1.regs[r]
        /\ (/\ c2.call = "set"
            /\ \/ b1.regs[c2.reg].state \notin {"PENDING", "VALID"}
               \/ b1.regs[c2.reg].value # c2.value) => Asking(b1, c2, b2)
    BY <1>1, <1>4, CallEffect
  <2> QED
    BY <1>1, <1>4, <2>1
<1>9. Fit(b2, c3, w)
  <2>1. Sound(Sail!Set("CONTROL", Sail!CONTROL_START), w)
    BY SailWords DEF Sound, Sail!Set
  <2> QED
    BY <1>1, <2>1 DEF Fit
<1> HIDE DEF b2
<1>10. SailClient(b3, w)
  BY <1>1, <1>7, <1>9, CallKeepsClient
<1>11. Asking(b2, c3, b3)
  BY <1>1, <1>4, <1>8, CallEffect
<1> DEFINE n == Len(b.out)
<1>12. b2.out = Append(b.out, Sail!Set("TARGPOS", new)) /\ Sail!Set("TARGPOS", new) \in SailRequests
  BY <1>1, <1>4, <1>8 DEF Asking, SailLine
<1>13. /\ n \in Nat /\ DOMAIN b.out = 1 .. n /\ DOMAIN b2.out = 1 .. (n + 1)
       /\ \A i \in DOMAIN b.out : b2.out[i] = b.out[i]
       /\ b2.out[n + 1] = Sail!Set("TARGPOS", new)
       /\ b2.out \in Seq(SailRequests) /\ Len(b2.out) = n + 1
  BY <1>0, <1>12, Appended
<1>14. /\ b3.out = Append(b2.out, Sail!Set("CONTROL", Sail!CONTROL_START))
       /\ Sail!Set("CONTROL", Sail!CONTROL_START) \in SailRequests
  BY <1>1, <1>11 DEF Asking, SailLine
<1> HIDE DEF b3
<1>15. /\ DOMAIN b3.out = 1 .. (n + 2)
       /\ \A i \in DOMAIN b2.out : b3.out[i] = b2.out[i]
       /\ b3.out[n + 2] = Sail!Set("CONTROL", Sail!CONTROL_START)
  BY <1>13, <1>14, Appended
<1>16. /\ \A i \in DOMAIN b.out : i \in DOMAIN b3.out /\ b3.out[i] = b.out[i]
       /\ Orders(b3.out[n + 1], "TARGPOS", new)
       /\ Orders(b3.out[n + 2], "CONTROL", Sail!CONTROL_START)
       /\ \A i \in DOMAIN b3.out : i \in DOMAIN b.out \/ i = n + 1 \/ i = n + 2
       /\ n + 2 \in DOMAIN b3.out
  BY <1>13, <1>15 DEF Orders, Sail!Set
<1> HIDE DEF n
<1>17. \A i \in DOMAIN b3.out :
           b3.out[i].op = "SET" /\ b3.out[i].key = "CONTROL" => b3.out[i].value = Sail!CONTROL_START
  BY <1>16 DEF Steering, Orders
<1>18. \A i \in DOMAIN b3.out : SetPoint(b3.out[i]) => i = n + 1
  BY <1>5, <1>16 DEF SetPoint, Orders, Quiet
<1>19. \/ w.drive.goal = w.drive.targpos
       \/ /\ Close(w.drive.targpos, w.drive.goal)
          /\ \E i \in DOMAIN b3.out : /\ Orders(b3.out[i], "CONTROL", Sail!CONTROL_START)
                                      /\ \A j \in 1 .. i : ~SetPoint(b3.out[j])
  <2> SUFFICES ASSUME w.drive.goal # w.drive.targpos
               PROVE  /\ Close(w.drive.targpos, w.drive.goal)
                      /\ \E i \in DOMAIN b3.out : /\ Orders(b3.out[i], "CONTROL", Sail!CONTROL_START)
                                                  /\ \A j \in 1 .. i : ~SetPoint(b3.out[j])
    OBVIOUS
  <2>1. Close(w.drive.targpos, w.drive.goal)
    BY DEF Steering
  <2>2. PICK i \in DOMAIN b.out : /\ Orders(b.out[i], "CONTROL", Sail!CONTROL_START)
                                  /\ \A j \in 1 .. i : ~SetPoint(b.out[j])
    BY DEF Steering
  <2>3. \A j \in 1 .. i : j \in DOMAIN b.out
    BY <1>13, <2>2
  <2> QED
    BY <1>16, <2>1, <2>2, <2>3
<1>20. Close(new, w.drive.targpos)
  BY <1>5
<1>21. /\ Orders(b3.out[n + 1], "TARGPOS", new) /\ n \in Nat
       /\ (n + 1) + 1 = n + 2
  BY <1>13, <1>16
<1>22. Steering(b3, w)
  BY <1>5, <1>16, <1>17, <1>18, <1>19, <1>20, <1>21 DEF Steering, Orders
<1>23. b3 = Sail!MoveTo(b, new)
  BY DEF c1, c2, c3, b1, b2, b3, Sail!MoveTo
<1> QED
  BY <1>10, <1>22, <1>23

\* The angle to turn by is at most half a turn.
LEMMA TurnIsShort ==
    ASSUME NEW a \in Int
    PROVE  Sail!AngleToQc(Sail!Wrapped(a)) \in -SailHalf .. SailHalf
<1> DEFINE Fits(x) == (x - a) % (2 * SailHalf) = 0 /\ (a = -SailHalf => x = a) /\ (a > -SailHalf => x # -SailHalf)
<1>1. SailHalf \in Nat \ {0}
  BY SailAssumption
<1> DEFINE m == 2 * SailHalf
           q == (a + SailHalf) \div m
           r == (a + SailHalf) % m
<1>2. \E x \in -SailHalf .. SailHalf : Fits(x)
  <2>1. m \in Nat \ {0} /\ m = 2 * SailHalf /\ a + SailHalf \in Int
    BY <1>1
  <2>2. q \in Int /\ r \in 0 .. (m - 1) /\ a + SailHalf = m * q + r
    <3> HIDE DEF m
    <3> QED
      BY <2>1, DivMod
  <2> HIDE DEF m, q, r
  <2>3. \A k \in Int : (m * k) % m = 0
    <3> SUFFICES ASSUME NEW k \in Int PROVE (m * k) % m = 0
      OBVIOUS
    <3>1. m * k \in Int /\ 0 \in 0 .. (m - 1) /\ m * k = m * k + 0
      BY <2>1
    <3> QED
      BY <2>1, <3>1, DivModUnique
  <2>4. (r - SailHalf) - a = m * (-q) /\ -q \in Int
    BY <1>1, <2>1, <2>2
  <2>5. SailHalf - a = m * (1 - q) + (0 - r) /\ 1 - q \in Int
    BY <1>1, <2>1, <2>2
  <2>6. ((r - SailHalf) - a) % m = 0
    BY <2>3, <2>4
  <2>7. r = 0 => (SailHalf - a) % m = 0
    <3> SUFFICES ASSUME r = 0 PROVE (SailHalf - a) % m = 0
      OBVIOUS
    <3>1. SailHalf - a = m * (1 - q)
      <4>1. m * (1 - q) \in Int
        BY <2>1, <2>5
      <4> QED
        BY <2>5, <4>1
    <3> QED
      BY <2>3, <2>5, <3>1
  <2>8. 0 % m = 0
    BY <2>1, ModSmall
  <2>9. CASE a = -SailHalf
    <3>1. -SailHalf \in -SailHalf .. SailHalf /\ (-SailHalf) - a = 0
      BY <1>1, <2>9
    <3> QED
      BY <2>1, <2>8, <2>9, <3>1
  <2>10. CASE a # -SailHalf /\ r # 0
    <3>1. r - SailHalf \in -SailHalf .. SailHalf /\ r - SailHalf # -SailHalf
      BY <1>1, <2>1, <2>2, <2>10
    <3> QED
      BY <2>1, <2>6, <2>10, <3>1
  <2>11. CASE a # -SailHalf /\ r = 0
    <3>1. SailHalf \in -SailHalf .. SailHalf /\ SailHalf # -SailHalf
      BY <1>1
    <3> QED
      BY <2>1, <2>7, <2>11, <3>1
  <2> QED
    BY <2>9, <2>10, <2>11
<1>3. Sail!Wrapped(a) \in -SailHalf .. SailHalf
  BY <1>2 DEF Sail!Wrapped
<1> QED
  BY <1>1, <1>3 DEF Sail!AngleToQc

\* The calls of sail_init.
InitCall(b, c) ==
    /\ c \in {Sail!Ask("STATUS"), Sail!Ask("CONTROL"), Sail!Drop("STATUS"), Sail!Drop("CONTROL"),
              Sail!Put("OPMODE", Sail!OPMODE_PPM), Sail!Put("CONFIG", 1), Sail!Put("BRAKE", 0),
              Sail!Put("CONTROL", Sail!CONTROL_SHUTDOWN), Sail!Put("CONTROL", Sail!CONTROL_SWITCHON)}
    /\ c.reg = "CONTROL" => c.call = "get" \/ b.regs["CONTROL"].state # "PENDING"
LEMMA InitCallKeeps ==
    ASSUME NEW b, NEW w \in Worlds, SailClient(b, w), Starting(b, w), NEW c, InitCall(b, c)
    PROVE  /\ SailClient(Sail!Then(b, c), w) /\ Starting(Sail!Then(b, c), w)
           /\ ControlOrder(b) => ControlOrder(Sail!Then(b, c))
           /\ Worked(b, w) /\ c.reg # "OPMODE" => Worked(Sail!Then(b, c), w)
<1>1. /\ c \in SailCalls /\ c.reg # "TARGPOS"
      /\ ~(c.call = "set" /\ c.reg = "CONTROL" /\ c.value = Sail!CONTROL_START)
      /\ c.reg = "CONTROL" => c.call = "get" \/ b.regs["CONTROL"].state # "PENDING"
  BY SailWords DEF InitCall, SailCalls, Sail!Ask, Sail!Put, Sail!Drop
<1>2. /\ c.call = "set" => \/ c.reg = "OPMODE" /\ c.value = Sail!OPMODE_PPM
                           \/ c.reg = "CONFIG" /\ c.value = 1
                           \/ c.reg = "BRAKE" /\ c.value = 0
                           \/ /\ c.reg = "CONTROL"
                              /\ c.value \in {Sail!CONTROL_SHUTDOWN, Sail!CONTROL_SWITCHON}
      /\ c.call = "get" => c.reg \in {"STATUS", "CONTROL"}
  BY DEF InitCall, Sail!Ask, Sail!Put, Sail!Drop
<1>3. Fit(b, c, w)
  BY <1>1, <1>2 DEF Fit, Sound, Orders, Sail!Set
<1> QED
  BY <1>1, <1>3, CallKeepsClient, CallKeepsStarting

\* A new CONTROL word.
LEMMA CommandKeeps ==
    ASSUME NEW b, NEW w \in Worlds, SailClient(b, w), Starting(b, w),
           b.regs["CONTROL"].state = "VALID",
           NEW v \in {Sail!CONTROL_SHUTDOWN, Sail!CONTROL_SWITCHON}
    PROVE  /\ SailClient(Sail!Command(b, v), w) /\ Starting(Sail!Command(b, v), w)
           /\ Worked(Sail!Command(b, v), w)
<1> DEFINE b1 == Sail!Then(b, Sail!Drop("CONTROL"))
           b2 == Sail!Then(b1, Sail!Put("CONTROL", v))
           b3 == Sail!Then(b2, Sail!Drop("STATUS"))
<1>1. InitCall(b, Sail!Drop("CONTROL"))
  BY DEF InitCall
<1>2. SailClient(b1, w) /\ Starting(b1, w)
  BY <1>1, InitCallKeeps
<1>3. b \in SailClients
  BY DEF SailClient
<1>4. b1 \in SailClients /\ b1.regs["CONTROL"].state \in {"ABSENT", "INVALID"}
  <2>1. b1 = Sail!Then(b, Sail!Drop("CONTROL"))
    OBVIOUS
  <2> HIDE DEF b1
  <2> QED
    BY <1>3, <2>1, ControlForgotten
<1> HIDE DEF b1
<1>5. InitCall(b1, Sail!Put("CONTROL", v))
  BY <1>4 DEF InitCall
<1>6. SailClient(b2, w) /\ Starting(b2, w)
  BY <1>2, <1>5, InitCallKeeps
<1>7. ControlOrder(b2)
  <2> DEFINE c == Sail!Put("CONTROL", v)
  <2>1. c \in SailCalls /\ c.call = "set" /\ c.reg = "CONTROL"
    BY SailWords DEF SailCalls, Sail!Put
  <2>2. b2 = Sail!Then(b1, c)
    OBVIOUS
  <2> HIDE DEF b2, c
  <2>3. Asking(b1, c, b2)
    BY <1>4, <2>1, <2>2, CallEffect
  <2>4. b2.out = Append(b1.out, SailLine(c)) /\ SailLine(c) \in SailRequests /\ b1.out \in Seq(SailRequests)
    BY <1>4, <2>3 DEF Asking, SailClients
  <2>5. Len(b1.out) + 1 \in DOMAIN b2.out /\ b2.out[Len(b1.out) + 1] = SailLine(c)
    BY <2>4, Appended
  <2>6. SailLine(c).op = "SET" /\ SailLine(c).key = "CONTROL"
    BY <2>1 DEF SailLine, Sail!Set
  <2> QED
    BY <2>5, <2>6 DEF ControlOrder
<1> HIDE DEF b2
<1>8. InitCall(b2, Sail!Drop("STATUS"))
  BY DEF InitCall, Sail!Drop
<1>9. SailClient(b3, w) /\ Starting(b3, w) /\ ControlOrder(b3)
  BY <1>6, <1>7, <1>8, InitCallKeeps
<1>10. b3 = Sail!Command(b, v)
  BY DEF b1, b2, b3, Sail!Command, Sail!Force
<1> QED
  BY <1>9, <1>10 DEF Worked

LEMMA ConfigureKeeps ==
    ASSUME NEW b, NEW w \in Worlds, SailClient(b, w), Starting(b, w),
           b.regs["CONTROL"].state = "VALID"
    PROVE  /\ SailClient(Sail!Configure(b), w) /\ Starting(Sail!Configure(b), w)
           /\ Sail!Configure(b).regs["CONTROL"].state = "VALID"
<1> DEFINE c1 == Sail!Put("OPMODE", Sail!OPMODE_PPM)
           c2 == Sail!Put("CONFIG", 1)
           c3 == Sail!Put("BRAKE", 0)
           b1 == Sail!Then(b, c1)
           b2 == Sail!Then(b1, c2)
           b3 == Sail!Then(b2, c3)
<1>1. /\ c1 \in SailCalls /\ c1.reg # "CONTROL" /\ c2 \in SailCalls /\ c2.reg # "CONTROL"
      /\ c3 \in SailCalls /\ c3.reg # "CONTROL" /\ "CONTROL" \in Sail!Registers
  BY SailWords DEF SailCalls, Sail!Put
<1>2. \A x : InitCall(x, c1) /\ InitCall(x, c2) /\ InitCall(x, c3)
  BY <1>1 DEF InitCall
<1> HIDE DEF c1, c2, c3
<1>3. b \in SailClients
  BY DEF SailClient
<1>4. /\ SailClient(b1, w) /\ Starting(b1, w)
      /\ b1 \in SailClients /\ b1.regs["CONTROL"] = b.regs["CONTROL"]
  BY <1>1, <1>2, <1>3, InitCallKeeps, CallEffect
<1> HIDE DEF b1
<1>5. /\ SailClient(b2, w) /\ Starting(b2, w)
      /\ b2 \in SailClients /\ b2.regs["CONTROL"] = b1.regs["CONTROL"]
  BY <1>1, <1>2, <1>4, InitCallKeeps, CallEffect
<1> HIDE DEF b2
<1>6. /\ SailClient(b3, w) /\ Starting(b3, w)
      /\ b3 \in SailClients /\ b3.regs["CONTROL"] = b2.regs["CONTROL"]
  BY <1>1, <1>2, <1>5, InitCallKeeps, CallEffect
<1> HIDE DEF b3
<1>7. b3 = Sail!Configure(b)
  BY DEF c1, c2, c3, b1, b2, b3, Sail!Configure
<1> QED
  BY <1>4, <1>5, <1>6, <1>7

\* sail_init leaves for the control loop only with a drive that is ready.
LEMMA SailInitKeeps ==
    ASSUME NEW b, NEW w \in Worlds, SailClient(b, w), Starting(b, w), Worked(b, w),
           NEW res, res = Sail!SailInit(b)
    PROVE  /\ SailClient(res.client, w)
           /\ IF res.state = "TARGETTING" THEN Steering(res.client, w)
              ELSE Starting(res.client, w) /\ Worked(res.client, w)
<1> USE DEF Sail!Hit, Sail!Val, Sail!GetHits
<1>0. /\ b \in SailClients /\ b.regs \in [Sail!Registers -> SailCells]
      /\ {"STATUS", "CONTROL", "OPMODE", "CONFIG", "BRAKE", "TARGPOS"} \subseteq Sail!Registers
  BY SailWords DEF SailClient, SailClients
<1>1. CASE ~Sail!Hit(b, "STATUS")
  <2>1. res = Sail!Result(Sail!Then(b, Sail!Ask("STATUS")), "DEFUNCT")
    BY <1>1 DEF Sail!SailInit
  <2>2. InitCall(b, Sail!Ask("STATUS")) /\ Sail!Ask("STATUS").reg = "STATUS"
    BY DEF InitCall, Sail!Ask
  <2>3. /\ SailClient(Sail!Then(b, Sail!Ask("STATUS")), w)
        /\ Starting(Sail!Then(b, Sail!Ask("STATUS")), w)
        /\ Worked(Sail!Then(b, Sail!Ask("STATUS")), w)
    BY <2>2, InitCallKeeps
  <2> QED
    BY <2>1, <2>3 DEF Sail!Result
<1>2. ~(Sail!Hit(b, "STATUS") /\ Sail!Has(Sail!Val(b, "STATUS"), Sail!STATUS_FAULT))
  BY <1>0 DEF SailClient, Holds
<1>3. CASE Sail!Hit(b, "STATUS") /\ ~Sail!Hit(b, "CONTROL")
  <2>1. res = Sail!Result(Sail!Then(b, Sail!Ask("CONTROL")), "DEFUNCT")
    BY <1>2, <1>3 DEF Sail!SailInit
  <2>2. InitCall(b, Sail!Ask("CONTROL")) /\ Sail!Ask("CONTROL").reg = "CONTROL"
    BY DEF InitCall, Sail!Ask
  <2>3. /\ SailClient(Sail!Then(b, Sail!Ask("CONTROL")), w)
        /\ Starting(Sail!Then(b, Sail!Ask("CONTROL")), w)
        /\ Worked(Sail!Then(b, Sail!Ask("CONTROL")), w)
    BY <2>2, InitCallKeeps
  <2> QED
    BY <2>1, <2>3 DEF Sail!Result
<1>4. CASE Sail!Hit(b, "STATUS") /\ Sail!Hit(b, "CONTROL") /\ ~Sail!Configured(b)
  <2>1. res = Sail!Result(Sail!Command(Sail!Configure(b), Sail!CONTROL_SHUTDOWN), "DEFUNCT")
    BY <1>2, <1>4 DEF Sail!SailInit
  <2>2. /\ SailClient(Sail!Configure(b), w) /\ Starting(Sail!Configure(b), w)
        /\ Sail!Configure(b).regs["CONTROL"].state = "VALID"
    BY <1>4, ConfigureKeeps
  <2> DEFINE e == Sail!Configure(b)
             f == Sail!Command(e, Sail!CONTROL_SHUTDOWN)
  <2> HIDE DEF e
  <2>3. SailClient(f, w) /\ Starting(f, w) /\ Worked(f, w)
    BY <2>2, CommandKeeps DEF e
  <2> QED
    BY <2>1, <2>3 DEF Sail!Result, e
<1>5. CASE /\ Sail!Hit(b, "STATUS") /\ Sail!Hit(b, "CONTROL") /\ Sail!Configured(b)
           /\ Sail!Val(b, "CONTROL") = Sail!CONTROL_SHUTDOWN
  <2> DEFINE f == Sail!Command(b, Sail!CONTROL_SWITCHON)
  <2>1. res = Sail!Result(f, "DEFUNCT")
    BY <1>2, <1>5 DEF Sail!SailInit
  <2>2. SailClient(f, w) /\ Starting(f, w) /\ Worked(f, w)
    BY <1>5, CommandKeeps
  <2> QED
    BY <2>1, <2>2 DEF Sail!Result
<1>6. CASE /\ Sail!Hit(b, "STATUS") /\ Sail!Hit(b, "CONTROL") /\ Sail!Configured(b)
           /\ Sail!Val(b, "CONTROL") # Sail!CONTROL_SHUTDOWN
  <2>1. res = Sail!Result(b, "TARGETTING")
    BY <1>2, <1>6 DEF Sail!SailInit
  <2>2. /\ Quiet(b, w, "CONTROL") /\ Quiet(b, w, "TARGPOS")
        /\ b.regs["CONTROL"].value = w.drive.control
    BY <1>6 DEF Starting, SailClient, Single
  <2>3. b.regs["OPMODE"].state = "VALID" /\ b.regs["CONFIG"].state = "VALID" /\ b.regs["BRAKE"].state = "VALID"
    BY <1>6 DEF Sail!Configured, Sail!SetHits
  <2>4. w.drive.opmode = Sail!OPMODE_PPM /\ w.drive.config = 1 /\ w.brake = 0
    BY <1>0, <2>3 DEF SailClient, Holds
  <2>5. ~ControlOrder(b)
    BY <2>2 DEF ControlOrder, Quiet
  <2>6. w.drive.control # 0 /\ w.drive.control # Sail!CONTROL_SHUTDOWN
    BY <1>6, <2>2, <2>3, <2>5 DEF Worked
  <2>7. w.drive \in SailDrives
    BY DEF Worlds
  <2>8. w.drive.control \in {Sail!CONTROL_SWITCHON, Sail!CONTROL_START}
    BY <2>6, <2>7 DEF SailDrives
  <2>9. w.drive.enabled /\ w.drive.goal = w.drive.targpos
    BY <2>8 DEF Starting, Rests
  <2>10. Steering(b, w)
    BY <2>2, <2>4, <2>9 DEF Steering, Ready, Quiet, SetPoint
  <2> QED
    BY <2>1, <2>10 DEF Sail!Result
<1> QED
  BY <1>1, <1>3, <1>4, <1>5, <1>6

\* sail_control never gives up: no fault shows, and the mode is right.
LEMMA SailControlKeeps ==
    ASSUME NEW b, NEW w \in Worlds, SailClient(b, w), Steering(b, w),
           NEW angle \in Int \cup {NaN}, NEW shift \in Int,
           NEW res, res = Sail!SailControl(b, angle, shift)
    PROVE  SailClient(res.client, w) /\ Steering(res.client, w) /\ res.state # "HOMING"
<1> USE DEF Sail!Hit, Sail!Val, Sail!GetHits
<1> DEFINE both == Sail!Then(Sail!Then(b, Sail!Ask("OPMODE")), Sail!Ask("TARGPOS"))
           curr == Sail!Val(b, "TARGPOS")
           new == curr + Sail!AngleToQc(Sail!Wrapped(angle - shift - Sail!QcToAngle(curr)))
<1>0. /\ b \in SailClients /\ b.regs \in [Sail!Registers -> SailCells]
      /\ {"STATUS", "CONTROL", "OPMODE", "CONFIG", "BRAKE", "TARGPOS", "ERROR"} \subseteq Sail!Registers
      /\ w.drive.opmode = Sail!OPMODE_PPM
  BY SailWords DEF SailClient, SailClients, Steering, Ready
<1>1. \A x, c : /\ SailClient(x, w) /\ Steering(x, w)
                /\ c \in {Sail!Ask("STATUS"), Sail!Ask("OPMODE"), Sail!Ask("TARGPOS"),
                          Sail!Drop("STATUS"), Sail!Put("BRAKE", 0)}
                => SailClient(Sail!Then(x, c), w) /\ Steering(Sail!Then(x, c), w)
  <2> SUFFICES ASSUME NEW x, NEW c, SailClient(x, w), Steering(x, w),
                      c \in {Sail!Ask("STATUS"), Sail!Ask("OPMODE"), Sail!Ask("TARGPOS"),
                             Sail!Drop("STATUS"), Sail!Put("BRAKE", 0)}
               PROVE  SailClient(Sail!Then(x, c), w) /\ Steering(Sail!Then(x, c), w)
    OBVIOUS
  <2>1. /\ c \in SailCalls /\ (c.call = "set" => c.reg = "BRAKE" /\ c.value = 0)
        /\ c.call = "get" => c.reg \in {"STATUS", "OPMODE", "TARGPOS"}
        /\ c.reg = "TARGPOS" => c.call = "get"
    BY <1>0 DEF SailCalls, Sail!Ask, Sail!Drop, Sail!Put
  <2>2. Fit(x, c, w)
    BY <1>0, <2>1 DEF Fit, Sound, Orders, Sail!Set
  <2>3. x \in SailClients /\ ~(c.call = "set" /\ c.reg \in {"CONTROL", "TARGPOS"})
    BY <2>1 DEF SailClient
  <2> QED
    BY <2>1, <2>2, <2>3, CallKeepsClient, CallKeepsSteering
<1>2. ~(Sail!Hit(b, "STATUS") /\ Sail!Has(Sail!Val(b, "STATUS"), Sail!STATUS_FAULT))
  BY <1>0 DEF SailClient, Holds
<1>3. Sail!Hit(b, "OPMODE") => Sail!Val(b, "OPMODE") = Sail!OPMODE_PPM
  BY <1>0 DEF SailClient, Holds
<1>4. CASE ~Sail!Hit(b, "STATUS")
  <2>1. res = Sail!Result(Sail!Then(b, Sail!Ask("STATUS")), "DEFUNCT")
    BY <1>4 DEF Sail!SailControl
  <2> QED
    BY <1>1, <2>1 DEF Sail!Result
<1>5. CASE Sail!Hit(b, "STATUS") /\ ~(Sail!Hit(b, "OPMODE") /\ Sail!Hit(b, "TARGPOS"))
  <2>1. res = Sail!Result(both, "DEFUNCT")
    BY <1>2, <1>5 DEF Sail!SailControl
  <2>2. SailClient(both, w) /\ Steering(both, w)
    BY <1>1
  <2> QED
    BY <2>1, <2>2 DEF Sail!Result
<1>6. CASE /\ Sail!Hit(b, "STATUS") /\ Sail!Hit(b, "OPMODE") /\ Sail!Hit(b, "TARGPOS")
           /\ shift = NaN \/ angle = NaN
  <2>1. res = Sail!Result(b, "DEFUNCT") \/ res = Sail!Result(b, "REACHED")
    BY <1>2, <1>3, <1>6 DEF Sail!SailControl
  <2> QED
    BY <2>1 DEF Sail!Result
<1>7. CASE /\ Sail!Hit(b, "STATUS") /\ Sail!Hit(b, "OPMODE") /\ Sail!Hit(b, "TARGPOS")
           /\ shift # NaN /\ angle # NaN
  <2>1. /\ res.state \in {"REACHED", "TARGETTING", "DEFUNCT"}
        /\ \/ res.client = Sail!Then(b, Sail!Drop("STATUS"))
           \/ res.client = Sail!Then(b, Sail!Put("BRAKE", 0))
           \/ new # curr /\ res.client = Sail!Then(Sail!MoveTo(b, new), Sail!Drop("STATUS"))
    <3> HIDE DEF new
    <3>1. \/ new = curr /\ res = Sail!Result(Sail!Then(b, Sail!Drop("STATUS")),
                    IF Sail!Has(Sail!Val(b, "STATUS"), Sail!STATUS_TARGETREACHED)
                    THEN "REACHED" ELSE "TARGETTING")
          \/ res = Sail!Result(Sail!Then(b, Sail!Put("BRAKE", 0)), "DEFUNCT")
          \/ /\ new # curr
             /\ res = Sail!Result(Sail!Then(Sail!MoveTo(b, new), Sail!Drop("STATUS")), "TARGETTING")
      BY <1>2, <1>3, <1>7 DEF Sail!SailControl, new
    <3> QED
      BY <3>1 DEF Sail!Result
  <2>2. new # curr => SailClient(Sail!MoveTo(b, new), w) /\ Steering(Sail!MoveTo(b, new), w)
    <3>1. curr \in Int
      BY <1>0 DEF SailCells, SailRecords
    <3>2. angle - shift - Sail!QcToAngle(curr) \in Int
      BY <1>7, <3>1 DEF Sail!QcToAngle
    <3> DEFINE turn == Sail!AngleToQc(Sail!Wrapped(angle - shift - Sail!QcToAngle(curr)))
    <3>3. turn \in -SailHalf .. SailHalf
      BY <3>2, TurnIsShort
    <3>4. new = curr + turn /\ b.regs["TARGPOS"].state = "VALID" /\ curr = b.regs["TARGPOS"].value
      BY <1>7
    <3> HIDE DEF new, curr, turn
    <3>5. new \in Int /\ Close(new, curr)
      BY <3>1, <3>3, <3>4, SailAssumption DEF Close
    <3> QED
      BY <3>4, <3>5, MoveKeepsSteering
  <2> QED
    BY <1>1, <2>1, <2>2
<1> QED
  BY <1>4, <1>5, <1>6, <1>7

-----------------------------------------------------------------------------
(* What eposcom and the drive make of a request. *)
DriveAfter(q, w) == IF q.op = "SET" /\ q.key # "BRAKE"
                 THEN Sail!WriteRegister(w.drive, q.key, q.value) ELSE w.drive
ReadOf(q, w) == IF q.key = "BRAKE" THEN w.brake ELSE Sail!ReadRegister(w.drive, q.key)
Answer(q, w) == [op |-> "ACK", key |-> q.key, value |-> IF q.op = "SET" THEN q.value ELSE ReadOf(q, w)]
WorldAfter(q, w) == [box |-> Append(w.box, Answer(q, w)), drive |-> DriveAfter(q, w),
                 brake |-> IF q.op = "SET" /\ q.key = "BRAKE" THEN q.value ELSE w.brake]

\* What of the drive a request changes.
Changed(q, d, e) ==
    /\ e.pos = d.pos
    /\ e.targpos = IF SetPoint(q) THEN q.value ELSE d.targpos
    /\ e.control = IF q.op = "SET" /\ q.key = "CONTROL" THEN q.value ELSE d.control
    /\ e.opmode = IF q.op = "SET" /\ q.key = "OPMODE" THEN Sail!OPMODE_PPM ELSE d.opmode
    /\ e.config = IF q.op = "SET" /\ q.key = "CONFIG" THEN 1 ELSE d.config
    /\ IF q.op = "SET" /\ q.key = "CONTROL"
       THEN \/ q.value = Sail!CONTROL_SHUTDOWN /\ e.goal = d.pos
            \/ q.value = Sail!CONTROL_SWITCHON /\ e.goal = d.goal /\ e.enabled
            \/ /\ q.value = Sail!CONTROL_START /\ e.enabled = d.enabled
               /\ e.goal = IF d.enabled /\ d.opmode = Sail!OPMODE_PPM THEN d.targpos ELSE d.goal
       ELSE e.goal = d.goal /\ e.enabled = d.enabled

LEMMA WritingControl ==
    ASSUME NEW d \in SailDrives,
           NEW v \in {Sail!CONTROL_SHUTDOWN, Sail!CONTROL_SWITCHON, Sail!CONTROL_START},
           NEW e, e = Sail!WriteRegister(d, "CONTROL", v)
    PROVE  /\ e \in SailDrives /\ e.pos = d.pos /\ e.targpos = d.targpos /\ e.control = v
           /\ e.opmode = d.opmode /\ e.config = d.config
           /\ \/ v = Sail!CONTROL_SHUTDOWN /\ e.goal = d.pos
              \/ v = Sail!CONTROL_SWITCHON /\ e.goal = d.goal /\ e.enabled
              \/ /\ v = Sail!CONTROL_START /\ e.enabled = d.enabled
                 /\ e.goal = IF d.enabled /\ d.opmode = Sail!OPMODE_PPM THEN d.targpos ELSE d.goal
<1>0. d.fault = FALSE /\ d.opmode \in {0, 1} /\ d.enabled \in BOOLEAN
  BY SailWords DEF SailDrives
<1>1. CASE v = Sail!CONTROL_SHUTDOWN
  <2>1. e = [Sail!Halted(d) EXCEPT !.control = v]
    BY <1>1, SailWords DEF Sail!WriteRegister, Sail!Controlled
  <2> QED
    BY <1>1, <2>1 DEF SailDrives, Sail!Halted
<1>2. CASE v = Sail!CONTROL_SWITCHON
  <2>0. Sail!Controlled(d, v) = [d EXCEPT !.enabled = TRUE, !.homing = FALSE]
    BY <1>0, <1>2, SailWords DEF Sail!Controlled
  <2>1. e = [[d EXCEPT !.enabled = TRUE, !.homing = FALSE] EXCEPT !.control = v]
    BY <2>0 DEF Sail!WriteRegister
  <2> QED
    BY <1>2, <2>1 DEF SailDrives
<1>3. CASE v = Sail!CONTROL_START
  <2>1. e = [Sail!Started(d) EXCEPT !.control = v]
    BY <1>0, <1>3, SailWords DEF Sail!WriteRegister, Sail!Controlled
  <2>2. /\ d.enabled /\ d.opmode = Sail!OPMODE_PPM => Sail!Started(d) = [d EXCEPT !.goal = d.targpos]
        /\ ~(d.enabled /\ d.opmode = Sail!OPMODE_PPM) => Sail!Started(d) = d
    <3>1. CASE ~d.enabled
      BY <3>1 DEF Sail!Started
    <3>2. CASE d.enabled /\ d.opmode = 1
      BY <3>2, SailWords DEF Sail!Started
    <3>3. CASE d.enabled /\ d.opmode = 0
      BY <3>3, SailWords DEF Sail!Started
    <3> QED
      BY <1>0, <3>1, <3>2, <3>3, SailWords
  <2>3. CASE d.enabled /\ d.opmode = Sail!OPMODE_PPM
    <3>1. e = [[d EXCEPT !.goal = d.targpos] EXCEPT !.control = v]
      BY <2>1, <2>2, <2>3
    <3> QED
      BY <1>3, <2>3, <3>1 DEF SailDrives
  <2>4. CASE ~(d.enabled /\ d.opmode = Sail!OPMODE_PPM)
    <3>1. e = [d EXCEPT !.control = v]
      BY <2>1, <2>2, <2>4
    <3> QED
      BY <1>3, <2>4, <3>1 DEF SailDrives
  <2> QED
    BY <2>3, <2>4
<1> QED
  BY <1>1, <1>2, <1>3

LEMMA StatusHasNoFault ==
    ASSUME NEW d \in SailDrives
    PROVE  Sail!Status(d) \in Int /\ ~Sail!Has(Sail!Status(d), Sail!STATUS_FAULT)
<1>1. d.fault = FALSE
  BY DEF SailDrives
<1>2. \E x \in {0, 32768}, y \in {0, 8192}, z \in {0, 1024} : Sail!Status(d) = x + y + z
  BY <1>1 DEF Sail!Status, Sail!STATUS_FAULT, Sail!STATUS_HOMEREF, Sail!STATUS_HOMINGERROR,
              Sail!STATUS_TARGETREACHED
<1> QED
  BY <1>2 DEF Sail!Has, Sail!STATUS_FAULT

LEMMA RequestServed ==
    ASSUME NEW w \in Worlds, NEW q \in SailRequests, Sound(q, w)
    PROVE  /\ WorldAfter(q, w) \in Worlds /\ Changed(q, w.drive, WorldAfter(q, w).drive)
           /\ Answer(q, w) \in SailLines
           /\ Holds(q.key, Answer(q, w).value, WorldAfter(q, w))
           /\ q.key = "CONTROL" => Answer(q, w).value = WorldAfter(q, w).drive.control
           /\ WorldAfter(q, w).brake = IF q.op = "SET" /\ q.key = "BRAKE" THEN 0 ELSE w.brake
<1> DEFINE d == w.drive
           e == DriveAfter(q, w)
           a == Answer(q, w)
           x == WorldAfter(q, w)
<1>0. /\ d \in SailDrives /\ w.brake \in Int /\ w.box \in Seq(SailLines)
      /\ q.op \in {"GET", "SET"} /\ q.key \in Sail!Registers /\ q.value \in Int
      /\ q.op = "SET" => q.key \in {"CONTROL", "OPMODE", "TARGPOS", "CONFIG", "BRAKE"}
      /\ q.key = "CONFIG" => q.op = "SET" /\ q.value = 1
      /\ q.key = "BRAKE" => q.op = "SET" /\ q.value = 0
      /\ q.key = "OPMODE" /\ q.op = "SET" => q.value = Sail!OPMODE_PPM
      /\ q.key = "OPMODE" /\ q.op = "GET" => d.opmode = Sail!OPMODE_PPM
      /\ q.key = "CONTROL" /\ q.op = "SET" =>
            q.value \in {Sail!CONTROL_SHUTDOWN, Sail!CONTROL_SWITCHON, Sail!CONTROL_START}
  BY DEF Worlds, SailRequests, Sound, Orders
<1>1. x.box = Append(w.box, a) /\ x.drive = e /\ a.op = "ACK" /\ a.key = q.key
  BY DEF WorldAfter, Answer
<1>2. x.brake = IF q.op = "SET" /\ q.key = "BRAKE" THEN 0 ELSE w.brake
  BY <1>0 DEF WorldAfter
<1>3. e \in SailDrives /\ Changed(q, d, e)
  <2>1. CASE q.op = "SET" /\ q.key = "CONTROL"
    <3>1. e = Sail!WriteRegister(d, "CONTROL", q.value)
      BY <2>1 DEF DriveAfter
    <3> HIDE DEF d, e
    <3>2. /\ e \in SailDrives /\ e.pos = d.pos /\ e.targpos = d.targpos /\ e.control = q.value
          /\ e.opmode = d.opmode /\ e.config = d.config
          /\ \/ q.value = Sail!CONTROL_SHUTDOWN /\ e.goal = d.pos
             \/ q.value = Sail!CONTROL_SWITCHON /\ e.goal = d.goal /\ e.enabled
             \/ /\ q.value = Sail!CONTROL_START /\ e.enabled = d.enabled
                /\ e.goal = IF d.enabled /\ d.opmode = Sail!OPMODE_PPM THEN d.targpos ELSE d.goal
      BY <1>0, <2>1, <3>1, WritingControl
    <3> QED
      BY <2>1, <3>2 DEF Changed, SetPoint
  <2>2. CASE q.op = "SET" /\ q.key = "OPMODE"
    <3>1. e = [d EXCEPT !.opmode = Sail!OPMODE_PPM]
      BY <1>0, <2>2 DEF DriveAfter, Sail!WriteRegister
    <3> HIDE DEF d, e
    <3> QED
      BY <1>0, <2>2, <3>1 DEF Changed, SetPoint, SailDrives
  <2>3. CASE q.op = "SET" /\ q.key = "TARGPOS"
    <3>1. e = [d EXCEPT !.targpos = q.value]
      BY <1>0, <2>3 DEF DriveAfter, Sail!WriteRegister
    <3> HIDE DEF d, e
    <3> QED
      BY <1>0, <2>3, <3>1 DEF Changed, SetPoint, SailDrives
  <2>4. CASE q.op = "SET" /\ q.key = "CONFIG"
    <3>1. e = [d EXCEPT !.config = 1]
      BY <1>0, <2>4 DEF DriveAfter, Sail!WriteRegister
    <3> HIDE DEF d, e
    <3> QED
      BY <1>0, <2>4, <3>1 DEF Changed, SetPoint, SailDrives
  <2>5. CASE q.op = "GET" \/ q.key = "BRAKE"
    <3>1. e = d
      BY <2>5 DEF DriveAfter
    <3> HIDE DEF d, e
    <3> QED
      BY <1>0, <2>5, <3>1 DEF Changed, SetPoint
  <2> QED
    BY <1>0, <2>1, <2>2, <2>3, <2>4, <2>5
<1>4. ReadOf(q, w) \in Int
  <2>1. Sail!Status(d) \in Int
    BY <1>0, StatusHasNoFault
  <2>2. d.control \in Int /\ d.opmode \in Int /\ d.targpos \in Int /\ d.config \in Int
    <3>1. /\ d.control \in {0, Sail!CONTROL_SHUTDOWN, Sail!CONTROL_SWITCHON, Sail!CONTROL_START}
          /\ d.opmode \in {0, Sail!OPMODE_PPM} /\ d.targpos \in Int /\ d.config \in Int
      BY <1>0 DEF SailDrives
    <3> QED
      BY <3>1, SailWords
  <2> QED
    BY <1>0, <2>1, <2>2, SailWords DEF ReadOf, Sail!ReadRegister
<1>5. a \in SailLines
  BY <1>0, <1>4 DEF Answer, SailLines
<1>6. x \in Worlds
  BY <1>0, <1>3, <1>5 DEF Worlds, WorldAfter
<1>7. q.op = "SET" => a.value = q.value
  BY DEF Answer
<1>8. q.op = "GET" => /\ e = d
                      /\ q.key \in {"STATUS", "CONTROL", "OPMODE", "TARGPOS", "ERROR"}
                      /\ a.value = Sail!ReadRegister(d, q.key)
  BY <1>0, SailWords DEF Answer, ReadOf, DriveAfter
<1> HIDE DEF x, e, a
<1>9. Holds(q.key, a.value, x)
  <2>1. CASE q.op = "SET"
    BY <1>0, <1>1, <1>2, <1>3, <1>7, <2>1 DEF Holds, Changed, SetPoint
  <2>2. CASE q.op = "GET" /\ q.key = "STATUS"
    <3>1. a.value = Sail!Status(d)
      BY <1>8, <2>2 DEF Sail!ReadRegister
    <3> QED
      BY <1>0, <2>2, <3>1, StatusHasNoFault DEF Holds
  <2>3. CASE q.op = "GET" /\ q.key # "STATUS"
    <3>1. /\ q.key = "OPMODE" => a.value = d.opmode
          /\ q.key = "TARGPOS" => a.value = d.targpos
      BY <1>8, <2>3 DEF Sail!ReadRegister
    <3> QED
      BY <1>0, <1>1, <1>8, <2>3, <3>1 DEF Holds
  <2> QED
    BY <1>0, <2>1, <2>2, <2>3
<1>10. q.key = "CONTROL" => a.value = x.drive.control
  <2> SUFFICES ASSUME q.key = "CONTROL" PROVE a.value = x.drive.control
    OBVIOUS
  <2>1. CASE q.op = "SET"
    BY <1>1, <1>3, <1>7, <2>1 DEF Changed
  <2>2. CASE q.op = "GET"
    BY <1>1, <1>8, <2>2 DEF Sail!ReadRegister
  <2> QED
    BY <1>0, <2>1, <2>2
<1> QED
  BY <1>1, <1>2, <1>3, <1>5, <1>6, <1>9, <1>10 DEF a, x

\* eposcom and the drive have served the first request of b.
Relieved(b) == [b EXCEPT !.out = Tail(b.out)]
LEMMA ServedLines ==
    ASSUME NEW b \in SailClients, NEW w \in Worlds, b.out # << >>, Sound(Head(b.out), w),
           NEW q, q = Head(b.out), NEW x, x = WorldAfter(q, w), NEW d, d = Relieved(b), NEW a, a = Answer(q, w)
    PROVE  /\ d \in SailClients /\ d.regs = b.regs /\ 1 \in DOMAIN b.out /\ b.out[1] = q
           /\ \A i \in DOMAIN d.out : i \in Nat /\ i + 1 \in DOMAIN b.out /\ d.out[i] = b.out[i + 1]
           /\ \A i \in DOMAIN b.out : i # 1 => i - 1 \in DOMAIN d.out /\ d.out[i - 1] = b.out[i]
           /\ \A i \in DOMAIN b.out : i \in Nat \ {0} /\ 1 .. i \subseteq DOMAIN b.out
           /\ \A i \in DOMAIN w.box : i \in DOMAIN x.box /\ x.box[i] = w.box[i]
           /\ \A i \in DOMAIN x.box :
                 (i \in DOMAIN w.box /\ x.box[i] = w.box[i]) \/ (i = Len(w.box) + 1 /\ x.box[i] = a)
           /\ a.op = "ACK" /\ a.key = q.key
<1>1. b.out \in Seq(SailRequests) /\ b.regs \in [Sail!Registers -> SailCells] /\ w.box \in Seq(SailLines)
  BY DEF SailClients, Worlds
<1>2. b = [regs |-> b.regs, out |-> b.out]
  BY DEF SailClients
<1>3. d = [regs |-> b.regs, out |-> Tail(b.out)]
  BY <1>2 DEF Relieved
<1>4. /\ q \in SailRequests /\ q = b.out[1] /\ 1 \in DOMAIN b.out
      /\ d.out \in Seq(SailRequests) /\ Len(b.out) \in Nat /\ DOMAIN b.out = 1 .. Len(b.out)
      /\ DOMAIN d.out = 1 .. (Len(b.out) - 1)
      /\ \A i \in DOMAIN d.out : i + 1 \in DOMAIN b.out /\ d.out[i] = b.out[i + 1]
      /\ \A i \in DOMAIN b.out : i # 1 => i - 1 \in DOMAIN d.out /\ d.out[i - 1] = b.out[i]
  BY <1>1, <1>3, Shortened
<1>5. d \in SailClients
  BY <1>1, <1>3, <1>4 DEF SailClients
<1>6. x.box = Append(w.box, a) /\ a.op = "ACK" /\ a.key = q.key
  BY DEF WorldAfter, Answer
<1>7. a \in SailLines
  BY <1>4, RequestServed
<1>8. /\ Len(w.box) \in Nat /\ DOMAIN w.box = 1 .. Len(w.box)
      /\ DOMAIN x.box = 1 .. (Len(w.box) + 1)
      /\ \A i \in DOMAIN w.box : i \in DOMAIN x.box /\ x.box[i] = w.box[i]
      /\ x.box[Len(w.box) + 1] = a
  BY <1>1, <1>6, <1>7, Appended
<1>9. \A i \in DOMAIN x.box :
         (i \in DOMAIN w.box /\ x.box[i] = w.box[i]) \/ (i = Len(w.box) + 1 /\ x.box[i] = a)
  BY <1>8
<1>10. d.regs = b.regs
  BY <1>3
<1>11. /\ \A i \in DOMAIN d.out : i \in Nat
       /\ \A i \in DOMAIN b.out : i \in Nat \ {0} /\ 1 .. i \subseteq DOMAIN b.out
  BY <1>4
<1> QED
  BY <1>4, <1>5, <1>6, <1>8, <1>9, <1>10, <1>11

LEMMA ServeKeepsSingle ==
    ASSUME NEW b \in SailClients, NEW w \in Worlds, b.out # << >>, Sound(Head(b.out), w),
           NEW r \in Sail!Registers, Single(b, w, r)
    PROVE  Single(Relieved(b), WorldAfter(Head(b.out), w), r)
<1> DEFINE q == Head(b.out)
           x == WorldAfter(q, w)
           d == Relieved(b)
           a == Answer(q, w)
<1>1. /\ d.regs = b.regs /\ 1 \in DOMAIN b.out /\ b.out[1] = q
      /\ \A i \in DOMAIN d.out : i \in Nat /\ i + 1 \in DOMAIN b.out /\ d.out[i] = b.out[i + 1]
      /\ \A i \in DOMAIN x.box :
            (i \in DOMAIN w.box /\ x.box[i] = w.box[i]) \/ (i = Len(w.box) + 1 /\ x.box[i] = a)
      /\ \A i \in DOMAIN w.box : x.box[i] = w.box[i]
      /\ a.op = "ACK" /\ a.key = q.key
  BY ServedLines
<1> HIDE DEF q, x, d, a
<1>2. \A i, j \in DOMAIN d.out : d.out[i].key = r /\ d.out[j].key = r => i = j
  <2> SUFFICES ASSUME NEW i \in DOMAIN d.out, NEW j \in DOMAIN d.out,
                      d.out[i].key = r, d.out[j].key = r
               PROVE  i = j
    OBVIOUS
  <2>1. i + 1 = j + 1
    BY <1>1 DEF Single
  <2> QED
    BY <1>1, <2>1
<1>3. \A i \in DOMAIN x.box : Answers(x.box[i], r) /\ i \notin DOMAIN w.box =>
         i = Len(w.box) + 1 /\ b.out[1].key = r
  BY <1>1 DEF Answers
<1>4. b.out[1].key = r => \A i \in DOMAIN w.box : ~Answers(w.box[i], r)
  BY <1>1 DEF Single
<1>5. \A i, j \in DOMAIN x.box : Answers(x.box[i], r) /\ Answers(x.box[j], r) => i = j
  <2> SUFFICES ASSUME NEW i \in DOMAIN x.box, NEW j \in DOMAIN x.box,
                      Answers(x.box[i], r), Answers(x.box[j], r)
               PROVE  i = j
    OBVIOUS
  <2>1. CASE i \in DOMAIN w.box /\ j \in DOMAIN w.box
    <3>1. Answers(w.box[i], r) /\ Answers(w.box[j], r)
      BY <1>1, <2>1
    <3> QED
      BY <2>1, <3>1 DEF Single
  <2>2. CASE i \notin DOMAIN w.box \/ j \notin DOMAIN w.box
    <3>1. b.out[1].key = r
      BY <1>3, <2>2
    <3>2. i \notin DOMAIN w.box /\ j \notin DOMAIN w.box
      BY <1>1, <1>4, <3>1
    <3> QED
      BY <1>3, <3>2
  <2> QED
    BY <2>1, <2>2
<1>6. \A i \in DOMAIN d.out, j \in DOMAIN x.box : ~(d.out[i].key = r /\ Answers(x.box[j], r))
  <2> SUFFICES ASSUME NEW i \in DOMAIN d.out, NEW j \in DOMAIN x.box,
                      d.out[i].key = r, Answers(x.box[j], r)
               PROVE  FALSE
    OBVIOUS
  <2>1. i \in Nat /\ i + 1 \in DOMAIN b.out /\ b.out[i + 1].key = r
    BY <1>1
  <2>2. CASE j \in DOMAIN w.box
    <3>1. Answers(w.box[j], r)
      BY <1>1, <2>2
    <3> QED
      BY <2>1, <2>2, <3>1 DEF Single
  <2>3. CASE j \notin DOMAIN w.box
    <3>1. b.out[1].key = r
      BY <1>3, <2>3
    <3>2. i + 1 = 1 /\ i \in DOMAIN d.out
      BY <1>1, <2>1, <3>1 DEF Single
    <3>3. i = 0
      BY <2>1, <3>2
    <3>4. 0 \notin DOMAIN d.out
      <4>1. d.out = Tail(b.out) /\ b.out \in Seq(SailRequests)
        BY DEF d, Relieved, SailClients
      <4> QED
        BY <4>1, Shortened
    <3> QED
      BY <3>3, <3>4
  <2> QED
    BY <2>2, <2>3
<1>7. d.regs[r].state # "PENDING" => Quiet(d, x, r)
  <2> SUFFICES ASSUME d.regs[r].state # "PENDING" PROVE Quiet(d, x, r)
    OBVIOUS
  <2>1. Quiet(b, w, r)
    BY <1>1 DEF Single
  <2>2. \A i \in DOMAIN d.out : d.out[i].key # r
    BY <1>1, <2>1 DEF Quiet
  <2>3. b.out[1].key # r
    BY <1>1, <2>1 DEF Quiet
  <2>4. \A i \in DOMAIN x.box : ~Answers(x.box[i], r)
    <3> SUFFICES ASSUME NEW i \in DOMAIN x.box, Answers(x.box[i], r) PROVE FALSE
      OBVIOUS
    <3>1. i \in DOMAIN w.box /\ Answers(w.box[i], r)
      BY <1>1, <1>3, <2>3
    <3> QED
      BY <2>1, <3>1 DEF Quiet
  <2> QED
    BY <2>2, <2>4 DEF Quiet
<1>8. Single(d, x, r)
  BY <1>2, <1>5, <1>6, <1>7 DEF Single
<1> QED
  BY <1>8 DEF d, x, q

LEMMA ServeKeepsClient ==
    ASSUME NEW b, NEW w \in Worlds, SailClient(b, w), Truthful(w), b.out # << >>,
           NEW q, q = Head(b.out), NEW x, x = WorldAfter(q, w)
    PROVE  SailClient(Relieved(b), x) /\ Truthful(x) /\ x \in Worlds
<1> DEFINE d == Relieved(b)
           a == Answer(q, w)
<1>0. b \in SailClients /\ b.out \in Seq(SailRequests)
  BY DEF SailClient, SailClients
<1>1. q \in SailRequests /\ q = b.out[1] /\ 1 \in DOMAIN b.out
  BY <1>0, Shortened
<1>2. Sound(q, w)
  BY <1>1 DEF SailClient
<1>3. /\ x \in Worlds /\ Changed(q, w.drive, x.drive) /\ a \in SailLines
      /\ Holds(q.key, a.value, x)
      /\ x.brake = IF q.op = "SET" /\ q.key = "BRAKE" THEN 0 ELSE w.brake
  BY <1>1, <1>2, RequestServed
<1>4. /\ d \in SailClients /\ d.regs = b.regs
      /\ \A i \in DOMAIN d.out : i + 1 \in DOMAIN b.out /\ d.out[i] = b.out[i + 1]
      /\ \A i \in DOMAIN x.box :
            (i \in DOMAIN w.box /\ x.box[i] = w.box[i]) \/ (i = Len(w.box) + 1 /\ x.box[i] = a)
      /\ a.op = "ACK" /\ a.key = q.key
  BY <1>0, <1>2, ServedLines
<1>5. Single(b, w, "TARGPOS") /\ "TARGPOS" \in Sail!Registers
  BY SailWords DEF SailClient
<1>6. Single(d, x, "TARGPOS")
  BY <1>0, <1>2, <1>5, ServeKeepsSingle
<1> HIDE DEF d, a
<1>7. \A i \in DOMAIN d.out : Sound(d.out[i], x)
  <2> SUFFICES ASSUME NEW i \in DOMAIN d.out PROVE Sound(d.out[i], x)
    OBVIOUS
  <2>1. Sound(d.out[i], w)
    BY <1>4 DEF SailClient
  <2>2. w.drive.opmode = Sail!OPMODE_PPM => x.drive.opmode = Sail!OPMODE_PPM
    BY <1>3 DEF Changed
  <2> QED
    BY <2>1, <2>2 DEF Sound, Orders
<1>8. \A r, v : Holds(r, v, w) /\ (r = "TARGPOS" => q.key # "TARGPOS") => Holds(r, v, x)
  BY <1>3 DEF Holds, Changed, SetPoint
<1>9. \A r \in Sail!Registers : d.regs[r].state = "VALID" => Holds(r, d.regs[r].value, x)
  <2>1. b.regs["TARGPOS"].state = "VALID" => q.key # "TARGPOS"
    BY <1>1, <1>5 DEF Single, Quiet
  <2> QED
    BY <1>4, <1>8, <2>1 DEF SailClient
<1>10. Truthful(x)
  <2> SUFFICES ASSUME NEW i \in DOMAIN x.box, x.box[i].op = "ACK"
               PROVE  Holds(x.box[i].key, x.box[i].value, x)
    BY DEF Truthful
  <2>1. CASE i \in DOMAIN w.box /\ x.box[i] = w.box[i]
    <3>1. Holds(w.box[i].key, w.box[i].value, w)
      BY <2>1 DEF Truthful
    <3>2. w.box[i].key = "TARGPOS" => q.key # "TARGPOS"
      BY <1>1, <1>5, <2>1 DEF Single, Answers
    <3> QED
      BY <1>8, <2>1, <3>1, <3>2
  <2>2. CASE x.box[i] = a
    BY <1>3, <1>4, <2>2
  <2> QED
    BY <1>4, <2>1, <2>2
<1>11. SailClient(d, x)
  BY <1>4, <1>6, <1>7, <1>9 DEF SailClient
<1> QED
  BY <1>3, <1>10, <1>11 DEF d

LEMMA ServeKeepsStarting ==
    ASSUME NEW b, NEW w \in Worlds, SailClient(b, w), Starting(b, w), Worked(b, w), b.out # << >>,
           NEW q, q = Head(b.out), NEW x, x = WorldAfter(q, w)
    PROVE  Starting(Relieved(b), x) /\ Worked(Relieved(b), x) /\ x.drive.goal = w.drive.goal
<1> DEFINE d == Relieved(b)
           a == Answer(q, w)
<1>0. b \in SailClients /\ b.out \in Seq(SailRequests) /\ {"CONTROL", "TARGPOS"} \subseteq Sail!Registers
  BY SailWords DEF SailClient, SailClients
<1>1. q \in SailRequests /\ q = b.out[1] /\ 1 \in DOMAIN b.out
  BY <1>0, Shortened
<1>2. Sound(q, w)
  BY <1>1 DEF SailClient
<1>3. /\ Changed(q, w.drive, x.drive)
      /\ q.key = "CONTROL" => a.value = x.drive.control
  BY <1>1, <1>2, RequestServed
<1>4. /\ d.regs = b.regs
      /\ \A i \in DOMAIN d.out : i + 1 \in DOMAIN b.out /\ d.out[i] = b.out[i + 1]
      /\ \A i \in DOMAIN b.out : i # 1 => i - 1 \in DOMAIN d.out /\ d.out[i - 1] = b.out[i]
      /\ \A i \in DOMAIN x.box :
            (i \in DOMAIN w.box /\ x.box[i] = w.box[i]) \/ (i = Len(w.box) + 1 /\ x.box[i] = a)
      /\ a.op = "ACK" /\ a.key = q.key
  BY <1>0, <1>2, ServedLines
<1>5. Single(b, w, "CONTROL") /\ Quiet(b, w, "TARGPOS")
  BY DEF Starting, SailClient, Single
<1>6. Single(d, x, "CONTROL")
  BY <1>0, <1>2, <1>5, ServeKeepsSingle
<1> HIDE DEF d, a
<1>7. ~SetPoint(q) /\ ~Orders(q, "CONTROL", Sail!CONTROL_START)
  BY <1>1, <1>5 DEF SetPoint, Quiet, Starting
<1>8. /\ x.drive.goal = w.drive.goal /\ x.drive.pos = w.drive.pos /\ x.drive.targpos = w.drive.targpos
      /\ q.op = "SET" /\ q.key = "CONTROL" =>
            /\ x.drive.control = q.value
            /\ q.value \in {Sail!CONTROL_SHUTDOWN, Sail!CONTROL_SWITCHON}
            /\ q.value = Sail!CONTROL_SWITCHON => x.drive.enabled
      /\ ~(q.op = "SET" /\ q.key = "CONTROL") =>
            x.drive.control = w.drive.control /\ x.drive.enabled = w.drive.enabled
  <2>1. w.drive.goal = w.drive.pos
    BY DEF Starting, Rests
  <2>2. q.op = "SET" /\ q.key = "CONTROL" =>
           /\ q.value \in {Sail!CONTROL_SHUTDOWN, Sail!CONTROL_SWITCHON}
           /\ q.value # Sail!CONTROL_START
    BY <1>2, <1>7 DEF Sound, Orders
  <2>3. CASE q.op = "SET" /\ q.key = "CONTROL"
    BY <1>3, <1>7, <2>1, <2>2, <2>3, SailWords DEF Changed
  <2>4. CASE ~(q.op = "SET" /\ q.key = "CONTROL")
    BY <1>3, <1>7, <2>4 DEF Changed
  <2> QED
    BY <2>3, <2>4
<1>9. \A i \in DOMAIN x.box : Answers(x.box[i], "CONTROL") => x.box[i].value = x.drive.control
  <2> SUFFICES ASSUME NEW i \in DOMAIN x.box, Answers(x.box[i], "CONTROL")
               PROVE  x.box[i].value = x.drive.control
    OBVIOUS
  <2>1. CASE i \in DOMAIN w.box /\ x.box[i] = w.box[i]
    <3>1. q.key # "CONTROL"
      BY <1>1, <1>5, <2>1 DEF Single
    <3> QED
      BY <1>8, <2>1, <3>1 DEF Starting, Rests
  <2>2. CASE x.box[i] = a
    BY <1>3, <1>4, <2>2 DEF Answers
  <2> QED
    BY <1>4, <2>1, <2>2
<1>10. x.drive.control \in {Sail!CONTROL_SWITCHON, Sail!CONTROL_START} => x.drive.enabled
  BY <1>8, SailWords DEF Starting, Rests
<1>11. Rests(x)
  BY <1>8, <1>9, <1>10 DEF Starting, Rests
<1>12. d.regs["CONTROL"].state = "VALID" => d.regs["CONTROL"].value = x.drive.control
  <2> SUFFICES ASSUME d.regs["CONTROL"].state = "VALID"
               PROVE  d.regs["CONTROL"].value = x.drive.control
    OBVIOUS
  <2>1. q.key # "CONTROL"
    BY <1>1, <1>4, <1>5 DEF Single, Quiet
  <2> QED
    BY <1>4, <1>8, <2>1 DEF Starting
<1>13. Starting(d, x)
  BY <1>4, <1>6, <1>11, <1>12 DEF Starting
<1>14. Worked(d, x)
  <2>1. CASE b.regs["OPMODE"].state = "ABSENT"
    BY <1>4, <2>1 DEF Worked
  <2>2. CASE q.op = "SET" /\ q.key = "CONTROL"
    BY <1>8, <2>2, SailWords DEF Worked
  <2>3. CASE w.drive.control # 0 /\ ~(q.op = "SET" /\ q.key = "CONTROL")
    BY <1>8, <2>3 DEF Worked
  <2>4. CASE ControlOrder(b) /\ ~(q.op = "SET" /\ q.key = "CONTROL")
    <3>1. PICK i \in DOMAIN b.out : b.out[i].op = "SET" /\ b.out[i].key = "CONTROL"
      BY <2>4 DEF ControlOrder
    <3>2. i # 1
      BY <1>1, <2>4, <3>1
    <3>3. ControlOrder(d)
      BY <1>4, <3>1, <3>2 DEF ControlOrder
    <3> QED
      BY <3>3 DEF Worked
  <2> QED
    BY <2>1, <2>2, <2>3, <2>4 DEF Worked
<1> QED
  BY <1>8, <1>13, <1>14 DEF d

LEMMA ServeKeepsSteering ==
    ASSUME NEW b, NEW w \in Worlds, SailClient(b, w), Steering(b, w), b.out # << >>,
           NEW q, q = Head(b.out), NEW x, x = WorldAfter(q, w)
    PROVE  /\ Steering(Relieved(b), x)
           /\ x.drive.goal # w.drive.goal => Close(x.drive.goal, w.drive.goal)
<1> DEFINE d == Relieved(b)
           a == Answer(q, w)
<1>0. b \in SailClients /\ b.out \in Seq(SailRequests)
  BY SailWords DEF SailClient, SailClients
<1>1. q \in SailRequests /\ q = b.out[1] /\ 1 \in DOMAIN b.out
  BY <1>0, Shortened
<1>2. Sound(q, w)
  BY <1>1 DEF SailClient
<1>3. /\ Changed(q, w.drive, x.drive)
      /\ x.brake = IF q.op = "SET" /\ q.key = "BRAKE" THEN 0 ELSE w.brake
  BY <1>1, <1>2, RequestServed
<1>4. /\ \A i \in DOMAIN d.out : i \in Nat /\ i + 1 \in DOMAIN b.out /\ d.out[i] = b.out[i + 1]
      /\ \A i \in DOMAIN b.out : i # 1 => i - 1 \in DOMAIN d.out /\ d.out[i - 1] = b.out[i]
      /\ \A i \in DOMAIN b.out : i \in Nat \ {0} /\ 1 .. i \subseteq DOMAIN b.out
  BY <1>0, <1>2, ServedLines
<1> HIDE DEF d, a
<1>5. \A i \in DOMAIN b.out : SetPoint(b.out[i]) /\ SetPoint(q) => i = 1
  BY <1>1 DEF SailClient, Single, SetPoint
<1>6. q.op = "SET" /\ q.key = "CONTROL" => q.value = Sail!CONTROL_START
  BY <1>1 DEF Steering
<1>7. Ready(x)
  <2>1. Ready(w)
    BY DEF Steering
  <2>2. x.drive.opmode = Sail!OPMODE_PPM /\ x.drive.config = 1 /\ x.brake = 0
    BY <1>3, <2>1 DEF Ready, Changed
  <2>3. x.drive.enabled
    <3>1. CASE q.op = "SET" /\ q.key = "CONTROL"
      <4>1. q.value # Sail!CONTROL_SHUTDOWN /\ q.value # Sail!CONTROL_SWITCHON
        BY <1>6, <3>1, SailWords
      <4>2. x.drive.enabled = w.drive.enabled
        BY <1>3, <3>1, <4>1 DEF Changed
      <4> QED
        BY <2>1, <4>2 DEF Ready
    <3>2. CASE ~(q.op = "SET" /\ q.key = "CONTROL")
      BY <1>3, <2>1, <3>2 DEF Ready, Changed
    <3> QED
      BY <3>1, <3>2
  <2> QED
    BY <2>2, <2>3 DEF Ready
<1>8. \A i \in DOMAIN d.out :
         d.out[i].op = "SET" /\ d.out[i].key = "CONTROL" => d.out[i].value = Sail!CONTROL_START
  BY <1>4 DEF Steering
<1>9. \A i \in DOMAIN d.out :
          SetPoint(d.out[i]) =>
             /\ Close(d.out[i].value, x.drive.targpos)
             /\ i + 1 \in DOMAIN d.out /\ Orders(d.out[i + 1], "CONTROL", Sail!CONTROL_START)
  <2> SUFFICES ASSUME NEW i \in DOMAIN d.out, SetPoint(d.out[i])
               PROVE  /\ Close(d.out[i].value, x.drive.targpos)
                      /\ i + 1 \in DOMAIN d.out /\ Orders(d.out[i + 1], "CONTROL", Sail!CONTROL_START)
    OBVIOUS
  <2>1. /\ i \in Nat /\ i + 1 \in DOMAIN b.out /\ d.out[i] = b.out[i + 1]
        /\ i + 1 \in Nat \ {0} /\ i # 0
    <3>1. d.out = Tail(b.out)
      BY DEF d, Relieved, SailClients
    <3> QED
      BY <1>0, <1>4, <3>1, Shortened
  <2>2. /\ Close(d.out[i].value, w.drive.targpos)
        /\ (i + 1) + 1 \in DOMAIN b.out /\ Orders(b.out[(i + 1) + 1], "CONTROL", Sail!CONTROL_START)
    BY <2>1 DEF Steering
  <2>3. ~SetPoint(q)
    BY <1>5, <2>1
  <2>4. x.drive.targpos = w.drive.targpos
    BY <1>3, <2>3 DEF Changed
  <2>5. (i + 1) + 1 # 1 /\ ((i + 1) + 1) - 1 = i + 1
    BY <2>1
  <2>6. i + 1 \in DOMAIN d.out /\ d.out[i + 1] = b.out[(i + 1) + 1]
    BY <1>4, <2>2, <2>5
  <2> QED
    BY <2>2, <2>4, <2>6
<1>10. CASE Orders(q, "CONTROL", Sail!CONTROL_START)
  <2>1. x.drive.goal = w.drive.targpos /\ x.drive.targpos = w.drive.targpos
    <3>1. w.drive.enabled /\ w.drive.opmode = Sail!OPMODE_PPM
      BY DEF Steering, Ready
    <3>2. q.op = "SET" /\ q.key = "CONTROL" /\ q.value = Sail!CONTROL_START
      BY <1>10 DEF Orders
    <3>3. q.value # Sail!CONTROL_SHUTDOWN /\ q.value # Sail!CONTROL_SWITCHON /\ ~SetPoint(q)
      BY <3>2, SailWords DEF SetPoint
    <3> QED
      BY <1>3, <3>1, <3>2, <3>3 DEF Changed
  <2>2. Steering(d, x)
    BY <1>7, <1>8, <1>9, <2>1 DEF Steering
  <2>3. x.drive.goal # w.drive.goal => Close(x.drive.goal, w.drive.goal)
    BY <2>1 DEF Steering
  <2> QED
    BY <2>2, <2>3 DEF d
<1>11. CASE SetPoint(q)
  <2>1. /\ Close(q.value, w.drive.targpos)
        /\ 1 + 1 \in DOMAIN b.out /\ Orders(b.out[1 + 1], "CONTROL", Sail!CONTROL_START)
    BY <1>1, <1>11 DEF Steering
  <2>2. w.drive.goal = w.drive.targpos
    <3> SUFFICES ASSUME w.drive.goal # w.drive.targpos PROVE FALSE
      OBVIOUS
    <3>1. PICK i \in DOMAIN b.out : \A j \in 1 .. i : ~SetPoint(b.out[j])
      BY DEF Steering
    <3>2. 1 \in 1 .. i
      BY <1>4
    <3> QED
      BY <1>1, <1>11, <3>1, <3>2
  <2>3. x.drive.goal = w.drive.goal /\ x.drive.targpos = q.value
    BY <1>3, <1>11 DEF Changed, SetPoint
  <2>4. 1 \in DOMAIN d.out /\ d.out[1] = b.out[1 + 1]
    <3>1. 1 + 1 # 1 /\ (1 + 1) - 1 = 1
      OBVIOUS
    <3> QED
      BY <1>4, <2>1, <3>1
  <2>5. Orders(d.out[1], "CONTROL", Sail!CONTROL_START) /\ \A j \in 1 .. 1 : ~SetPoint(d.out[j])
    BY <2>1, <2>4 DEF Orders, SetPoint
  <2>6. Steering(d, x)
    BY <1>7, <1>8, <1>9, <2>1, <2>2, <2>3, <2>4, <2>5 DEF Steering
  <2> QED
    BY <2>3, <2>6 DEF d
<1>12. CASE ~Orders(q, "CONTROL", Sail!CONTROL_START) /\ ~SetPoint(q)
  <2>1. ~(q.op = "SET" /\ q.key = "CONTROL")
    BY <1>6, <1>12 DEF Orders
  <2>2. x.drive.goal = w.drive.goal /\ x.drive.targpos = w.drive.targpos
    BY <1>3, <1>12, <2>1 DEF Changed
  <2>3. w.drive.goal # w.drive.targpos =>
          \E i \in DOMAIN d.out : /\ Orders(d.out[i], "CONTROL", Sail!CONTROL_START)
                                  /\ \A j \in 1 .. i : ~SetPoint(d.out[j])
    <3> SUFFICES ASSUME w.drive.goal # w.drive.targpos
                 PROVE  \E i \in DOMAIN d.out : /\ Orders(d.out[i], "CONTROL", Sail!CONTROL_START)
                                                /\ \A j \in 1 .. i : ~SetPoint(d.out[j])
      OBVIOUS
    <3>1. PICK i \in DOMAIN b.out : /\ Orders(b.out[i], "CONTROL", Sail!CONTROL_START)
                                    /\ \A j \in 1 .. i : ~SetPoint(b.out[j])
      BY DEF Steering
    <3>2. i # 1 /\ i \in Nat \ {0}
      BY <1>1, <1>4, <1>12, <3>1
    <3>3. i - 1 \in DOMAIN d.out /\ d.out[i - 1] = b.out[i]
      BY <1>4, <3>2
    <3>4. ASSUME NEW j \in 1 .. (i - 1) PROVE ~SetPoint(d.out[j])
      <4>1. j + 1 \in 1 .. i /\ j + 1 # 1 /\ (j + 1) - 1 = j
        BY <3>2
      <4>2. j + 1 \in DOMAIN b.out
        BY <1>4, <4>1
      <4>3. d.out[j] = b.out[j + 1]
        BY <1>4, <4>1, <4>2
      <4> QED
        BY <3>1, <4>1, <4>3
    <3> QED
      BY <3>1, <3>3, <3>4
  <2>4. Steering(d, x)
    BY <1>7, <1>8, <1>9, <2>2, <2>3 DEF Steering
  <2> QED
    BY <2>2, <2>4 DEF d
<1> QED
  BY <1>10, <1>11, <1>12

\* A response is taken.
Heard(w) == [w EXCEPT !.box = Tail(w.box)]
Told(b, l) == [b EXCEPT !.regs = [b.regs EXCEPT ![l.key] = Sail!ReceiveCell(b.regs[l.key], l.op, l.value, 0)]]
LEMMA HeardLines ==
    ASSUME NEW w \in Worlds, w.box # << >>, NEW x, x = Heard(w)
    PROVE  /\ x \in Worlds /\ x.drive = w.drive /\ x.brake = w.brake
           /\ Head(w.box) \in SailLines /\ 1 \in DOMAIN w.box /\ Head(w.box) = w.box[1]
           /\ \A i \in DOMAIN x.box : /\ i + 1 \in DOMAIN w.box /\ x.box[i] = w.box[i + 1]
                                      /\ i \in Nat \ {0}
<1>1. w.box \in Seq(SailLines) /\ w.drive \in SailDrives /\ w.brake \in Int
  BY DEF Worlds
<1>2. w = [box |-> w.box, drive |-> w.drive, brake |-> w.brake]
  BY DEF Worlds
<1>3. x = [box |-> Tail(w.box), drive |-> w.drive, brake |-> w.brake]
  BY <1>2 DEF Heard
<1>4. /\ Head(w.box) \in SailLines /\ Head(w.box) = w.box[1] /\ 1 \in DOMAIN w.box
      /\ Tail(w.box) \in Seq(SailLines)
      /\ \A i \in DOMAIN Tail(w.box) : i + 1 \in DOMAIN w.box /\ Tail(w.box)[i] = w.box[i + 1]
      /\ \A i \in DOMAIN Tail(w.box) : i \in Nat \ {0}
  BY <1>1, Shortened
<1> QED
  BY <1>1, <1>3, <1>4 DEF Worlds

\* What the world's box loses nobody misses.
LEMMA HearingKeeps ==
    ASSUME NEW w \in Worlds, w.box # << >>, Truthful(w), NEW b, NEW x, x = Heard(w)
    PROVE  /\ Truthful(x)
           /\ \A q : Sound(q, w) => Sound(q, x)
           /\ \A r, v : Holds(r, v, w) => Holds(r, v, x)
           /\ \A r \in Sail!Registers : Single(b, w, r) => Single(b, x, r)
           /\ Steering(b, w) => Steering(b, x)
           /\ Worked(b, w) => Worked(b, x)
           /\ Rests(w) => Rests(x)
<1>1. /\ x.drive = w.drive /\ x.brake = w.brake
      /\ \A i \in DOMAIN x.box : /\ i + 1 \in DOMAIN w.box /\ x.box[i] = w.box[i + 1]
                                 /\ i \in Nat \ {0}
  BY HeardLines
<1>2. \A q : Sound(q, w) => Sound(q, x)
  BY <1>1 DEF Sound
<1>3. \A r, v : Holds(r, v, w) => Holds(r, v, x)
  BY <1>1 DEF Holds
<1>4. Truthful(x)
  BY <1>1, <1>3 DEF Truthful
<1>5. ASSUME NEW r \in Sail!Registers, Single(b, w, r) PROVE Single(b, x, r)
  <2>1. \A i, j \in DOMAIN x.box : Answers(x.box[i], r) /\ Answers(x.box[j], r) => i = j
    <3> SUFFICES ASSUME NEW i \in DOMAIN x.box, NEW j \in DOMAIN x.box,
                        Answers(x.box[i], r), Answers(x.box[j], r)
                 PROVE  i = j
      OBVIOUS
    <3>1. i + 1 = j + 1
      BY <1>1, <1>5 DEF Single
    <3> QED
      BY <1>1, <3>1
  <2>2. \A i \in DOMAIN b.out, j \in DOMAIN x.box : ~(b.out[i].key = r /\ Answers(x.box[j], r))
    BY <1>1, <1>5 DEF Single
  <2>3. Quiet(b, w, r) => Quiet(b, x, r)
    BY <1>1 DEF Quiet
  <2> QED
    BY <1>5, <2>1, <2>2, <2>3 DEF Single
<1>6. Steering(b, w) => Steering(b, x)
  BY <1>1 DEF Steering, Ready
<1>7. Worked(b, w) => Worked(b, x)
  BY <1>1 DEF Worked
<1>8. Rests(w) => Rests(x)
  BY <1>1 DEF Rests
<1> QED
  BY <1>2, <1>3, <1>4, <1>5, <1>6, <1>7, <1>8

LEMMA TakenKeeps ==
    ASSUME NEW w \in Worlds, w.box # << >>, Truthful(w), NEW b, SailClient(b, w),
           NEW l, l = Head(w.box), l.op = "ACK", NEW x, x = Heard(w), NEW d, d = Told(b, l),
           NEW s, Phase(s, b, w)
    PROVE  SailClient(d, x) /\ Phase(s, d, x)
<1>0. /\ b \in SailClients /\ b.out \in Seq(SailRequests)
      /\ b.regs \in [Sail!Registers -> SailCells]
      /\ {"CONTROL", "TARGPOS", "OPMODE"} \subseteq Sail!Registers
      /\ b = [regs |-> b.regs, out |-> b.out]
  BY SailWords DEF SailClient, SailClients
<1>1. /\ x \in Worlds /\ x.drive = w.drive /\ l \in SailLines /\ 1 \in DOMAIN w.box /\ l = w.box[1]
      /\ \A i \in DOMAIN x.box : /\ i + 1 \in DOMAIN w.box /\ x.box[i] = w.box[i + 1]
                                 /\ i \in Nat \ {0}
  BY HeardLines
<1>2. /\ \A q : Sound(q, w) => Sound(q, x)
      /\ \A r, v : Holds(r, v, w) => Holds(r, v, x)
      /\ \A r \in Sail!Registers : Single(b, w, r) => Single(b, x, r)
      /\ Steering(b, w) => Steering(b, x)
      /\ Worked(b, w) => Worked(b, x)
      /\ Rests(w) => Rests(x)
  BY HearingKeeps
<1> DEFINE cell == Sail!ReceiveCell(b.regs[l.key], l.op, l.value, 0)
<1>3. d = [regs |-> [b.regs EXCEPT ![l.key] = cell], out |-> b.out]
  BY <1>0 DEF Told
<1>4. d.out = b.out /\ d.regs = [b.regs EXCEPT ![l.key] = cell]
  BY <1>3
<1>5. CASE l.key \notin Sail!Registers
  <2>1. d = b
    BY <1>0, <1>3, <1>5
  <2> QED
    BY <1>0, <1>1, <1>2, <2>1 DEF SailClient, Phase, Starting
<1>6. CASE l.key \in Sail!Registers
  <2>0. l.value \in Int /\ l.op \in {"ACK", "ERR"}
    BY <1>1 DEF SailLines
  <2>1. /\ cell \in SailCells
        /\ IF b.regs[l.key].state = "ABSENT" THEN cell = b.regs[l.key]
           ELSE cell.state = "VALID" /\ cell.value = l.value
    <3>1. b.regs[l.key] \in SailCells /\ b.regs[l.key] \in SailRecords
      BY <1>0, <1>6 DEF SailCells
    <3>2. cell \in SailCells
      BY <2>0, <3>1, CellsStaySailCells
    <3>3. IF b.regs[l.key].state = "ABSENT" THEN cell = b.regs[l.key]
          ELSE cell.state = "VALID" /\ cell.value = l.value
      <4> DEFINE c == b.regs[l.key]
      <4>1. c \in SailRecords /\ cell = Sail!ReceiveCell(c, "ACK", l.value, 0)
        BY <3>1
      <4> HIDE DEF c, cell
      <4>2. IF c.state = "ABSENT" THEN cell = c ELSE cell.state = "VALID" /\ cell.value = l.value
        BY <4>1 DEF Sail!ReceiveCell, Sail!Tick, SailRecords
      <4> QED
        BY <4>2 DEF c
    <3> QED
      BY <3>2, <3>3
  <2> HIDE DEF cell
  <2>2. /\ d.regs[l.key] = cell /\ \A r \in Sail!Registers : r # l.key => d.regs[r] = b.regs[r]
        /\ d \in SailClients
    BY <1>0, <1>3, <1>4, <1>6, <2>1 DEF SailClients
  <2>3. Holds(l.key, l.value, w)
    BY <1>1 DEF Truthful
  <2>4. \A r \in Sail!Registers : d.regs[r].state = "VALID" => Holds(r, d.regs[r].value, x)
    BY <1>2, <1>6, <2>1, <2>2, <2>3 DEF SailClient
  <2>5. \A i \in DOMAIN d.out : Sound(d.out[i], x)
    BY <1>2, <1>4 DEF SailClient
  <2>6. ASSUME NEW r \in Sail!Registers, Single(b, w, r) PROVE Single(d, x, r)
    <3>1. Single(b, x, r)
      BY <1>2, <2>6
    <3>2. l.key = r => Quiet(b, x, r)
      <4> SUFFICES ASSUME l.key = r PROVE Quiet(b, x, r)
        OBVIOUS
      <4>1. Answers(w.box[1], r)
        BY <1>1 DEF Answers
      <4>2. \A i \in DOMAIN b.out : b.out[i].key # r
        BY <1>1, <2>6, <4>1 DEF Single
      <4>3. ASSUME NEW i \in DOMAIN x.box, Answers(x.box[i], r) PROVE FALSE
        <5>1. i + 1 = 1 /\ i \in Nat \ {0}
          BY <1>1, <2>6, <4>1, <4>3 DEF Single
        <5> QED
          BY <5>1
      <4> QED
        BY <4>2, <4>3 DEF Quiet
    <3>3. d.regs[r].state # "PENDING" => Quiet(b, x, r)
      BY <2>2, <3>1, <3>2 DEF Single
    <3> QED
      BY <1>4, <3>1, <3>3 DEF Single, Quiet
  <2>7. SailClient(d, x)
    BY <1>0, <2>2, <2>4, <2>5, <2>6 DEF SailClient
  <2>8. Steering(b, w) => Steering(d, x)
    BY <1>2, <1>4 DEF Steering
  <2>9. Worked(b, w) => Worked(d, x)
    <3>1. b.regs["OPMODE"].state = "ABSENT" => d.regs["OPMODE"].state = "ABSENT"
      BY <1>0, <2>1, <2>2
    <3> QED
      BY <1>1, <1>4, <3>1 DEF Worked, ControlOrder
  <2>10. Starting(b, w) => Starting(d, x)
    <3> SUFFICES ASSUME Starting(b, w) PROVE Starting(d, x)
      OBVIOUS
    <3>1. d.regs["TARGPOS"].state = "ABSENT"
      BY <1>0, <2>1, <2>2 DEF Starting
    <3>2. Single(d, x, "CONTROL")
      BY <1>0, <2>6 DEF Starting
    <3>3. d.regs["CONTROL"].state = "VALID" => d.regs["CONTROL"].value = x.drive.control
      <4>1. CASE l.key = "CONTROL"
        <5>1. l.value = w.drive.control
          BY <1>1, <4>1 DEF Starting, Rests, Answers
        <5> QED
          BY <1>1, <2>1, <2>2, <4>1, <5>1
      <4>2. CASE l.key # "CONTROL"
        BY <1>0, <1>1, <2>2, <4>2 DEF Starting
      <4> QED
        BY <4>1, <4>2
    <3> QED
      BY <1>2, <1>4, <3>1, <3>2, <3>3 DEF Starting
  <2> QED
    BY <2>7, <2>8, <2>9, <2>10 DEF Phase
<1> QED
  BY <1>5, <1>6

\* A line with a new angle is taken.
LEMMA AngleTakenKeeps ==
    ASSUME NEW w \in Worlds, w.box # << >>, Truthful(w), NEW b, SailClient(b, w),
           NEW x, x = Heard(w), NEW s, Phase(s, b, w)
    PROVE  SailClient(b, x) /\ Phase(s, b, x)
<1>1. x.drive = w.drive
  BY HeardLines
<1> QED
  BY <1>1, HearingKeeps, SailWords DEF SailClient, Phase, Starting

\* A valid cell expires.
LEMMA ExpiryKeeps ==
    ASSUME NEW w \in Worlds, NEW b, SailClient(b, w), NEW s, Phase(s, b, w),
           NEW r \in Sail!Registers, b.regs[r].state = "VALID",
           NEW d, d = Sail!Then(b, Sail!Drop(r))
    PROVE  SailClient(d, w) /\ Phase(s, d, w)
<1> DEFINE c == Sail!Drop(r)
<1>1. c \in SailCalls /\ c.call = "invalidate" /\ c.reg = r
  BY SailWords DEF SailCalls, Sail!Drop
<1>2. b \in SailClients /\ d = Sail!Then(b, c)
  BY DEF SailClient
<1> HIDE DEF c
<1>3. SailClient(d, w)
  BY <1>1, <1>2, CallKeepsClient DEF Fit
<1>4. Steering(b, w) => Steering(d, w)
  BY <1>1, <1>2, CallKeepsSteering
<1>5. Starting(b, w) /\ Worked(b, w) => Starting(d, w) /\ Worked(d, w)
  <2> SUFFICES ASSUME Starting(b, w), Worked(b, w) PROVE Starting(d, w) /\ Worked(d, w)
    OBVIOUS
  <2>1. c.reg # "TARGPOS"
    BY <1>1 DEF Starting
  <2>2. /\ Starting(d, w) /\ (ControlOrder(b) => ControlOrder(d))
        /\ c.reg # "OPMODE" => Worked(d, w)
    BY <1>1, <1>2, <2>1, CallKeepsStarting
  <2>3. c.reg = "OPMODE" => Worked(d, w)
    BY <1>1, <2>2 DEF Worked
  <2> QED
    BY <2>2, <2>3
<1> QED
  BY <1>3, <1>4, <1>5 DEF Phase

\* A line of the helmsman or of skewmon is sent.
Sent(w, l) == [w EXCEPT !.box = Append(w.box, l)]
LEMMA SentKeeps ==
    ASSUME NEW w \in Worlds, Truthful(w), NEW b, SailClient(b, w), NEW s, Phase(s, b, w),
           NEW l \in SailLines, l.op # "ACK", NEW x, x = Sent(w, l)
    PROVE  x \in Worlds /\ Truthful(x) /\ SailClient(b, x) /\ Phase(s, b, x)
<1>0. w.box \in Seq(SailLines) /\ w = [box |-> w.box, drive |-> w.drive, brake |-> w.brake]
  BY DEF Worlds
<1>1. x = [box |-> Append(w.box, l), drive |-> w.drive, brake |-> w.brake]
  BY <1>0 DEF Sent
<1>2. /\ \A i \in DOMAIN x.box : (i \in DOMAIN w.box /\ x.box[i] = w.box[i]) \/ x.box[i] = l
      /\ x.box \in Seq(SailLines)
  BY <1>0, <1>1, Appended
<1>3. x \in Worlds /\ x.drive = w.drive /\ x.brake = w.brake
  BY <1>1, <1>2 DEF Worlds
<1>4. \A r, v : Holds(r, v, w) => Holds(r, v, x)
  BY <1>3 DEF Holds
<1>5. \A q : Sound(q, w) => Sound(q, x)
  BY <1>3 DEF Sound
<1>6. \A r, i : i \in DOMAIN x.box /\ Answers(x.box[i], r) => i \in DOMAIN w.box /\ Answers(w.box[i], r)
  BY <1>2 DEF Answers
<1>7. \A r : Single(b, w, r) => Single(b, x, r)
  BY <1>6 DEF Single, Quiet
<1>8. Truthful(x)
  <2> SUFFICES ASSUME NEW i \in DOMAIN x.box, x.box[i].op = "ACK"
               PROVE  Holds(x.box[i].key, x.box[i].value, x)
    BY DEF Truthful
  <2>1. i \in DOMAIN w.box /\ x.box[i] = w.box[i]
    BY <1>2
  <2> QED
    BY <1>4, <2>1 DEF Truthful
<1>9. SailClient(b, x)
  BY <1>4, <1>5, <1>7 DEF SailClient
<1>10. Rests(w) => Rests(x)
  <2> SUFFICES ASSUME Rests(w) PROVE Rests(x)
    OBVIOUS
  <2>1. \A i \in DOMAIN x.box : Answers(x.box[i], "CONTROL") => x.box[i].value = x.drive.control
    BY <1>2, <1>3 DEF Answers, Rests
  <2> QED
    BY <1>3, <2>1 DEF Rests
<1>11. Phase(s, b, x)
  BY <1>3, <1>7, <1>10 DEF Phase, Starting, Worked, Steering, Ready
<1> QED
  BY <1>3, <1>8, <1>9, <1>11

\* eposprobe asks for the STATUS.
Polled(b, q) == [b EXCEPT !.out = Append(b.out, q)]
LEMMA ProbeKeeps ==
    ASSUME NEW w \in Worlds, NEW b, SailClient(b, w), NEW s, Phase(s, b, w),
           NEW d, d = Polled(b, Sail!Get("STATUS"))
    PROVE  SailClient(d, w) /\ Phase(s, d, w)
<1> DEFINE q == Sail!Get("STATUS")
           n == Len(b.out)
<1>0. /\ b.out \in Seq(SailRequests) /\ b.regs \in [Sail!Registers -> SailCells]
      /\ b = [regs |-> b.regs, out |-> b.out]
  BY DEF SailClient, SailClients
<1>1. q \in SailRequests /\ q.key = "STATUS" /\ q.op = "GET"
  BY SailWords DEF SailRequests, Sail!Get
<1>2. d = [regs |-> b.regs, out |-> Append(b.out, q)]
  BY <1>0 DEF Polled
<1> HIDE DEF q
<1>3. /\ d.regs = b.regs /\ d.out \in Seq(SailRequests)
      /\ n \in Nat /\ DOMAIN b.out = 1 .. n /\ DOMAIN d.out = 1 .. (n + 1)
      /\ \A i \in DOMAIN b.out : i \in DOMAIN d.out /\ d.out[i] = b.out[i]
      /\ \A i \in DOMAIN d.out : i \in DOMAIN b.out \/ d.out[i] = q
  BY <1>0, <1>1, <1>2, Appended
<1>4. \A r, i : r # "STATUS" /\ i \in DOMAIN d.out /\ d.out[i].key = r => i \in DOMAIN b.out /\ b.out[i].key = r
  BY <1>1, <1>3
<1>5. \A r : r # "STATUS" /\ Single(b, w, r) => Single(d, w, r)
  BY <1>3, <1>4 DEF Single, Quiet
<1>6. Sound(q, w)
  BY <1>1 DEF Sound
<1>7. SailClient(d, w)
  <2>1. d \in SailClients
    BY <1>0, <1>2, <1>3 DEF SailClients
  <2> QED
    BY <1>3, <1>5, <1>6, <2>1 DEF SailClient
<1>8. Starting(b, w) => Starting(d, w)
  BY <1>1, <1>3, <1>5 DEF Starting, Orders
<1>9. Worked(b, w) => Worked(d, w)
  BY <1>3 DEF Worked, ControlOrder
<1>10. Steering(b, w) => Steering(d, w)
  <2> SUFFICES ASSUME Steering(b, w) PROVE Steering(d, w)
    OBVIOUS
  <2>1. \A i \in DOMAIN d.out : i \notin DOMAIN b.out =>
           ~SetPoint(d.out[i]) /\ ~(d.out[i].op = "SET")
    BY <1>1, <1>3 DEF SetPoint
  <2>2. \A i \in DOMAIN d.out :
           d.out[i].op = "SET" /\ d.out[i].key = "CONTROL" => d.out[i].value = Sail!CONTROL_START
    BY <1>3, <2>1 DEF Steering
  <2>3. \A i \in DOMAIN d.out :
          SetPoint(d.out[i]) =>
             /\ Close(d.out[i].value, w.drive.targpos)
             /\ i + 1 \in DOMAIN d.out /\ Orders(d.out[i + 1], "CONTROL", Sail!CONTROL_START)
    <3> SUFFICES ASSUME NEW i \in DOMAIN d.out, SetPoint(d.out[i])
                 PROVE  /\ Close(d.out[i].value, w.drive.targpos)
                        /\ i + 1 \in DOMAIN d.out
                        /\ Orders(d.out[i + 1], "CONTROL", Sail!CONTROL_START)
      OBVIOUS
    <3>1. i \in DOMAIN b.out /\ d.out[i] = b.out[i]
      BY <1>3, <2>1
    <3>2. /\ Close(b.out[i].value, w.drive.targpos)
          /\ i + 1 \in DOMAIN b.out /\ Orders(b.out[i + 1], "CONTROL", Sail!CONTROL_START)
      BY <3>1 DEF Steering
    <3> QED
      BY <1>3, <3>1, <3>2
  <2>4. w.drive.goal # w.drive.targpos =>
          \E i \in DOMAIN d.out : /\ Orders(d.out[i], "CONTROL", Sail!CONTROL_START)
                                  /\ \A j \in 1 .. i : ~SetPoint(d.out[j])
    <3> SUFFICES ASSUME w.drive.goal # w.drive.targpos
                 PROVE  \E i \in DOMAIN d.out : /\ Orders(d.out[i], "CONTROL", Sail!CONTROL_START)
                                                /\ \A j \in 1 .. i : ~SetPoint(d.out[j])
      OBVIOUS
    <3>1. PICK i \in DOMAIN b.out : /\ Orders(b.out[i], "CONTROL", Sail!CONTROL_START)
                                    /\ \A j \in 1 .. i : ~SetPoint(b.out[j])
      BY DEF Steering
    <3>2. \A j \in 1 .. i : j \in DOMAIN b.out
      BY <1>3, <3>1
    <3> QED
      BY <1>3, <3>1, <3>2
  <2> QED
    BY <2>2, <2>3, <2>4 DEF Steering
<1> QED
  BY <1>7, <1>8, <1>9, <1>10 DEF Phase

\* The boom moves.
LEMMA WorkKeeps ==
    ASSUME NEW w \in Worlds, Truthful(w), NEW b, SailClient(b, w), NEW s, Phase(s, b, w),
           w.drive.goal # w.drive.pos, NEW x, x = [w EXCEPT !.drive = Sail!Moved(w.drive)]
    PROVE  /\ x \in Worlds /\ Truthful(x) /\ SailClient(b, x) /\ Phase(s, b, x)
           /\ x.drive.goal = w.drive.goal
<1>0. /\ w.drive \in SailDrives /\ w = [box |-> w.box, drive |-> w.drive, brake |-> w.brake]
      /\ w.box \in Seq(SailLines) /\ w.brake \in Int
  BY DEF Worlds
<1>1. /\ x = [box |-> w.box, drive |-> Sail!Moved(w.drive), brake |-> w.brake]
      /\ x.box = w.box /\ x.brake = w.brake
  BY <1>0
<1> DEFINE d == w.drive
           e == Sail!Moved(w.drive)
<1>2. /\ e \in SailDrives /\ e.goal = d.goal /\ e.targpos = d.targpos /\ e.opmode = d.opmode
      /\ e.config = d.config /\ e.enabled = d.enabled
  <2>1. \E p \in Int : e = [d EXCEPT !.pos = p]
    <3>1. d.pos \in Int
      BY <1>0 DEF SailDrives
    <3>2. e = [d EXCEPT !.pos = IF d.pos < d.goal THEN d.pos + 1 ELSE d.pos - 1]
      BY DEF Sail!Moved
    <3>3. (IF d.pos < d.goal THEN d.pos + 1 ELSE d.pos - 1) \in Int
      BY <3>1
    <3> QED
      BY <3>2, <3>3
  <2>2. PICK p \in Int : e = [d EXCEPT !.pos = p]
    BY <2>1
  <2>3. d \in SailDrives
    BY <1>0
  <2> HIDE DEF d, e
  <2> QED
    BY <2>2, <2>3 DEF SailDrives
<1>3. x.drive = e
  BY <1>1
<1> HIDE DEF e
<1>4. x \in Worlds
  BY <1>0, <1>1, <1>2, <1>3 DEF Worlds
<1>5. \A r, v : Holds(r, v, w) => Holds(r, v, x)
  BY <1>1, <1>2, <1>3 DEF Holds
<1>6. \A q : Sound(q, w) => Sound(q, x)
  BY <1>2, <1>3 DEF Sound
<1>7. \A r : Single(b, w, r) => Single(b, x, r)
  BY <1>1 DEF Single, Quiet
<1>8. Truthful(x)
  BY <1>1, <1>5 DEF Truthful
<1>9. SailClient(b, x)
  BY <1>5, <1>6, <1>7 DEF SailClient
<1>10. ~Starting(b, w)
  BY DEF Starting, Rests
<1>11. Steering(b, x) /\ s # "init"
  <2>1. s # "init" /\ Steering(b, w)
    BY <1>10 DEF Phase
  <2> QED
    BY <1>1, <1>2, <1>3, <2>1 DEF Steering, Ready
<1> QED
  BY <1>2, <1>3, <1>4, <1>8, <1>9, <1>11 DEF Phase

-----------------------------------------------------------------------------
(* The steps of the program. *)
LEMMA ReactKeeps ==
    ASSUME NEW w \in Worlds, NEW b, SailClient(b, w), loop \in {"init", "control"},
           Phase(loop, b, w), NEW angle \in Int \cup {NaN}, NEW shift \in Int,
           Sail!React(b, angle, shift)
    PROVE  /\ loop' \in {"init", "control"}
           /\ SailClient([regs |-> sailRegs', out |-> sailReq'], w)
           /\ Phase(loop', [regs |-> sailRegs', out |-> sailReq'], w)
<1> DEFINE res == IF loop = "init" THEN Sail!SailInit(b) ELSE Sail!SailControl(b, angle, shift)
           restart == loop = "control" /\ res.state = "HOMING"
           after == IF restart THEN Sail!Reinit(res.client) ELSE res.client
           d == [regs |-> sailRegs', out |-> sailReq']
<1>1. /\ sailRegs' = after.regs /\ sailReq' = after.out
      /\ loop' = CASE restart -> "init"
                   [] loop = "init" /\ res.state = "TARGETTING" -> "control"
                   [] OTHER -> loop
  BY DEF Sail!React
<1>2. CASE loop = "init"
  <2>1. res = Sail!SailInit(b) /\ Starting(b, w) /\ Worked(b, w) /\ ~restart
    BY <1>2 DEF Phase
  <2> HIDE DEF res
  <2>2. /\ SailClient(res.client, w)
        /\ IF res.state = "TARGETTING" THEN Steering(res.client, w)
           ELSE Starting(res.client, w) /\ Worked(res.client, w)
    BY <2>1, SailInitKeeps
  <2>3. sailRegs' = res.client.regs /\ sailReq' = res.client.out
    BY <1>1, <2>1
  <2>4. loop' = IF res.state = "TARGETTING" THEN "control" ELSE "init"
    BY <1>1, <1>2, <2>1
  <2>5. d = res.client
    BY <2>2, <2>3 DEF SailClient, SailClients
  <2> HIDE DEF d
  <2>6. loop' \in {"init", "control"} /\ SailClient(d, w) /\ Phase(loop', d, w)
    BY <2>2, <2>4, <2>5 DEF Phase
  <2> QED
    BY <2>6 DEF d
<1>3. CASE loop = "control"
  <2>1. res = Sail!SailControl(b, angle, shift) /\ Steering(b, w)
    BY <1>3 DEF Phase
  <2> HIDE DEF res
  <2>2. SailClient(res.client, w) /\ Steering(res.client, w) /\ res.state # "HOMING"
    BY <2>1, SailControlKeeps
  <2>3. sailRegs' = res.client.regs /\ sailReq' = res.client.out /\ loop' = "control"
    BY <1>1, <1>3, <2>2
  <2>4. d = res.client
    BY <2>2, <2>3 DEF SailClient, SailClients
  <2> HIDE DEF d
  <2>5. loop' \in {"init", "control"} /\ SailClient(d, w) /\ Phase(loop', d, w)
    BY <2>2, <2>3, <2>4 DEF Phase
  <2> QED
    BY <2>5 DEF d
<1> QED
  BY <1>2, <1>3

LEMMA HeardParts ==
    ASSUME NEW i, NEW d, NEW k, NEW w, w = [box |-> i, drive |-> d, brake |-> k]
    PROVE  Heard(w) = [box |-> Tail(i), drive |-> d, brake |-> k]
<1>1. w.box = i
  OBVIOUS
<1>2. \A j : [w EXCEPT !.box = j] = [box |-> j, drive |-> d, brake |-> k]
  OBVIOUS
<1> QED
  BY <1>1, <1>2 DEF Heard

LEMMA SentParts ==
    ASSUME NEW i, NEW d, NEW k, NEW w, w = [box |-> i, drive |-> d, brake |-> k], NEW l
    PROVE  Sent(w, l) = [box |-> Append(i, l), drive |-> d, brake |-> k]
BY DEF Sent

LEMMA MovedParts ==
    ASSUME NEW i, NEW d, NEW k, NEW w, w = [box |-> i, drive |-> d, brake |-> k]
    PROVE  [w EXCEPT !.drive = Sail!Moved(w.drive)] = [box |-> i, drive |-> Sail!Moved(d), brake |-> k]
OBVIOUS

LEMMA RelievedParts ==
    ASSUME NEW g, NEW o, NEW b, b = [regs |-> g, out |-> o]
    PROVE  Relieved(b) = [regs |-> g, out |-> Tail(o)]
<1>1. b.out = o
  OBVIOUS
<1>2. \A j : [b EXCEPT !.out = j] = [regs |-> g, out |-> j]
  OBVIOUS
<1> QED
  BY <1>1, <1>2 DEF Relieved

LEMMA AskedParts ==
    ASSUME NEW g, NEW o, NEW b, b = [regs |-> g, out |-> o], NEW q
    PROVE  Polled(b, q) = [regs |-> g, out |-> Append(o, q)]
BY DEF Polled

\* A step moves the set point by half a turn at most, and keeps the invariant.
GoalMovesLittle == drive'.goal # drive.goal => Close(drive'.goal, drive.goal)

LEMMA SailStep ==
    ASSUME SailInv, Sail!Next
    PROVE  SailInv' /\ GoalMovesLittle
<1> DEFINE b == TheCache
           w == TheWorld
<1>0. /\ loop \in {"init", "control"} /\ target \in Int \cup {NaN} /\ sailSkew \in Int
      /\ w \in Worlds /\ Truthful(w) /\ SailClient(b, w) /\ Phase(loop, b, w)
      /\ b = [regs |-> sailRegs, out |-> sailReq]
      /\ w = [box |-> inbox, drive |-> drive, brake |-> brake]
      /\ b.regs = sailRegs /\ b.out = sailReq
      /\ w.box = inbox /\ w.drive = drive /\ w.brake = brake
      /\ TheCache' = [regs |-> sailRegs', out |-> sailReq']
      /\ TheWorld' = [box |-> inbox', drive |-> drive', brake |-> brake']
  BY DEF SailInv, TheCache, TheWorld
<1>00. SailInv' <=> /\ loop' \in {"init", "control"} /\ target' \in Int \cup {NaN} /\ sailSkew' \in Int
                    /\ TheWorld' \in Worlds /\ Truthful(TheWorld')
                    /\ SailClient(TheCache', TheWorld') /\ Phase(loop', TheCache', TheWorld')
  BY DEF SailInv
<1> DEFINE d == TheCache'
           x == TheWorld'
<1> HIDE DEF b, w, d, x
<1>01. /\ w = [box |-> inbox, drive |-> drive, brake |-> brake]
       /\ x = [box |-> inbox', drive |-> drive', brake |-> brake']
  BY <1>0 DEF x
<1>02. /\ b = [regs |-> sailRegs, out |-> sailReq]
       /\ d = [regs |-> sailRegs', out |-> sailReq']
  BY <1>0 DEF d
<1>1. CASE Sail!TakeAngle
  <2>1. /\ inbox # << >> /\ inbox' = Tail(inbox) /\ drive' = drive /\ brake' = brake
        /\ target' = IF Head(inbox).op = "TARGET" THEN Head(inbox).value ELSE target
        /\ sailSkew' = IF Head(inbox).op = "SKEW" THEN Head(inbox).value ELSE sailSkew
        /\ Sail!React([regs |-> sailRegs, out |-> sailReq], target', sailSkew')
    BY <1>1 DEF Sail!TakeAngle
  <2>2. x = Heard(w)
    <3>1. w = [box |-> inbox, drive |-> drive, brake |-> brake]
      BY <1>01
    <3>2. x = [box |-> Tail(inbox), drive |-> drive, brake |-> brake]
      BY <1>01, <2>1
    <3>3. Heard(w) = [box |-> Tail(inbox), drive |-> drive, brake |-> brake]
      BY <3>1, HeardParts
    <3> QED
      BY <3>2, <3>3
  <2>3. x \in Worlds /\ Head(w.box) \in SailLines
    BY <1>0, <2>1, <2>2, HeardLines
  <2>4. Truthful(x)
    BY <1>0, <2>1, <2>2, HearingKeeps
  <2>5. SailClient(b, x) /\ Phase(loop, b, x)
    BY <1>0, <2>1, <2>2, AngleTakenKeeps
  <2>6. Head(inbox).value \in Int
    BY <1>0, <2>3 DEF SailLines
  <2>7. target' \in Int \cup {NaN} /\ sailSkew' \in Int
    BY <1>0, <2>1, <2>6
  <2>8. Sail!React(b, target', sailSkew')
    BY <1>0, <2>1
  <2>9. /\ loop' \in {"init", "control"} /\ SailClient(d, x) /\ Phase(loop', d, x)
    BY <1>0, <2>3, <2>5, <2>7, <2>8, ReactKeeps DEF d
  <2>10. SailInv'
    BY <1>00, <2>3, <2>4, <2>7, <2>9 DEF d, x
  <2> QED
    BY <2>1, <2>10 DEF GoalMovesLittle
<1>2. CASE Sail!TakeResponse
  <2> DEFINE l == Head(inbox)
             got == [sailRegs EXCEPT ![l.key] = Sail!ReceiveCell(@, l.op, l.value, 0)]
             left1(stale) == [r \in Sail!Registers |-> IF r \in stale THEN Sail!InvalidateCell(got[r], 0)
                                                       ELSE got[r]]
             g == Told(b, l)
  <2>1. /\ inbox # << >> /\ l.op = "ACK" /\ inbox' = Tail(inbox) /\ drive' = drive /\ brake' = brake
        /\ target' = target /\ sailSkew' = sailSkew
    BY <1>2 DEF Sail!TakeResponse
  <2>2. PICK stale : /\ stale = {} \/ \E r \in Sail!Registers : got[r].state = "VALID" /\ stale = {r}
                     /\ Sail!React([regs |-> left1(stale), out |-> sailReq], target, sailSkew)
    <3> DEFINE valid == {r \in Sail!Registers : got[r].state = "VALID"}
    <3>1. PICK stale \in {{}} \cup (IF left.late = 0 THEN {} ELSE {{r} : r \in valid}) :
             Sail!React([regs |-> left1(stale), out |-> sailReq], target, sailSkew)
      <4> HIDE DEF valid, got
      <4> QED
        BY <1>2, Zenon DEF Sail!TakeResponse, valid, got
    <3>2. stale = {} \/ \E r \in Sail!Registers : got[r].state = "VALID" /\ stale = {r}
      <4> HIDE DEF got
      <4> QED
        BY <3>1
    <3> QED
      BY <3>1, <3>2
  <2>3. x = Heard(w)
    <3>1. w = [box |-> inbox, drive |-> drive, brake |-> brake]
      BY <1>01
    <3>2. x = [box |-> Tail(inbox), drive |-> drive, brake |-> brake]
      BY <1>01, <2>1
    <3>3. Heard(w) = [box |-> Tail(inbox), drive |-> drive, brake |-> brake]
      BY <3>1, HeardParts
    <3> QED
      BY <3>2, <3>3
  <2>4. x \in Worlds /\ Truthful(x)
    BY <1>0, <2>1, <2>3, HeardLines, HearingKeeps
  <2>5. l = Head(w.box)
    BY <1>0
  <2>6. SailClient(g, x) /\ Phase(loop, g, x)
    <3> HIDE DEF l
    <3> QED
      BY <1>0, <2>1, <2>3, <2>5, TakenKeeps
  <2>7. g = [regs |-> got, out |-> sailReq]
    BY <1>0 DEF Told
  <2>8. g \in SailClients /\ g.regs \in [Sail!Registers -> SailCells] /\ g.out \in Seq(SailRequests)
    BY <2>6 DEF SailClient, SailClients
  <2> DEFINE h == [regs |-> left1(stale), out |-> sailReq]
  <2>9. SailClient(h, x) /\ Phase(loop, h, x)
    <3>0. g.regs = got /\ g.out = sailReq
      BY <2>7
    <3> HIDE DEF got, g
    <3>1. CASE stale = {}
      <4>1. left1(stale) = got
        BY <2>8, <3>0, <3>1
      <4>2. h = g
        BY <2>7, <4>1
      <4> QED
        BY <2>6, <4>2
    <3>2. ASSUME NEW r \in Sail!Registers, got[r].state = "VALID", stale = {r}
          PROVE  SailClient(h, x) /\ Phase(loop, h, x)
      <4>1. left1(stale) = [got EXCEPT ![r] = Sail!InvalidateCell(got[r], 0)]
        BY <2>8, <3>0, <3>2
      <4>2. Sail!Then(g, Sail!Drop(r)) = [regs |-> [g.regs EXCEPT ![r] = Sail!InvalidateCell(g.regs[r], 0)],
                                          out |-> g.out \o << >>]
        BY DEF Sail!Then, Sail!Made, Sail!Written, Sail!Drop
      <4>3. g.out \o << >> = g.out
        BY <2>8
      <4>4. h = Sail!Then(g, Sail!Drop(r))
        BY <3>0, <4>1, <4>2, <4>3
      <4> HIDE DEF h
      <4> QED
        BY <2>4, <2>6, <3>0, <3>2, <4>4, ExpiryKeeps
    <3> QED
      BY <2>2, <3>1, <3>2
  <2> HIDE DEF h
  <2>10. Sail!React(h, target, sailSkew)
    BY <2>2 DEF h
  <2>11. loop' \in {"init", "control"} /\ SailClient(d, x) /\ Phase(loop', d, x)
    BY <1>0, <2>4, <2>9, <2>10, ReactKeeps DEF d
  <2>12. SailInv'
    BY <1>0, <1>00, <2>1, <2>4, <2>11 DEF d, x
  <2> QED
    BY <2>1, <2>12 DEF GoalMovesLittle
<1>3. CASE Sail!Serve
  <2> DEFINE q == Head(sailReq)
  <2>1. /\ sailReq # << >> /\ sailReq' = Tail(sailReq) /\ sailRegs' = sailRegs
        /\ loop' = loop /\ target' = target /\ sailSkew' = sailSkew
        /\ drive' = DriveAfter(q, w)
        /\ brake' = IF q.op = "SET" /\ q.key = "BRAKE" THEN q.value ELSE brake
        /\ inbox' = Append(inbox, Answer(q, w))
    BY <1>0, <1>3 DEF Sail!Serve, DriveAfter, Answer, ReadOf
  <2>2. x = WorldAfter(q, w) /\ d = Relieved(b) /\ q = Head(b.out) /\ b.out # << >>
    <3>1. x = WorldAfter(q, w)
      BY <1>01, <2>1 DEF WorldAfter
    <3>2. d = Relieved(b)
      BY <1>02, <2>1, RelievedParts
    <3> QED
      BY <1>0, <2>1, <3>1, <3>2
  <2> HIDE DEF q
  <2>3. SailClient(d, x) /\ Truthful(x) /\ x \in Worlds
    BY <1>0, <2>2, ServeKeepsClient
  <2>4. Phase(loop, d, x) /\ (x.drive.goal # w.drive.goal => Close(x.drive.goal, w.drive.goal))
    BY <1>0, <2>2, ServeKeepsStarting, ServeKeepsSteering DEF Phase
  <2>5. SailInv'
    BY <1>0, <1>00, <2>1, <2>3, <2>4 DEF d, x
  <2>6. x.drive = drive'
    BY <1>0 DEF x
  <2> QED
    BY <1>0, <2>4, <2>5, <2>6 DEF GoalMovesLittle
<1>4. CASE Sail!Send
  <2>1. /\ sailReq' = sailReq /\ sailRegs' = sailRegs /\ loop' = loop /\ target' = target
        /\ sailSkew' = sailSkew /\ drive' = drive /\ brake' = brake
    BY <1>4 DEF Sail!Send
  <2>2. PICK l : /\ \/ \E a \in Targets : l = [op |-> "TARGET", key |-> "angle", value |-> a]
                    \/ \E a \in SailSkews : l = [op |-> "SKEW", key |-> "angle", value |-> a]
                 /\ inbox' = Append(inbox, l)
    BY <1>4 DEF Sail!Send
  <2>3. l \in SailLines /\ l.op # "ACK"
    BY <2>2, SailAssumption DEF SailLines
  <2>4. x = Sent(w, l) /\ d = b
    <3>1. x = [box |-> Append(inbox, l), drive |-> drive, brake |-> brake]
      BY <1>01, <2>1, <2>2
    <3>2. Sent(w, l) = [box |-> Append(inbox, l), drive |-> drive, brake |-> brake]
      BY <1>01, SentParts
    <3>3. d = b
      BY <1>02, <2>1
    <3> QED
      BY <3>1, <3>2, <3>3
  <2>5. x \in Worlds /\ Truthful(x) /\ SailClient(d, x) /\ Phase(loop, d, x)
    BY <1>0, <2>3, <2>4, SentKeeps
  <2>6. SailInv'
    BY <1>0, <1>00, <2>1, <2>5 DEF d, x
  <2> QED
    BY <2>1, <2>6 DEF GoalMovesLittle
<1>5. CASE Sail!Probe
  <2>1. /\ sailRegs' = sailRegs /\ loop' = loop /\ target' = target
        /\ sailSkew' = sailSkew /\ drive' = drive /\ brake' = brake /\ inbox' = inbox
        /\ sailReq' = Append(sailReq, Sail!Get("STATUS"))
    BY <1>5 DEF Sail!Probe
  <2>2. x = w /\ d = Polled(b, Sail!Get("STATUS"))
    <3>1. d = [regs |-> sailRegs, out |-> Append(sailReq, Sail!Get("STATUS"))]
      BY <1>02, <2>1
    <3>2. Polled(b, Sail!Get("STATUS")) = [regs |-> sailRegs, out |-> Append(sailReq, Sail!Get("STATUS"))]
      <4> DEFINE q == Sail!Get("STATUS")
      <4> HIDE DEF q
      <4>1. Polled(b, q) = [regs |-> sailRegs, out |-> Append(sailReq, q)]
        BY <1>02, AskedParts
      <4> QED
        BY <4>1 DEF q
    <3>3. x = w
      BY <1>01, <2>1
    <3> QED
      BY <3>1, <3>2, <3>3
  <2>3. SailClient(d, x) /\ Phase(loop, d, x)
    BY <1>0, <2>2, ProbeKeeps
  <2>4. SailInv'
    BY <1>0, <1>00, <2>1, <2>2, <2>3 DEF d, x
  <2> QED
    BY <2>1, <2>4 DEF GoalMovesLittle
<1>6. CASE Sail!Work
  <2>1. /\ sailRegs' = sailRegs /\ loop' = loop /\ target' = target /\ sailReq' = sailReq
        /\ sailSkew' = sailSkew /\ drive' = Sail!Moved(drive) /\ brake' = brake /\ inbox' = inbox
        /\ drive.goal # drive.pos
    BY <1>6 DEF Sail!Work
  <2>2. x = [w EXCEPT !.drive = Sail!Moved(w.drive)] /\ d = b
    BY <1>01, <1>02, <2>1, MovedParts
  <2>3. /\ x \in Worlds /\ Truthful(x) /\ SailClient(b, x) /\ Phase(loop, b, x)
        /\ x.drive.goal = w.drive.goal
    BY <1>0, <2>1, <2>2, WorkKeeps
  <2>4. SailInv'
    BY <1>0, <1>00, <2>1, <2>2, <2>3 DEF d, x
  <2>5. x.drive = drive'
    BY <1>0 DEF x
  <2> QED
    BY <1>0, <2>3, <2>4, <2>5 DEF GoalMovesLittle
<1> QED
  BY <1>1, <1>2, <1>3, <1>4, <1>5, <1>6 DEF Sail!Next

\* The program starts with a request for the STATUS, before a drive at rest.
LEMMA SailInitial == MCInit => SailInv
<1> SUFFICES ASSUME MCInit PROVE SailInv
  OBVIOUS
<1> DEFINE b == TheCache
           w == TheWorld
           cold == Sail!DropAll(Sail!ColdCache)
           c == Sail!Ask("STATUS")
<1>1. /\ sailRegs = Sail!Reinit(Sail!ColdCache).regs /\ sailReq = Sail!Reinit(Sail!ColdCache).out
      /\ loop = "init" /\ target = NaN /\ sailSkew = 0 /\ inbox = << >>
      /\ \/ drive = Sail!ColdDrive /\ brake = 1
         \/ (\E p \in {0, SailHalf + 1} : drive = Sail!LeftAt(p)) /\ brake = 0
  BY DEF MCInit, Sail!Init
<1>2. /\ c \in SailCalls /\ c.call = "get" /\ c.reg = "STATUS"
      /\ {"STATUS", "CONTROL", "TARGPOS", "OPMODE"} \subseteq Sail!Registers
  BY SailWords DEF SailCalls, Sail!Ask
<1>3. /\ cold = [regs |-> [r \in Sail!Registers |-> Sail!AbsentCell], out |-> << >>]
      /\ Sail!AbsentCell \in SailCells /\ Sail!AbsentCell.state = "ABSENT"
  <2>1. Sail!AbsentCell \in SailCells /\ Sail!AbsentCell.state = "ABSENT"
    BY DEF Sail!AbsentCell, SailCells, SailRecords, Timed
  <2>2. Sail!InvalidateCell(Sail!AbsentCell, 0) = Sail!AbsentCell
    BY <2>1 DEF Sail!InvalidateCell
  <2>3. cold = [regs |-> [r \in Sail!Registers |-> Sail!InvalidateCell(Sail!AbsentCell, 0)], out |-> << >>]
    BY DEF Sail!DropAll, Sail!ColdCache
  <2> QED
    BY <2>1, <2>2, <2>3
<1> HIDE DEF c, cold
<1>4. /\ cold \in SailClients /\ cold.out = << >>
      /\ \A r \in Sail!Registers : cold.regs[r].state = "ABSENT"
  BY <1>3 DEF SailClients
<1>5. /\ w \in Worlds /\ w.box = << >> /\ w.drive = drive /\ w.brake = brake
  <2>1. drive \in SailDrives
    <3>1. CASE drive = Sail!ColdDrive
      BY <3>1, SailWords DEF SailDrives, Sail!ColdDrive
    <3>2. ASSUME NEW p \in {0, SailHalf + 1}, drive = Sail!LeftAt(p)
          PROVE  drive \in SailDrives
      <4>1. p \in Int
        BY SailAssumption
      <4>2. drive = [control |-> Sail!CONTROL_START, opmode |-> Sail!OPMODE_PPM, targpos |-> p,
                       config |-> 1, enabled |-> TRUE, homed |-> FALSE, homing |-> FALSE,
                       homingErr |-> FALSE, fault |-> FALSE, pos |-> p, goal |-> p]
        BY <3>2 DEF Sail!LeftAt, Sail!ColdDrive
      <4> QED
        BY <4>1, <4>2 DEF SailDrives
    <3> QED
      BY <1>1, <3>1, <3>2
  <2>2. brake \in Int /\ inbox \in Seq(SailLines)
    BY <1>1
  <2> QED
    BY <1>1, <2>1, <2>2 DEF Worlds, TheWorld
<1>6. Rests(w)
  <2>1. \A i \in DOMAIN w.box : FALSE
    BY <1>5
  <2>2. CASE drive = Sail!ColdDrive
    BY <1>5, <2>1, <2>2, SailWords DEF Rests, Sail!ColdDrive
  <2>3. ASSUME NEW p \in {0, SailHalf + 1}, drive = Sail!LeftAt(p)
        PROVE  Rests(w)
    BY <1>5, <2>1, <2>3, SailWords DEF Rests, Sail!LeftAt, Sail!ColdDrive
  <2> QED
    BY <1>1, <2>2, <2>3
<1> HIDE DEF w
<1>7. \A i \in DOMAIN cold.out : FALSE
  BY <1>4
<1>8. \A i \in DOMAIN w.box : FALSE
  BY <1>5
<1>9. \A r \in Sail!Registers : Single(cold, w, r)
  BY <1>7, <1>8 DEF Single, Quiet
<1>10. SailClient(cold, w) /\ Truthful(w)
  BY <1>2, <1>4, <1>7, <1>8, <1>9 DEF SailClient, Truthful
<1>11. Starting(cold, w) /\ Worked(cold, w)
  BY <1>2, <1>4, <1>6, <1>7, <1>9 DEF Starting, Worked
<1>12. b = Sail!Then(cold, c)
  <2>1. Sail!Reinit(Sail!ColdCache) = Sail!Then(cold, c)
    BY DEF Sail!Reinit, cold, c
  <2>2. Sail!Then(cold, c) = [regs |-> Sail!Then(cold, c).regs, out |-> Sail!Then(cold, c).out]
    BY DEF Sail!Then
  <2>3. TheCache = [regs |-> Sail!Then(cold, c).regs, out |-> Sail!Then(cold, c).out]
    BY <1>1, <2>1 DEF TheCache
  <2> QED
    BY <2>2, <2>3
<1> HIDE DEF b
<1>13. InitCall(cold, c)
  BY <1>2 DEF InitCall, c
<1>14. SailClient(b, w) /\ Starting(b, w) /\ Worked(b, w)
  BY <1>2, <1>5, <1>10, <1>11, <1>12, <1>13, InitCallKeeps
<1>15. Phase(loop, b, w)
  BY <1>1, <1>14 DEF Phase
<1> QED
  BY <1>1, <1>5, <1>10, <1>14, <1>15 DEF SailInv, b, w

AnyMove ==
    [(ClientMoves \/ LinkMoves \/ SailMoves \/ MonMoves) /\ UNCHANGED subject]_<<subject, vars, linkVars, sailVars, skewVars>>
LEMMA SailInductive ==
    ASSUME SailInv, AnyMove
    PROVE  SailInv' /\ GoalMovesLittle
<1>1. CASE UNCHANGED sailVars
  <2>1. /\ sailRegs' = sailRegs /\ loop' = loop /\ target' = target /\ sailReq' = sailReq
        /\ sailSkew' = sailSkew /\ drive' = drive /\ brake' = brake /\ inbox' = inbox
    BY <1>1 DEF sailVars
  <2>2. TheCache' = TheCache /\ TheWorld' = TheWorld
    BY <2>1 DEF TheCache, TheWorld
  <2>3. SailInv'
    BY <2>1, <2>2 DEF SailInv
  <2> QED
    BY <2>1, <2>3 DEF GoalMovesLittle
<1>2. CASE Sail!Next
  BY <1>2, SailStep
<1> QED
  BY <1>1, <1>2 DEF AnyMove, ClientMoves, LinkMoves, SailMoves, MonMoves

\* While it initialises the boom rests; while it steers the drive is ready.
LEMMA PhaseIsSafe ==
    ASSUME NEW l, NEW b, NEW w, Phase(l, b, w)
    PROVE  /\ l = "init" => w.drive.goal = w.drive.pos
           /\ l # "init" => w.drive.config = 1 /\ w.brake = 0 /\ w.drive.enabled
BY DEF Phase, Starting, Rests, Steering, Ready

LEMMA SailSafe == SailInv => DrivenWithCare
<1> SUFFICES ASSUME SailInv  PROVE DrivenWithCare
  OBVIOUS
<1>1. /\ loop \in {"init", "control"} /\ TheWorld.drive = drive /\ TheWorld.brake = brake
      /\ Phase(loop, TheCache, TheWorld)
  BY DEF SailInv, TheWorld
<1>2. /\ loop = "init" => TheWorld.drive.goal = TheWorld.drive.pos
      /\ loop # "init" => TheWorld.drive.config = 1 /\ TheWorld.brake = 0 /\ TheWorld.drive.enabled
  BY <1>1, PhaseIsSafe
<1> QED
  BY <1>1, <1>2 DEF DrivenWithCare, Sail!DrivenWithCare

LEMMA SailSafeNext == SailInv' => DrivenWithCare'
<1> SUFFICES ASSUME SailInv'  PROVE DrivenWithCare'
  OBVIOUS
<1>1. /\ loop' \in {"init", "control"} /\ TheWorld'.drive = drive' /\ TheWorld'.brake = brake'
      /\ Phase(loop', TheCache', TheWorld')
  BY DEF SailInv, TheWorld
<1>2. /\ loop' = "init" => TheWorld'.drive.goal = TheWorld'.drive.pos
      /\ loop' # "init" => TheWorld'.drive.config = 1 /\ TheWorld'.brake = 0 /\ TheWorld'.drive.enabled
  BY <1>1, PhaseIsSafe
<1> QED
  BY <1>1, <1>2 DEF DrivenWithCare, Sail!DrivenWithCare

\* Whatever angles and skews come, whichever valid registers expire and however often
\* eposprobe asks: sailctl leaves its initialisation only with a drive that has the
\* configuration, the mode and power, whose brake is off, and never moves it before; no
\* stale answer can tell it otherwise (sailctl_main.c:123-171).
THEOREM BoomDrivenWithCare == MCSpec => []DrivenWithCare
<1>1. SailInv /\ AnyMove => SailInv'
  BY SailInductive
<1>2. SailInv => DrivenWithCare
  BY SailSafe
<1> QED
  BY <1>1, <1>2, SailInitial, PTL DEF MCSpec, AnyMove

\* No START moves the boom's set point by more than half a turn, for every half turn,
\* target and skew: the set point it brings was computed from the one the drive has
\* (sailctl_main.c:196-218).
THEOREM BoomTurnsTheShortWay == MCSpec => TurnsTheShortWay
<1>1. SailInv /\ AnyMove => SailInv' /\
        [drive.goal' # drive.goal => drive.goal' - drive.goal \in -SailHalf .. SailHalf]_<<sailRegs, state, loop, target, sailSkew, sailReq, inbox, drive, brake, left>>
  BY SailInductive DEF GoalMovesLittle, Close
<1> QED
  BY <1>1, SailInitial, PTL DEF MCSpec, AnyMove, TurnsTheShortWay, Sail!TurnsTheShortWay, Sail!vars

\* sailctl moves the boom only with a drive that is ready, and by half a turn at most.
THEOREM BoomMovedWithCare == MCSpec => MovedWithCare
<1>1. SailInv /\ AnyMove => SailInv' /\
        [/\ Sail!DrivenWithCare'
         /\ drive.goal' # drive.goal => drive.goal' - drive.goal \in -SailHalf .. SailHalf]_<<sailRegs, state, loop, target, sailSkew, sailReq, inbox, drive, brake, left>>
  <2> SUFFICES ASSUME SailInv, AnyMove
               PROVE  /\ SailInv' /\ Sail!DrivenWithCare'
                      /\ drive.goal' # drive.goal => drive.goal' - drive.goal \in -SailHalf .. SailHalf
    OBVIOUS
  <2>1. SailInv' /\ GoalMovesLittle
    BY SailInductive
  <2>2. DrivenWithCare'
    BY <2>1, SailSafeNext
  <2> QED
    BY <2>1, <2>2 DEF GoalMovesLittle, Close, DrivenWithCare
<1> QED
  BY <1>1, SailInitial, PTL DEF MCSpec, AnyMove, MovedWithCare, Sail!MovedWithCare, Sail!vars
=============================================================================
