------------------------------ MODULE EposClient ------------------------------
(***************************************************************************)
(* io2/eposclient.c: the cache of motor controller registers that every      *)
(* process on the ebus keeps.  A register is read and written through the     *)
(* cache; what the cache cannot answer becomes a request line on ctl, and     *)
(* the responses on the bus, to anybody's requests, fill it.                  *)
(*                                                                            *)
(* The cache is a function from <<serial, register>> to a cell of EposCell.   *)
(***************************************************************************)
EXTENDS Integers, Sequences, FiniteSets, EposCell

CONSTANTS Serials,      \* serial numbers of the EPOS devices
          RegIdx,       \* register indices
          Values,       \* register values
          Time,         \* values of the clock
          ReqTimeout,   \* REQ_TIMEOUT_US
          RspTimeout    \* RSP_TIMEOUT_US

Key == Serials \X RegIdx

ASSUME ClientAssumption ==
    /\ IsFiniteSet(Key)
    /\ 0 \in Values             \* find_reg clears a new register
    /\ 0 \in Time
    /\ Time \subseteq Int
    /\ ReqTimeout \in Nat \ {0}
    /\ RspTimeout \in Nat \ {0}

VARIABLES devices,      \* serials of the devices opened on the bus
          regs,         \* [Key -> Cell]: the lists of registers
          now,          \* the clock
          ctl,          \* the request lines written by the last call
          ret,          \* what the last call returned
          asked,        \* history: the last request written for each register
          heard,        \* history: the last '=' response taken for each register
          steady        \* history: the clock was never set back

vars == <<devices, regs, now, ctl, ret, asked, heard, steady>>

States == {"ABSENT", "INVALID", "PENDING", "VALID"}
\* running and at are the register's timer, see StopWatch: at is the time of its
\* last start if it runs, of its last stop (0 if none) otherwise.
Cell == [state : States, value : Values, running : BOOLEAN, at : Time]
Request == [op : {"GET", "SET"}, key : Key, value : Values]

-----------------------------------------------------------------------------
Expires(c, t) == \/ c.state = "PENDING" /\ TooOld(c, t, ReqTimeout)
                 \/ c.state = "VALID" /\ TooOld(c, t, RspTimeout)
ExpireCell(c, t) == IF Expires(c, t) THEN InvalidateCell(c, t) ELSE c

-----------------------------------------------------------------------------
Init ==
    /\ devices = {}
    /\ regs = [k \in Key |-> AbsentCell]
    /\ now = 0
    /\ ctl = <<>>
    /\ ret = 0
    /\ asked = [k \in Key |-> [op |-> "NONE", value |-> 0, at |-> 0]]
    /\ heard = [k \in Key |-> [value |-> 0, at |-> 0]]
    /\ steady = TRUE

\* bus_open_device: a repeated open finds the device again.
OpenDevice(s) ==
    /\ devices' = devices \cup {s}
    /\ ctl' = <<>> /\ ret' = 0
    /\ UNCHANGED <<regs, now, asked, heard, steady>>

\* The request q is written to ctl, or the call is satisfied without one.
Issue(asks, q) ==
    /\ ctl' = IF asks THEN <<q>> ELSE <<>>
    /\ asked' = IF asks THEN [asked EXCEPT ![q.key] = [op |-> q.op, value |-> q.value, at |-> now]]
                ELSE asked

GetRegister(k) ==
    /\ k[1] \in devices
    /\ regs' = [regs EXCEPT ![k] = GetCell(regs[k], now)]
    /\ ret' = IF GetHits(regs[k]) THEN 1 ELSE 0
    /\ Issue(GetAsks(regs[k]), Get(k))
    /\ UNCHANGED <<devices, now, heard, steady>>

SetRegister(k, v) ==
    /\ k[1] \in devices
    /\ regs' = [regs EXCEPT ![k] = SetCell(regs[k], v, now)]
    /\ ret' = IF SetHits(regs[k], v) THEN 1 ELSE 0
    /\ Issue(SetAsks(regs[k], v), Set(k, v))
    /\ UNCHANGED <<devices, now, heard, steady>>

InvalidateRegister(k) ==
    /\ k[1] \in devices
    /\ regs' = [regs EXCEPT ![k] = InvalidateCell(regs[k], now)]
    /\ ctl' = <<>> /\ ret' = 0
    /\ UNCHANGED <<devices, now, asked, heard, steady>>

InvalidateAll(s) ==
    /\ s \in devices
    /\ regs' = [k \in Key |-> IF k[1] = s THEN InvalidateCell(regs[k], now) ELSE regs[k]]
    /\ ctl' = <<>> /\ ret' = 0
    /\ UNCHANGED <<devices, now, asked, heard, steady>>

\* What bus_receive returns: nothing for a register nobody here asked about,
\* 1 for the answer to somebody else's request, the latency of our own request
\* otherwise, and never less than 2.
Latency(c) == IF now - c.at < 2 THEN 2 ELSE now - c.at

BusReceive(k, op, v) ==
    /\ regs' = [regs EXCEPT ![k] = ReceiveCell(regs[k], op, v, now)]
    /\ ret' = CASE regs[k].state = "ABSENT"  -> 0
                [] regs[k].state = "PENDING" -> Latency(regs[k])
                [] OTHER                     -> 1
    /\ heard' = IF op = "ACK" /\ regs[k].state # "ABSENT"
                THEN [heard EXCEPT ![k] = [value |-> v, at |-> now]] ELSE heard
    /\ ctl' = <<>>
    /\ UNCHANGED <<devices, now, asked, steady>>

BusExpire ==
    /\ regs' = [k \in Key |-> ExpireCell(regs[k], now)]
    /\ ret' = Cardinality({k \in Key : regs[k].state = "PENDING" /\ Expires(regs[k], now)})
    /\ ctl' = <<>>
    /\ UNCHANGED <<devices, now, asked, heard, steady>>

\* Time passes between calls, or the clock is set: imutime does, also back.
Clock ==
    /\ now' \in Time \ {now}
    /\ steady' = (steady /\ now' > now)
    /\ UNCHANGED <<devices, regs, ctl, ret, asked, heard>>

Next ==
    \/ \E s \in Serials : OpenDevice(s) \/ InvalidateAll(s)
    \/ \E k \in Key : GetRegister(k) \/ InvalidateRegister(k)
    \/ \E k \in Key, v \in Values : SetRegister(k, v)
    \/ \E k \in Key, v \in Values, op \in {"ACK", "ERR"} : BusReceive(k, op, v)
    \/ BusExpire
    \/ Clock

Spec == Init /\ [][Next]_vars

-----------------------------------------------------------------------------
TypeOK ==
    /\ devices \subseteq Serials
    /\ regs \in [Key -> Cell]
    /\ now \in Time
    /\ ctl \in Seq(Request)
    /\ ret \in Int
    /\ asked \in [Key -> [op : {"NONE", "GET", "SET"}, value : Values, at : Time]]
    /\ heard \in [Key -> [value : Values, at : Time]]
    /\ steady \in BOOLEAN

\* The asserts of eposclient.c:89, 111 and 120, and what keeps them true: a
\* register's timer runs exactly while its request is pending, whatever mixture
\* of gets, sets, invalidations, answers, foreign answers and timeouts it saw.
TimerRunsWhilePending ==
    \A k \in Key : regs[k].running <=> regs[k].state = "PENDING"

\* A pending register waits for the last request written for it: its timer
\* dates that request, and the value it holds is the one the request sets, so
\* that a repeated set is recognised (eposclient.c:161-213).
PendingDatesLastRequest ==
    \A k \in Key : regs[k].state = "PENDING" =>
        /\ asked[k].op # "NONE"
        /\ regs[k].at = asked[k].at
        /\ asked[k].op = "SET" => regs[k].value = asked[k].value

\* A VALID register serves the value the bus last reported for it, never one
\* that a set wrote into the cell and the device did not acknowledge
\* (eposclient.c:79-84, 165-168, 201-203).
ValidWasHeard ==
    \A k \in Key : regs[k].state = "VALID" => regs[k].value = heard[k].value

\* bus_receive tells its caller apart: 0 only if no register was updated, 1 for
\* a register nobody here waits for, at least 2 when our own request came back,
\* whatever the clock did in between (eposclient.h:24-25, eposclient.c:86-92).
ReceiveReturn ==
    [][\A k \in Key, v \in Values, op \in {"ACK", "ERR"} :
         BusReceive(k, op, v) =>
            /\ ret' = 0 => regs' = regs
            /\ ret' >= 2 <=> regs[k].state = "PENDING"]_vars

\* As long as the clock was never set back, a value that survives bus_expire was
\* reported by the bus less than RspTimeout ago, and a request that stays
\* pending was written less than ReqTimeout ago (eposclient.h:28-30).
ExpireBoundsAge ==
    [][BusExpire /\ steady => \A k \in Key :
         /\ regs'[k].state = "VALID" => now - heard[k].at < RspTimeout
         /\ regs'[k].state = "PENDING" => now - asked[k].at < ReqTimeout]_vars

\* What the cache serves as valid was heard on the bus, and what it still serves after
\* bus_expire was heard lately (eposclient.c:77-129).
ServesFresh == []ValidWasHeard /\ ExpireBoundsAge
=============================================================================
