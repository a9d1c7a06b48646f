------------------------------- MODULE EposCell -------------------------------
(***************************************************************************)
(* One register of io2/eposclient.c: what each call of the interface does to  *)
(* its cell.  EposClient makes a cache of such cells; programs that use the    *)
(* cache chain the calls (RudderCtl).  A cell is [state, value, running, at];  *)
(* running and at are its timer, seen as a StopWatch: at is the time of the    *)
(* last start if it runs, of the last stop (0 if none) otherwise.              *)
(***************************************************************************)
EXTENDS Integers, Sequences

AbsentCell == [state |-> "ABSENT", value |-> 0, running |-> FALSE, at |-> 0]

(* The request lines.                                                        *)
Get(k)    == [op |-> "GET", key |-> k, value |-> 0]
Set(k, v) == [op |-> "SET", key |-> k, value |-> v]
-----------------------------------------------------------------------------
(* The calls, on one cell at time t.                                         *)

Tick(c, t) == [c EXCEPT !.running = ~c.running, !.at = t]

GetAsks(c) == c.state \in {"ABSENT", "INVALID"}         \* find_reg adds it INVALID
GetHits(c) == c.state = "VALID"
GetCell(c, t) == IF GetAsks(c) THEN [Tick(c, t) EXCEPT !.state = "PENDING"] ELSE c

SetHits(c, v) == c.state = "VALID" /\ c.value = v
SetAsks(c, v) == ~(c.state \in {"PENDING", "VALID"} /\ c.value = v)
SetCell(c, v, t) ==
    LET stopped == IF c.state = "PENDING" THEN Tick(c, t) ELSE c
    IN  IF SetAsks(c, v) THEN [Tick(stopped, t) EXCEPT !.state = "PENDING", !.value = v] ELSE c

InvalidateCellNoStop(c, t) ==           \* mutant: the timer keeps running
    IF c.state = "ABSENT" THEN c ELSE [c EXCEPT !.state = "INVALID"]
InvalidateCell(c, t) ==
    CASE c.state = "ABSENT"  -> c
      [] c.state = "PENDING" -> [Tick(c, t) EXCEPT !.state = "INVALID"]
      [] OTHER               -> [c EXCEPT !.state = "INVALID"]

\* A response is taken by any register this process ever asked about; if it
\* answers a request of its own (PENDING) it also stops the timer.
ReceiveCellAlways(c, op, v, t) ==       \* mutant: '#' taken for '='
    IF c.state = "ABSENT" THEN c
    ELSE [(IF c.state = "PENDING" THEN Tick(c, t) ELSE c) EXCEPT !.state = "VALID"]
ReceiveCell(c, op, v, t) ==
    LET stopped == IF c.state = "PENDING" THEN Tick(c, t) ELSE c
    IN  CASE c.state = "ABSENT" -> c
          [] c.state # "ABSENT" /\ op = "ACK" -> [stopped EXCEPT !.state = "VALID", !.value = v]
          [] c.state # "ABSENT" /\ op = "ERR" -> [stopped EXCEPT !.state = "INVALID"]

TooOldLate(c, t, limit) == t - c.at > limit     \* mutant: the limit itself is not too old
TooOld(c, t, limit) == ~(0 < t - c.at /\ t - c.at < limit)
-----------------------------------------------------------------------------
(* How a control program uses the register cache of one device: a handler     *)
(* makes one call after the other, b ++ call ++ call, or Then(Then(b, call),     *)
(* call), each of which may change a cell and append a request line to the      *)
(* program's output.  A client b is [regs, out].  Time is left out (0): what     *)
(* expires is the choice of the model of the program.                            *)

HitOnceAsked(b, r) == b.regs[r].state # "ABSENT"      \* mutant: an old value is good enough
Hit(b, r) == GetHits(b.regs[r])
Val(b, r) == b.regs[r].value

\* The calls, as data.
Ask(r)    == [call |-> "get", reg |-> r, value |-> 0]
Put(r, v) == [call |-> "set", reg |-> r, value |-> v]
Drop(r)   == [call |-> "invalidate", reg |-> r, value |-> 0]

Made(c, cell) ==
    CASE c.call = "get"        -> GetCell(cell, 0)
      [] c.call = "set"        -> SetCell(cell, c.value, 0)
      [] c.call = "invalidate" -> InvalidateCell(cell, 0)
Written(c, cell) ==
    CASE c.call = "get"        -> IF GetAsks(cell) THEN <<Get(c.reg)>> ELSE <<>>
      [] c.call = "set"        -> IF SetAsks(cell, c.value) THEN <<Set(c.reg, c.value)>> ELSE <<>>
      [] c.call = "invalidate" -> <<>>

Then(b, c) == [regs |-> [b.regs EXCEPT ![c.reg] = Made(c, b.regs[c.reg])],
               out  |-> b.out \o Written(c, b.regs[c.reg])]
b ++ c == Then(b, c)

\* device_invalidate_all
DropAll(b) == [b EXCEPT !.regs = [r \in DOMAIN b.regs |-> InvalidateCell(b.regs[r], 0)]]
=============================================================================
