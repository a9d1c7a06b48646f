------------------------------- MODULE EposLink -------------------------------
(***************************************************************************)
(* eposcom: it finds the EPOS drives at the other end of a serial line and then  *)
(* serves the register requests of the bus, one at a time (io2/eposcom_main.c,     *)
(* with io2/seq.c and io2/com.c under it).  The line is two wires.  A byte on its     *)
(* way up is a record [b, v]: b the byte, or Any where the code does not look at it     *)
(* before it compares a checksum; v what it is part of, for a byte of a value.           *)
(* Going down, the 7 or 11 bytes after the opcode are one element.  The drive is           *)
(* external.  Nothing ever empties a wire: what comes after a time-out stays.                *)
(***************************************************************************)
EXTENDS Integers, Sequences

CONSTANTS Nodes,        \* the node ids that are probed, 1 .. n
          Present,      \* those where a drive answers
          Values,       \* of the one register that is read and written
          MaxMistaken,  \* bytes of an answer that are taken for an acknowledgement
          MaxFaults,    \* late answers, refused and failed requests
          MaxNoise      \* bytes of an answer that are changed on their way

VARIABLES mode,         \* of the program: "probing", "waiting", "serving", "crashed"
          node,         \* the node it talks to
          nodeidmap,    \* the serial numbers it found, by node
          req,          \* the request it serves
          try,          \* the failed attempts at it
          step,         \* where in a transfer it waits, "idle" between transfers
          frame, want,  \* the bytes received, and how many are still to come
          up, down,     \* the two wires
          dev, todo,    \* the drives' end of the line, and the request they work on
          answer,       \* what is left of the answer they offer
          regs,         \* the drives' register
          seen,         \* history: the values the register of the request had, or was given
          said,         \* the last answer printed
          mistaken,     \* history: the bytes of a value or a checksum taken for an O
          faults, noise
hostVars == <<mode, node, nodeidmap, req, try, step, frame, want, said>>
devVars == <<dev, todo, answer, regs, seen>>
vars == <<hostVars, devVars, up, down, mistaken, faults, noise>>

Unknown == -1
Serial(n) == 10 + n
Minimal(S) == CHOOSE x \in S : \A y \in S : x <= y

-----------------------------------------------------------------------------
(* Bytes. *)
O == 79
F == 70
Any == -1
Changed == -2                           \* part of no value
\* What goes down: a single byte, or the rest of a request.
Mark(k) == [kind |-> k, reg |-> "none", node |-> 0, val |-> 0]
IsFrame(x) == x.kind \in {"read", "write"}
Byte(b) == [b |-> b, v |-> Unknown]
Part(v) == [b |-> Any, v |-> v]
\* What a byte can be read as; one of a value or of a checksum as a length, O, F or another.
BytesOf(x) == IF x.b # Any THEN {x.b} ELSE {0, 1, 2, 3, O, F, 255}

\* The call the program is at: readobject of the serial number while it probes.
Call == CASE mode = "probing" -> [kind |-> "read", reg |-> "serial", node |-> node, val |-> 0]
          [] OTHER -> [kind |-> req.kind, reg |-> "pos", node |-> node, val |-> req.val]
Room == IF Call.kind = "read" THEN 12 ELSE 10

\* What recv returns for a whole frame, if it finds the checksum wrong.
CrcVerdict == 0
Intact(f) == \A i \in DOMAIN f : f[i].v # Changed

\* readobject and writeobject on a received frame: the results it can stand for.
Decoded(f) ==
    LET expected == IF Call.kind = "read" THEN 3 ELSE 1
        errors == {e \in {0, 1} : IF e = 0 THEN \A k \in 3 .. 6 : f[k].b \in {0, Any}
                                         ELSE \E k \in 3 .. 6 : f[k].b # 0}
        value == IF \A k \in 7 .. 10 : f[k].v = f[7].v THEN f[7].v ELSE Changed
        ok == [err |-> 0, val |-> IF Call.kind = "read" THEN value ELSE Call.val]
    IN  IF (CrcVerdict # 0 /\ ~Intact(f)) \/ f[1].b # 0 \/ f[2].b # expected \/ Len(f) # 2 * expected + 6
        THEN {[err |-> 1, val |-> 0]}
        ELSE {IF e = 0 THEN ok ELSE [err |-> 1, val |-> 0] : e \in errors}

-----------------------------------------------------------------------------
(* The program. *)
NoReq == [kind |-> "read", node |-> 0, val |-> 0]
Say(ok, val) == /\ said' = [ok |-> ok, val |-> val]
                /\ mode' = "waiting" /\ try' = 0 /\ UNCHANGED <<node, nodeidmap>>

\* main probes a node once.
ProbeEnds(r) ==
    /\ nodeidmap' = [nodeidmap EXCEPT ![node] = IF r.err = 0 THEN r.val ELSE Unknown]
    /\ IF node + 1 \in Nodes
       THEN node' = node + 1 /\ UNCHANGED mode
       ELSE /\ UNCHANGED node
            /\ mode' = IF \A n \in Nodes : nodeidmap'[n] = Unknown THEN "crashed" ELSE "waiting"
    /\ UNCHANGED <<try, said>>

\* epos_sequence gives up after three attempts, epos_waitobject after as many rounds
\* of three as its deadline allows.
AttemptEnds(r) ==
    IF r.err = 0 THEN Say(TRUE, r.val)
    ELSE IF try + 1 < 3 THEN try' = try + 1 /\ UNCHANGED <<mode, node, nodeidmap, said>>
    ELSE \/ Say(FALSE, 0)
         \/ req.kind = "read" /\ try' = 0 /\ UNCHANGED <<mode, node, nodeidmap, said>>

Return(r) ==
    /\ step' = "idle" /\ frame' = <<>> /\ want' = 0
    /\ IF mode = "probing" THEN ProbeEnds(r) ELSE AttemptEnds(r)
    /\ UNCHANGED req
Failed == [err |-> 1, val |-> 0]
Stay == UNCHANGED <<mode, node, nodeidmap, req, try, said>>

\* xmit: the opcode, its acknowledgement, the rest, the acknowledgement of that.
SendOpcode ==
    /\ mode \in {"probing", "serving"} /\ step = "idle"
    /\ down' = Append(down, Mark("opcode"))
    /\ step' = "ready"
    /\ Stay /\ UNCHANGED <<frame, want, up, devVars, mistaken, faults, noise>>

AckedByAny(b) == b # F                  \* mutant: only a refusal is looked for
Acked(b) == b = O
GetAck(from, to, sent) ==
    /\ step = from /\ up # <<>>
    /\ up' = Tail(up)
    /\ \E b \in BytesOf(Head(up)) :
          /\ IF Acked(b)
             THEN /\ step' = to
                  /\ down' = down \o sent
                  /\ Stay /\ UNCHANGED <<frame, want>>
             ELSE Return(Failed) /\ UNCHANGED down
          /\ mistaken' = mistaken + (IF Head(up).b = Any /\ b = O THEN 1 ELSE 0)
          /\ mistaken' <= MaxMistaken
    /\ UNCHANGED <<devVars, faults, noise>>
GetReadyAck == GetAck("ready", "sent", <<Call>>)
GetSendAck == GetAck("sent", "opcode", <<>>)

\* recv: the opcode, whatever it is, then the length, then as many bytes.
GetOpcode ==
    /\ step = "opcode" /\ up # <<>>
    /\ up' = Tail(up)
    /\ \E b \in BytesOf(Head(up)) : frame' = <<[Head(up) EXCEPT !.b = b]>>
    /\ down' = Append(down, Mark("O"))
    /\ step' = "len"
    /\ Stay /\ UNCHANGED <<want, devVars, mistaken, faults, noise>>

GetLen ==
    /\ step = "len" /\ up # <<>>
    /\ up' = Tail(up)
    /\ \E b \in BytesOf(Head(up)) :
          IF 2 + 2 * (b + 1) + 2 > Room
          THEN Return(Failed)
          ELSE /\ frame' = Append(frame, [Head(up) EXCEPT !.b = b])
               /\ want' = 2 * (b + 1) + 2
               /\ step' = "rest"
               /\ Stay
    /\ UNCHANGED <<down, devVars, mistaken, faults, noise>>

GetRest ==
    /\ step = "rest" /\ up # <<>>
    /\ LET n == IF Len(up) < want THEN Len(up) ELSE want
           got == frame \o SubSeq(up, 1, n)
       IN  /\ up' = SubSeq(up, n + 1, Len(up))
           /\ IF n < want
              THEN frame' = got /\ want' = want - n /\ Stay /\ UNCHANGED <<step, down>>
              ELSE /\ down' = Append(down, Mark(IF Intact(got) THEN "O" ELSE "F"))
                   /\ \E r \in Decoded(got) : Return(r)
    /\ UNCHANGED <<devVars, mistaken, faults, noise>>

\* Half a second without a byte; a fault if one was to come.
Coming == up # <<>> \/ down # <<>> \/ dev = "work"
TimeOut ==
    /\ step # "idle"
    /\ Coming => faults < MaxFaults
    /\ faults' = IF Coming THEN faults + 1 ELSE faults
    /\ Return(Failed)
    /\ UNCHANGED <<up, down, devVars, mistaken, noise>>

\* The next line of the bus; requests for other serial numbers are left alone.
TakeLine ==
    /\ mode = "waiting"
    /\ \E n \in Present, kind \in {"read", "write"} : \E v \in IF kind = "read" THEN {0} ELSE Values :
          LET nodes == {m \in Nodes : nodeidmap[m] = Serial(n)}
          IN  /\ nodes # {}
              /\ node' = Minimal(nodes)
              /\ req' = [kind |-> kind, node |-> n, val |-> v]
              /\ seen' = IF kind = "read" THEN {regs[n]} ELSE {}
    /\ mode' = "serving"
    /\ UNCHANGED <<nodeidmap, try, step, frame, want, said, up, down, dev, todo, answer, regs, mistaken, faults, noise>>

-----------------------------------------------------------------------------
(* The drives' end: it answers opcode and frame with O, then offers its answer. *)
DevGoes(d) == dev' = d /\ UNCHANGED <<hostVars, answer, regs, seen, mistaken, noise>>
Bytes(n, x) == [i \in 1 .. n |-> x]

Listen ==
    /\ down # <<>> /\ down' = Tail(down)
    /\ LET x == Head(down)
       IN  \/ /\ dev = "idle" /\ x.kind = "opcode"
              /\ up' = Append(up, Byte(O)) /\ DevGoes("body") /\ UNCHANGED <<todo, faults>>
           \/ /\ dev = "body" /\ IsFrame(x)
              /\ up' = Append(up, Byte(O)) /\ todo' = x /\ DevGoes("work") /\ UNCHANGED faults
           \/ /\ dev = "body" /\ IsFrame(x) /\ faults < MaxFaults   \* refused
              /\ up' = Append(up, Byte(F)) /\ DevGoes("idle")
              /\ faults' = faults + 1 /\ UNCHANGED todo
           \/ /\ dev = "body" /\ ~IsFrame(x)         \* taken for a length
              /\ DevGoes("garbage") /\ UNCHANGED <<up, todo, faults>>
           \/ /\ dev = "offer" /\ x.kind = "O"
              /\ up' = up \o answer /\ DevGoes("end") /\ UNCHANGED <<todo, faults>>
           \/ /\ \/ dev = "idle" /\ x.kind # "opcode"
                 \/ dev = "offer" /\ x.kind # "O"
                 \/ dev = "end"
              /\ DevGoes("idle") /\ UNCHANGED <<up, todo, faults>>
           \/ dev = "work" /\ DevGoes("work") /\ UNCHANGED <<up, todo, faults>>
           \/ dev = "garbage" /\ DevGoes("garbage") /\ UNCHANGED <<up, todo, faults>>

NoObject == <<Byte(0), Byte(0), Byte(2), Byte(6)>>      \* 0x06020000
Frame(err, values) == <<Byte(IF values = <<>> THEN 1 ELSE 3)>>
                      \o (IF err THEN NoObject ELSE Bytes(4, Byte(0)))
                      \o values \o Bytes(2, Part(Unknown))
\* A drive reads or writes its register, or fails to; then it offers the answer's opcode.
Work ==
    /\ dev = "work"
    /\ \E fails \in BOOLEAN :
          LET err == fails \/ todo.node \notin Present
              writes == ~err /\ todo.kind = "write"
              value == IF err THEN 0 ELSE IF todo.reg = "serial" THEN Serial(todo.node) ELSE regs[todo.node]
          IN  /\ fails => faults < MaxFaults
              /\ faults' = IF fails THEN faults + 1 ELSE faults
              /\ regs' = IF writes THEN [regs EXCEPT ![todo.node] = todo.val] ELSE regs
              /\ seen' = IF writes /\ mode = "serving" /\ todo.node = req.node
                         THEN seen \cup {todo.val} ELSE seen
              /\ answer' = Frame(err, IF todo.kind = "read" THEN Bytes(4, Part(value)) ELSE <<>>)
    /\ up' = Append(up, Byte(0))
    /\ dev' = "offer"
    /\ UNCHANGED <<hostVars, down, todo, mistaken, noise>>

\* It gives up on a frame or an acknowledgement that does not come.
Drop ==
    /\ dev \in {"body", "offer", "end", "garbage"}
    /\ down = <<>> /\ (mode = "waiting" \/ (step # "idle" /\ up = <<>>))
    /\ DevGoes("idle") /\ UNCHANGED <<up, down, todo, faults>>

Disturb ==
    /\ noise < MaxNoise
    /\ \E i \in DOMAIN up : /\ up[i].b = Any /\ up[i].v # Changed
                            /\ up' = [up EXCEPT ![i].v = Changed]
    /\ noise' = noise + 1
    /\ UNCHANGED <<hostVars, devVars, down, mistaken, faults>>

-----------------------------------------------------------------------------
Init ==
    /\ mode = "probing" /\ node = 1 /\ nodeidmap = [n \in Nodes |-> Unknown]
    /\ req = NoReq /\ try = 0 /\ said = [ok |-> FALSE, val |-> 0]
    /\ step = "idle" /\ frame = <<>> /\ want = 0
    /\ up = <<>> /\ down = <<>> /\ dev = "idle" /\ todo = Mark("none") /\ answer = <<>>
    /\ regs \in [Present -> Values] /\ seen = {}
    /\ mistaken = 0 /\ faults = 0 /\ noise = 0

\* The drive takes a byte long before the next one is sent, unless it is at work.
KeepsUp == down = <<>>
Host ==
    /\ KeepsUp
    /\ (SendOpcode \/ GetReadyAck \/ GetSendAck \/ GetOpcode \/ GetLen \/ GetRest \/ TimeOut)
Device == Listen \/ Work
Next == Host \/ TakeLine \/ Device \/ Drop \/ Disturb

Spec == Init /\ [][Next]_vars

Answered == mode = "serving" /\ mode' = "waiting" /\ said'.ok
\* A request that is acknowledged was carried out while it was served: the value of a read
\* was in that register, the value of a write was put there (eposcom_main.c:154-193 over
\* com.c:173-242), also after an answer that came too late and stays on the line (com.c:106),
\* as long as no byte of a value or a checksum was taken for an acknowledgement.  A byte
\* changed on its way may change what is read, not that what was written is.
AnswersTrue ==
    [][Answered /\ mistaken = 0 /\ (noise = 0 \/ req.kind = "write") => said'.val \in seen]_vars

\* com.h:42: "Issues the command with given index, subindex and nodeid.  And waits for the
\* reply.  ...  If there is any error, returns a non-zero error code, otherwise fills value
\* with the (host ordered) response": what is answered came from, or went to, the register.
RepliesTrue == [][Answered => said'.val \in seen]_vars
=============================================================================
