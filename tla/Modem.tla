-------------------------------- MODULE Modem --------------------------------
(***************************************************************************)
(* modem/modem.cc: the driver of the satellite modem, and (external) the       *)
(* modem at the other end of the serial line.  What is on the line is a          *)
(* sequence of records [k, n, old]: a result ("ok", "err"), the prompt ">" of      *)
(* AT+CMGS, a line of a listing ("cmgl" with the slot, "pdu" with the message),     *)
(* or an unsolicited line ("async").  old is history: the answer to a command        *)
(* the driver no longer waits for.  A message is a number, negative if DecodeSMS        *)
(* refuses it (a status report, a text that is not in seven bit characters).            *)
(***************************************************************************)
EXTENDS Integers, FiniteSets, SequencesExt

CONSTANT Slots          \* the places of the modem's message store

\* Places have numbers.
ASSUME ModemAssumption == IsFiniteSet(Slots) /\ Slots \subseteq Nat

Item(k, n) == [k |-> k, n |-> n, old |-> FALSE]
Marked(s, old) == [i \in DOMAIN s |-> [k |-> s[i].k, n |-> s[i].n, old |-> old]]
Outdated(s) == Marked(s, TRUE)
None == 0

\* The prompt has no line end: what follows it on the line is read as one line
\* with it, which is neither a result nor an unsolicited line.
Merged(line, i) == i > 1 /\ line[i - 1].k = ">"
Results(line) == {i \in DOMAIN line : line[i].k \in {"ok", "err"} /\ ~Merged(line, i)}
Minimum(S) == CHOOSE x \in S : \A y \in S : x <= y

\* The result code; a time-out is an error.
ResultCodeOrOk(line) ==                 \* mutant: a time-out is no error
    IF Results(line) = {} THEN "ok" ELSE line[Minimum(Results(line))].k
ResultCode(line) ==
    IF Results(line) = {} THEN "err" ELSE line[Minimum(Results(line))].k

\* GetStatus: lines up to the first result, or, after a time-out, all whole lines.
\* info is what this command brought, async what came since the list was last emptied.
GetStatus(line, async) ==
    LET timedOut == Results(line) = {}
        n == IF ~timedOut THEN Minimum(Results(line))
             ELSE IF line # <<>> /\ Last(line).k = ">" THEN Len(line) - 1 ELSE Len(line)
        Lines(kinds) == SelectSeq([i \in 1 .. n |-> IF Merged(line, i) THEN Item("junk", 0) ELSE line[i]],
                                  LAMBDA x : x.k \in kinds)
    IN  [rc    |-> ResultCode(line),
         old   |-> ~timedOut /\ line[n].old,
         async |-> async \o Lines({"cmgl", "async"}),
         info  |-> Lines({"pdu"}),
         rest  |-> Outdated(SubSeq(line, n + 1, Len(line)))]

\* ReceiveSMSMessages: the decodable messages get the slots in the order listed;
\* an undecodable one leaves its slot to the next message.
ReceiveSMSMessages(status) ==
    LET ids == SelectSeq(status.async, LAMBDA x : x.k = "cmgl")
        sms == SelectSeq(status.info, LAMBDA x : x.n > 0)
        paired == IF Len(ids) < Len(sms) THEN Len(ids) ELSE Len(sms)
    IN  [i \in 1 .. paired |-> [id |-> ids[i].n, text |-> sms[i].n]]

-----------------------------------------------------------------------------
(* The modem: dev = [store, pdu]; store maps slots to messages, pdu is           *)
(* "no", "open" after the prompt, "spoilt" when commands were typed into the text. *)
Listing(store) ==
    LET used == {s \in Slots : store[s] # None}
        Nth(i) == CHOOSE s \in used : Cardinality({r \in used : r <= s}) = i
    IN  [i \in 1 .. 2 * Cardinality(used) |->
            IF i % 2 = 1 THEN Item("cmgl", Nth((i + 1) \div 2)) ELSE Item("pdu", store[Nth(i \div 2)])]

\* The answer to cmd, and the modem after it; fails: it refuses what it could do.
Answer(dev, cmd, fails) ==
    LET Reply(s, d) == [line |-> Marked(s, cmd.old), dev |-> d, accepts |-> FALSE]
    IN  IF dev.pdu # "no"
        THEN IF cmd.k # "pdu" THEN Reply(<<>>, [dev EXCEPT !.pdu = "spoilt"])
             ELSE IF fails \/ dev.pdu = "spoilt" THEN Reply(<<Item("err", 0)>>, [dev EXCEPT !.pdu = "no"])
             ELSE [Reply(<<Item("ok", 0)>>, [dev EXCEPT !.pdu = "no"]) EXCEPT !.accepts = TRUE]
        ELSE IF fails \/ cmd.k = "pdu" THEN Reply(<<Item("err", 0)>>, dev)
        ELSE IF cmd.k = "cmgs" THEN Reply(<<Item(">", 0)>>, [dev EXCEPT !.pdu = "open"])
        ELSE IF cmd.k = "cmgl" THEN Reply(Listing(dev.store) \o <<Item("ok", 0)>>, dev)
        ELSE IF cmd.k = "cmgd" THEN Reply(<<Item("ok", 0)>>, [dev EXCEPT !.store[cmd.n] = None])
        ELSE Reply(<<Item("ok", 0)>>, dev)
=============================================================================
