---------------------------------- MODULE Sms ----------------------------------
(***************************************************************************)
(* What is said by SMS and how it gets there: the status text that statusd composes *)
(* (modem/status.cc), the PDU that modemd makes of it (modem/sms.c, of which sms/pdu.c *)
(* is a copy), the network, and the text that is read at the other end; and the way     *)
(* back, a command that the boat decodes.  A text is its character codes; all digits of *)
(* one field of a status are the same one, that of the field.  The network and the      *)
(* operator's telephone pack and unpack septets as GSM 03.38 says.                        *)
(***************************************************************************)
EXTENDS Integers, SequencesExt

CONSTANTS Texts,        \* the commands, sequences of codes
          Reports,      \* what a status is composed of
          Phones,       \* telephone numbers, sequences of digits
          Stamps        \* times of arrival: <<year, month, day, hour, minute, second, zone>>

VARIABLES todo,         \* [kind, report, text, phone, center, stamp]
          text,         \* what is to be sent
          octets,       \* the PDU, as the modem is given it or gives it
          read          \* [ok, text, phone, stamp], Nothing or Refused
vars == <<todo, text, octets, read>>

(***************************************************************************)
(* The text (modem/status.cc): the status of the boat in forty characters and a rest, put  *)
(* together in a C buffer, each part at its fixed place: first what stands for "not       *)
(* known", appended where the text so far ends, then over it what is known.  Of a number   *)
(* only the width and whose it is are kept: the digits of a field are all the field's own.  *)
(***************************************************************************)
Char == [X |-> 88, Q |-> 63, Plus |-> 43, Minus |-> 45, G |-> 71, I |-> 73, N |-> 78, E |-> 69, R |-> 82, T |-> 84,
         date |-> 48, pos |-> 49, bearing |-> 50, speed |-> 51, dir |-> 52, wind |-> 53, battery |-> 54, fuel |-> 55,
         tacks |-> 56, jibes |-> 57, inits |-> 65, other |-> 97]
NUL == 0
Size == 161 + 40
Times(n, c) == [k \in 1 .. n |-> Char[c]]

\* sprintf to a place; strcat from a place on: at the first NUL behind it.
Sprintf(buf, at, s) == [i \in DOMAIN buf |-> IF i - at + 1 \in DOMAIN s THEN s[i - at + 1]
                                              ELSE IF i = at + Len(s) THEN NUL ELSE buf[i]]
End(buf, at) == CHOOSE i \in DOMAIN buf : i >= at /\ buf[i] = NUL /\ \A j \in at .. i - 1 : buf[j] # NUL
Strcat(buf, at, s) == Sprintf(buf, End(buf, at), s)
Put(buf, at, c) == [buf EXCEPT ![at] = Char[c]]
If(cond, then, else) == IF cond THEN then ELSE else

Date(buf) == Sprintf(buf, 0, Times(8, "date"))
Position(buf, r) ==
    LET unknown == Strcat(buf, 8, Times(16, "X"))
        coarse == If(r.iridium # "old", Put(unknown, 8, "I"), unknown)
        fine == If(r.gps # "none", Put(coarse, 8, "G"), coarse)
        given == IF r.gps # "none" THEN r.gps ELSE r.iridium
    IN  If(given = "known", Sprintf(fine, 9, <<Char.N>> \o Times(6, "pos") \o <<Char.E>> \o Times(7, "pos")), fine)
Bearing(buf, r) ==
    LET unknown == Strcat(buf, 24, Times(3, "X"))
    IN  If(r.bearing, Sprintf(unknown, 24, Times(3, "bearing")), unknown)
\* From ten knots on "++"; going astern the sign takes a place.
Speed(buf, r) ==
    LET unknown == Strcat(buf, 27, Times(2, "X"))
    IN  CASE r.speed = "none" -> unknown
          [] r.speed = "fast" -> Strcat(unknown, 27, Times(2, "Plus"))
          [] r.speed = "ahead" -> Sprintf(unknown, 27, Times(2, "speed"))
          [] r.speed = "astern" -> Sprintf(unknown, 27, <<Char.Minus>> \o Times(2, "speed"))
\* Relative to the boat, as the sensor measures it, or better the true wind.
WindFrom(buf, letter, w) ==
    LET angle == Sprintf(buf, 29, <<Char[letter]>> \o Times(3, "dir"))
    IN  CASE w = "none" -> buf
          [] w = "angle" -> angle
          [] w = "both" -> Sprintf(angle, 33, Times(2, "wind"))
Wind(buf, r) == WindFrom(WindFrom(Strcat(buf, 29, Times(6, "X")), "R", r.apparent), "T", r.true)
Supply(buf, r) ==
    LET unknown == Strcat(buf, 35, Times(2, "Q"))
        battery == If(r.battery, Put(unknown, 35, "battery"), unknown)
    IN  If(r.fuel, Put(battery, 36, "fuel"), battery)
Counters(buf) == Put(Put(Put(buf, 37, "tacks"), 38, "jibes"), 39, "inits")
Other(buf, r) ==
    LET n == IF r.other > 160 - 40 THEN 160 - 40 ELSE r.other
    IN  Sprintf(buf, 40, Times(n, "other"))

\* The string up to its first NUL; what is on the stack before is not one.
BuildStatusMessage(r) ==
    LET junk == [i \in 0 .. Size |-> Char.other]
        buf == Other(Counters(Supply(Wind(Speed(Bearing(Position(Date(junk), r), r), r), r), r)), r)
    IN  [k \in 1 .. End(buf, 0) |-> buf[k - 1]]

-----------------------------------------------------------------------------
(* What becomes of it. *)
Nothing == [ok |-> FALSE, text |-> <<>>, phone |-> <<>>, stamp |-> <<>>]
Refused == [Nothing EXCEPT !.text = <<NUL>>]

-----------------------------------------------------------------------------
(* sms.c: seven bits a character, eight bits an octet. *)
Low7(c) == c % 128
\* An octet takes what is left of a character and the first bits of the next; every seventh
\* octet takes all of that one, so that it is skipped: i and carry for the k-th octet.
PlaceUnskipped(k) == k - 1                  \* mutant: the character is sent twice
Place(k) == k - 1 + (k - 1) \div 7
Carry(k) == ((k - 1) % 7) + 1
EncodePDUMessage(t) ==
    LET nul == Append(t, 0)
        char(k) == Low7(nul[Place(k) + 1]) \div 2^(Carry(k) - 1)
        octet(k) == (char(k) + Low7(t[Place(k) + 2]) * 2^(8 - Carry(k))) % 256
        whole == Cardinality({k \in DOMAIN t : Place(k) < Len(t) - 1})
    IN  Append([k \in 1 .. whole |-> octet(k)], char(whole + 1))

\* An octet gives a character, the seventh two; what is left at the end is the last one.
DecodePDUMessage(b, n) ==
    LET take(a, c) == IF a.full THEN a ELSE [a EXCEPT !.out = Append(@, c), !.full = Len(a.out) + 1 = n]
        octet(a, i) ==
            LET whole == take(a, (b[i + 1] * 2^a.carry + b[i] \div 2^(8 - a.carry)) % 128)
            IN  IF whole.full THEN whole
                ELSE IF a.carry = 7 THEN [take(whole, b[i + 1] % 128) EXCEPT !.carry = 1]
                ELSE [whole EXCEPT !.carry = a.carry + 1]
        first == [out |-> IF b = <<>> THEN <<>> ELSE <<b[1] % 128>>, carry |-> 1, full |-> FALSE]
        s == FoldLeft(LAMBDA a, i : IF a.full THEN a ELSE octet(a, i), first, [i \in 1 .. Len(b) - 1 |-> i])
    IN  IF Len(s.out) < n THEN Append(s.out, b[Len(b)] \div 2^(8 - s.carry)) ELSE s.out

\* Two digits an octet, the first in the low half; the last of an odd number gets an F.
EncodePhoneNumber(p) ==
    [k \in 1 .. (Len(p) + 1) \div 2 |-> p[2 * k - 1] + 16 * (IF 2 * k \in DOMAIN p THEN p[2 * k] ELSE 15)]
DecodePhoneNumber(b, n) == [k \in 1 .. n |-> IF k % 2 = 1 THEN b[(k + 1) \div 2] % 16 ELSE b[k \div 2] \div 16]
SwapDecimalNibble(x) == x \div 16 + (x % 16) * 10

International == 145
SMS_SUBMIT == 17
SMS_DELIVER_ONE_MESSAGE == 4
SMS_MAX_7BIT_TEXT_LENGTH == 160
Center(center) ==
    IF center = <<>> THEN <<0>>
    ELSE LET number == EncodePhoneNumber(center) IN <<Len(number) + 1, International>> \o number
\* The empty sequence stands for the error.
EncodeSMS(center, phone, t) ==
    IF Len(t) > SMS_MAX_7BIT_TEXT_LENGTH THEN <<>>
    ELSE Center(center) \o <<SMS_SUBMIT, 0, Len(phone), International>> \o EncodePhoneNumber(phone)
           \o <<0, 0, 176, Len(t)>> \o EncodePDUMessage(t)

DecodeSMS(b) ==
    LET start == 1 + b[1]                       \* positions as in the code, from 0
        digits == b[start + 2]
        pid == start + 3 + (digits + 1) \div 2
        at == pid + 9
        n == b[at + 1]
        t == DecodePDUMessage(SubSeq(b, at + 2, Len(b)), n)
    IN  IF \/ start + 1 > Len(b) \/ (b[start + 1] \div SMS_DELIVER_ONE_MESSAGE) % 2 = 0
           \/ at + 1 > Len(b) \/ Len(t) # n
        THEN Refused
        ELSE [ok |-> TRUE, text |-> t,
              phone |-> DecodePhoneNumber(SubSeq(b, start + 4, Len(b)), digits),
              stamp |-> [k \in 1 .. 7 |-> SwapDecimalNibble(b[pid + 2 + k])]]

\* The same once more for the program sms.
pdu_encode(center, phone, t) == EncodeSMS(center, phone, t)
pdu_decode(b) == DecodeSMS(b)

-----------------------------------------------------------------------------
(* The network takes a PDU that it understands and delivers one; a telephone packs and *)
(* unpacks bit after bit.                                                               *)
Bit(b, k) == IF k \div 8 < Len(b) THEN (b[k \div 8 + 1] \div 2^(k % 8)) % 2 ELSE 0
SeptetBit(t, k) == IF k \div 7 < Len(t) THEN (t[k \div 7 + 1] \div 2^(k % 7)) % 2 ELSE 0
Number(bit(_), n) == FoldLeft(LAMBDA a, k : 2 * a + bit(n - k), 0, [k \in 1 .. n |-> k])
Packed(t) == [o \in 1 .. (7 * Len(t) + 7) \div 8 |-> Number(LAMBDA k : SeptetBit(t, 8 * (o - 1) + k), 8)]
Unpacked(b, n) == [c \in 1 .. n |-> Number(LAMBDA k : Bit(b, 7 * (c - 1) + k), 7)]

Swapped(x) == (x % 10) * 16 + x \div 10
PhoneReads(b) ==
    LET start == 1 + b[1]
        digits == b[start + 3]
        at == start + 5 + (digits + 1) \div 2 + 3
    IN  IF b[start + 1] # SMS_SUBMIT THEN Refused
        ELSE [ok |-> TRUE, text |-> Unpacked(SubSeq(b, at + 1, Len(b)), b[at]),
              phone |-> DecodePhoneNumber(SubSeq(b, start + 5, Len(b)), digits), stamp |-> <<>>]
PhoneSends(c) ==
    Center(c.center) \o <<SMS_DELIVER_ONE_MESSAGE, Len(c.phone), International>> \o EncodePhoneNumber(c.phone)
      \o <<0, 0>> \o [k \in 1 .. 7 |-> Swapped(c.stamp[k])] \o <<Len(c.text)>> \o Packed(c.text)

Statuses == {[kind |-> "status", report |-> r, text |-> <<>>, phone |-> p, center |-> <<>>, stamp |-> <<>>] :
                r \in Reports, p \in Phones}
Shouts == {[kind |-> "tool", report |-> <<>>, text |-> t, phone |-> p, center |-> c, stamp |-> <<>>] :
                t \in Texts, p \in Phones, c \in Phones \cup {<<>>}}
Orders == {[kind |-> "command", report |-> <<>>, text |-> t, phone |-> p, center |-> c, stamp |-> s] :
                t \in Texts, p \in Phones, c \in Phones \cup {<<>>}, s \in Stamps}
Init ==
    /\ todo \in Statuses \cup Shouts \cup Orders
    /\ text = <<>> /\ octets = <<>> /\ read = Nothing

\* statusd composes, modemd encodes; the program sms encodes what it is given; the operator's
\* telephone does it by itself.
Compose ==
    /\ text = <<>> /\ todo.kind = "status"
    /\ text' = BuildStatusMessage(todo.report)
    /\ UNCHANGED <<todo, octets, read>>
Send ==
    /\ octets = <<>>
    /\ CASE todo.kind = "command" -> octets' = PhoneSends(todo) /\ text' = todo.text
         [] todo.kind = "tool" -> octets' = pdu_encode(todo.center, todo.phone, todo.text) /\ text' = todo.text
         [] todo.kind = "status" -> /\ text # <<>> /\ octets' = EncodeSMS(<<>>, todo.phone, text)
                                    /\ UNCHANGED text
    /\ UNCHANGED <<todo, read>>
Receive ==
    /\ octets # <<>> /\ read = Nothing
    /\ read' \in IF todo.kind = "command" THEN {DecodeSMS(octets), pdu_decode(octets)} ELSE {PhoneReads(octets)}
    /\ UNCHANGED <<todo, text, octets>>
Next == Compose \/ Send \/ Receive
Spec == Init /\ [][Next]_vars

-----------------------------------------------------------------------------
\* The parts of a status where status.cc:26-56 says they are: forty characters in all.
Field(at, s) == SubSeq(read.text, at + 1, at + Len(s)) = s
Legible(r) ==
    /\ Field(0, Times(8, "date"))
    /\ r.gps = "known" => Field(8, <<Char.G, Char.N>> \o Times(6, "pos") \o <<Char.E>> \o Times(7, "pos"))
    /\ r.gps = "none" /\ r.iridium = "known" => Field(8, <<Char.I, Char.N>> \o Times(6, "pos"))
    /\ r.gps = "none" /\ r.iridium = "old" => Field(8, Times(16, "X"))
    /\ Field(24, Times(3, IF r.bearing THEN "bearing" ELSE "X"))
    /\ Field(27, Times(2, IF r.speed = "ahead" THEN "speed" ELSE "X"))
    /\ r.true = "both" => Field(29, <<Char.T>> \o Times(3, "dir") \o Times(2, "wind"))
    /\ r.true = "none" /\ r.apparent = "both" => Field(29, <<Char.R>> \o Times(3, "dir") \o Times(2, "wind"))
    /\ r.true = "none" /\ r.apparent = "none" => Field(29, Times(6, "X"))
    /\ Field(35, <<IF r.battery THEN Char.battery ELSE Char.Q, IF r.fuel THEN Char.fuel ELSE Char.Q,
                   Char.tacks, Char.jibes, Char.inits>>)
    /\ Len(read.text) = 40 + IF r.other > 120 THEN 120 ELSE r.other
\* Not so: a speed of two digits or of three characters, and a wind without its speed, which
\* ends the text there.
Awkward(r) ==
    r.speed \in {"fast", "astern"} \/ r.true = "angle" \/ (r.true = "none" /\ r.apparent = "angle")

\* What is written by SMS is read as it was written, whatever its length, also one that ends
\* with an octet (sms.c:48-103); the boat's status has every field at its place whatever is
\* known of it, and a command its sender and time (status.cc:70-170, sms.c:217-279).
ReadAsWritten ==
    read # Nothing =>
        /\ read.ok /\ read.text = text /\ read.phone = todo.phone
        /\ todo.kind = "command" => read.stamp = todo.stamp
        /\ todo.kind = "status" => Awkward(todo.report) \/ Legible(todo.report)
=============================================================================
