--------------------------------- MODULE Aivdm ---------------------------------
(***************************************************************************)
(* The AIS receiver's sentences, put together and decoded by aivdm_decode            *)
(* (io2/aivdm.c) for nmeacat.  A long message comes in numbered fragments; each radio     *)
(* channel has a context that collects them, and that keeps the name of a class B ship,     *)
(* which comes in a message of its own (24A) before the rest (24B).  The bits of a             *)
(* message are not modelled but for whose they are: a collected fragment is                      *)
(* [msg, frag].  Where the fields are is AisFields.                                                 *)
(***************************************************************************)
EXTENDS AisFields

Member == INSTANCE AisTypes

CONSTANTS Traffic,      \* messages, all of them sent in some order
          Samples,      \* messages, one of which is sent alone
          MaxLoss       \* bound on lost sentences

\* A message: [id, channel, type, mmsi, bits, part, addressed, structured, nfrags].
NoMessage == [id |-> "none", channel |-> "A", type |-> 0, mmsi |-> 0, bits |-> 0, part |-> 0,
              addressed |-> FALSE, structured |-> FALSE, nfrags |-> 0]
Context == [decoded_frags |-> 0, bits |-> <<>>, mmsi24 |-> 0, shipname24 |-> 0]
NoResult == [head |-> NoMessage, from |-> <<>>, shipname |-> 0]

VARIABLES todo,         \* the messages still to be sent
          air,          \* the sentences under way, by channel
          contexts,     \* ais_contexts
          ais,          \* the last message decoded: its head, its fragments, a name
          losses
vars == <<todo, air, contexts, ais, losses>>
Channels == {"A", "B"}

\* The channel field: nothing stands for A, the digits for the letters.
ContextOf(field) == CASE field \in {"", "1", "A"} -> "A"
                      [] field \in {"2", "B"} -> "B"
                      [] OTHER -> "none"
Way(field) == IF ContextOf(field) = "none" THEN "A" ELSE ContextOf(field)

-----------------------------------------------------------------------------
(* The switch on the type: which sizes are taken, and the fields that are read. *)
SizeOk(m) ==
    CASE m.type \in {1, 2, 3, 4, 9, 11, 18, 22} -> m.bits = 168
      [] m.type = 5 -> m.bits = 424
      [] m.type = 6 -> m.bits \in 88 .. 1008
      [] m.type \in {7, 13} -> m.bits \in 72 .. 168
      [] m.type = 8 -> m.bits \in 56 .. 1008
      [] m.type = 10 -> m.bits = 72
      [] m.type = 12 -> m.bits \in 72 .. 1008
      [] m.type = 14 -> m.bits \in 40 .. 1008
      [] m.type = 15 -> m.bits \in 88 .. 168
      [] m.type = 16 -> m.bits \in {96, 144}
      [] m.type = 17 -> m.bits \in 80 .. 816
      [] m.type = 19 -> m.bits = 312
      [] m.type = 20 -> m.bits \in 72 .. 160
      [] m.type = 21 -> m.bits \in 272 .. 360
      [] m.type = 23 -> m.bits = 160
      [] m.type = 24 -> m.bits = (IF m.part = 0 THEN 160 ELSE 168) /\ m.part \in {0, 1}
      [] m.type = 25 -> m.bits \in 40 .. 168
      [] m.type = 26 -> m.bits \in 60 .. 1004
      [] OTHER -> m.type = 27
\* Types 25 and 26 must also have room for what their flags announce.
RoomOk(m) ==
    m.type \in {25, 26} => m.bits >= 40 + (IF m.structured THEN 16 ELSE 0) + (IF m.addressed THEN 30 ELSE 0)
                                        + (IF m.type = 26 THEN 20 ELSE 0)

Until(layout, bits) == [f \in {g \in DOMAIN layout : layout[g][1] < bits} |-> layout[f]]
FieldsOf(m) ==
    CASE m.type \in {1, 2, 3} -> Type1    [] m.type \in {4, 11} -> Type4   [] m.type = 5 -> Type5
      [] m.type = 6 -> Type6
      [] m.type \in {7, 13} -> Type7(Cardinality({u \in 0 .. 3 : m.bits > 40 + 32 * u}))
      [] m.type = 8 -> Type8   [] m.type = 9 -> Type9    [] m.type = 10 -> Type10  [] m.type = 12 -> Type12
      [] m.type = 14 -> Type14
      [] m.type = 15 -> Until(Type15, IF m.bits > 110 THEN 168 ELSE IF m.bits > 90 THEN 110 ELSE 88)
      [] m.type = 16 -> Until(Type16, IF m.bits < 144 THEN 92 ELSE 144)
      [] m.type = 17 -> Type17 [] m.type = 18 -> Type18  [] m.type = 19 -> Type19  [] m.type = 20 -> Type20
      [] m.type = 21 -> Type21 [] m.type = 22 -> (IF m.addressed THEN Type22Addressed ELSE Type22)
      [] m.type = 23 -> Type23
      [] m.type = 24 -> (IF m.part = 0 THEN Type24A ELSE IF m.addressed THEN Type24BAuxiliary ELSE Type24B)
      [] m.type \in {25, 26} -> Type25(m.addressed, m.structured, m.bits - (IF m.type = 26 THEN 20 ELSE 0))
      [] m.type = 27 -> Type27

\* A complete message c of bits from m: the context after, and the result or none.
Decode(ctx, m, from) ==
    LET shed == [ctx EXCEPT !.decoded_frags = 0, !.bits = from]
        rejected == ~SizeOk(m) \/ ~RoomOk(m)
        result(n) == [head |-> m, from |-> from, shipname |-> n]
    IN  IF rejected THEN <<shed, NoResult>>
        ELSE IF m.type = 24 /\ m.part = 0
             THEN <<[shed EXCEPT !.mmsi24 = m.mmsi, !.shipname24 = m.mmsi], NoResult>>
        ELSE IF m.type = 24 /\ ctx.mmsi24 # m.mmsi THEN <<shed, NoResult>>
        ELSE IF m.type = 24 THEN <<[shed EXCEPT !.mmsi24 = 0], result(ctx.shipname24)>>
        ELSE <<shed, result(0)>>

\* What the head of the collected bits says they are: the first fragment's message, with
\* as many bits as there are.
BitsIn(from) == IF from = <<>> THEN 0
                ELSE MapThenSumSet(LAMBDA i : from[i].size, DOMAIN from)
HeadOf(from) == [from[1].msg EXCEPT !.bits = BitsIn(from)]

\* Fragments must come in order; a first one starts anew whatever was collected.
InOrderAlways(ctx, s) == s.ifrag >= ctx.decoded_frags + 1          \* mutant: a gap not noticed
InOrder(ctx, s) == s.ifrag = ctx.decoded_frags + 1
AivdmDecode(s) ==
    LET c == ContextOf(s.channel)
        ctx == contexts[c]
        kept == IF s.ifrag = 1 THEN <<>> ELSE ctx.bits
        from == Append(kept, [msg |-> s.msg, frag |-> s.ifrag, size |-> s.bits])
        step == IF ~InOrder(ctx, s) /\ s.ifrag # 1 THEN <<ctx, NoResult>>
                ELSE IF s.ifrag # s.nfrags THEN <<[ctx EXCEPT !.bits = from, !.decoded_frags = s.ifrag], NoResult>>
                ELSE Decode(ctx, HeadOf(from), from)
    IN  IF c = "none" THEN UNCHANGED <<contexts, ais>>
        ELSE /\ contexts' = [contexts EXCEPT ![c] = step[1]]
             /\ ais' = IF step[2] = NoResult THEN ais ELSE step[2]

-----------------------------------------------------------------------------
\* A message goes out as its fragments, one after the other, on its channel: the last
\* one takes what is left of the bits, the others 60 characters.
Sentences(m) == [i \in 1 .. m.nfrags |->
    [channel |-> m.channel, nfrags |-> m.nfrags, ifrag |-> i, msg |-> m,
     bits |-> IF i < m.nfrags THEN 360 ELSE m.bits - 360 * (m.nfrags - 1)]]
Transmit ==
    /\ \E m \in todo : /\ todo' = todo \ {m}
                       /\ air' = [air EXCEPT ![Way(m.channel)] = @ \o Sentences(m)]
    /\ UNCHANGED <<contexts, ais, losses>>

Receive == \E c \in Channels :
    /\ air[c] # <<>> /\ air' = [air EXCEPT ![c] = Tail(@)]
    /\ AivdmDecode(Head(air[c]))
    /\ UNCHANGED <<todo, losses>>

Lose == \E c \in Channels :
    /\ air[c] # <<>> /\ losses < MaxLoss
    /\ air' = [air EXCEPT ![c] = Tail(@)]
    /\ losses' = losses + 1
    /\ UNCHANGED <<todo, contexts, ais>>

Init ==
    /\ todo \in {Traffic} \cup {{m} : m \in Samples}
    /\ air = [c \in Channels |-> <<>>]
    /\ contexts = [c \in Channels |-> Context]
    /\ ais = NoResult /\ losses = 0
Next == Transmit \/ Receive \/ Lose
Spec == Init /\ [][Next]_vars

-----------------------------------------------------------------------------
\* A message that is decoded was sent like that: its fragments are those of one message,
\* all of them and in order, though the sequence number of the sentences is never looked
\* at (aivdm.c:265-282), and a ship is given its own name (aivdm.c:1040-1066), whatever
\* comes on the other channel and whichever sentence is lost.  (Two lost in a row can glue
\* the head of one message to the tail of the next.)
DecodedWasSent ==
    ais # NoResult =>
        /\ \A i \in DOMAIN ais.from : ais.from[i].frag = i /\ ais.from[i].msg = ais.from[1].msg
        /\ Len(ais.from) = ais.from[1].msg.nfrags
        /\ ais.head.type = 24 => ais.shipname = ais.head.mmsi

Disjoint(layout) == \A f, g \in DOMAIN layout : f # g =>
    layout[f][1] + layout[f][2] <= layout[g][1] \/ layout[g][1] + layout[g][2] <= layout[f][1]
Within(layout, first, last) == \A f \in DOMAIN layout :
    layout[f][1] >= first /\ layout[f][1] + layout[f][2] <= last
Misread(m) == m.type \in {1, 2, 3, 8, 19, 23} \/ (m.type \in {25, 26} /\ m.addressed)

StructOf(m) ==
    CASE m.type \in {1, 2, 3} -> Member!Type1 [] m.type \in {4, 11} -> Member!Type4 [] m.type = 5 -> Member!Type5
      [] m.type = 6 -> Member!Type6   [] m.type \in {7, 13} -> Member!Type7 [] m.type = 8 -> Member!Type8
      [] m.type = 9 -> Member!Type9   [] m.type = 10 -> Member!Type10 [] m.type = 12 -> Member!Type12
      [] m.type = 14 -> Member!Type14 [] m.type = 15 -> Member!Type15 [] m.type = 16 -> Member!Type16
      [] m.type = 17 -> Member!Type17 [] m.type = 18 -> Member!Type18 [] m.type = 19 -> Member!Type19
      [] m.type = 20 -> Member!Type20 [] m.type = 21 -> Member!Type21
      [] m.type = 22 -> (IF m.addressed THEN Member!Type22Addressed ELSE Member!Type22)
      [] m.type = 23 -> Member!Type23 [] m.type = 24 -> Member!Type24 [] m.type = 25 -> Member!Type25
      [] m.type = 26 -> Member!Type26 [] m.type = 27 -> Member!Type27
\* Every field goes to a member of its name that can hold it, and is read as negative when the
\* member may be, but for the place of type 17.
Held(layout, struct) ==
    /\ DOMAIN layout \subseteq Member!Members(struct) \cup {"spare", "spare2", "spare3", "spare4", "part"}
    /\ LET negative == SBits(layout) \cup (DOMAIN layout \cap Lowered)
           place == IF layout = Type17 THEN {"lon", "lat"} ELSE {}
       IN  /\ negative \ {"pressure", "dest1", "dest2"} \subseteq struct.int
           /\ (DOMAIN layout \cap struct.int) \ {"waycount"} \subseteq negative \cup place
    /\ \A f \in DOMAIN layout : /\ f \in struct.unsigned => layout[f][2] <= 32
                                /\ f \in struct.bool => layout[f][2] <= 8
\* And every member has a field, but for those that are computed or copied as a whole.
Filled(layout, struct) ==
    Member!Members(struct) \subseteq
        DOMAIN layout \cup {"bitcount", "bitdata", "text", "waycount", "accuracy", "visgreater"}
InPart(m) == m.type \in {7, 13, 15, 16, 24, 26}

\* The fields that are read lie in the message, none of their bits belong to another, and
\* each of them has a member of the message's struct in ais.h that can hold what is read and
\* is signed when that is; no member is forgotten: the decoder's some three hundred literal
\* offsets agree with its widths and with the header (aivdm.c:296-1150).  Not so: the radio
\* of types 1-3 is a bit too long; the fid of type 8 is read from the dac; the end of 19 and
\* of 23; the data of an addressed 25 or 26, as its comment says; the radio of 26, never set;
\* the air pressure, 800 too low for its unsigned; the stations of an addressed 22, read as
\* signed; the place of type 17, read as unsigned though the header has it signed.
FieldsFit ==
    /\ ais # NoResult /\ ~Misread(ais.head) =>
          Disjoint(FieldsOf(ais.head)) /\ Within(FieldsOf(ais.head), 38, ais.head.bits)
    /\ ais # NoResult => /\ Held(FieldsOf(ais.head), StructOf(ais.head))
                         /\ InPart(ais.head) \/ Filled(FieldsOf(ais.head), StructOf(ais.head))
    /\ ais # NoResult /\ ais.head.type \in {6, 8} =>       \* what their text is read as
          /\ \A layout \in {Dac1fid12, Dac1fid18, Dac1fid20, Dac1fid28} :
                Disjoint(layout) /\ Within(layout, 88, 360)
          /\ \A layout \in {Dac1fid11, Dac1fid13, Dac1fid19, Dac1fid27} :
                Disjoint(layout) /\ Within(layout, 56, 472)
          /\ \A e \in {<<Dac1fid14, 93>>, <<Dac1fid25, 17>>, <<Waypoint, 55>>, <<Dac1fid32, 88>>, <<Dac1fid17, 122>>} :
                Disjoint(e[1]) /\ Within(e[1], 0, e[2])
          /\ \A e \in {<<Dac1fid12, Member!Dac1fid12>>, <<Dac1fid18, Member!Dac1fid18>>, <<Dac1fid20, Member!Dac1fid20>>,
                       <<Dac1fid28, Member!RouteInfo>>, <<Dac1fid27, Member!RouteInfo>>, <<Waypoint, Member!Waypoint>>,
                       <<Dac1fid14, Member!Tidal>>, <<Dac1fid32, Member!Tidal>>, <<Dac1fid25, Member!Cargo>>,
                       <<Dac1fid13, Member!Dac1fid13>>, <<Dac1fid17, Member!Target>>, <<Dac1fid19, Member!Dac1fid19>>,
                       <<Dac1fid11, Member!Dac1fid31>>, <<Dac1fid31, Member!Dac1fid31>>} :
                Held(e[1], e[2]) /\ Filled(e[1], e[2])
=============================================================================
