------------------------------- MODULE LineBus -------------------------------
(***************************************************************************)
(* io2/linebusd_main.c: the daemon that copies every line a client writes to  *)
(* all other clients that want it.  One action per phase of its main loop,      *)
(* with the clients, each a program at the other end of a socket, running in     *)
(* between.  A buffer or socket holds whole lines here; how lines are cut out    *)
(* of the stream of characters is LineBuffer's.                                   *)
(***************************************************************************)
EXTENDS Integers, FiniteSets, SequencesExt

CONSTANTS Clients,      \* the programs on the bus
          Pfxs,     \* what lines begin with and clients may subscribe to
          Commands(_),  \* the commands a client may give: see HandleCmd
          Talkers,      \* the clients that send lines
          MaxLines,     \* bound on the lines a client sends; 0: endless, not numbered
          SocketRoom,   \* lines in a socket, each way
          OutRoom,      \* lines in a client's out buffer
          DropLimit,    \* 100 in the code
          MaxConnects,  \* bound on connections, over all clients
          MaxCommands,  \* bound on commands, over all clients
          MayHang,      \* clients that may stop reading
          MayLeave      \* clients that may exit

ASSUME LineBusAssumption ==
    /\ IsFiniteSet(Clients)
    /\ Talkers \subseteq Clients /\ MayHang \subseteq Clients /\ MayLeave \subseteq Clients
    /\ {MaxLines, DropLimit, MaxConnects, MaxCommands} \subseteq Nat
    /\ {SocketRoom, OutRoom} \subseteq Nat \ {0}

CommandNames == {"name", "kill", "xoff", "xon", "precious", "subscribe", "stats"}
ASSUME CommandsAssumption ==
    \A c \in Clients : Commands(c) \subseteq [cmd : CommandNames, from : {c}, no : {0}, pfx : Pfxs \cup Clients]

\* A line is a text [from, no, pfx], or a command to the daemon.
Text(c, n, p) == [cmd |-> "none", from |-> c, no |-> n, pfx |-> p]
Command(name, c, p) == [cmd |-> name, from |-> c, no |-> 0, pfx |-> p]

VARIABLES
    \* the daemon
    clients,            \* its list of clients, in order
    cl,                 \* struct Client of each in the list
    filters,            \* prefix -> refcount, of the filters it has
    pc, rfds, wfds,     \* where it is in its loop, and what pselect said
    up,                 \* FALSE after crash()
    \* its environment
    peer,               \* client -> "away", "waiting" for accept, "there" or "gone"
    hung,               \* clients that have stopped reading
    to, from,           \* sockets: client -> lines to the daemon, lines from it
    left,               \* connections and commands left
    \* history
    sent,               \* client -> texts it has sent
    heard               \* client -> texts put into its out buffer

daemon == <<clients, cl, filters, pc, rfds, wfds, up>>
vars == <<clients, cl, filters, pc, rfds, wfds, up, peer, hung, to, from, left, sent, heard>>

NewClient == [open |-> TRUE, out |-> <<>>, named |-> FALSE, xoff |-> FALSE,
              precious |-> FALSE, dropped |-> 0, filters |-> <<>>]
Listed == Range(clients)

Init ==
    /\ clients = <<>> /\ cl = [c \in Clients |-> NewClient] /\ filters = [p \in {} |-> 0]
    /\ pc = "select" /\ rfds = {} /\ wfds = {} /\ up = TRUE
    /\ peer = [c \in Clients |-> "away"] /\ hung = {}
    /\ to = [c \in Clients |-> <<>>] /\ from = [c \in Clients |-> <<>>]
    /\ left = [connects |-> MaxConnects, commands |-> MaxCommands]
    /\ sent = [c \in Clients |-> 0] /\ heard = [c \in Clients |-> <<>>]

-----------------------------------------------------------------------------
(* Filters, counted from 0 for the first reference.                          *)

NewFilterFresh(fs, p) ==                \* mutant: a second reference is not counted
    IF p \in DOMAIN fs THEN fs ELSE [q \in DOMAIN fs \cup {p} |-> IF q = p THEN 0 ELSE fs[q]]
NewFilter(fs, p) == [q \in DOMAIN fs \cup {p} |->
                       IF q # p THEN fs[q] ELSE IF p \in DOMAIN fs THEN fs[p] + 1 ELSE 0]

\* The entries of the filter lists of the clients cs that are p.
Uses(k, p, cs) == UNION {{<<c, i>> : i \in {j \in DOMAIN k[c].filters : k[c].filters[j] = p}} : c \in cs}

\* free_filters of all the clients in gone.
Freed(fs, gone) == [p \in DOMAIN fs |-> fs[p] - Cardinality(Uses(cl, p, gone))]
ReapFilters(fs) == [p \in {q \in DOMAIN fs : fs[q] >= 0} |-> fs[p]]

-----------------------------------------------------------------------------
(* What a line does to the daemon's clients: s is [cl, filters, heard].       *)

Close(k) == [k EXCEPT !.open = FALSE]
Full(k) == Len(k.out) >= OutRoom

\* handle_cmd.  The name a client gives itself is its own; the answer to stats is
\* one line for each client, as many as fit.
HandleCmd(s, l) ==
    CASE l.cmd = "name"      -> [s EXCEPT !.cl[l.from].named = TRUE]
      [] l.cmd = "kill"      -> [s EXCEPT !.cl = [c \in Clients |->
                                   IF c \in Listed /\ @[c].named /\ c = l.pfx THEN Close(@[c]) ELSE @[c]]]
      [] l.cmd = "xoff"      -> [s EXCEPT !.cl[l.from].xoff = TRUE]
      [] l.cmd = "xon"       -> [s EXCEPT !.cl[l.from].xoff = FALSE]
      [] l.cmd = "precious"  -> [s EXCEPT !.cl[l.from].precious = TRUE]
      [] l.cmd = "subscribe" -> [s EXCEPT !.cl[l.from].filters = <<l.pfx>> \o @,
                                          !.filters = NewFilter(@, l.pfx)]
      [] l.cmd = "stats"     ->
            LET answer == s.cl[l.from].out \o [i \in DOMAIN clients |-> l]
            IN  [s EXCEPT !.cl[l.from].out = SubSeq(answer, 1, IF Len(answer) < OutRoom THEN Len(answer) ELSE OutRoom)]

Wants(k, l) == ~k.xoff /\ (k.filters = <<>> \/ l.pfx \in Range(k.filters))

\* client_puts and what follows from its result.  Beyond DropLimit + 1 dropped is
\* not counted on.
OfferNeverHung(k, l) ==                 \* mutant: drops are forgotten at once
    IF Full(k) THEN k ELSE [k EXCEPT !.out = Append(@, l)]
Offer(k, l) ==
    IF ~Full(k) THEN [k EXCEPT !.out = Append(@, l), !.dropped = @ \div 2]
    ELSE LET d == [k EXCEPT !.dropped = IF @ > DropLimit THEN @ ELSE @ + 1]
         IN  IF d.precious /\ d.dropped > DropLimit THEN Close(d) ELSE d

Receivers(s, l) == {c \in Listed \ {l.from} : s.cl[c].open /\ Wants(s.cl[c], l)}

Dispatch(s, l) ==
    IF l.cmd # "none" THEN HandleCmd(s, l)
    ELSE [s EXCEPT
            !.cl = [c \in Clients |-> IF c \in Receivers(s, l) THEN Offer(@[c], l) ELSE @[c]],
            !.heard = [c \in Clients |-> IF MaxLines > 0 /\ c \in Receivers(s, l) /\ ~Full(s.cl[c])
                                         THEN Append(@[c], l) ELSE @[c]]]

-----------------------------------------------------------------------------
(* The main loop.                                                             *)

Alive(c) == c \in Listed /\ cl[c].open
HasInput(c) == from[c] # <<>> \/ peer[c] = "gone"       \* lines, or the end of the file
HasRoom(c) == Len(to[c]) < SocketRoom \/ peer[c] = "gone"
Listening == \E c \in Clients : peer[c] = "waiting"

\* Who is closed by the daemon sees its own end of the file and exits.
Hangups(k) == [c \in Clients |-> IF c \in Listed /\ ~k[c].open /\ peer[c] = "there"
                                 THEN "gone" ELSE peer[c]]

Readable == {c \in Clients : Alive(c) /\ HasInput(c)}
Writable == {c \in Clients : Alive(c) /\ cl[c].out # <<>> /\ HasRoom(c)}
CanSelect == Readable # {} \/ Writable # {} \/ Listening

\* pselect
Select ==
    /\ pc = "select" /\ CanSelect
    /\ rfds' = Readable \cup (IF Listening THEN {"sck"} ELSE {})
    /\ wfds' = Writable
    /\ pc' = "write"
    /\ UNCHANGED <<clients, cl, filters, up, peer, hung, to, from, left, sent, heard>>

\* client_write for all writable clients; with one that is not done the rest of
\* the loop is skipped.
Write ==
    /\ pc = "write"
    /\ LET now == {c \in wfds : Alive(c)}
           n(c) == IF Len(cl[c].out) < SocketRoom - Len(to[c]) THEN Len(cl[c].out)
                                                               ELSE SocketRoom - Len(to[c])
           written == {c \in now : peer[c] = "there"}
       IN  /\ cl' = [c \in Clients |->
                       IF c \in written THEN [cl[c] EXCEPT !.out = SubSeq(@, n(c) + 1, Len(@))]
                       ELSE IF c \in now THEN Close(cl[c]) ELSE cl[c]]
           /\ to' = [c \in Clients |-> IF c \in written THEN to[c] \o SubSeq(cl[c].out, 1, n(c)) ELSE to[c]]
           /\ IF \E c \in written : n(c) < Len(cl[c].out)
              THEN pc' = "select" /\ rfds' = {}
              ELSE pc' = "read" /\ UNCHANGED rfds
    /\ wfds' = {}
    /\ UNCHANGED <<clients, filters, up, peer, hung, from, left, sent, heard>>

RotateNot(i) == clients                 \* mutant: the last one read stays in front
Rotate(i) == Append(RemoveAt(clients, i), clients[i])
DrainBackwards(lines) == Reverse(lines)                 \* mutant: newest line first
Drain(lines) == lines

\* What the lines do, one after the other.
Handled(s, lines) ==
    LET after[k \in 0 .. Len(lines)] == IF k = 0 THEN s ELSE Dispatch(after[k - 1], lines[k])
    IN  after[Len(lines)]

\* The first client of the list that has a line: its lines are handled one by one.
\* Those before it that are at the end of their file are closed.
Read ==
    /\ pc = "read"
    /\ LET ready(i) == clients[i] \in rfds /\ Alive(clients[i])
           speaks(i) == ready(i) /\ from[clients[i]] # <<>>
           first == IF \E i \in DOMAIN clients : speaks(i)
                    THEN CHOOSE i \in DOMAIN clients : speaks(i) /\ \A j \in 1 .. i - 1 : ~speaks(j)
                    ELSE Len(clients) + 1
           ended == {clients[i] : i \in {j \in 1 .. first - 1 : ready(j)}}
           here == [c \in Clients |-> IF c \in ended THEN Close(cl[c]) ELSE cl[c]]
       IN  IF first > Len(clients)
           THEN /\ cl' = here /\ peer' = Hangups(here)
                /\ UNCHANGED <<clients, filters, from, heard>>
           ELSE LET c == clients[first]
                IN  \E n \in 1 .. Len(from[c]) :
                      LET after == Handled([cl |-> here, filters |-> filters, heard |-> heard],
                                           Drain(SubSeq(from[c], 1, n)))
                      IN  /\ cl' = after.cl /\ filters' = after.filters /\ heard' = after.heard
                          /\ peer' = Hangups(after.cl)
                          /\ from' = [from EXCEPT ![c] = SubSeq(@, n + 1, Len(@))]
                          /\ clients' = Rotate(first)
    /\ pc' = "reap" /\ rfds' = rfds \cap {"sck"}
    /\ UNCHANGED <<wfds, up, hung, to, left, sent>>

\* The list without the clients that are not open.
OpenOnly(list, open) ==
    LET kept[i \in 0 .. Len(list)] ==
            IF i = 0 THEN <<>>
            ELSE IF list[i] \in open THEN Append(kept[i - 1], list[i]) ELSE kept[i - 1]
    IN  kept[Len(list)]

\* reap_clients, which crashes for a precious one, reap_filters, and new_client.
Loses(c) == cl[c].precious
Reap ==
    /\ pc = "reap"
    /\ LET gone == {c \in Listed : ~cl[c].open}
           rest == OpenOnly(clients, Listed \ gone)
           accept(c) == "sck" \in rfds /\ peer[c] = "waiting"
       IN  IF \E c \in gone : Loses(c)
           THEN up' = FALSE /\ pc' = "down" /\ UNCHANGED <<clients, cl, filters, peer>>
           ELSE /\ filters' = ReapFilters(Freed(filters, gone))
                /\ cl' = [c \in Clients |-> IF c \in Range(rest) THEN cl[c] ELSE NewClient]
                /\ IF \E c \in Clients : accept(c)
                   THEN \E c \in Clients : accept(c) /\ clients' = <<c>> \o rest
                                           /\ peer' = [peer EXCEPT ![c] = "there"]
                   ELSE clients' = rest /\ UNCHANGED peer
                /\ pc' = "select" /\ UNCHANGED up
    /\ rfds' = {}
    /\ UNCHANGED <<wfds, hung, to, from, left, sent, heard>>

Daemon == Select \/ Write \/ Read \/ Reap

-----------------------------------------------------------------------------
(* The programs at the other ends.                                            *)

Connect(c) ==
    /\ up /\ peer[c] \in {"away", "gone"} /\ c \notin Listed /\ left.connects > 0
    /\ left' = [left EXCEPT !.connects = @ - 1]
    /\ peer' = [peer EXCEPT ![c] = "waiting"]
    /\ to' = [to EXCEPT ![c] = <<>>] /\ from' = [from EXCEPT ![c] = <<>>]
    /\ hung' = hung \ {c}
    /\ UNCHANGED <<daemon, sent, heard>>

CanSay(c) == up /\ peer[c] = "there" /\ Len(from[c]) < SocketRoom
Say(c) ==
    /\ CanSay(c) /\ (MaxLines = 0 \/ sent[c] < MaxLines)
    /\ sent' = [sent EXCEPT ![c] = IF MaxLines = 0 THEN 0 ELSE @ + 1]
    /\ \E p \in Pfxs : from' = [from EXCEPT ![c] = Append(@, Text(c, sent'[c], p))]
    /\ UNCHANGED <<daemon, peer, hung, to, left, heard>>

Order(c) ==
    /\ CanSay(c) /\ left.commands > 0
    /\ left' = [left EXCEPT !.commands = @ - 1]
    /\ \E l \in Commands(c) : from' = [from EXCEPT ![c] = Append(@, l)]
    /\ UNCHANGED <<daemon, peer, hung, to, sent, heard>>

Hear(c) ==
    /\ peer[c] = "there" /\ c \notin hung /\ to[c] # <<>>
    /\ to' = [to EXCEPT ![c] = Tail(@)]
    /\ UNCHANGED <<daemon, peer, hung, from, left, sent, heard>>

Hang(c) ==
    /\ c \in MayHang \ hung /\ peer[c] = "there"
    /\ hung' = hung \cup {c}
    /\ UNCHANGED <<daemon, peer, to, from, left, sent, heard>>

Leave(c) ==
    /\ c \in MayLeave /\ peer[c] = "there"
    /\ peer' = [peer EXCEPT ![c] = "gone"]
    /\ UNCHANGED <<daemon, hung, to, from, left, sent, heard>>

Next ==
    \/ Daemon
    \/ \E c \in Clients : Connect(c) \/ Order(c) \/ Hear(c) \/ Hang(c) \/ Leave(c)
    \/ \E c \in Talkers : Say(c)
Spec == Init /\ [][Next]_vars

\* The daemon runs on when pselect lets it; a client that does not hang reads what it
\* is sent; the talkers go on talking.  Each is stated on the variable that only these
\* steps change in this way.
DaemonRuns ==
    \/ pc = "select" /\ CanSelect /\ pc' = "write"
    \/ pc = "write" /\ pc' \in {"select", "read"}
    \/ pc = "read" /\ pc' = "reap"
    \/ pc = "reap" /\ pc' \in {"select", "down"}
Hears(c) == peer[c] = "there" /\ c \notin hung /\ to[c] # <<>> /\ to' = [to EXCEPT ![c] = Tail(@)]
Talks(c) == CanSay(c) /\ \E p \in Pfxs : from' = [from EXCEPT ![c] = Append(@, Text(c, 0, p))]

-----------------------------------------------------------------------------

\* No client in the list is left with a filter that was freed, and no filter that
\* nobody uses is kept: a filter's count is one less than the references to it, over
\* every order of subscriptions and departures (linebusd_main.c:85-148).
FiltersCounted ==
    LET users(p) == Cardinality(Uses(cl, p, Listed))
    IN  \A p \in Pfxs : /\ p \in DOMAIN filters <=> users(p) > 0
                        /\ p \in DOMAIN filters => filters[p] = users(p) - 1

\* The bus may drop lines but does not turn them around, repeat them or echo them
\* to their sender: what is put out to a client of another's lines is in the order
\* in which they were sent (linebusd_main.c:459-501).
HeardInOrder ==
    \A c \in Clients : \A i, j \in DOMAIN heard[c] :
        /\ heard[c][i].from # c
        /\ i < j /\ heard[c][i].from = heard[c][j].from => heard[c][i].no < heard[c][j].no
=============================================================================
