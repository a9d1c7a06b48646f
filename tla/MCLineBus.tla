------------------------------ MODULE MCLineBus ------------------------------
(***************************************************************************)
(* Two questions to LineBus over the same clients, subject says which one: "safe"  *)
(* has few numbered lines and many commands, "live" endless lines and clients that  *)
(* hang.                                                                            *)
(***************************************************************************)
EXTENDS LineBus

CONSTANTS a, b, t, p, q  \* clients, and what lines begin with
VARIABLE subject

\* Two clients that subscribe, to the same, name themselves and close each other.
Mixed(c) ==
    CASE c = a -> {Command("subscribe", a, p), Command("name", a, a), Command("kill", a, a),
                   Command("kill", a, b), Command("xoff", a, p), Command("xon", a, p)}
      [] c = b -> {Command("subscribe", b, p), Command("name", b, b), Command("kill", b, a),
                   Command("kill", b, b), Command("stats", b, p)}

\* One client that the bus is not to outlive.
OnePrecious(c) == {Command(IF c = b THEN "precious" ELSE "name", c, c)}
LiveClients == {a, b, t}
Live == INSTANCE LineBus WITH
    Clients <- LiveClients, Commands <- OnePrecious, Talkers <- {t}, Pfxs <- {p}, MaxLines <- 0,
    SocketRoom <- 1, OutRoom <- 1, MaxConnects <- 3, MaxCommands <- 1, MayHang <- {b}

MCInit == (subject = "safe" /\ Init) \/ (subject = "live" /\ Live!Init)
Moves == subject = "safe" /\ Next
LiveMoves == subject = "live" /\ Live!Next
MCSpec ==
    /\ MCInit /\ [][(Moves \/ LiveMoves) /\ UNCHANGED subject]_<<subject, vars>>
    /\ WF_pc(subject = "live" /\ Live!DaemonRuns)
    /\ \A c \in LiveClients : WF_to(subject = "live" /\ Live!Hears(c))
    /\ WF_from(subject = "live" /\ Live!Talks(t))

Are(condition) == {c \in DOMAIN peer : peer[c] = condition}
Unread == {c \in DOMAIN from : from[c] # <<>>}

\* linebusd_main.c:19: when a precious client exits or hangs, the bus goes down,
\* provided that there is somebody left whose lines it does not read.
PreciousTakesBusDown ==
    LET listens == ~cl[b].xoff /\ cl[b].filters = <<>> /\ t \in Are("there")
        lost == b \in Are("gone") \/ (b \in hung /\ listens)
    IN  (subject = "live" /\ b \in Listed /\ cl[b].precious /\ lost) ~> ~up

\* Nobody waits for ever because others talk all the time, do not read what they
\* are sent, or read it slowly: who connects is accepted, and the lines of a client
\* that says little are taken in while it stays.  (The last lines of one that exits
\* are lost if it is written to before it is read; linebusd_main.c:441-506.)
EverybodyIsServed ==
    /\ \A c \in LiveClients :
            (subject = "live" /\ c \in Are("waiting")) ~> (c \notin Are("waiting") \/ ~up)
    /\ \A c \in LiveClients \ {t} :
            (subject = "live" /\ c \in Unread) ~> (c \notin Unread \/ c \in Are("gone") \/ ~up)
=============================================================================
