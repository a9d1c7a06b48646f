--------------------------------- MODULE Mail ---------------------------------
(***************************************************************************)
(* The boat's mail: modemd (modem/modemd_main.cc), which carries messages       *)
(* between the modem and two queues, and statusd (modem/statusd_main.cc), which  *)
(* pushes a status message at times and acts on the commands that arrive.  Every  *)
(* step of a daemon between two system calls is an action; the modem answers       *)
(* or is late, either daemon may crash and be restarted, the clock may be set back. *)
(***************************************************************************)
EXTENDS Modem

CONSTANTS IdSpace,      \* the numbers a process gives to messages: 2^16 in the code
          Commands,     \* message -> [mode, ack] of the remote command in it, arriving in order 1, 2..
          Tries,        \* retries of modemd: 10 in the code
          StatusInterval, InitialTimeout, AckDelay,     \* 24 h, 180 s, 5 s in the code
          MaxTime,      \* bound on the clock
          MaxPid,       \* bound on process ids, and so on restarts
          MaxFaults     \* bound on late answers, refusals, crashes, set backs...

-----------------------------------------------------------------------------
(* message-queue.cc: a directory with one file per message, named by the message's id.  A   *)
(* queue is the function from the ids of its files to [ctime, text]; an id is [pid, n]: the  *)
(* process that pushed it in the upper 16 bits, a number in the lower 16.  Every operation    *)
(* lists the directory anew, so that none keeps state.                                        *)
Empty == [id \in {} |-> 0]

\* Oldest file first, and the smaller id first among those of one second.
IdLess(a, b) == a.pid < b.pid \/ (a.pid = b.pid /\ a.n < b.n)
Before(q, a, b) == \/ q[a].ctime < q[b].ctime
                   \/ q[a].ctime = q[b].ctime /\ IdLess(a, b)
FirstOf(q, ids) == CHOOSE a \in ids : \A b \in ids \ {a} : Before(q, a, b)
LastOf(q, ids) == CHOOSE a \in ids : \A b \in ids \ {a} : Before(q, b, a)
NumMessages(q) == Cardinality(DOMAIN q)
OldestIdByName(q) == LastOf(q, DOMAIN q)                \* mutant: the newest first
OldestId(q) == FirstOf(q, DOMAIN q)                     \* GetMessage(0, ...)
DeleteMessage(q, id) == [i \in DOMAIN q \ {id} |-> q[i]]

\* The number after the process' own newest one; numbers start anew with an
\* empty queue and after the last of them.
GetNextId(q, pid) ==
    LET own == {id \in DOMAIN q : id.pid = pid}
        last == IF own = {} THEN 0 ELSE LastOf(q, own).n
    IN  [pid |-> pid, n |-> (last + 1) % IdSpace]

\* The file is written under another name and renamed, which replaces a file that
\* already has the name.
PushMessage(q, pid, now, text) ==
    LET id == GetNextId(q, pid)
    IN  [i \in DOMAIN q \cup {id} |-> IF i = id THEN [ctime |-> now, text |-> text] ELSE q[i]]

-----------------------------------------------------------------------------
Daemons == {"modemd", "statusd"}

VARIABLES
    clock, inbox, outbox,
    line, busy, dev,    \* the serial line, the commands the modem still works on, the modem
    mpc, tries, cur,    \* modemd: the command whose answer it awaits, or its next step
    async, messages,    \* modemd: Modem::async_status_; the received messages left to handle
    spc, now, taken,    \* statusd, the time of its round, the command taken from the inbox
    remote, text, statusTime, quit,     \* statusd: remote_status.command, status, status_time, quit
    pid,                \* daemon -> process id
    arrived, accepted, acted, pushes,   \* history: the slots of the SMS that arrived, mail the network took, commands
                                        \* acted on, status messages pushed
    rcOld, faults       \* history: the last result was an old one; the kinds of faults so far

queues == <<inbox, outbox>>
wire == <<line, busy, dev>>
modemd == <<mpc, tries, cur, async, messages, rcOld>>
statusd == <<spc, now, taken, remote, text, statusTime>>
history == <<arrived, accepted, acted, pushes, faults>>
vars == <<clock, inbox, outbox, line, busy, dev, mpc, tries, cur, async, messages, rcOld,
          spc, now, taken, remote, text, statusTime, quit, pid, arrived, accepted, acted, pushes, faults>>

NoId == [pid |-> 0, n |-> 0]            \* kInvalidId
Normal == "normal"                      \* kNormalControlMode

Init ==
    /\ clock = 1 /\ inbox = Empty /\ outbox = Empty
    /\ line = <<>> /\ busy = <<>> /\ dev = [store |-> [s \in Slots |-> None], pdu |-> "no"]
    /\ mpc = "open" /\ tries = 0 /\ cur = NoId /\ async = <<>> /\ messages = <<>>
    /\ spc = "select" /\ now = 0 /\ taken = None /\ remote = Normal /\ text = "ok"
    /\ statusTime = 1 - StatusInterval + InitialTimeout /\ quit = FALSE
    /\ pid = [d \in Daemons |-> IF d = "modemd" THEN 1 ELSE 2]
    /\ arrived = <<>> /\ accepted = {} /\ acted = <<>> /\ pushes = 0
    /\ rcOld = FALSE /\ faults = <<>>

Fault(kind) == Len(faults) < MaxFaults /\ faults' = Append(faults, kind)
Had(kinds) == Range(faults) \cap kinds # {}

-----------------------------------------------------------------------------
(* modemd.                                                                  *)
Command(k, n) == [k |-> k, n |-> n, old |-> FALSE]
SendCommand(l, b, cmd) == line' = l /\ busy' = Append(b, cmd) /\ mpc' = cmd.k

\* After a second's sleep, in which a modem that is not late has answered, a new
\* Modem object opens the device again.  The last close of a serial device drops what
\* was on the line (external).  The first command sets the modem up (Modem::Init).
OpenUncleared ==                        \* mutant: what was on the line is still there
    /\ mpc = "open"
    /\ IF busy = <<>> THEN UNCHANGED faults ELSE Fault("late")
    /\ SendCommand(line, busy, Command("init", 0))
    /\ async' = <<>> /\ messages' = <<>>
    /\ UNCHANGED <<clock, queues, dev, tries, cur, rcOld, statusd, quit, pid,
                   arrived, accepted, acted, pushes>>
Open ==
    /\ mpc = "open"
    /\ IF busy = <<>> THEN UNCHANGED faults ELSE Fault("late")
    /\ SendCommand(<<>>, busy, Command("init", 0))
    /\ async' = <<>> /\ messages' = <<>>
    /\ UNCHANGED <<clock, queues, dev, tries, cur, rcOld, statusd, quit, pid,
                   arrived, accepted, acted, pushes>>

\* What follows the result rc of the command mpc, with l and b left on the line.
Terminate(l, b) == mpc' = "down" /\ line' = l /\ busy' = b /\ UNCHANGED tries
Retry(l, b) ==
    IF tries = 1 THEN Terminate(l, b)
    ELSE SendCommand(l, b, Command("gmi", 0)) /\ tries' = tries - 1
Proceed(rc, l, b) ==
    LET Go(step) == mpc' = step /\ line' = l /\ busy' = b
    IN  CASE mpc = "init" -> IF rc = "err" THEN Terminate(l, b)
                             ELSE SendCommand(l, b, Command("gmi", 0)) /\ tries' = Tries
          [] mpc = "gmi"  -> IF rc = "err" THEN Retry(l, b)
                             ELSE SendCommand(l, b, Command("gsn", 0)) /\ UNCHANGED tries
          [] mpc = "gsn"  -> IF rc = "err" THEN Retry(l, b) ELSE Go("outbox") /\ tries' = Tries
          [] mpc \in {"cmgs", "pdu"} ->
                IF rc = "err" THEN Go("outbox") /\ tries' = tries - 1
                ELSE Go("sent") /\ UNCHANGED tries
          [] mpc = "cmgl" -> Go("inbox") /\ UNCHANGED tries
          [] mpc = "cmgd" -> Go("inbox") /\ UNCHANGED tries
          [] mpc = "creg" -> SendCommand(l, b, Command("csq", 0)) /\ UNCHANGED tries
          [] mpc = "csq"  -> SendCommand(l, b, Command("geo", 0)) /\ UNCHANGED tries
          [] mpc = "geo"  -> Go("idle") /\ UNCHANGED tries

Awaiting == {"init", "gmi", "gsn", "cmgs", "pdu", "cmgl", "cmgd", "creg", "csq", "geo"}
Prompted == mpc = "cmgs" /\ line # <<>> /\ line[1].k = ">"

\* The end of a wait: the list of unsolicited lines is used up by AT+CMGL and,
\* when they succeed, by the three status commands.
EndOfWait(status) ==
    /\ Proceed(status.rc, status.rest, Outdated(busy))
    /\ rcOld' = status.old
    /\ IF mpc = "cmgl" \/ (mpc \in {"creg", "csq", "geo"} /\ status.rc = "ok")
       THEN async' = <<>> ELSE async' = status.async
    /\ IF mpc = "cmgl" THEN messages' = ReceiveSMSMessages(status)
       ELSE IF mpc = "cmgd" THEN messages' = Tail(messages)
       ELSE UNCHANGED messages
    /\ UNCHANGED <<clock, queues, dev, cur, statusd, quit, pid>>
GotResult ==
    /\ mpc \in Awaiting /\ ~Prompted
    /\ Results(line) # {}
    /\ EndOfWait(GetStatus(line, async))
    /\ UNCHANGED history
TimedOut ==
    /\ mpc \in Awaiting /\ ~Prompted
    /\ Results(line) = {}
    /\ IF busy = <<>> THEN UNCHANGED faults ELSE Fault("late")
    /\ EndOfWait(GetStatus(line, async))
    /\ UNCHANGED <<arrived, accepted, acted, pushes>>

\* The prompt of AT+CMGS: the text of the oldest message follows.
GotPrompt ==
    /\ Prompted
    /\ SendCommand(Tail(line), busy, Command("pdu", outbox[cur].text.no))
    /\ UNCHANGED <<clock, queues, dev, tries, cur, async, messages, rcOld, statusd, quit, pid, history>>

ToSend == NumMessages(outbox) > 0
Outbox ==
    /\ mpc = "outbox"
    /\ IF ToSend /\ tries > 0
       THEN cur' = OldestId(outbox) /\ SendCommand(line, busy, Command("cmgs", 0))
       ELSE SendCommand(line, busy, Command("cmgl", 0)) /\ UNCHANGED cur
    /\ UNCHANGED <<clock, queues, dev, tries, async, messages, rcOld, statusd, quit, pid, history>>
Sent ==
    /\ mpc = "sent"
    /\ outbox' = DeleteMessage(outbox, cur)
    /\ cur' = NoId
    /\ mpc' = "outbox"
    /\ UNCHANGED <<clock, inbox, wire, tries, async, messages, rcOld, statusd, quit, pid, history>>

\* Received messages are pushed one by one; each is then deleted from the modem.
PushReceived ==
    /\ mpc = "inbox" /\ messages # <<>>
    /\ inbox' = PushMessage(inbox, pid["modemd"], clock, messages[1].text)
    /\ mpc' = "delete"
    /\ UNCHANGED <<clock, outbox, wire, tries, cur, async, messages, rcOld, statusd, quit, pid, history>>
PushFails ==
    /\ mpc = "inbox" /\ messages # <<>>
    /\ Fault("disk")
    /\ messages' = Tail(messages)
    /\ UNCHANGED <<clock, queues, wire, mpc, tries, cur, async, rcOld, statusd, quit, pid,
                   arrived, accepted, acted, pushes>>
DeleteReceived ==
    /\ mpc = "delete"
    /\ SendCommand(line, busy, Command("cmgd", messages[1].id))
    /\ UNCHANGED <<clock, queues, dev, tries, cur, async, messages, rcOld, statusd, quit, pid, history>>
NoneReceived ==
    /\ mpc = "inbox" /\ messages = <<>>
    /\ SendCommand(line, busy, Command("creg", 0))
    /\ UNCHANGED <<clock, queues, dev, tries, cur, async, messages, rcOld, statusd, quit, pid, history>>

\* Takes what is on the line up to a result, without waiting, and drops it.
IdleLoop ==
    /\ mpc = "idle"
    /\ line' = GetStatus(line, async).rest
    /\ async' = <<>>
    /\ mpc' = "open"
    /\ UNCHANGED <<clock, queues, busy, dev, tries, cur, messages, rcOld, statusd, quit, pid, history>>

Modemd == \/ Open \/ GotResult \/ TimedOut \/ GotPrompt \/ Outbox \/ Sent \/ PushReceived
          \/ PushFails \/ DeleteReceived \/ NoneReceived \/ IdleLoop

-----------------------------------------------------------------------------
(* statusd.                                                                 *)
\* A line on stdin or the time-out: the statuses read are data of the message only.
Wake ==
    /\ spc = "select"
    /\ spc' = "inbox" /\ now' = clock
    /\ UNCHANGED <<clock, queues, wire, modemd, taken, remote, text, statusTime, quit, pid, history>>

\* The oldest command is deleted before it is acted upon.
TakeCommand ==
    /\ spc = "inbox" /\ NumMessages(inbox) > 0
    /\ inbox' = DeleteMessage(inbox, OldestId(inbox))
    /\ taken' = inbox[OldestId(inbox)].text
    /\ spc' = "act"
    /\ UNCHANGED <<clock, outbox, wire, modemd, now, remote, text, statusTime, quit, pid, history>>

\* A command in capitals asks for a report, a moment from now.
ActOnCommand ==
    /\ spc = "act"
    /\ remote' = Commands[taken].mode
    /\ IF Commands[taken].ack
       THEN text' = remote' /\ statusTime' = now - StatusInterval + AckDelay
       ELSE UNCHANGED <<text, statusTime>>
    /\ acted' = Append(acted, taken)
    /\ taken' = None
    /\ spc' = "inbox"
    /\ UNCHANGED <<clock, queues, wire, modemd, now, quit, pid, arrived, accepted, pushes, faults>>

Due == quit \/ clock < statusTime \/ clock - statusTime >= StatusInterval

\* The remote command is printed (left out here) and, if it is time, the status
\* message pushed.
Report ==
    /\ spc = "inbox" /\ NumMessages(inbox) = 0
    /\ IF Due
       THEN /\ pushes' = pushes + 1
            /\ outbox' = PushMessage(outbox, pid["statusd"], clock,
                                     [no |-> pushes + 1, body |-> IF quit THEN "bye" ELSE text])
            /\ statusTime' = clock /\ text' = "ok"
            /\ spc' = IF quit THEN "last" ELSE "wait"
       ELSE spc' = "select" /\ UNCHANGED <<pushes, outbox, statusTime, text>>
    /\ now' = 0
    /\ UNCHANGED <<clock, inbox, wire, modemd, taken, remote, quit, pid, arrived, accepted, acted, faults>>

\* The message has left the outbox, or ten seconds have passed.
Waited ==
    /\ spc \in {"wait", "last"}
    /\ spc' = IF spc = "last" THEN "down" ELSE "select"
    /\ UNCHANGED <<clock, queues, wire, modemd, now, taken, remote, text, statusTime, quit, pid, history>>

Statusd == Wake \/ TakeCommand \/ ActOnCommand \/ Report \/ Waited

-----------------------------------------------------------------------------
(* Their environment.                                                       *)
\* (external) The modem answers the command it works on.
ModemAnswers ==
    /\ busy # <<>>
    /\ \E fails \in BOOLEAN :
        LET answer == Answer(dev, Head(busy), fails)
        IN  /\ IF fails THEN Fault("refused") ELSE UNCHANGED faults
            /\ line' = line \o answer.line
            /\ dev' = answer.dev
            /\ accepted' = IF answer.accepts THEN accepted \cup {Head(busy).n} ELSE accepted
    /\ busy' = Tail(busy)
    /\ UNCHANGED <<clock, queues, modemd, statusd, quit, pid, arrived, acted, pushes>>

\* (external) The next SMS is stored in the first free place.
SmsArrives ==
    LET free == {s \in Slots : dev.store[s] = None}
        next == Len(arrived) + 1
    IN  /\ next <= Len(Commands) /\ free # {}
        /\ arrived' = Append(arrived, Minimum(free))
        /\ \E sms \in {next, -next} :
              /\ IF sms < 0 THEN Fault("garbled") ELSE UNCHANGED faults
              /\ dev' = [dev EXCEPT !.store[Minimum(free)] = sms]
        /\ UNCHANGED <<clock, queues, line, busy, modemd, statusd, quit, pid,
                       accepted, acted, pushes>>

\* (external) A line of the modem that answers nothing: registration, RING...
Unsolicited ==
    /\ Fault("unsolicited")
    /\ line' = Append(line, Item("async", 0))
    /\ UNCHANGED <<clock, queues, busy, dev, modemd, statusd, quit, pid,
                   arrived, accepted, acted, pushes>>

Tick ==
    /\ clock < MaxTime /\ clock' = clock + 1
    /\ UNCHANGED <<queues, wire, modemd, statusd, quit, pid, history>>
SetBack ==
    /\ clock > 0 /\ Fault("set back") /\ clock' = 0
    /\ UNCHANGED <<queues, wire, modemd, statusd, quit, pid, arrived, accepted, acted, pushes>>
Signal ==
    /\ ~quit /\ spc # "down" /\ Fault("signal") /\ quit' = TRUE
    /\ UNCHANGED <<clock, queues, wire, modemd, statusd, pid, arrived, accepted, acted, pushes>>

CrashModemd ==
    /\ mpc # "down" /\ Fault("crash")
    /\ mpc' = "down" /\ line' = Outdated(line) /\ busy' = Outdated(busy)
    /\ tries' = 0 /\ cur' = NoId /\ async' = <<>> /\ messages' = <<>> /\ rcOld' = FALSE
    /\ UNCHANGED <<clock, queues, dev, statusd, quit, pid, arrived, accepted, acted, pushes>>
CrashStatusd ==
    /\ spc # "down" /\ Fault("statusd crash")
    /\ spc' = "down"
    /\ UNCHANGED <<clock, queues, wire, modemd, now, taken, remote, text, statusTime, quit, pid,
                   arrived, accepted, acted, pushes>>

\* A daemon that ended is started again, as a new process.
NewPid == 1 + IF pid["modemd"] < pid["statusd"] THEN pid["statusd"] ELSE pid["modemd"]
RestartModemd ==
    /\ mpc = "down" /\ pid["modemd"] < MaxPid
    /\ mpc' = "open" /\ pid' = [pid EXCEPT !["modemd"] = NewPid]
    /\ UNCHANGED <<clock, queues, wire, tries, cur, async, messages, rcOld, statusd, quit, history>>
RestartStatusd ==
    /\ spc = "down" /\ pid["statusd"] < MaxPid
    /\ spc' = "select" /\ pid' = [pid EXCEPT !["statusd"] = NewPid]
    /\ now' = 0 /\ taken' = None /\ remote' = Normal /\ text' = "ok" /\ quit' = FALSE
    /\ statusTime' = clock - StatusInterval + InitialTimeout
    /\ UNCHANGED <<clock, queues, wire, modemd, history>>

Environment == \/ ModemAnswers \/ SmsArrives \/ Unsolicited \/ Tick \/ SetBack \/ Signal
               \/ CrashModemd \/ CrashStatusd \/ RestartModemd \/ RestartStatusd

Next == Modemd \/ Statusd \/ Environment
Fairness == WF_vars(Modemd) /\ WF_vars(Statusd) /\ WF_vars(ModemAnswers)
Spec == Init /\ [][Next]_vars /\ Fairness

-----------------------------------------------------------------------------
Numbers(q) == {q[id].text.no : id \in DOMAIN q}

\* While the modem answers in time and modemd does not crash, a status message leaves the
\* outbox only when the network has taken it, whatever the modem refuses, leaves without an
\* answer or says unasked.  After that it may also leave on the answer to an earlier command that
\* modemd took for the answer to this one; and no promise is made once the file of one message
\* may have replaced another's because the clock was set back or all numbers have been
\* used (modemd_main.cc:121-137, message-queue.cc:102-148).
Late == Had({"late", "crash"})
Renamed == Had({"set back"}) \/ pushes >= IdSpace
MailKept ==
    [][\A no \in Numbers(outbox) \ Numbers(outbox') :
           no \in accepted \/ (Late /\ rcOld) \/ Renamed]_vars

Disorderly == {"crash", "refused", "garbled", "disk", "set back"}
\* Commands are acted on once, and in the order in which they were sent, unless the later one
\* was put in a place that is listed before that of the earlier one (modem.cc:237-279): neither
\* an answer that comes late nor several in one round turn them around (message-queue.cc:102-129);
\* a crash of modemd, a refused or failed deletion or push, an SMS that cannot be decoded, a
\* clock set back, and a listing outdated by several late answers may.
ActedInOrder ==
    Len(SelectSeq(faults, LAMBDA f : f = "late")) <= 1 /\ ~Had(Disorderly) =>
        \A i, j \in DOMAIN acted :
            i < j => acted[i] < acted[j] \/ arrived[acted[i]] < arrived[acted[j]]

Dead == mpc = "down" \/ spc = "down"
\* What the network has stored in the modem reaches the boat: a command is acted on,
\* unless a daemon is found down at some time after that, be it to be started again, or statusd
\* crashed (modemd_main.cc:108-157, statusd_main.cc:205-226).
CommandsActedOn ==
    \A m \in 1 .. Len(Commands) :
        (\E s \in Slots : dev.store[s] = m) ~>
            Dead \/ m \in Range(acted) \/ Had({"statusd crash"})
=============================================================================
