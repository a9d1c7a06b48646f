------------------------------- MODULE SmsTool -------------------------------
(***************************************************************************)
(* sms/sms_main.c and sms/lockfile.c: the command cron uses to send and receive  *)
(* SMS.  Every run of it is a process; they keep off each other's conversation     *)
(* with the modem by a lock file that holds the owner's process id.  One action     *)
(* per system call on the lock file, and per command to the modem.                   *)
(***************************************************************************)
EXTENDS Integers, FiniteSets

CONSTANTS Procs,        \* the processes; each is its own process id
          Receivers,    \* those that run "recv"; the others run "send"
          Retries,      \* process -> option -r; -1, the default, is for ever
          Mortal,       \* processes that may be killed
          Places,       \* the places of the modem's message store
          MaxSms        \* bound on the SMS that arrive

VARIABLES lock,         \* the owner named in the lock file, or NoLock
          pc, retries, seen,    \* process -> its step, its retries, the owner it read
          idx,          \* receiver -> the places listed and not yet deleted
          store,        \* place -> message, 0 for none
          sms, printed, \* history: messages that arrived, messages printed
          robbed        \* history: a process removed a lock that was not the one it had read

vars == <<lock, pc, retries, seen, idx, store, sms, printed, robbed>>
session == <<idx, store, sms, printed>>

NoLock == "none"
Alive(p) == pc[p] \notin {"off", "done", "dead"}

Init ==
    /\ lock = NoLock /\ pc = [p \in Procs |-> "off"] /\ retries = Retries
    /\ seen = [p \in Procs |-> NoLock] /\ robbed = FALSE
    /\ idx = [p \in Procs |-> {}] /\ store = [i \in Places |-> 0] /\ sms = 0 /\ printed = {}

Go(p, step) == pc' = [pc EXCEPT ![p] = step]

Start(p) == pc[p] = "off" /\ Go(p, "try") /\ UNCHANGED <<lock, retries, seen, session, robbed>>

\* while(retries-- && !lockfile(lckf)): when no try is left, the process goes on
\* without the lock, as retries is then -1.
Try(p) ==
    /\ pc[p] = "try"
    /\ retries' = [retries EXCEPT ![p] = IF @ < 0 THEN @ ELSE @ - 1]
    /\ Go(p, IF retries[p] = 0 THEN "port" ELSE "look")
    /\ UNCHANGED <<lock, seen, session, robbed>>

\* lockfile(), in its steps: read the owner, see if it is alive, remove a stale
\* lock (or what has taken its place), link the new one.
Look(p) ==
    /\ pc[p] = "look"
    /\ Go(p, IF lock = NoLock THEN "link" ELSE "probe")
    /\ seen' = [seen EXCEPT ![p] = lock]
    /\ UNCHANGED <<lock, retries, session, robbed>>
ProbeNobody(p) ==                       \* mutant: every lock is taken for stale
    /\ pc[p] = "probe"
    /\ Go(p, "unlink")
    /\ UNCHANGED <<lock, retries, seen, session, robbed>>
Probe(p) ==
    /\ pc[p] = "probe"
    /\ Go(p, IF Alive(seen[p]) THEN "try" ELSE "unlink")
    /\ UNCHANGED <<lock, retries, seen, session, robbed>>
Unlink(p) ==
    /\ pc[p] = "unlink"
    /\ lock' = NoLock
    /\ robbed' = (robbed \/ lock \notin {NoLock, seen[p]})
    /\ Go(p, "link")
    /\ UNCHANGED <<retries, seen, session>>
\* The lock got at the last try counts as not got: the process ends, and leaves it.
Link(p) ==
    /\ pc[p] = "link"
    /\ IF lock # NoLock THEN Go(p, "try") /\ UNCHANGED lock
       ELSE lock' = p /\ Go(p, IF retries[p] = 0 THEN "done" ELSE "port")
    /\ UNCHANGED <<retries, seen, session, robbed>>

-----------------------------------------------------------------------------
(* The conversation, and its end: exit() and crash() both run unlock().      *)
Send(p) ==
    /\ pc[p] = "port" /\ p \notin Receivers
    /\ Go(p, "unlock")
    /\ UNCHANGED <<lock, retries, seen, session, robbed>>

\* AT+CMGL prints the messages that can be decoded (those above 0) and notes the
\* places of all; they are then deleted place by place.
List(p) ==
    /\ pc[p] = "port" /\ p \in Receivers
    /\ printed' = printed \cup {store[i] : i \in {j \in Places : store[j] > 0}}
    /\ idx' = [idx EXCEPT ![p] = {i \in Places : store[i] # 0}]
    /\ Go(p, "delete")
    /\ UNCHANGED <<lock, retries, seen, store, sms, robbed>>
Delete(p) ==
    /\ pc[p] = "delete"
    /\ IF idx[p] = {} THEN Go(p, "unlock") /\ UNCHANGED <<idx, store>>
       ELSE LET i == CHOOSE j \in idx[p] : \A k \in idx[p] : j <= k
            IN  /\ store' = [store EXCEPT ![i] = 0]
                /\ idx' = [idx EXCEPT ![p] = @ \ {i}]
                /\ UNCHANGED pc
    /\ UNCHANGED <<lock, retries, seen, sms, printed, robbed>>
\* alarm(): no answer of the modem.
Alarm(p) ==
    /\ pc[p] \in {"port", "delete"}
    /\ Go(p, "unlock") /\ idx' = [idx EXCEPT ![p] = {}]
    /\ UNCHANGED <<lock, retries, seen, store, sms, printed, robbed>>

\* unlockfile(): only the own lock is removed.
Unlock(p) ==
    /\ pc[p] = "unlock"
    /\ Go(p, IF lock = p THEN "remove" ELSE "done")
    /\ UNCHANGED <<lock, retries, seen, session, robbed>>
Remove(p) ==
    /\ pc[p] = "remove"
    /\ lock' = NoLock
    /\ robbed' = (robbed \/ lock \notin {NoLock, p})
    /\ Go(p, "done")
    /\ UNCHANGED <<retries, seen, session>>

-----------------------------------------------------------------------------
Killed(p) ==
    /\ p \in Mortal /\ Alive(p)
    /\ Go(p, "dead")
    /\ UNCHANGED <<lock, retries, seen, session, robbed>>
SmsArrives ==
    LET free == {i \in Places : store[i] = 0}
    IN  /\ sms < MaxSms /\ free # {}
        /\ sms' = sms + 1
        /\ \E m \in {sms + 1, -(sms + 1)} :
              store' = [store EXCEPT ![CHOOSE i \in free : \A j \in free : i <= j] = m]
        /\ UNCHANGED <<lock, pc, retries, seen, idx, printed, robbed>>

Step(p) == \/ Try(p) \/ Look(p) \/ Probe(p) \/ Unlink(p) \/ Link(p) \/ Send(p) \/ List(p)
           \/ Delete(p) \/ Unlock(p) \/ Remove(p)
Next == SmsArrives \/ \E p \in Procs : Start(p) \/ Step(p) \/ Alarm(p) \/ Killed(p)
Spec == Init /\ [][Next]_vars

-----------------------------------------------------------------------------
NoTryLeft == \E p \in Procs : Retries[p] >= 0 /\ retries[p] < 0
\* The lock does what it is for: no message is deleted from the modem before it was
\* printed, unless it cannot be decoded, or a process went to the modem without the
\* lock: with -r when its tries were used up, or because another took a lock for
\* stale and removed the one that had just replaced it (lockfile.c:18-72).
ReadBeforeDelete ==
    [][\A i \in Places : store[i] > 0 /\ store'[i] # store[i] =>
            store[i] \in printed \/ robbed \/ NoTryLeft]_vars
=============================================================================
