------------------------------ MODULE MailProofs ------------------------------
(***************************************************************************)
(* The lock file of the sms tool, for any number of processes, of places   *)
(* in the modem and of tries: as long as no lock is taken for stale that   *)
(* is not, its owner alone talks to the modem, and what it deletes it has  *)
(* printed.  And the outbox, for any number of retries, refusals and status *)
(* messages: as long as the modem answers in time, what leaves it the       *)
(* network has taken; later answers to earlier commands may deceive modemd.  *)
(***************************************************************************)
EXTENDS MCMail, Counting, FiniteSetTheorems, TLAPS

Stations == {"off", "try", "look", "probe", "unlink", "link", "port", "delete", "unlock", "remove", "done", "dead"}

ToolType ==
  /\ lock \in Procs \cup {Tool!NoLock} /\ step \in [Procs -> Stations]
  /\ retries \in [Procs -> Int] /\ seen \in [Procs -> Procs \cup {Tool!NoLock}]
  /\ idx \in [Procs -> SUBSET Places] /\ store \in [Places -> Int]
  /\ sms \in Nat /\ robbed \in BOOLEAN

\* A process that waits for ever does not run out of tries.
TriesAreCounted == \A p \in Procs : retries[p] >= 0 => Retries[p] >= 0

\* Whoever took the lock has been started; an owner that is to be robbed is gone for good.
OwnersWereStarted ==
  /\ lock # Tool!NoLock => step[lock] # "off"
  /\ \A p \in Procs : /\ step[p] = "probe" => seen[p] \in Procs /\ step[seen[p]] # "off"
                      /\ step[p] = "unlink" => seen[p] \in Procs /\ step[seen[p]] \in {"done", "dead"}

Honest == ~ robbed /\ ~ Tool!NoTryLeft

\* The modem belongs to the one that holds the lock.
HoldsTheLock == Honest => \A p \in Procs : step[p] \in {"port", "delete", "remove"} => lock = p

\* What is to be deleted is in its place, and was printed if it could be.
ListedWasPrinted ==
  Honest => \A p \in Procs : step[p] = "delete" =>
              \A i \in idx[p] : store[i] # 0 /\ (store[i] > 0 => store[i] \in printed)

ToolInv == ToolType /\ TriesAreCounted /\ OwnersWereStarted /\ HoldsTheLock /\ ListedWasPrinted

mailMCVars == <<subject, vars, toolVars, wordVars>>

-----------------------------------------------------------------------------
LEMMA ToolInitial == MCInit => ToolInv
<1> SUFFICES ASSUME Tool!Init  PROVE ToolInv
  BY DEF MCInit
<1> USE DEF Tool!Init
<1>1. ToolType
  <2>1. lock \in Procs \cup {Tool!NoLock} /\ retries \in [Procs -> Int]
    BY ToolAssumption
  <2>2. step \in [Procs -> Stations] /\ seen \in [Procs -> Procs \cup {Tool!NoLock}]
    BY DEF Stations
  <2>3. idx \in [Procs -> SUBSET Places] /\ store \in [Places -> Int] /\ sms \in Nat /\ robbed \in BOOLEAN
    <3>1. idx = [p \in Procs |-> {}] /\ store = [i \in Places |-> 0] /\ sms = 0 /\ robbed = FALSE
      OBVIOUS
    <3>2. idx \in [Procs -> SUBSET Places]
      BY ONLY <3>1
    <3>3. store \in [Places -> Int] /\ sms \in Nat
      BY ONLY <3>1
    <3>4. robbed \in BOOLEAN
      BY ONLY <3>1
    <3> QED
      BY <3>2, <3>3, <3>4
  <2> QED
    BY <2>1, <2>2, <2>3 DEF ToolType
<1>2. TriesAreCounted
  BY DEF TriesAreCounted
<1>3. OwnersWereStarted
  BY DEF OwnersWereStarted
<1>4. HoldsTheLock /\ ListedWasPrinted
  BY DEF HoldsTheLock, ListedWasPrinted
<1> QED
  BY <1>1, <1>2, <1>3, <1>4 DEF ToolInv

\* A lock once robbed, or a process without tries, stays so.
LEMMA TryKeeps ==
  ASSUME ToolInv, NEW p \in Procs, Tool!Try(p)
  PROVE  ToolInv'
<1> USE ToolAssumption DEF ToolInv, Tool!Try, Tool!Go, Tool!session
<1>0. retries[p] \in Int /\ UNCHANGED <<lock, seen, idx, store, sms, printed, robbed>>
  BY DEF ToolType
<1>1. ToolType'
  BY DEF ToolType, Stations
<1>2. TriesAreCounted'
  BY <1>0 DEF TriesAreCounted, ToolType
<1>3. OwnersWereStarted'
  BY <1>0 DEF OwnersWereStarted, ToolType
<1>4. Tool!NoTryLeft => Tool!NoTryLeft'
  BY <1>0 DEF Tool!NoTryLeft, ToolType
<1>5. retries[p] = 0 => Tool!NoTryLeft'
  BY <1>0 DEF Tool!NoTryLeft, ToolType, TriesAreCounted
<1>6. HoldsTheLock'
  BY <1>0, <1>4, <1>5 DEF HoldsTheLock, Honest, ToolType
<1>7. ListedWasPrinted'
  BY <1>0, <1>4 DEF ListedWasPrinted, Honest, ToolType
<1> QED
  BY <1>1, <1>2, <1>3, <1>6, <1>7

LEMMA UnlinkKeeps ==
  ASSUME ToolInv, NEW p \in Procs, Tool!Unlink(p)
  PROVE  ToolInv'
<1> USE ToolAssumption DEF ToolInv, Tool!Unlink, Tool!Go, Tool!session
<1>0. UNCHANGED <<retries, seen, idx, store, sms, printed>> /\ lock' = Tool!NoLock
  OBVIOUS
<1>1. ToolType'
  BY DEF ToolType, Stations
<1>2. TriesAreCounted' /\ (Honest' => Honest) /\ (Honest' => lock \in {Tool!NoLock, seen[p]})
  BY <1>0 DEF TriesAreCounted, Honest, Tool!NoTryLeft, ToolType
<1>3. OwnersWereStarted'
  BY <1>0 DEF OwnersWereStarted, ToolType
<1>4. seen[p] \in Procs /\ step[seen[p]] \in {"done", "dead"}
  BY DEF OwnersWereStarted
<1>5. HoldsTheLock'
  BY <1>0, <1>2, <1>4 DEF HoldsTheLock, ToolType
<1>6. ListedWasPrinted'
  BY <1>0, <1>2 DEF ListedWasPrinted, ToolType
<1> QED
  BY <1>1, <1>2, <1>3, <1>5, <1>6

LEMMA LinkKeeps ==
  ASSUME ToolInv, NEW p \in Procs, Tool!Link(p)
  PROVE  ToolInv'
<1> USE ToolAssumption DEF ToolInv, Tool!Link, Tool!Go, Tool!session
<1>0. UNCHANGED <<retries, seen, idx, store, sms, printed, robbed>>
  OBVIOUS
<1>1. ToolType'
  BY DEF ToolType, Stations
<1>2. TriesAreCounted' /\ (Honest' => Honest)
  BY <1>0 DEF TriesAreCounted, Honest, Tool!NoTryLeft, ToolType
<1>3. OwnersWereStarted'
  BY <1>0 DEF OwnersWereStarted, ToolType
<1>4. HoldsTheLock'
  BY <1>0, <1>2 DEF HoldsTheLock, ToolType
<1>5. ListedWasPrinted'
  BY <1>0, <1>2 DEF ListedWasPrinted, ToolType
<1> QED
  BY <1>1, <1>2, <1>3, <1>4, <1>5

LEMMA RemoveKeeps ==
  ASSUME ToolInv, NEW p \in Procs, Tool!Remove(p)
  PROVE  ToolInv'
<1> USE ToolAssumption DEF ToolInv, Tool!Remove, Tool!Go, Tool!session
<1>0. UNCHANGED <<retries, seen, idx, store, sms, printed>> /\ lock' = Tool!NoLock
  OBVIOUS
<1>1. ToolType'
  BY DEF ToolType, Stations
<1>2. TriesAreCounted' /\ (Honest' => Honest)
  BY <1>0 DEF TriesAreCounted, Honest, Tool!NoTryLeft, ToolType
<1>3. OwnersWereStarted'
  BY <1>0 DEF OwnersWereStarted, ToolType
<1>4. HoldsTheLock'
  BY <1>0, <1>2 DEF HoldsTheLock, ToolType
<1>5. ListedWasPrinted'
  BY <1>0, <1>2 DEF ListedWasPrinted, ToolType
<1> QED
  BY <1>1, <1>2, <1>3, <1>4, <1>5

\* The steps that only go on.
LEMMA GoingOnKeeps ==
  ASSUME ToolInv, NEW p \in Procs,
         Tool!Start(p) \/ Tool!Look(p) \/ Tool!Probe(p) \/ Tool!Send(p) \/ Tool!Unlock(p) \/ Tool!Killed(p)
  PROVE  ToolInv'
<1> USE ToolAssumption DEF ToolInv, Tool!Start, Tool!Look, Tool!Probe, Tool!Send, Tool!Unlock, Tool!Killed, Tool!Go,
                           Tool!session
<1>0. UNCHANGED <<lock, retries, idx, store, sms, printed, robbed>>
  OBVIOUS
<1>1. ToolType'
  BY DEF ToolType, Stations
<1>2. TriesAreCounted' /\ (Honest' => Honest)
  BY <1>0 DEF TriesAreCounted, Honest, Tool!NoTryLeft, ToolType
<1>3. OwnersWereStarted'
  <2>1. CASE Tool!Look(p)
    BY <1>0, <2>1 DEF OwnersWereStarted, ToolType
  <2>2. CASE Tool!Probe(p)
    BY <1>0, <2>2 DEF OwnersWereStarted, ToolType, Tool!Alive
  <2>3. CASE Tool!Start(p)
    BY <1>0, <2>3 DEF OwnersWereStarted, ToolType
  <2>4. CASE Tool!Send(p) \/ Tool!Unlock(p)
    BY <1>0, <2>4 DEF OwnersWereStarted, ToolType
  <2>5. CASE Tool!Killed(p)
    BY <1>0, <2>5 DEF OwnersWereStarted, ToolType, Tool!Alive
  <2> QED
    BY <2>1, <2>2, <2>3, <2>4, <2>5
<1>4. HoldsTheLock'
  BY <1>0, <1>2 DEF HoldsTheLock, ToolType
<1>5. ListedWasPrinted'
  BY <1>0, <1>2 DEF ListedWasPrinted, ToolType
<1> QED
  BY <1>1, <1>2, <1>3, <1>4, <1>5

\* The steps of the conversation: nobody else is in one.
LEMMA ListKeeps ==
  ASSUME ToolInv, NEW p \in Procs, Tool!List(p)
  PROVE  ToolInv'
<1> USE ToolAssumption DEF ToolInv, Tool!List, Tool!Go
<1>0. /\ UNCHANGED <<lock, retries, seen, store, sms, robbed>>
      /\ printed' = printed \cup {store[i] : i \in {j \in Places : store[j] > 0}}
      /\ \A q \in Procs : idx'[q] = (IF q = p THEN {i \in Places : store[i] # 0} ELSE idx[q])
      /\ \A q \in Procs : step'[q] = (IF q = p THEN "delete" ELSE step[q])
  BY DEF ToolType
<1>1. ToolType'
  BY DEF ToolType, Stations
<1>2. TriesAreCounted' /\ (Honest' => Honest)
  BY <1>0 DEF TriesAreCounted, Honest, Tool!NoTryLeft, ToolType
<1>3. OwnersWereStarted'
  BY <1>0 DEF OwnersWereStarted, ToolType
<1>4. HoldsTheLock'
  BY <1>0, <1>2 DEF HoldsTheLock, ToolType
<1>5. ListedWasPrinted'
  BY <1>0, <1>2 DEF ListedWasPrinted, ToolType
<1> QED
  BY <1>1, <1>2, <1>3, <1>4, <1>5

\* The first place left.
LEMMA FirstPlace ==
  ASSUME NEW S, S \subseteq Places, S # {}
  PROVE  (CHOOSE j \in S : \A k \in S : j <= k) \in S
<1>1. \E j \in S : \A k \in S : j <= k
  BY ToolAssumption, LeastNumber
<1> QED
  BY <1>1

LEMMA DeleteKeeps ==
  ASSUME ToolInv, NEW p \in Procs, Tool!Delete(p)
  PROVE  /\ ToolInv'
         /\ \A i \in Places : store[i] > 0 /\ store'[i] # store[i] => store[i] \in printed \/ ~ Honest
<1> USE DEF ToolInv
<1>0. UNCHANGED <<lock, retries, seen, sms, printed, robbed>> /\ step[p] = "delete" /\ idx[p] \subseteq Places
  BY DEF ToolType, Tool!Delete
<1>1. CASE idx[p] = {}
  <2>0. step' = [step EXCEPT ![p] = "unlock"] /\ UNCHANGED <<idx, store>>
    BY <1>1 DEF Tool!Delete, Tool!Go
  <2>1. ToolType'
    BY <1>0, <2>0 DEF ToolType, Stations
  <2>2. TriesAreCounted' /\ (Honest' => Honest)
    BY <1>0 DEF TriesAreCounted, Honest, Tool!NoTryLeft
  <2>3. OwnersWereStarted'
    BY <1>0, <2>0 DEF OwnersWereStarted, ToolType
  <2>4. HoldsTheLock'
    BY <1>0, <2>0, <2>2 DEF HoldsTheLock, ToolType
  <2>5. ListedWasPrinted'
    BY <1>0, <2>0, <2>2 DEF ListedWasPrinted, ToolType
  <2> QED
    BY <2>0, <2>1, <2>2, <2>3, <2>4, <2>5
<1>2. CASE idx[p] # {}
  <2> DEFINE first == CHOOSE j \in idx[p] : \A k \in idx[p] : j <= k
  <2>0. /\ store' = [store EXCEPT ![first] = 0] /\ idx' = [idx EXCEPT ![p] = @ \ {first}]
        /\ step' = step
    BY <1>2 DEF Tool!Delete
  <2>01. first \in idx[p] /\ first \in Places
    BY <1>0, <1>2, FirstPlace
  <2> HIDE DEF first
  <2>1. ToolType'
    <3>1. idx' \in [Procs -> SUBSET Places] /\ store' \in [Places -> Int]
      BY <2>0, <2>01 DEF ToolType
    <3> QED
      BY <1>0, <2>0, <3>1 DEF ToolType
  <2>2. TriesAreCounted' /\ (Honest' => Honest)
    BY <1>0 DEF TriesAreCounted, Honest, Tool!NoTryLeft
  <2>3. OwnersWereStarted'
    BY <1>0, <2>0 DEF OwnersWereStarted
  <2>4. HoldsTheLock'
    BY <1>0, <2>0, <2>2 DEF HoldsTheLock
  <2>5. Honest => \A q \in Procs : step[q] = "delete" => q = p
    BY <1>0 DEF HoldsTheLock
  <2>6. /\ \A i \in idx'[p] : i \in idx[p] /\ i # first
        /\ \A i \in Places : i # first => store'[i] = store[i]
    BY <1>0, <2>0 DEF ToolType
  <2>7. ListedWasPrinted'
    BY <1>0, <2>0, <2>2, <2>5, <2>6 DEF ListedWasPrinted
  <2>8. Honest /\ store[first] > 0 => store[first] \in printed
    BY <1>0, <2>01 DEF ListedWasPrinted
  <2> QED
    BY <2>1, <2>2, <2>3, <2>4, <2>6, <2>7, <2>8
<1> QED
  BY <1>1, <1>2

LEMMA AlarmKeeps ==
  ASSUME ToolInv, NEW p \in Procs, Tool!Alarm(p)
  PROVE  ToolInv'
<1> USE ToolAssumption DEF ToolInv, Tool!Alarm, Tool!Go
<1>0. /\ UNCHANGED <<lock, retries, seen, store, sms, printed, robbed>>
      /\ \A q \in Procs : step'[q] = (IF q = p THEN "unlock" ELSE step[q])
      /\ \A q \in Procs : q # p => idx'[q] = idx[q]
  BY DEF ToolType
<1>1. ToolType'
  BY DEF ToolType, Stations
<1>2. TriesAreCounted' /\ (Honest' => Honest)
  BY <1>0 DEF TriesAreCounted, Honest, Tool!NoTryLeft, ToolType
<1>3. OwnersWereStarted'
  BY <1>0 DEF OwnersWereStarted, ToolType
<1>4. HoldsTheLock'
  BY <1>0, <1>2 DEF HoldsTheLock, ToolType
<1>5. ListedWasPrinted'
  BY <1>0, <1>2 DEF ListedWasPrinted, ToolType
<1> QED
  BY <1>1, <1>2, <1>3, <1>4, <1>5

\* What arrives takes a place that is free, and so none that is to be deleted.
LEMMA SmsArrivesKeeps ==
  ASSUME ToolInv, Tool!SmsArrives
  PROVE  ToolInv' /\ \A i \in Places : store[i] > 0 => store'[i] = store[i]
<1> USE DEF ToolInv
<1> DEFINE free == {i \in Places : store[i] = 0}
           first == CHOOSE i \in free : \A j \in free : i <= j
<1>0. UNCHANGED <<lock, step, retries, seen, idx, printed, robbed>> /\ sms \in Nat /\ sms' = sms + 1 /\ free # {}
  BY DEF Tool!SmsArrives, ToolType
<1>1. PICK m \in {sms + 1, -(sms + 1)} : store' = [store EXCEPT ![first] = m]
  BY DEF Tool!SmsArrives
<1>2. first \in free
  <2>1. free \subseteq Places
    OBVIOUS
  <2> HIDE DEF free
  <2> QED
    BY <1>0, <2>1, FirstPlace
<1>3. first \in Places /\ store[first] = 0 /\ m \in Int
  BY <1>0, <1>2
<1> HIDE DEF first, free
<1>4. \A i \in Places : store[i] # 0 => store'[i] = store[i]
  BY <1>1, <1>3 DEF ToolType
<1>5. ToolType'
  BY <1>0, <1>1, <1>3 DEF ToolType
<1>6. TriesAreCounted' /\ (Honest' => Honest) /\ OwnersWereStarted'
  BY <1>0 DEF TriesAreCounted, Honest, Tool!NoTryLeft, OwnersWereStarted
<1>7. HoldsTheLock'
  BY <1>0, <1>6 DEF HoldsTheLock
<1>8. \A p \in Procs : \A i \in idx[p] : i \in Places
  BY DEF ToolType
<1>9. ListedWasPrinted'
  BY <1>0, <1>4, <1>6, <1>8 DEF ListedWasPrinted
<1>10. \A i \in Places : store[i] > 0 => store'[i] = store[i]
  BY <1>4 DEF ToolType
<1> QED
  BY <1>5, <1>6, <1>7, <1>9, <1>10

LEMMA ToolStep ==
  ASSUME ToolInv, [MailMoves \/ ToolMoves \/ WordsMove]_mailMCVars
  PROVE  /\ ToolInv'
         /\ [\A i \in Places : store[i] > 0 /\ store'[i] # store[i] =>
                store[i] \in printed \/ robbed \/ Tool!NoTryLeft]_(Tool!vars)
<1>1. CASE UNCHANGED toolVars
  BY <1>1 DEF toolVars, Tool!vars, ToolInv, ToolType, TriesAreCounted, OwnersWereStarted, HoldsTheLock, ListedWasPrinted,
              Honest, Tool!NoTryLeft
<1>2. CASE Tool!Next
  <2>1. CASE Tool!SmsArrives
    BY <2>1, SmsArrivesKeeps
  <2>2. ASSUME NEW p \in Procs, Tool!Delete(p)
        PROVE  /\ ToolInv'
               /\ \A i \in Places : store[i] > 0 /\ store'[i] # store[i] =>
                      store[i] \in printed \/ robbed \/ Tool!NoTryLeft
    BY <2>2, DeleteKeeps DEF Honest
  <2>3. ASSUME NEW p \in Procs, Tool!Start(p) \/ Tool!Step(p) \/ Tool!Alarm(p) \/ Tool!Killed(p), ~ Tool!Delete(p)
        PROVE  ToolInv' /\ store' = store
    <3>1. CASE Tool!Try(p)
      BY <3>1, TryKeeps DEF Tool!Try, Tool!session
    <3>2. CASE Tool!Unlink(p)
      BY <3>2, UnlinkKeeps DEF Tool!Unlink, Tool!session
    <3>3. CASE Tool!Link(p)
      BY <3>3, LinkKeeps DEF Tool!Link, Tool!session
    <3>4. CASE Tool!Remove(p)
      BY <3>4, RemoveKeeps DEF Tool!Remove, Tool!session
    <3>5. CASE Tool!Start(p) \/ Tool!Look(p) \/ Tool!Probe(p) \/ Tool!Send(p) \/ Tool!Unlock(p) \/ Tool!Killed(p)
      BY <3>5, GoingOnKeeps
         DEF Tool!Start, Tool!Look, Tool!Probe, Tool!Send, Tool!Unlock, Tool!Killed, Tool!session
    <3>6. CASE Tool!List(p)
      BY <3>6, ListKeeps DEF Tool!List
    <3>7. CASE Tool!Alarm(p)
      BY <3>7, AlarmKeeps DEF Tool!Alarm
    <3> QED
      BY <2>3, <3>1, <3>2, <3>3, <3>4, <3>5, <3>6, <3>7 DEF Tool!Step
  <2> QED
    BY <1>2, <2>1, <2>2, <2>3 DEF Tool!Next
<1> QED
  BY <1>1, <1>2 DEF MailMoves, ToolMoves, WordsMove, mailMCVars

\* The lock does what it is for, for any number of processes, places and tries, whoever is
\* killed when: no message is deleted from the modem before it was printed unless it cannot
\* be decoded, or a process was there without the lock (lockfile.c:18-72).
THEOREM LockKeepsOrder == MCSpec => ReadBeforeDelete
<1> DEFINE Told == [\A i \in Places : store[i] > 0 /\ store'[i] # store[i] =>
                        store[i] \in printed \/ robbed \/ Tool!NoTryLeft]_(Tool!vars)
<1>1. ToolInv /\ [MailMoves \/ ToolMoves \/ WordsMove]_mailMCVars => ToolInv' /\ Told
  BY ToolStep
<1> HIDE DEF Told
<1>2. MCSpec => [][Told]_(Tool!vars)
  BY <1>1, ToolInitial, PTL DEF MCSpec, mailMCVars
<1> QED
  BY <1>2, PTL DEF ReadBeforeDelete, Tool!ReadBeforeDelete, Told

-----------------------------------------------------------------------------
(* The mail.  While the clock is not set back and the numbers of messages last, the   *)
(* files of the outbox are never mistaken for one another, and what is on its way      *)
(* between modemd and the modem, late answers aside, belongs to the message in hand.    *)
IsSeq(s) == \E S : s \in Seq(S)
Wire(s) == IsSeq(s) /\ \A i \in DOMAIN s : s[i].old \in BOOLEAN
AllOld(s) == IsSeq(s) /\ \A i \in DOMAIN s : s[i].old = TRUE

FaultKinds == {"late", "disk", "refused", "garbled", "unsolicited", "set back", "signal", "crash", "statusd crash"}

Counts == faults \in Seq(FaultKinds) /\ clock \in Nat /\ pushes \in Nat /\ pid \in [Daemons -> Nat]
IsDevice(d) == d = [store |-> d.store, pdu |-> d.pdu]
MailType == Wire(line) /\ Wire(busy) /\ Counts /\ IsDevice(dev)

InHand == outbox[cur].text.no

\* A good answer that is not late is one to the command in hand: the network has taken the message.
AnswersInTime ==
  \A i \in DOMAIN line : line[i].old = FALSE /\ line[i].k = "ok" =>
      mpc \in Awaiting \ {"cmgs"} /\ (mpc = "pdu" => InHand \in accepted)

\* What the modem still works on, late commands aside, belongs to the command in hand.
CommandsInTime ==
  \A i \in DOMAIN busy : busy[i].old = FALSE =>
      /\ mpc \in Awaiting
      /\ mpc \in {"cmgs", "pdu"} => busy[i].k \in {"cmgs", "pdu"}
      /\ busy[i].k = "pdu" => mpc = "pdu" /\ busy[i].n = InHand

SendsOneOfThem == mpc \in {"cmgs", "pdu", "sent"} => cur \in DOMAIN outbox
SentWasTaken == mpc = "sent" => rcOld \/ InHand \in accepted

\* The files of the outbox: a process numbers its messages in the order in which it writes them.
Numbered(q, most, time) ==
  /\ \A a \in DOMAIN q : /\ a \in [pid : Nat, n : Nat] /\ a.n \in 1..most
                         /\ q[a].ctime \in Nat /\ q[a].ctime <= time
  /\ \A a, b \in DOMAIN q : a.pid = b.pid /\ a.n < b.n => q[a].ctime <= q[b].ctime

InOrder == AnswersInTime /\ CommandsInTime /\ SendsOneOfThem /\ SentWasTaken /\ Numbered(outbox, pushes, clock)

\* As long as no answer is late and modemd does not crash, it and the modem are in step: there is
\* one answer on the line at most, to the command in hand, and nothing is left when it is taken.
\* A prompt that was not seen in time may be taken later; until a text follows it the modem is silent.
NoResult(l) == \A i \in DOMAIN l : l[i].k \notin {"ok", "err"}
NewResults(l) == \A i \in DOMAIN l : l[i].k \in {"ok", "err"} => l[i].old = FALSE
OneAnswer(l) == \A i, j \in DOMAIN l : l[i].k \in {"ok", "err", ">"} /\ l[j].k \in {"ok", "err", ">"} => i = j
Prompting(l, b) == \A i \in DOMAIN l : l[i].k = ">" => dev.pdu # "no" /\ \A j \in DOMAIN b : b[j].k # "pdu"
OneCommand(b) ==
  /\ \A j \in DOMAIN b : b[j].old = FALSE
  /\ \A j \in DOMAIN b : j # 1 => j = 2 /\ b[2].k = "pdu" /\ b[1].k # "pdu" /\ dev.pdu # "no"
InStep ==
  /\ rcOld = FALSE /\ OneAnswer(line) /\ NewResults(line)
  /\ NoResult(line) \/ (busy = <<>> /\ mpc \in Awaiting)
  /\ busy = <<>> \/ mpc \in Awaiting
  /\ Prompting(line, busy) /\ OneCommand(busy)

MailInv == MailType /\ (~ Renamed => InOrder) /\ (~ Late => InStep)

-----------------------------------------------------------------------------
LEMMA MarkedIs ==
  ASSUME NEW s, IsSeq(s), NEW o \in BOOLEAN
  PROVE  /\ Wire(Marked(s, o)) /\ DOMAIN Marked(s, o) = DOMAIN s
         /\ \A i \in DOMAIN s : Marked(s, o)[i].old = o /\ Marked(s, o)[i].k = s[i].k
<1> DEFINE m == Marked(s, o)
<1>1. PICK S : s \in Seq(S)
  BY DEF IsSeq
<1>2. m = [i \in DOMAIN s |-> [k |-> s[i].k, n |-> s[i].n, old |-> o]]
  BY DEF Marked
<1>3. DOMAIN s = 1..Len(s) /\ Len(s) \in Nat
  BY <1>1
<1> DEFINE T == {m[i] : i \in DOMAIN s}
<1>4. m \in [1..Len(s) -> T]
  BY <1>2, <1>3
<1>5. m \in Seq(T)
  BY <1>3, <1>4
<1>6. \A i \in DOMAIN s : m[i].old = o /\ m[i].k = s[i].k
  BY <1>2
<1> QED
  BY <1>2, <1>5, <1>6 DEF IsSeq, Wire

LEMMA AllOutdated ==
  ASSUME NEW s, IsSeq(s)
  PROVE  AllOld(Outdated(s)) /\ Wire(Outdated(s))
BY MarkedIs DEF Outdated, AllOld, Wire

LEMMA AppendedIs ==
  ASSUME NEW s, NEW e, Wire(s), e.old \in BOOLEAN
  PROVE  /\ Wire(Append(s, e))
         /\ \A i \in DOMAIN Append(s, e) : Append(s, e)[i] = e \/ (i \in DOMAIN s /\ Append(s, e)[i] = s[i])
<1>1. PICK S : s \in Seq(S)
  BY DEF IsSeq, Wire
<1>2. s \in Seq(S \cup {e}) /\ e \in S \cup {e}
  BY <1>1
<1>3. Append(s, e) \in Seq(S \cup {e})
  BY <1>2
<1>4. \A i \in DOMAIN Append(s, e) : Append(s, e)[i] = e \/ (i \in DOMAIN s /\ Append(s, e)[i] = s[i])
  BY <1>2
<1> QED
  BY <1>3, <1>4 DEF IsSeq, Wire

LEMMA JoinedIs ==
  ASSUME NEW s, NEW t, Wire(s), Wire(t)
  PROVE  /\ Wire(s \o t)
         /\ \A i \in DOMAIN (s \o t) : \/ i \in DOMAIN s /\ (s \o t)[i] = s[i]
                                       \/ \E j \in DOMAIN t : (s \o t)[i] = t[j]
<1>1. PICK S : s \in Seq(S)
  BY DEF IsSeq, Wire
<1>2. PICK T : t \in Seq(T)
  BY DEF IsSeq, Wire
<1>3. s \in Seq(S \cup T) /\ t \in Seq(S \cup T)
  BY <1>1, <1>2
<1>4. s \o t \in Seq(S \cup T)
  BY <1>3
<1>5. ASSUME NEW i \in DOMAIN (s \o t)
      PROVE  \/ i \in DOMAIN s /\ (s \o t)[i] = s[i]
             \/ \E j \in DOMAIN t : (s \o t)[i] = t[j]
  <2>1. i \in 1..(Len(s) + Len(t)) /\ Len(s) \in Nat /\ Len(t) \in Nat /\ DOMAIN s = 1..Len(s) /\ DOMAIN t = 1..Len(t)
    BY <1>3
  <2>2. CASE i <= Len(s)
    BY <1>3, <2>1, <2>2
  <2>3. CASE ~ (i <= Len(s))
    <3>1. i - Len(s) \in 1..Len(t)
      BY <2>1, <2>3
    <3>2. (s \o t)[i] = t[i - Len(s)]
      BY <1>3, <2>1, <2>3
    <3> QED
      BY <2>1, <3>1, <3>2
  <2> QED
    BY <2>2, <2>3
<1> QED
  BY <1>4, <1>5 DEF IsSeq, Wire

\* Where the elements of a joined sequence come from.
LEMMA JoinedAt ==
  ASSUME NEW S, NEW s \in Seq(S), NEW t \in Seq(S)
  PROVE  /\ DOMAIN (s \o t) = 1..(Len(s) + Len(t)) /\ Len(s) \in Nat /\ Len(t) \in Nat
         /\ \A i \in 1..Len(s) : (s \o t)[i] = s[i]
         /\ \A j \in 1..Len(t) : (s \o t)[Len(s) + j] = t[j]
<1>1. DOMAIN (s \o t) = 1..(Len(s) + Len(t)) /\ Len(s) \in Nat /\ Len(t) \in Nat
  OBVIOUS
<1>2. ASSUME NEW i \in 1..Len(s) PROVE (s \o t)[i] = s[i]
  <2>1. i <= Len(s) /\ i \in 1..(Len(s) + Len(t))
    BY <1>1
  <2> QED
    BY <2>1
<1>3. ASSUME NEW j \in 1..Len(t) PROVE (s \o t)[Len(s) + j] = t[j]
  <2>1. ~ (Len(s) + j <= Len(s)) /\ Len(s) + j \in 1..(Len(s) + Len(t)) /\ Len(s) + j - Len(s) = j
    BY <1>1
  <2>2. (s \o t)[Len(s) + j] = t[Len(s) + j - Len(s)]
    BY <1>1, <2>1
  <2> QED
    BY <2>1, <2>2
<1> QED
  BY <1>1, <1>2, <1>3

LEMMA TailIs ==
  ASSUME NEW s, Wire(s), s # <<>>
  PROVE  Wire(Tail(s)) /\ \A i \in DOMAIN Tail(s) : \E j \in DOMAIN s : Tail(s)[i] = s[j]
<1>1. PICK S : s \in Seq(S)
  BY DEF IsSeq, Wire
<1>2. Tail(s) \in Seq(S)
  BY <1>1
<1>3. ASSUME NEW i \in DOMAIN Tail(s)
      PROVE  \E j \in DOMAIN s : Tail(s)[i] = s[j]
  <2>1. i + 1 \in DOMAIN s /\ Tail(s)[i] = s[i + 1]
    BY <1>1
  <2> QED
    BY <2>1
<1> QED
  BY <1>2, <1>3 DEF IsSeq, Wire

-----------------------------------------------------------------------------
(* What a wait brings.                                                     *)
LEMMA StatusIs ==
  ASSUME NEW unsolicited, Wire(line)
  PROVE  LET st == GetStatus(line, unsolicited)
         IN  /\ AllOld(st.rest) /\ st.old \in BOOLEAN
             /\ Results(line) = {} => st.rc = "err"
             /\ Results(line) # {} => \E i \in DOMAIN line : st.rc = line[i].k /\ st.old = line[i].old
             /\ st.rc \in {"ok", "err"}
<1> DEFINE timedOut == Results(line) = {}
           n == IF ~timedOut THEN Minimum(Results(line))
                ELSE IF line # <<>> /\ Last(line).k = ">" THEN Len(line) - 1 ELSE Len(line)
           st == GetStatus(line, unsolicited)
           rest == SubSeq(line, n + 1, Len(line))
<1>1. PICK S : line \in Seq(S)
  BY DEF IsSeq, Wire
<1>2. Len(line) \in Nat /\ DOMAIN line = 1..Len(line)
  BY <1>1
<1>3. Results(line) # {} => Minimum(Results(line)) \in Results(line)
  <2>1. Results(line) \subseteq Nat
    BY <1>2 DEF Results
  <2> QED
    BY <2>1, LeastNumber DEF Minimum
<1>4. n \in Int /\ n >= 0 /\ (Results(line) # {} => n \in Results(line))
  <2>1. CASE Results(line) = {}
    <3>1. line # <<>> => Len(line) >= 1
      BY <1>1
    <3> QED
      BY <1>2, <2>1, <3>1
  <2>2. CASE Results(line) # {}
    BY <1>2, <1>3, <2>2 DEF Results
  <2> QED
    BY <2>1, <2>2
<1> HIDE DEF n
<1>5. IsSeq(rest)
  <2>1. rest \in Seq(S)
    BY <1>1, <1>2, <1>4
  <2> QED
    BY <2>1 DEF IsSeq
<1>6. st.rest = Outdated(rest) /\ st.old = (~timedOut /\ line[n].old) /\ st.rc = ResultCode(line)
  BY DEF GetStatus, n
<1>7. AllOld(st.rest)
  BY <1>5, <1>6, AllOutdated
<1>8. CASE Results(line) = {}
  BY <1>6, <1>7, <1>8 DEF ResultCode
<1>9. CASE Results(line) # {}
  <2>1. n \in DOMAIN line /\ line[n].k \in {"ok", "err"} /\ line[n].old \in BOOLEAN
    BY <1>4, <1>9 DEF Results, Wire
  <2>2. n = Minimum(Results(line))
    BY <1>9 DEF n
  <2>3. st.rc = line[n].k
    BY <1>6, <1>9, <2>2 DEF ResultCode
  <2>4. st.old = line[n].old
    BY <1>6, <1>9, <2>1
  <2> QED
    BY <1>7, <1>9, <2>1, <2>3, <2>4
<1> QED
  BY <1>8, <1>9

Waiting == Awaiting \ {"cmgs", "pdu"}
LEMMA WhatFollows ==
  ASSUME NEW rc, NEW l, NEW b, mpc \in Awaiting, Proceed(rc, l, b)
  PROVE  /\ line' = l
         /\ \/ /\ busy' = b /\ mpc' \in {"down", "outbox", "sent", "inbox", "idle"}
               /\ mpc' = "sent" => mpc \in {"cmgs", "pdu"} /\ rc # "err"
            \/ mpc' \in Waiting /\ busy' = Append(b, Command(mpc', 0))
BY DEF Awaiting, Waiting, Proceed, Terminate, Retry, SendCommand, Command

\* The modem: a good answer is one to the text of a message, which it takes, or to another command;
\* a command has one answer.
LEMMA AnswerIs ==
  ASSUME NEW cmd, cmd.old \in BOOLEAN, NEW fails \in BOOLEAN
  PROVE  LET answer == Answer(dev, cmd, fails)
         IN  /\ Wire(answer.line) /\ \A i \in DOMAIN answer.line : answer.line[i].old = cmd.old
             /\ answer.accepts \in BOOLEAN
             /\ \A i \in DOMAIN answer.line : answer.line[i].k = "ok" =>
                   cmd.k # "cmgs" /\ (cmd.k = "pdu" => answer.accepts)
             /\ OneAnswer(answer.line)
             /\ \A i \in DOMAIN answer.line : answer.line[i].k = ">" => dev.pdu = "no" /\ ~fails /\ cmd.k = "cmgs"
<1> DEFINE One(k) == <<Item(k, 0)>>
           Fine(s) == /\ IsSeq(s) /\ OneAnswer(s)
                      /\ \A i \in DOMAIN s : s[i].k = "ok" => cmd.k \notin {"cmgs", "pdu"}
                      /\ \A i \in DOMAIN s : s[i].k = ">" => dev.pdu = "no" /\ ~fails /\ cmd.k = "cmgs"
           answer == Answer(dev, cmd, fails)
           Goal == /\ Wire(answer.line) /\ \A i \in DOMAIN answer.line : answer.line[i].old = cmd.old
                   /\ answer.accepts \in BOOLEAN
                   /\ \A i \in DOMAIN answer.line : answer.line[i].k = "ok" =>
                         cmd.k # "cmgs" /\ (cmd.k = "pdu" => answer.accepts)
                   /\ OneAnswer(answer.line)
                   /\ \A i \in DOMAIN answer.line : answer.line[i].k = ">" => dev.pdu = "no" /\ ~fails /\ cmd.k = "cmgs"
<1>1. IsSeq(<<>>) /\ \A k : IsSeq(One(k)) /\ DOMAIN One(k) = {1} /\ One(k)[1].k = k
  <2>1. <<>> \in Seq({})
    OBVIOUS
  <2>2. ASSUME NEW k PROVE One(k) \in Seq({Item(k, 0)}) /\ DOMAIN One(k) = {1} /\ One(k)[1].k = k
    BY DEF Item
  <2> HIDE DEF One
  <2> QED
    BY <2>1, <2>2 DEF IsSeq
<1>2. /\ Fine(<<>>) /\ Fine(One("err")) /\ \A k : OneAnswer(One(k))
      /\ dev.pdu = "no" /\ ~fails /\ cmd.k = "cmgs" => Fine(One(">"))
  BY <1>1 DEF OneAnswer
<1>3. LET s == Listing(dev.store) \o One("ok")
      IN  IsSeq(s) /\ OneAnswer(s) /\ \A i \in DOMAIN s : s[i].k # ">"
  <2> DEFINE used == {s \in Slots : dev.store[s] # None}
             n == Cardinality(used)
             listing == Listing(dev.store)
             S == {listing[i] : i \in 1..2 * n}
  <2>1. n \in Nat
    <3>1. IsFiniteSet(used)
      BY ModemAssumption, FS_Subset
    <3> QED
      BY <3>1, FS_CardinalityType
  <2>2. /\ DOMAIN listing = 1..2 * n /\ listing = [i \in 1..2 * n |-> listing[i]]
        /\ \A i \in 1..2 * n : listing[i].k \in {"cmgl", "pdu"}
    BY DEF Listing, Item
  <2> HIDE DEF n, listing
  <2>3. listing \in Seq(S)
    BY <2>1, <2>2
  <2>4. listing \in Seq(S \cup {Item("ok", 0)}) /\ One("ok") \in Seq(S \cup {Item("ok", 0)})
    BY <2>3
  <2>5. listing \o One("ok") \in Seq(S \cup {Item("ok", 0)})
    BY <2>4
  <2> DEFINE s == listing \o One("ok")
  <2>6. /\ DOMAIN s = 1..(2 * n + 1) /\ s[2 * n + 1].k = "ok"
        /\ \A i \in 1..2 * n : s[i].k \in {"cmgl", "pdu"}
    <3>1. Len(listing) = 2 * n /\ Len(One("ok")) = 1 /\ One("ok")[1].k = "ok"
      BY <1>1, <2>1, <2>2, <2>3
    <3>2. DOMAIN s = 1..(2 * n + 1) /\ s[2 * n + 1] = One("ok")[1] /\ \A i \in 1..2 * n : s[i] = listing[i]
      <4> HIDE DEF One
      <4>1. /\ DOMAIN s = 1..(Len(listing) + Len(One("ok"))) /\ \A i \in 1..Len(listing) : s[i] = listing[i]
            /\ \A j \in 1..Len(One("ok")) : s[Len(listing) + j] = One("ok")[j]
        BY <2>4, JoinedAt
      <4> QED
        BY <2>1, <3>1, <4>1
    <3> QED
      BY <2>2, <3>1, <3>2
  <2> HIDE DEF s
  <2>7. \A i \in DOMAIN s : i # 2 * n + 1 => s[i].k \in {"cmgl", "pdu"}
    <3>1. \A i \in 1..(2 * n + 1) : i # 2 * n + 1 => i \in 1..2 * n
      BY <2>1
    <3> QED
      BY <2>6, <3>1
  <2>8. OneAnswer(s) /\ \A i \in DOMAIN s : s[i].k # ">"
    BY <2>6, <2>7 DEF OneAnswer
  <2> QED
    BY <2>5, <2>8 DEF IsSeq, listing, s
<1> HIDE DEF One
<1>4. ASSUME NEW s, Fine(s), answer.line = Marked(s, cmd.old), answer.accepts = FALSE
      PROVE  Goal
  <2>1. Wire(answer.line) /\ DOMAIN answer.line = DOMAIN s
    BY <1>4, MarkedIs
  <2>2. \A i \in DOMAIN s : answer.line[i].old = cmd.old /\ answer.line[i].k = s[i].k
    BY <1>4, MarkedIs
  <2> HIDE DEF answer
  <2>3. OneAnswer(answer.line)
    BY <1>4, <2>1, <2>2 DEF OneAnswer
  <2>4. /\ \A i \in DOMAIN answer.line : answer.line[i].old = cmd.old
        /\ \A i \in DOMAIN answer.line : answer.line[i].k = "ok" => cmd.k \notin {"cmgs", "pdu"}
        /\ \A i \in DOMAIN answer.line : answer.line[i].k = ">" => dev.pdu = "no" /\ ~fails /\ cmd.k = "cmgs"
    BY <1>4, <2>1, <2>2
  <2> HIDE DEF Fine
  <2> QED
    BY <1>4, <2>1, <2>3, <2>4
<1>5. CASE dev.pdu # "no"
  <2>1. CASE cmd.k # "pdu"
    <3>1. answer.line = Marked(<<>>, cmd.old) /\ answer.accepts = FALSE
      BY <1>5, <2>1 DEF Answer
    <3> QED
      BY <1>2, <1>4, <3>1
  <2>2. CASE cmd.k = "pdu" /\ (fails \/ dev.pdu = "spoilt")
    <3>1. answer.line = Marked(One("err"), cmd.old) /\ answer.accepts = FALSE
      BY <1>5, <2>2 DEF Answer, One
    <3> QED
      BY <1>2, <1>4, <3>1
  <2>3. CASE cmd.k = "pdu" /\ ~ (fails \/ dev.pdu = "spoilt")
    <3>1. answer.line = Marked(One("ok"), cmd.old) /\ answer.accepts = TRUE
      BY <1>5, <2>3 DEF Answer, One
    <3>2. /\ Wire(answer.line) /\ DOMAIN answer.line = {1} /\ answer.line[1].k = "ok"
          /\ \A i \in DOMAIN answer.line : answer.line[i].old = cmd.old
      BY <1>1, <3>1, MarkedIs
    <3> HIDE DEF answer
    <3>3. OneAnswer(answer.line)
      BY <3>2 DEF OneAnswer
    <3>4. \A i \in DOMAIN answer.line : answer.line[i].k = "ok"
      BY <3>2
    <3>5. answer.accepts = TRUE
      BY <1>5, <2>3 DEF Answer, answer
    <3>6. Goal
      BY <2>3, <3>2, <3>3, <3>4, <3>5
    <3> QED
      BY <3>6 DEF answer
  <2> QED
    BY <2>1, <2>2, <2>3
<1>6. CASE dev.pdu = "no"
  <2>1. CASE fails \/ cmd.k = "pdu"
    <3>1. answer.line = Marked(One("err"), cmd.old) /\ answer.accepts = FALSE
      BY <1>6, <2>1 DEF Answer, One
    <3> QED
      BY <1>2, <1>4, <3>1
  <2>2. CASE ~ (fails \/ cmd.k = "pdu") /\ cmd.k = "cmgs"
    <3>1. answer.line = Marked(One(">"), cmd.old) /\ answer.accepts = FALSE
      BY <1>6, <2>2 DEF Answer, One
    <3> QED
      BY <1>2, <1>4, <1>6, <2>2, <3>1
  <2>3. CASE cmd.k = "cmgl" /\ ~ fails
    <3>1. answer.line = Marked(Listing(dev.store) \o One("ok"), cmd.old) /\ answer.accepts = FALSE
      BY <1>6, <2>3 DEF Answer, One
    <3> QED
      BY <1>3, <1>4, <2>3, <3>1
  <2>4. CASE ~ fails /\ cmd.k \notin {"pdu", "cmgs", "cmgl"}
    <3>1. answer.line = Marked(One("ok"), cmd.old) /\ answer.accepts = FALSE
      BY <1>6, <2>4 DEF Answer, One
    <3>2. Fine(One("ok"))
      BY <1>1, <1>2, <2>4
    <3> QED
      BY <1>4, <3>1, <3>2
  <2> QED
    BY <2>1, <2>2, <2>3, <2>4
<1> QED
  BY <1>5, <1>6

-----------------------------------------------------------------------------
(* The queue.                                                              *)
LEMMA OldestIsThere ==
  ASSUME NEW q, NEW most, NEW time, Numbered(q, most, time), DOMAIN q # {}
  PROVE  OldestId(q) \in DOMAIN q
<1>1. PICK t \in {q[a].ctime : a \in DOMAIN q} : \A u \in {q[a].ctime : a \in DOMAIN q} : t <= u
  <2>1. {q[a].ctime : a \in DOMAIN q} \subseteq Nat /\ {q[a].ctime : a \in DOMAIN q} # {}
    BY DEF Numbered
  <2> QED
    BY <2>1, LeastNumber
<1> DEFINE First == {a \in DOMAIN q : q[a].ctime = t}
<1>2. PICK p \in {a.pid : a \in First} : \A u \in {a.pid : a \in First} : p <= u
  <2>1. {a.pid : a \in First} \subseteq Nat /\ {a.pid : a \in First} # {}
    BY <1>1 DEF Numbered
  <2> QED
    BY <2>1, LeastNumber
<1> DEFINE Own == {a \in First : a.pid = p}
<1>3. PICK m \in {a.n : a \in Own} : \A u \in {a.n : a \in Own} : m <= u
  <2>1. {a.n : a \in Own} \subseteq Nat /\ {a.n : a \in Own} # {}
    BY <1>2 DEF Numbered
  <2> QED
    BY <2>1, LeastNumber
<1>4. PICK a \in DOMAIN q : a.n = m /\ a.pid = p /\ q[a].ctime = t
  BY <1>3
<1>5. ASSUME NEW b \in DOMAIN q \ {a}
      PROVE  Before(q, a, b)
  <2>1. q[b].ctime \in Nat /\ t \in Nat /\ t <= q[b].ctime
    BY <1>1, <1>4 DEF Numbered
  <2>2. b.pid \in Nat /\ p \in Nat /\ (q[b].ctime = t => p <= b.pid)
    BY <1>2, <1>4 DEF Numbered
  <2>3. b.n \in Nat /\ m \in Nat /\ (q[b].ctime = t /\ b.pid = p => m <= b.n)
    BY <1>3, <1>4 DEF Numbered
  <2>4. b.pid = p => b.n # m
    BY <1>4 DEF Numbered
  <2> QED
    BY <1>4, <2>1, <2>2, <2>3, <2>4 DEF Before, IdLess
<1>6. \E x \in DOMAIN q : \A b \in DOMAIN q \ {x} : Before(q, x, b)
  BY <1>4, <1>5
<1> QED
  BY <1>6 DEF OldestId, FirstOf

\* The next number of a process is not in use, and greater than its others, until numbers start anew.
LEMMA NextIdIsNew ==
  ASSUME NEW q, NEW most \in Nat, NEW time \in Nat, Numbered(q, most, time), NEW p \in Nat, most < IdSpace
  PROVE  LET id == GetNextId(q, p)
         IN  /\ id \in [pid : Nat, n : Nat] /\ id.pid = p /\ id \notin DOMAIN q
             /\ most + 1 < IdSpace => /\ id.n \in 1..(most + 1)
                                      /\ \A a \in DOMAIN q : a.pid = p => a.n < id.n
<1> DEFINE own == {a \in DOMAIN q : a.pid = p}
           last == IF own = {} THEN 0 ELSE LastOf(q, own).n
           id == GetNextId(q, p)
<1>1. id = [pid |-> p, n |-> (last + 1) % IdSpace]
  BY DEF GetNextId
<1>2. last \in 0..most /\ \A a \in own : a.n <= last
  <2>1. CASE own = {}
    BY <2>1
  <2>2. CASE own # {}
    <3>1. PICK m \in {most - a.n : a \in own} : \A u \in {most - a.n : a \in own} : m <= u
      <4>1. {most - a.n : a \in own} \subseteq Nat /\ {most - a.n : a \in own} # {}
        BY <2>2 DEF Numbered
      <4> QED
        BY <4>1, LeastNumber
    <3>2. PICK g \in own : m = most - g.n
      BY <3>1
    <3>3. \A a \in own : a.n \in 1..most /\ a.n <= g.n
      BY <3>1, <3>2 DEF Numbered
    <3>4. \A b \in own \ {g} : Before(q, b, g)
      <4> SUFFICES ASSUME NEW b \in own \ {g} PROVE Before(q, b, g)
        OBVIOUS
      <4>1. b.n # g.n
        BY <3>2 DEF Numbered
      <4>2. b.n < g.n
        BY <3>2, <3>3, <4>1
      <4>3. q[b].ctime <= q[g].ctime /\ q[b].ctime \in Nat /\ q[g].ctime \in Nat
        BY <3>2, <4>2 DEF Numbered
      <4> QED
        BY <3>2, <4>2, <4>3 DEF Before, IdLess
    <3>5. \E x \in own : \A b \in own \ {x} : Before(q, b, x)
      BY <3>4
    <3>6. LastOf(q, own) \in own /\ \A b \in own \ {LastOf(q, own)} : Before(q, b, LastOf(q, own))
      BY <3>5 DEF LastOf
    <3>7. LastOf(q, own) = g
      <4> SUFFICES ASSUME LastOf(q, own) # g PROVE FALSE
        OBVIOUS
      <4> DEFINE x == LastOf(q, own)
      <4>1. x \in own /\ Before(q, x, g) /\ Before(q, g, x)
        BY <3>2, <3>4, <3>6
      <4>2. q[x].ctime \in Nat /\ q[g].ctime \in Nat /\ x.pid = g.pid /\ x.n \in Nat /\ g.n \in Nat /\ x.pid \in Nat
        BY <3>2, <4>1 DEF Numbered
      <4> HIDE DEF x
      <4> QED
        BY <4>1, <4>2 DEF Before, IdLess
    <3>8. last = g.n
      BY <2>2, <3>7
    <3> HIDE DEF last, own
    <3> QED
      BY <3>2, <3>3, <3>8
  <2> QED
    BY <2>1, <2>2
<1> HIDE DEF last
<1>3. CASE last + 1 < IdSpace
  <2>1. (last + 1) % IdSpace = last + 1
    <3>1. last + 1 \in 0..(IdSpace - 1)
      BY <1>2, <1>3, MailAssumption
    <3> QED
      BY <3>1, MailAssumption, ModSmall
  <2>2. id.n = last + 1 /\ id.pid = p /\ id \in [pid : Nat, n : Nat]
    BY <1>1, <1>2, <2>1
  <2>3. \A a \in own : a.n < id.n
    BY <1>2, <2>2 DEF Numbered
  <2>4. id \notin DOMAIN q
    BY <2>2, <2>3
  <2> QED
    BY <1>2, <2>2, <2>3, <2>4
<1>4. CASE ~ (last + 1 < IdSpace)
  <2>1. last = most /\ last + 1 = IdSpace
    BY <1>2, <1>4, MailAssumption
  <2>2. (last + 1) % IdSpace = 0
    BY <2>1, MailAssumption
  <2>3. id.n = 0 /\ id.pid = p /\ id \in [pid : Nat, n : Nat]
    BY <1>1, <2>2
  <2>4. id \notin DOMAIN q
    BY <2>3 DEF Numbered
  <2> QED
    BY <2>1, <2>3, <2>4
<1> QED
  BY <1>3, <1>4

-----------------------------------------------------------------------------
(* The steps.                                                              *)
LEMMA OneMore ==
  ASSUME NEW S, NEW f \in Seq(S), NEW e \in S
  PROVE  Append(f, e) \in Seq(S) /\ Range(Append(f, e)) = Range(f) \cup {e}
<1>1. /\ DOMAIN Append(f, e) = 1..(Len(f) + 1) /\ DOMAIN f = 1..Len(f) /\ Len(f) \in Nat
      /\ \A i \in 1..Len(f) : Append(f, e)[i] = f[i]
      /\ Append(f, e)[Len(f) + 1] = e
  OBVIOUS
<1>2. /\ \A i \in DOMAIN f : i \in DOMAIN Append(f, e) /\ Append(f, e)[i] = f[i]
      /\ \A i \in DOMAIN Append(f, e) : (i \in DOMAIN f /\ Append(f, e)[i] = f[i]) \/ Append(f, e)[i] = e
      /\ Len(f) + 1 \in DOMAIN Append(f, e)
  BY <1>1
<1>3. Append(f, e) \in Seq(S)
  OBVIOUS
<1> QED
  BY <1>1, <1>2, <1>3 DEF Range

LEMMA CountsKept ==
  ASSUME Counts, Next
  PROVE  /\ Counts' /\ (Renamed => Renamed')
         /\ clock' < clock => Renamed'
         /\ (Late => Late') /\ (Fault("late") \/ Fault("crash") => Late')
<1> DEFINE Grows == faults' = faults \/ \E kind \in FaultKinds : faults' = Append(faults, kind)
<1>1. Grows
  <2>0. (\A kind \in FaultKinds : Fault(kind) => Grows) /\ (UNCHANGED faults => Grows)
    BY DEF Fault
  <2> HIDE DEF Grows
  <2>1. CASE Modemd
    BY <2>0, <2>1 DEF FaultKinds, Modemd, Open, GotResult, TimedOut, GotPrompt, Outbox, Sent, PushReceived, PushFails, DeleteReceived,
                NoneReceived, IdleLoop, history
  <2>2. CASE Statusd
    BY <2>0, <2>2 DEF Statusd, Wake, TakeCommand, ActOnCommand, Report, Waited, history
  <2>3. CASE Environment
    BY <2>0, <2>3 DEF FaultKinds, Environment, ModemAnswers, SmsArrives, Unsolicited, Tick, SetBack, Signal, CrashModemd,
                      CrashStatusd, RestartModemd, RestartStatusd, history
  <2> QED
    BY <2>1, <2>2, <2>3 DEF Next
<1>2. pushes' \in {pushes, pushes + 1}
  <2>1. CASE Modemd
    BY <2>1 DEF Modemd, Open, GotResult, TimedOut, GotPrompt, Outbox, Sent, PushReceived, PushFails, DeleteReceived,
                NoneReceived, IdleLoop, history
  <2>2. CASE Statusd
    BY <2>2 DEF Statusd, Wake, TakeCommand, ActOnCommand, Report, Waited, history
  <2>3. CASE Environment
    BY <2>3 DEF Environment, ModemAnswers, SmsArrives, Unsolicited, Tick, SetBack, Signal, CrashModemd, CrashStatusd,
                RestartModemd, RestartStatusd, history
  <2> QED
    BY <2>1, <2>2, <2>3 DEF Next
<1>3. clock' \in {clock, clock + 1} \/ (clock' = 0 /\ faults' = Append(faults, "set back"))
  <2>1. CASE Modemd
    BY <2>1 DEF Modemd, Open, GotResult, TimedOut, GotPrompt, Outbox, Sent, PushReceived, PushFails, DeleteReceived,
                NoneReceived, IdleLoop, EndOfWait
  <2>2. CASE Statusd
    BY <2>2 DEF Statusd, Wake, TakeCommand, ActOnCommand, Report, Waited
  <2>3. CASE Environment
    BY <2>3 DEF Environment, ModemAnswers, SmsArrives, Unsolicited, Tick, SetBack, Signal, CrashModemd, CrashStatusd,
                RestartModemd, RestartStatusd, Fault
  <2> QED
    BY <2>1, <2>2, <2>3 DEF Next
<1>4. pid' \in [Daemons -> Nat]
  <2>1. NewPid \in Nat
    BY DEF NewPid, Counts, Daemons
  <2>2. CASE RestartModemd \/ RestartStatusd
    BY <2>1, <2>2 DEF RestartModemd, RestartStatusd, Counts
  <2>3. CASE Modemd
    BY <2>3 DEF Modemd, Open, GotResult, TimedOut, GotPrompt, Outbox, Sent, PushReceived, PushFails, DeleteReceived,
                NoneReceived, IdleLoop, EndOfWait, Counts
  <2>4. CASE Statusd
    BY <2>4 DEF Statusd, Wake, TakeCommand, ActOnCommand, Report, Waited, Counts
  <2>5. CASE Environment /\ ~ (RestartModemd \/ RestartStatusd)
    BY <2>5 DEF Environment, ModemAnswers, SmsArrives, Unsolicited, Tick, SetBack, Signal, CrashModemd, CrashStatusd,
                Counts
  <2> QED
    BY <2>2, <2>3, <2>4, <2>5 DEF Next
<1>0. clock \in Nat /\ pushes \in Nat
  BY DEF Counts
<1>5. ASSUME NEW kind \in FaultKinds, faults' = Append(faults, kind)
      PROVE  faults' \in Seq(FaultKinds) /\ Range(faults') = Range(faults) \cup {kind}
  BY <1>5, OneMore DEF Counts
<1>6. Counts'
  <2>1. faults' \in Seq(FaultKinds)
    BY <1>1, <1>5 DEF Counts
  <2>2. pushes' \in Nat
    BY <1>0, <1>2
  <2>3. clock' \in {clock, clock + 1, 0}
    BY <1>3
  <2>4. clock' \in Nat
    BY <1>0, <2>3
  <2> QED
    BY <1>4, <2>1, <2>2, <2>4 DEF Counts
<1>7. Renamed => Renamed'
  <2>1. Range(faults) \subseteq Range(faults')
    BY <1>1, <1>5
  <2>2. pushes' >= pushes
    BY <1>0, <1>2
  <2>3. Had({"set back"}) => Had({"set back"})'
    BY <2>1 DEF Had
  <2>4. pushes >= IdSpace => (pushes >= IdSpace)'
    BY <1>0, <1>2, MailAssumption
  <2> QED
    BY <2>3, <2>4 DEF Renamed
<1>8. clock' < clock => Renamed'
  <2>1. clock' \in {clock, clock + 1} => ~ (clock' < clock)
    BY DEF Counts
  <2>2. faults' = Append(faults, "set back") => "set back" \in Range(faults')
    BY <1>5 DEF FaultKinds
  <2> QED
    BY <1>3, <2>1, <2>2 DEF Renamed, Had
<1>9. (Late => Late') /\ (Fault("late") \/ Fault("crash") => Late')
  <2>1. Range(faults) \subseteq Range(faults')
    BY <1>1, <1>5
  <2>2. \A kind \in {"late", "crash"} : Fault(kind) => kind \in Range(faults')
    BY <1>5 DEF Fault, FaultKinds
  <2> QED
    BY <2>1, <2>2 DEF Late, Had
<1> QED
  BY <1>6, <1>7, <1>8, <1>9

Keeps == Wire(line)' /\ Wire(busy)' /\ (InOrder /\ ~ Renamed' => InOrder')

LEMMA NothingSent ==
  ASSUME Wire(line), Wire(busy), UNCHANGED <<line, busy, mpc, cur, accepted, rcOld, outbox, pushes>>,
         clock \in Nat, clock' \in Nat, clock' < clock => Renamed'
  PROVE  Keeps
BY DEF Keeps, InOrder, AnswersInTime, CommandsInTime, SendsOneOfThem, SentWasTaken, Numbered, InHand

\* What is on the line and in the modem when nobody waits for an answer.
NoGoodAnswer(l) == \A i \in DOMAIN l : ~ (l[i].old = FALSE /\ l[i].k = "ok")
LEMMA NobodyWaits ==
  ASSUME InOrder, Wire(line), Wire(busy), mpc \notin Awaiting
  PROVE  NoGoodAnswer(line) /\ \A i \in DOMAIN busy : busy[i].old = TRUE
BY DEF InOrder, AnswersInTime, CommandsInTime, Wire, NoGoodAnswer

LEMMA NewCommand ==
  ASSUME NEW b, Wire(b), \A i \in DOMAIN b : b[i].old = TRUE, Wire(line'), NoGoodAnswer(line'),
         \/ busy' = b
         \/ busy' = Append(b, Command(mpc', 0)) /\ mpc' \in Awaiting \ {"pdu"}
  PROVE  Wire(busy)' /\ AnswersInTime' /\ CommandsInTime'
<1>1. AnswersInTime'
  BY DEF NoGoodAnswer, AnswersInTime
<1>2. CASE busy' = b
  BY <1>1, <1>2 DEF CommandsInTime
<1>3. CASE busy' = Append(b, Command(mpc', 0)) /\ mpc' \in Awaiting \ {"pdu"}
  <2>1. Command(mpc', 0).old = FALSE /\ Command(mpc', 0).k = mpc'
    BY DEF Command
  <2>2. /\ Wire(busy')
        /\ \A i \in DOMAIN busy' : busy'[i] = Command(mpc', 0) \/ (i \in DOMAIN b /\ busy'[i] = b[i])
    BY <1>3, <2>1, AppendedIs
  <2>3. CommandsInTime'
    BY <1>3, <2>1, <2>2 DEF CommandsInTime, Awaiting
  <2> QED
    BY <1>1, <2>2, <2>3
<1> QED
  BY <1>2, <1>3

LEMMA WaitKeeps ==
  ASSUME Wire(line), Wire(busy), mpc \in Awaiting, EndOfWait(GetStatus(line, async)), UNCHANGED <<accepted, pushes>>
  PROVE  Keeps
<1> DEFINE st == GetStatus(line, async)
           b == Outdated(busy)
<1>1. /\ AllOld(st.rest) /\ st.old \in BOOLEAN /\ st.rc \in {"ok", "err"}
      /\ Results(line) = {} => st.rc = "err"
      /\ Results(line) # {} => \E i \in DOMAIN line : st.rc = line[i].k /\ st.old = line[i].old
  BY StatusIs
<1>2. Wire(b) /\ \A i \in DOMAIN b : b[i].old = TRUE
  BY AllOutdated DEF Wire, AllOld
<1>3. Proceed(st.rc, st.rest, b) /\ rcOld' = st.old /\ UNCHANGED <<clock, outbox, cur, accepted, pushes>>
  BY DEF EndOfWait, queues
<1> HIDE DEF st, b
<1>4. /\ line' = st.rest
      /\ \/ /\ busy' = b /\ mpc' \in {"down", "outbox", "sent", "inbox", "idle"}
            /\ mpc' = "sent" => mpc \in {"cmgs", "pdu"} /\ st.rc # "err"
         \/ mpc' \in Waiting /\ busy' = Append(b, Command(mpc', 0))
  BY <1>3, WhatFollows
<1>5. Wire(line') /\ NoGoodAnswer(line')
  BY <1>1, <1>4 DEF AllOld, Wire, NoGoodAnswer
<1>6. Wire(busy)' /\ AnswersInTime' /\ CommandsInTime'
  BY <1>2, <1>4, <1>5, NewCommand DEF Waiting
<1>7. mpc' = "sent" => mpc \in {"cmgs", "pdu"} /\ st.rc = "ok"
  BY <1>1, <1>4 DEF Waiting, Awaiting
<1>8. mpc' \notin {"cmgs", "pdu"}
  BY <1>4 DEF Waiting
<1>9. InOrder => SendsOneOfThem' /\ Numbered(outbox, pushes, clock)'
  BY <1>3, <1>7, <1>8 DEF InOrder, SendsOneOfThem
<1>10. InOrder => SentWasTaken'
  <2> SUFFICES ASSUME InOrder, mpc' = "sent", rcOld' # TRUE PROVE InHand' \in accepted'
    BY DEF SentWasTaken
  <2>1. PICK i \in DOMAIN line : line[i].k = "ok" /\ line[i].old = st.old
    BY <1>1, <1>7
  <2>2. line[i].old = FALSE
    BY <1>1, <1>3, <2>1
  <2>3. mpc = "pdu" /\ InHand \in accepted
    BY <1>7, <2>1, <2>2 DEF InOrder, AnswersInTime
  <2> QED
    BY <1>3, <2>3 DEF InHand
<1> QED
  BY <1>5, <1>6, <1>9, <1>10 DEF Keeps, InOrder

LEMMA PromptKeeps ==
  ASSUME Wire(line), Wire(busy), GotPrompt
  PROVE  Keeps
<1> DEFINE pdu == Command("pdu", InHand)
<1>1. /\ line # <<>> /\ line' = Tail(line) /\ busy' = Append(busy, pdu) /\ mpc = "cmgs" /\ mpc' = "pdu"
      /\ UNCHANGED <<clock, outbox, cur, rcOld, accepted, pushes>>
  BY DEF GotPrompt, Prompted, SendCommand, Command, InHand, queues, history
<1>2. Wire(Tail(line)) /\ \A i \in DOMAIN Tail(line) : \E j \in DOMAIN line : Tail(line)[i] = line[j]
  BY <1>1, TailIs
<1>3. pdu.old = FALSE /\ pdu.k = "pdu" /\ pdu.n = InHand
  BY DEF Command
<1> HIDE DEF pdu
<1>4. /\ Wire(busy')
      /\ \A i \in DOMAIN busy' : busy'[i] = pdu \/ (i \in DOMAIN busy /\ busy'[i] = busy[i])
  BY <1>1, <1>3, AppendedIs
<1>5. InHand' = InHand
  BY <1>1 DEF InHand
<1>6. InOrder => AnswersInTime'
  BY <1>1, <1>2 DEF InOrder, AnswersInTime
<1>7. InOrder => CommandsInTime'
  BY <1>1, <1>3, <1>4, <1>5 DEF InOrder, CommandsInTime, Awaiting
<1>8. InOrder => SendsOneOfThem' /\ SentWasTaken' /\ Numbered(outbox, pushes, clock)'
  BY <1>1 DEF InOrder, SendsOneOfThem, SentWasTaken
<1> QED
  BY <1>1, <1>2, <1>4, <1>6, <1>7, <1>8 DEF Keeps, InOrder

LEMMA OutboxKeeps ==
  ASSUME Wire(line), Wire(busy), Outbox
  PROVE  Keeps
<1>1. /\ mpc = "outbox" /\ UNCHANGED <<clock, outbox, line, rcOld, accepted, pushes>>
      /\ \/ DOMAIN outbox # {} /\ cur' = OldestId(outbox) /\ mpc' = "cmgs" /\ busy' = Append(busy, Command(mpc', 0))
         \/ mpc' = "cmgl" /\ busy' = Append(busy, Command(mpc', 0))
  <2>1. NumMessages(outbox) > 0 => DOMAIN outbox # {}
    BY FS_EmptySet DEF NumMessages
  <2> QED
    BY <2>1 DEF Outbox, SendCommand, Command, queues, history, ToSend
<1>2. Wire(busy')
  <2>1. Command(mpc', 0).old \in BOOLEAN
    BY DEF Command
  <2> QED
    BY <1>1, <2>1, AppendedIs
<1> SUFFICES ASSUME InOrder PROVE InOrder'
  BY <1>1, <1>2 DEF Keeps
<1>3. NoGoodAnswer(line) /\ \A i \in DOMAIN busy : busy[i].old = TRUE
  BY <1>1, NobodyWaits DEF Awaiting
<1>4. Wire(line') /\ NoGoodAnswer(line')
  BY <1>1, <1>3
<1>5. AnswersInTime' /\ CommandsInTime'
  BY <1>1, <1>3, <1>4, NewCommand DEF Awaiting
<1>6. SendsOneOfThem'
  BY <1>1, OldestIsThere DEF InOrder, SendsOneOfThem
<1>7. SentWasTaken' /\ Numbered(outbox, pushes, clock)'
  BY <1>1 DEF InOrder, SentWasTaken
<1> QED
  BY <1>5, <1>6, <1>7 DEF InOrder

LEMMA SentKeeps ==
  ASSUME Wire(line), Wire(busy), Sent
  PROVE  /\ Keeps
         /\ InOrder => \A no \in Numbers(outbox) \ Numbers(outbox') : no \in accepted \/ rcOld
<1>1. /\ mpc = "sent" /\ mpc' = "outbox" /\ outbox' = [a \in DOMAIN outbox \ {cur} |-> outbox[a]]
      /\ UNCHANGED <<clock, line, busy, rcOld, accepted, pushes>>
  BY DEF Sent, DeleteMessage, wire, history
<1>2. DOMAIN outbox' \subseteq DOMAIN outbox /\ \A a \in DOMAIN outbox' : outbox'[a] = outbox[a]
  BY <1>1
<1> SUFFICES ASSUME InOrder
             PROVE  InOrder' /\ \A no \in Numbers(outbox) \ Numbers(outbox') : no \in accepted \/ rcOld
  BY <1>1 DEF Keeps
<1>3. NoGoodAnswer(line) /\ \A i \in DOMAIN busy : busy[i].old = TRUE
  BY <1>1, NobodyWaits DEF Awaiting
<1>4. AnswersInTime' /\ CommandsInTime' /\ SendsOneOfThem' /\ SentWasTaken'
  BY <1>1, <1>3 DEF AnswersInTime, CommandsInTime, SendsOneOfThem, SentWasTaken, NoGoodAnswer
<1>5. Numbered(outbox, pushes, clock)'
  BY <1>1, <1>2 DEF InOrder, Numbered
<1>6. ASSUME NEW no \in Numbers(outbox) \ Numbers(outbox')
      PROVE  no \in accepted \/ rcOld
  <2>1. PICK a \in DOMAIN outbox : no = outbox[a].text.no
    BY DEF Numbers
  <2>2. a = cur
    BY <1>1, <2>1 DEF Numbers
  <2> QED
    BY <1>1, <2>1, <2>2 DEF InOrder, SentWasTaken, InHand
<1> QED
  BY <1>4, <1>5, <1>6 DEF InOrder

\* modemd goes on with the messages received, or with the next round.
LEMMA GoingRoundKeeps ==
  ASSUME Wire(line), Wire(busy), Open \/ DeleteReceived \/ NoneReceived \/ PushReceived \/ IdleLoop \/ RestartModemd
  PROVE  Keeps
<1>1. /\ mpc \in {"open", "delete", "inbox", "idle", "down"} /\ mpc' \notin {"cmgs", "pdu", "sent"}
      /\ UNCHANGED <<clock, outbox, cur, rcOld, accepted, pushes>>
      /\ busy' = busy \/ \E m : busy' = Append(busy, Command(mpc', m)) /\ mpc' \in Waiting
      /\ line' \in {line, <<>>, GetStatus(line, async).rest}
  BY DEF Open, DeleteReceived, NoneReceived, PushReceived, IdleLoop, RestartModemd, SendCommand, Command, queues, wire,
         modemd, statusd, history, Waiting, Awaiting
<1>2. Wire(line') /\ (NoGoodAnswer(line) => NoGoodAnswer(line'))
  <2>1. AllOld(GetStatus(line, async).rest)
    BY StatusIs
  <2>2. AllOld(<<>>)
    <3>1. <<>> \in Seq({})
      OBVIOUS
    <3> QED
      BY <3>1 DEF AllOld, IsSeq
  <2>3. CASE line' = line
    BY <2>3
  <2>4. CASE AllOld(line')
    BY <2>4 DEF AllOld, Wire, NoGoodAnswer
  <2> QED
    BY <1>1, <2>1, <2>2, <2>3, <2>4
<1>3. ASSUME NEW m
      PROVE  LET c == Append(busy, Command(mpc', m))
             IN  /\ Wire(c)
                 /\ \A i \in DOMAIN c : c[i].k = mpc' \/ (i \in DOMAIN busy /\ c[i] = busy[i])
  <2>1. Command(mpc', m).old = FALSE /\ Command(mpc', m).k = mpc'
    BY DEF Command
  <2> QED
    BY <2>1, AppendedIs
<1>4. Wire(busy')
  BY <1>1, <1>3
<1> SUFFICES ASSUME InOrder PROVE InOrder'
  BY <1>2, <1>4 DEF Keeps
<1>5. NoGoodAnswer(line) /\ \A i \in DOMAIN busy : busy[i].old = TRUE
  BY <1>1, NobodyWaits DEF Awaiting
<1>6. AnswersInTime'
  BY <1>2, <1>5 DEF AnswersInTime, NoGoodAnswer
<1>7. CommandsInTime'
  BY <1>1, <1>3, <1>5 DEF CommandsInTime, Waiting, Awaiting
<1>8. SendsOneOfThem' /\ SentWasTaken' /\ Numbered(outbox, pushes, clock)'
  BY <1>1 DEF InOrder, SendsOneOfThem, SentWasTaken
<1> QED
  BY <1>6, <1>7, <1>8 DEF InOrder

LEMMA CrashKeeps ==
  ASSUME Wire(line), Wire(busy), CrashModemd
  PROVE  Keeps
<1>1. /\ mpc' = "down" /\ line' = Outdated(line) /\ busy' = Outdated(busy)
      /\ UNCHANGED <<clock, outbox, accepted, pushes>>
  BY DEF CrashModemd, queues
<1>2. AllOld(line') /\ AllOld(busy') /\ Wire(line') /\ Wire(busy')
  BY <1>1, AllOutdated DEF Wire
<1>3. AnswersInTime' /\ CommandsInTime'
  BY <1>2 DEF AllOld, AnswersInTime, CommandsInTime
<1>4. InOrder => SendsOneOfThem' /\ SentWasTaken' /\ Numbered(outbox, pushes, clock)'
  BY <1>1 DEF InOrder, SendsOneOfThem, SentWasTaken
<1> QED
  BY <1>2, <1>3, <1>4 DEF Keeps, InOrder

LEMMA ModemAnswersKeeps ==
  ASSUME Wire(line), Wire(busy), ModemAnswers
  PROVE  Keeps
<1> DEFINE cmd == busy[1]
<1>1. /\ busy # <<>> /\ busy' = Tail(busy)
      /\ UNCHANGED <<clock, outbox, mpc, cur, rcOld, pushes>>
  BY DEF ModemAnswers, queues, modemd
<1>2. 1 \in DOMAIN busy /\ cmd.old \in BOOLEAN /\ Head(busy) = cmd
  <2>1. PICK S : busy \in Seq(S)
    BY DEF Wire, IsSeq
  <2> QED
    BY <1>1, <2>1 DEF Wire
<1>3. PICK fails \in BOOLEAN : /\ line' = line \o Answer(dev, cmd, fails).line
                               /\ accepted' = IF Answer(dev, cmd, fails).accepts THEN accepted \cup {cmd.n} ELSE accepted
  BY <1>2 DEF ModemAnswers
<1> DEFINE answer == Answer(dev, cmd, fails)
<1>4. /\ Wire(answer.line) /\ answer.accepts \in BOOLEAN
      /\ \A i \in DOMAIN answer.line : /\ answer.line[i].old = cmd.old
                                       /\ answer.line[i].k = "ok" => cmd.k # "cmgs" /\ (cmd.k = "pdu" => answer.accepts)
  BY <1>2, AnswerIs
<1>5. /\ line' = line \o answer.line
      /\ accepted' = IF answer.accepts THEN accepted \cup {cmd.n} ELSE accepted
  BY <1>3
<1> HIDE DEF cmd, answer
<1>6. /\ Wire(line')
      /\ \A i \in DOMAIN line' : \/ i \in DOMAIN line /\ line'[i] = line[i]
                                 \/ \E j \in DOMAIN answer.line : line'[i] = answer.line[j]
  BY <1>4, <1>5, JoinedIs
<1>7. Wire(Tail(busy)) /\ \A i \in DOMAIN Tail(busy) : \E j \in DOMAIN busy : Tail(busy)[i] = busy[j]
  BY <1>1, TailIs
<1>8. accepted \subseteq accepted' /\ (answer.accepts => cmd.n \in accepted') /\ InHand' = InHand
  BY <1>1, <1>5 DEF InHand
<1> SUFFICES ASSUME InOrder PROVE InOrder'
  BY <1>1, <1>6, <1>7 DEF Keeps
<1>9. cmd.old = FALSE =>
         /\ mpc \in Awaiting /\ (mpc \in {"cmgs", "pdu"} => cmd.k \in {"cmgs", "pdu"})
         /\ cmd.k = "pdu" => mpc = "pdu" /\ cmd.n = InHand
  BY <1>2 DEF InOrder, CommandsInTime, cmd
<1>10. AnswersInTime'
  <2> SUFFICES ASSUME NEW i \in DOMAIN line', line'[i].old = FALSE, line'[i].k = "ok"
               PROVE  mpc \in Awaiting \ {"cmgs"} /\ (mpc = "pdu" => InHand \in accepted')
    BY <1>1, <1>8 DEF AnswersInTime
  <2>1. CASE i \in DOMAIN line /\ line'[i] = line[i]
    BY <1>8, <2>1 DEF InOrder, AnswersInTime
  <2>2. CASE \E j \in DOMAIN answer.line : line'[i] = answer.line[j]
    <3>0. PICK j \in DOMAIN answer.line : line'[i] = answer.line[j]
      BY <2>2
    <3>1. cmd.old = FALSE /\ cmd.k # "cmgs" /\ (cmd.k = "pdu" => answer.accepts)
      BY <1>4, <3>0
    <3> QED
      BY <1>8, <1>9, <3>1
  <2> QED
    BY <1>6, <2>1, <2>2
<1>11. CommandsInTime'
  BY <1>1, <1>7, <1>8 DEF InOrder, CommandsInTime
<1>12. SendsOneOfThem' /\ SentWasTaken' /\ Numbered(outbox, pushes, clock)'
  BY <1>1, <1>8 DEF InOrder, SendsOneOfThem, SentWasTaken
<1> QED
  BY <1>10, <1>11, <1>12 DEF InOrder

LEMMA UnsolicitedKeeps ==
  ASSUME Wire(line), Wire(busy), Unsolicited
  PROVE  Keeps
<1>1. line' = Append(line, Item("async", 0)) /\ UNCHANGED <<clock, outbox, busy, mpc, cur, rcOld, accepted, pushes>>
  BY DEF Unsolicited, queues, modemd
<1>2. Item("async", 0).old = FALSE /\ Item("async", 0).k = "async"
  BY DEF Item
<1>3. /\ Wire(line')
      /\ \A i \in DOMAIN line' : line'[i] = Item("async", 0) \/ (i \in DOMAIN line /\ line'[i] = line[i])
  BY <1>1, <1>2, AppendedIs
<1>4. InOrder => AnswersInTime'
  BY <1>1, <1>2, <1>3 DEF InOrder, AnswersInTime, InHand
<1>5. InOrder => CommandsInTime' /\ SendsOneOfThem' /\ SentWasTaken' /\ Numbered(outbox, pushes, clock)'
  BY <1>1 DEF InOrder, CommandsInTime, SendsOneOfThem, SentWasTaken, InHand
<1> QED
  BY <1>1, <1>3, <1>4, <1>5 DEF Keeps, InOrder

\* A new status message replaces none.
LEMMA ReportKeeps ==
  ASSUME Wire(line), Wire(busy), Counts, Report
  PROVE  /\ Keeps
         /\ InOrder /\ ~ Renamed => Numbers(outbox) \subseteq Numbers(outbox')
<1>1. UNCHANGED <<clock, line, busy, mpc, cur, accepted, rcOld, faults>>
  BY DEF Report, wire, modemd
<1>2. CASE ~ Due
  <2>1. UNCHANGED <<outbox, pushes>>
    BY <1>2 DEF Report
  <2> QED
    BY <1>1, <2>1, NothingSent DEF Counts, Numbers
<1>3. CASE Due
  <2> DEFINE id == GetNextId(outbox, pid["statusd"])
  <2>1. PICK letters : outbox' = PushMessage(outbox, pid["statusd"], clock, letters)
    BY <1>3 DEF Report
  <2>2. /\ pushes' = pushes + 1 /\ DOMAIN outbox' = DOMAIN outbox \cup {id}
        /\ \A a \in DOMAIN outbox' : outbox'[a] = IF a = id THEN [ctime |-> clock, text |-> letters] ELSE outbox[a]
    BY <1>3, <2>1 DEF Report, PushMessage
  <2>3. pid["statusd"] \in Nat /\ clock \in Nat /\ pushes \in Nat
    BY DEF Counts, Daemons
  <2>4. InOrder /\ ~ Renamed =>
            /\ id \in [pid : Nat, n : Nat] /\ id.pid = pid["statusd"] /\ id \notin DOMAIN outbox
            /\ pushes + 1 < IdSpace => /\ id.n \in 1..(pushes + 1)
                                       /\ \A a \in DOMAIN outbox : a.pid = pid["statusd"] => a.n < id.n
    <3>1. ~ Renamed => pushes < IdSpace
      <4>1. pushes >= IdSpace \/ pushes < IdSpace
        BY <2>3, MailAssumption
      <4> QED
        BY <4>1 DEF Renamed
    <3> QED
      BY <2>3, <3>1, NextIdIsNew DEF InOrder
  <2> HIDE DEF id
  <2>5. InOrder /\ ~ Renamed => Numbers(outbox) \subseteq Numbers(outbox')
    BY <2>2, <2>4 DEF Numbers
  <2>6. ~ Renamed' => ~ Renamed /\ pushes + 1 < IdSpace
    <3>1. Had({"set back"})' = Had({"set back"})
      BY <1>1 DEF Had
    <3>2. (pushes' >= IdSpace) = (pushes + 1 >= IdSpace)
      BY <2>2
    <3>3. pushes >= IdSpace => pushes + 1 >= IdSpace
      BY <2>3, MailAssumption
    <3>4. pushes + 1 >= IdSpace \/ pushes + 1 < IdSpace
      BY <2>3, MailAssumption
    <3> QED
      BY <3>1, <3>2, <3>3, <3>4 DEF Renamed
  <2>7. ASSUME InOrder, ~ Renamed' PROVE InOrder'
    <3>1. /\ id \in [pid : Nat, n : Nat] /\ id.pid = pid["statusd"] /\ id \notin DOMAIN outbox
          /\ id.n \in 1..(pushes + 1) /\ \A a \in DOMAIN outbox : a.pid = pid["statusd"] => a.n < id.n
      BY <2>4, <2>6, <2>7
    <3>2. \A a \in DOMAIN outbox : a \in DOMAIN outbox' /\ outbox'[a] = outbox[a]
      BY <2>2, <3>1
    <3>3. outbox'[id].ctime = clock /\ DOMAIN outbox' = DOMAIN outbox \cup {id}
      BY <2>2
    <3>4. Numbered(outbox', pushes + 1, clock)
      <4>1. ASSUME NEW a \in DOMAIN outbox'
            PROVE  a \in [pid : Nat, n : Nat] /\ a.n \in 1..(pushes + 1) /\ outbox'[a].ctime \in Nat /\ outbox'[a].ctime <= clock
        <5>1. CASE a = id
          BY <2>3, <3>1, <3>3, <5>1
        <5>2. CASE a \in DOMAIN outbox
          BY <2>3, <2>7, <3>2, <5>2 DEF InOrder, Numbered
        <5> QED
          BY <3>3, <5>1, <5>2
      <4>2. ASSUME NEW a \in DOMAIN outbox', NEW c \in DOMAIN outbox', a.pid = c.pid, a.n < c.n
            PROVE  outbox'[a].ctime <= outbox'[c].ctime
        <5>1. CASE c = id
          BY <3>3, <4>1, <5>1
        <5>2. CASE c # id /\ a = id
          <6>1. c \in DOMAIN outbox /\ c.n < id.n /\ c.n \in Nat /\ id.n \in Nat
            BY <3>1, <3>3, <4>1, <4>2, <5>2
          <6> QED
            BY <4>2, <5>2, <6>1
        <5>3. CASE c # id /\ a # id
          BY <2>7, <3>2, <3>3, <4>2, <5>3 DEF InOrder, Numbered
        <5> QED
          BY <5>1, <5>2, <5>3
      <4> QED
        BY <4>1, <4>2 DEF Numbered
    <3>5. Numbered(outbox, pushes, clock)'
      BY <1>1, <2>2, <3>4
    <3>6. SendsOneOfThem' /\ (mpc \in {"cmgs", "pdu", "sent"} => InHand' = InHand)
      BY <1>1, <2>7, <3>2 DEF InOrder, SendsOneOfThem, InHand
    <3>7. AnswersInTime' /\ CommandsInTime' /\ SentWasTaken'
      BY <1>1, <2>7, <3>6 DEF InOrder, AnswersInTime, CommandsInTime, SentWasTaken
    <3> QED
      BY <3>5, <3>6, <3>7 DEF InOrder
  <2> QED
    BY <1>1, <2>5, <2>7 DEF Keeps
<1> QED
  BY <1>2, <1>3

-----------------------------------------------------------------------------
(* In step.                                                                *)
\* What a wait leaves on the line has no result; nor was the one it found an old one.
LEMMA RestIs ==
  ASSUME NEW unsolicited, Wire(line), OneAnswer(line)
  PROVE  LET st == GetStatus(line, unsolicited)
         IN  /\ OneAnswer(st.rest) /\ NoResult(st.rest)
             /\ \A i \in DOMAIN st.rest : st.rest[i].k = ">" => \E j \in DOMAIN line : line[j].k = ">"
             /\ NewResults(line) => st.old = FALSE
             /\ Results(line) = {} <=> NoResult(line)
<1> DEFINE n == IF Results(line) # {} THEN Minimum(Results(line))
                ELSE IF line # <<>> /\ Last(line).k = ">" THEN Len(line) - 1 ELSE Len(line)
           st == GetStatus(line, unsolicited)
           rest == SubSeq(line, n + 1, Len(line))
<1>1. PICK S : line \in Seq(S)
  BY DEF IsSeq, Wire
<1>2. Len(line) \in Nat /\ DOMAIN line = 1..Len(line)
  BY <1>1
<1>3. Results(line) # {} => Minimum(Results(line)) \in Results(line)
  <2>1. Results(line) \subseteq Nat
    BY <1>2 DEF Results
  <2> QED
    BY <2>1, LeastNumber DEF Minimum
<1>4. n \in Int /\ n >= 0 /\ (Results(line) # {} => n \in Results(line))
  <2>1. CASE Results(line) = {}
    <3>1. line # <<>> => Len(line) >= 1
      BY <1>1
    <3> QED
      BY <1>2, <2>1, <3>1
  <2>2. CASE Results(line) # {}
    BY <1>2, <1>3, <2>2 DEF Results
  <2> QED
    BY <2>1, <2>2
<1>5. st.rest = Outdated(rest) /\ st.old = (Results(line) # {} /\ line[n].old)
  BY DEF GetStatus
<1> HIDE DEF n
<1>6. IsSeq(rest) /\ \A i \in DOMAIN rest : n + i \in DOMAIN line /\ n + i # n /\ n + i > 1 - 1 /\ rest[i] = line[n + i]
  <2>1. rest \in Seq(S)
    BY <1>1, <1>2, <1>4
  <2>2. ASSUME NEW i \in DOMAIN rest
        PROVE  n + i \in DOMAIN line /\ n + i # n /\ n + i > 1 - 1 /\ rest[i] = line[n + i]
    <3>1. PICK m \in Nat : m = Len(line)
      BY <1>2
    <3>2. CASE n + 1 <= m
      <4>1. DOMAIN rest = 1..(m - n) /\ rest[i] = line[n + i]
        BY <1>1, <1>4, <3>1, <3>2
      <4>2. i \in Int /\ i >= 1 /\ i <= m - n
        BY <1>4, <3>1, <4>1
      <4> QED
        BY <1>2, <1>4, <3>1, <4>1, <4>2
    <3>3. CASE ~ (n + 1 <= m)
      <4>1. rest = <<>>
        BY <1>1, <1>4, <3>1, <3>3
      <4> HIDE DEF rest
      <4>2. DOMAIN rest = {}
        BY <4>1
      <4> QED
        BY <4>2
    <3> QED
      BY <3>2, <3>3
  <2> QED
    BY <2>1, <2>2 DEF IsSeq
<1> HIDE DEF rest, st
<1>7. DOMAIN st.rest = DOMAIN rest /\ \A i \in DOMAIN rest : st.rest[i].k = rest[i].k
  <2>1. st.rest = [i \in DOMAIN rest |-> [k |-> rest[i].k, n |-> rest[i].n, old |-> TRUE]]
    BY <1>5 DEF Outdated, Marked
  <2> QED
    BY <2>1
<1>8. \A i \in DOMAIN st.rest : /\ n + i \in DOMAIN line /\ n + i # n /\ st.rest[i].k = line[n + i].k /\ i \in Int
  <2>1. \A i \in DOMAIN rest : i \in Int
    BY <1>6 DEF IsSeq
  <2> QED
    BY <1>6, <1>7, <2>1
<1>9. \A i \in DOMAIN line : line[i].k \in {"ok", "err"} => i \in Results(line)
  <2> SUFFICES ASSUME NEW i \in DOMAIN line, line[i].k \in {"ok", "err"}, i > 1, line[i - 1].k = ">" PROVE FALSE
    BY DEF Results, Merged
  <2>1. i - 1 \in DOMAIN line /\ i - 1 # i
    BY <1>2
  <2> QED
    BY <2>1 DEF OneAnswer
<1>10. NoResult(st.rest)
  <2> SUFFICES ASSUME NEW i \in DOMAIN st.rest, st.rest[i].k \in {"ok", "err"} PROVE FALSE
    BY DEF NoResult
  <2>1. n + i \in Results(line) /\ n \in Results(line)
    BY <1>4, <1>8, <1>9
  <2> QED
    BY <1>8, <2>1 DEF OneAnswer, Results
<1>11. OneAnswer(st.rest)
  <2> SUFFICES ASSUME NEW i \in DOMAIN st.rest, NEW j \in DOMAIN st.rest,
                      st.rest[i].k \in {"ok", "err", ">"}, st.rest[j].k \in {"ok", "err", ">"}
               PROVE  i = j
    BY DEF OneAnswer
  <2>1. n + i = n + j
    BY <1>8 DEF OneAnswer
  <2> QED
    BY <1>4, <1>8, <2>1
<1>12. \A i \in DOMAIN st.rest : st.rest[i].k = ">" => \E j \in DOMAIN line : line[j].k = ">"
  BY <1>8
<1>13. NewResults(line) => st.old = FALSE
  BY <1>4, <1>5 DEF NewResults, Results
<1>14. Results(line) = {} <=> NoResult(line)
  BY <1>9 DEF Results, NoResult
<1> QED
  BY <1>10, <1>11, <1>12, <1>13, <1>14 DEF st

Prompts(l) == \A i \in DOMAIN l : l[i].k = ">" => dev.pdu # "no"

\* modemd goes on when the modem is silent.
LEMMA GoesOnInStep ==
  ASSUME OneAnswer(line'), NoResult(line'), Prompts(line'), dev' = dev, rcOld' = FALSE,
         \/ busy' = <<>>
         \/ \E m : busy' = Append(<<>>, Command(mpc', m)) /\ mpc' \in Awaiting \ {"pdu"}
  PROVE  InStep'
<1>1. NewResults(line')
  BY DEF NewResults, NoResult
<1>2. CASE busy' = <<>>
  BY <1>1, <1>2 DEF InStep, Prompting, Prompts, OneCommand
<1>3. CASE \E m : busy' = Append(<<>>, Command(mpc', m)) /\ mpc' \in Awaiting \ {"pdu"}
  <2>1. PICK m : busy' = Append(<<>>, Command(mpc', m)) /\ mpc' \in Awaiting \ {"pdu"}
    BY <1>3
  <2>2. /\ DOMAIN busy' = {1} /\ busy'[1].k = mpc' /\ busy'[1].old = FALSE
    BY <2>1 DEF Command
  <2>3. mpc' \in Awaiting /\ mpc' # "pdu"
    BY <2>1
  <2> QED
    BY <1>1, <2>2, <2>3 DEF InStep, Prompting, Prompts, OneCommand
<1> QED
  BY <1>2, <1>3

LEMMA WaitInStep ==
  ASSUME Wire(line), Wire(busy), Counts, Next, ~ Late', InStep, GotResult \/ TimedOut
  PROVE  InStep' /\ dev' = dev
<1> DEFINE st == GetStatus(line, async)
<1>1. /\ OneAnswer(st.rest) /\ NoResult(st.rest)
      /\ \A i \in DOMAIN st.rest : st.rest[i].k = ">" => \E j \in DOMAIN line : line[j].k = ">"
      /\ st.old = FALSE
      /\ Results(line) = {} <=> NoResult(line)
  BY RestIs DEF InStep
<1>2. mpc \in Awaiting /\ Proceed(st.rc, st.rest, Outdated(busy)) /\ rcOld' = st.old /\ dev' = dev
  BY DEF GotResult, TimedOut, EndOfWait
<1>3. busy = <<>>
  <2>1. CASE GotResult
    BY <1>1, <2>1 DEF GotResult, InStep
  <2>2. CASE TimedOut
    BY <2>2, CountsKept DEF TimedOut
  <2> QED
    BY <2>1, <2>2
<1>4. Outdated(busy) = <<>>
  BY <1>3 DEF Outdated, Marked
<1>5. Prompts(st.rest)
  BY <1>1 DEF InStep, Prompting, Prompts
<1> HIDE DEF st
<1>6. /\ line' = st.rest
      /\ busy' = <<>> \/ \E m : busy' = Append(<<>>, Command(mpc', m)) /\ mpc' \in Awaiting \ {"pdu"}
  BY <1>2, <1>4, WhatFollows DEF Waiting
<1> QED
  BY <1>1, <1>2, <1>5, <1>6, GoesOnInStep

LEMMA PromptInStep ==
  ASSUME Wire(line), Wire(busy), InStep, GotPrompt
  PROVE  InStep' /\ dev' = dev
<1> DEFINE pdu == Command("pdu", outbox[cur].text.no)
<1>1. /\ line # <<>> /\ line[1].k = ">" /\ line' = Tail(line) /\ busy' = Append(busy, pdu) /\ mpc' = "pdu"
      /\ UNCHANGED <<dev, rcOld>>
  BY DEF GotPrompt, Prompted, SendCommand, Command
<1>2. pdu.old = FALSE /\ pdu.k = "pdu"
  BY DEF Command
<1> HIDE DEF pdu
<1>3. 1 \in DOMAIN line /\ DOMAIN Tail(line) \subseteq Nat /\ \A i \in DOMAIN Tail(line) : i + 1 \in DOMAIN line /\ i + 1 # 1
                                                                       /\ Tail(line)[i] = line[i + 1]
  <2>1. PICK S : line \in Seq(S)
    BY DEF IsSeq, Wire
  <2> QED
    BY <1>1, <2>1
<1>4. \A i \in DOMAIN line' : line'[i].k \notin {"ok", "err", ">"}
  BY <1>1, <1>3 DEF InStep, OneAnswer
<1>5. OneAnswer(line') /\ NewResults(line') /\ NoResult(line')
  BY <1>4 DEF OneAnswer, NewResults, NoResult
<1>6. dev.pdu # "no" /\ \A j \in DOMAIN busy : busy[j].k # "pdu" /\ j = 1 /\ busy[1].old = FALSE
  BY <1>1, <1>3 DEF InStep, Prompting, OneCommand
<1>7. \A j \in DOMAIN busy' :
          (j = 1 /\ busy'[1].old = FALSE) \/ (j = 2 /\ busy'[2] = pdu /\ busy'[1].k # "pdu" /\ busy'[1].old = FALSE)
  <2>1. PICK S : busy \in Seq(S)
    BY DEF IsSeq, Wire
  <2>2. PICK m \in Nat : m = Len(busy)
    BY <2>1
  <2>6. DOMAIN busy = 1..m /\ busy \in [1..m -> S]
    BY <2>1, <2>2
  <2>3. m <= 1
    <3> SUFFICES ASSUME m > 1 PROVE FALSE
      BY <2>2
    <3>1. 2 \in DOMAIN busy
      BY <2>2, <2>6
    <3> QED
      BY <1>6, <3>1
  <2>4. /\ DOMAIN busy' = 1..(m + 1) /\ busy'[m + 1] = pdu
        /\ \A i \in 1..m : busy'[i] = busy[i]
    <3>1. pdu \in S \cup {pdu} /\ busy \in Seq(S \cup {pdu})
      BY <2>1
    <3> QED
      BY <1>1, <2>2, <3>1
  <2>5. m = 0 \/ m = 1
    BY <2>3
  <2>7. CASE m = 0
    <3>1. DOMAIN busy' = {1} /\ busy'[1] = pdu
      BY <2>4, <2>7
    <3> QED
      BY <1>2, <3>1
  <2>8. CASE m = 1
    <3>1. 1 \in DOMAIN busy /\ DOMAIN busy' = {1, 2} /\ busy'[1] = busy[1] /\ busy'[2] = pdu
      BY <2>4, <2>6, <2>8
    <3> QED
      BY <1>6, <3>1
  <2> QED
    BY <2>5, <2>7, <2>8
<1>8. OneCommand(busy)'
  BY <1>1, <1>2, <1>6, <1>7 DEF OneCommand
<1>9. Prompting(line, busy)'
  BY <1>4 DEF Prompting
<1> QED
  BY <1>1, <1>5, <1>8, <1>9 DEF InStep, Awaiting

\* The next command, or the next round.
LEMMA RoundInStep ==
  ASSUME Wire(line), Wire(busy), InStep,
         Open \/ Outbox \/ Sent \/ PushReceived \/ PushFails \/ DeleteReceived \/ NoneReceived \/ IdleLoop \/ RestartModemd
  PROVE  InStep' /\ dev' = dev
<1>1. mpc \notin Awaiting /\ UNCHANGED <<dev, rcOld>>
  BY DEF Open, Outbox, Sent, PushReceived, PushFails, DeleteReceived, NoneReceived, IdleLoop, RestartModemd, Awaiting,
         wire, modemd
<1>2. busy = <<>> /\ NoResult(line) /\ OneAnswer(line) /\ rcOld = FALSE
  BY <1>1 DEF InStep
<1>3. line' \in {line, <<>>, GetStatus(line, async).rest}
  BY DEF Open, Outbox, Sent, PushReceived, PushFails, DeleteReceived, NoneReceived, IdleLoop, RestartModemd, SendCommand, wire
<1>4. OneAnswer(line') /\ NoResult(line') /\ Prompts(line')
  <2>1. Prompts(line)
    BY DEF InStep, Prompting, Prompts
  <2>2. OneAnswer(<<>>) /\ NoResult(<<>>) /\ Prompts(<<>>)
    BY DEF OneAnswer, NoResult, Prompts
  <2>3. LET rest == GetStatus(line, async).rest IN OneAnswer(rest) /\ NoResult(rest) /\ Prompts(rest)
    BY <1>2, <2>1, RestIs DEF Prompts
  <2> QED
    BY <1>2, <1>3, <2>1, <2>2, <2>3
<1>5. busy' = busy \/ \E m : busy' = Append(busy, Command(mpc', m)) /\ mpc' \in Awaiting \ {"pdu"}
  BY DEF Open, Outbox, Sent, PushReceived, PushFails, DeleteReceived, NoneReceived, IdleLoop, RestartModemd, SendCommand,
         Command, wire, Awaiting
<1> QED
  BY <1>1, <1>2, <1>4, <1>5, GoesOnInStep

LEMMA UnsolicitedInStep ==
  ASSUME Wire(line), InStep, Unsolicited
  PROVE  InStep' /\ dev' = dev
<1>1. line' = Append(line, Item("async", 0)) /\ UNCHANGED <<busy, dev, mpc, rcOld>>
  BY DEF Unsolicited, modemd
<1>2. Item("async", 0).old = FALSE /\ Item("async", 0).k = "async"
  BY DEF Item
<1>3. \A i \in DOMAIN line' : line'[i] = Item("async", 0) \/ (i \in DOMAIN line /\ line'[i] = line[i])
  BY <1>1, <1>2, AppendedIs
<1>4. \A i \in DOMAIN line' : line'[i].k \in {"ok", "err", ">"} => i \in DOMAIN line /\ line'[i] = line[i]
  BY <1>2, <1>3
<1>5. OneAnswer(line') /\ NewResults(line') /\ (NoResult(line) => NoResult(line')) /\ Prompting(line, busy)'
  BY <1>1, <1>4 DEF InStep, OneAnswer, NewResults, NoResult, Prompting
<1>6. OneCommand(busy)'
  BY <1>1 DEF InStep, OneCommand
<1> QED
  BY <1>1, <1>5, <1>6 DEF InStep

\* While the modem takes what it is told for the text of a message, it is silent.
LEMMA DeviceIs ==
  ASSUME NEW cmd, NEW fails \in BOOLEAN, IsDevice(dev)
  PROVE  LET answer == Answer(dev, cmd, fails)
         IN  /\ IsDevice(answer.dev)
             /\ dev.pdu # "no" /\ cmd.k # "pdu" => answer.line = Marked(<<>>, cmd.old) /\ answer.dev.pdu # "no"
             /\ dev.pdu = "no" /\ ~fails /\ cmd.k = "cmgs" => answer.dev.pdu # "no"
<1> DEFINE answer == Answer(dev, cmd, fails)
           Goal == IsDevice(answer.dev)
<1>1. \A p, t : /\ [dev EXCEPT !.pdu = p] = [store |-> dev.store, pdu |-> p]
                /\ [dev EXCEPT !.store = t] = [store |-> t, pdu |-> dev.pdu]
  BY DEF IsDevice
<1>2. answer.dev \in {dev, [dev EXCEPT !.pdu = "spoilt"], [dev EXCEPT !.pdu = "no"], [dev EXCEPT !.pdu = "open"],
                      [dev EXCEPT !.store[cmd.n] = None]}
  BY DEF Answer
<1>3. [dev EXCEPT !.store[cmd.n] = None] = [dev EXCEPT !.store = [dev.store EXCEPT ![cmd.n] = None]]
  BY <1>1
<1>4. IsDevice(answer.dev)
  <2> HIDE DEF answer
  <2> QED
    BY <1>1, <1>2, <1>3 DEF IsDevice
<1>5. ASSUME dev.pdu # "no", cmd.k # "pdu"
      PROVE  answer.line = Marked(<<>>, cmd.old) /\ answer.dev = [dev EXCEPT !.pdu = "spoilt"]
  BY <1>5 DEF Answer
<1>6. ASSUME dev.pdu = "no", ~fails, cmd.k = "cmgs"
      PROVE  answer.dev = [dev EXCEPT !.pdu = "open"]
  BY <1>6 DEF Answer
<1> HIDE DEF answer
<1>7. dev.pdu # "no" /\ cmd.k # "pdu" => answer.line = Marked(<<>>, cmd.old) /\ answer.dev.pdu # "no"
  BY <1>1, <1>5
<1>8. dev.pdu = "no" /\ ~fails /\ cmd.k = "cmgs" => answer.dev.pdu # "no"
  BY <1>1, <1>6
<1> QED
  BY <1>4, <1>7, <1>8 DEF answer

LEMMA AnswersInStep ==
  ASSUME Wire(line), Wire(busy), IsDevice(dev), ModemAnswers
  PROVE  IsDevice(dev') /\ (InStep => InStep')
<1> DEFINE cmd == busy[1]
<1>1. PICK S : busy \in Seq(S)
  BY DEF IsSeq, Wire
<1>2. /\ busy # <<>> /\ busy' = Tail(busy) /\ UNCHANGED <<mpc, rcOld>> /\ Head(busy) = cmd /\ 1 \in DOMAIN busy
      /\ cmd.old \in BOOLEAN
  BY <1>1 DEF ModemAnswers, modemd, Wire
<1>3. PICK fails \in BOOLEAN : line' = line \o Answer(dev, cmd, fails).line /\ dev' = Answer(dev, cmd, fails).dev
  BY <1>2 DEF ModemAnswers
<1> DEFINE answer == Answer(dev, cmd, fails)
<1>4. /\ Wire(answer.line) /\ OneAnswer(answer.line)
      /\ \A i \in DOMAIN answer.line : answer.line[i].old = cmd.old
      /\ \A i \in DOMAIN answer.line : answer.line[i].k = ">" => dev.pdu = "no" /\ ~fails /\ cmd.k = "cmgs"
  BY <1>2, AnswerIs
<1>5. /\ IsDevice(answer.dev)
      /\ dev.pdu # "no" /\ cmd.k # "pdu" => answer.line = Marked(<<>>, cmd.old) /\ answer.dev.pdu # "no"
      /\ dev.pdu = "no" /\ ~fails /\ cmd.k = "cmgs" => answer.dev.pdu # "no"
  BY DeviceIs
<1>6. line' = line \o answer.line /\ dev' = answer.dev
  BY <1>3
<1> HIDE DEF answer
<1>7. dev.pdu # "no" /\ cmd.k # "pdu" => DOMAIN answer.line = {}
  <2>1. IsSeq(<<>>) /\ DOMAIN <<>> = {}
    <3>1. <<>> \in Seq({})
      OBVIOUS
    <3> QED
      BY <3>1 DEF IsSeq
  <2> QED
    BY <1>2, <1>5, <2>1, MarkedIs
<1> SUFFICES ASSUME InStep PROVE InStep'
  BY <1>5, <1>6
<1>8. /\ Len(line) \in Nat /\ DOMAIN line = 1..Len(line) /\ DOMAIN answer.line = 1..Len(answer.line)
      /\ \A i \in DOMAIN line' : \/ i \in DOMAIN line /\ line'[i] = line[i]
                                 \/ \E j \in DOMAIN answer.line : i = Len(line) + j /\ line'[i] = answer.line[j]
  <2>1. PICK R : line \in Seq(R)
    BY DEF IsSeq, Wire
  <2>2. PICK T : answer.line \in Seq(T)
    BY <1>4 DEF IsSeq, Wire
  <2>3. line \in Seq(R \cup T) /\ answer.line \in Seq(R \cup T)
    BY <2>1, <2>2
  <2>4. /\ DOMAIN line' = 1..(Len(line) + Len(answer.line)) /\ Len(line) \in Nat /\ Len(answer.line) \in Nat
        /\ \A i \in 1..Len(line) : line'[i] = line[i]
        /\ \A j \in 1..Len(answer.line) : line'[Len(line) + j] = answer.line[j]
    BY <1>6, <2>3, JoinedAt
  <2>5. DOMAIN line = 1..Len(line) /\ DOMAIN answer.line = 1..Len(answer.line)
    BY <2>3
  <2>6. ASSUME NEW i \in DOMAIN line', i \notin 1..Len(line)
        PROVE  i - Len(line) \in 1..Len(answer.line) /\ i = Len(line) + (i - Len(line))
    <3>1. \A a, c \in Nat : \A e \in 1..(a + c) : e \notin 1..a => e - a \in 1..c /\ e = a + (e - a)
      OBVIOUS
    <3> QED
      BY <2>4, <2>6, <3>1
  <2> QED
    BY <2>4, <2>5, <2>6
<1>9. mpc' \in Awaiting /\ NoResult(line) /\ rcOld' = FALSE /\ cmd.old = FALSE
  BY <1>2 DEF InStep, OneCommand, NoResult
<1>10. /\ DOMAIN busy' \subseteq {1} /\ \A j \in DOMAIN busy' : busy'[1] = busy[2] /\ 2 \in DOMAIN busy
  <2>1. DOMAIN Tail(busy) \subseteq Nat \ {0} /\ \A j \in DOMAIN Tail(busy) : j + 1 \in DOMAIN busy /\ Tail(busy)[j] = busy[j + 1]
    BY <1>1, <1>2
  <2>2. \A j \in DOMAIN Tail(busy) : j + 1 # 1 /\ (j + 1 = 2 => j = 1)
    BY <2>1
  <2>3. \A j \in DOMAIN Tail(busy) : j + 1 = 2
    BY <2>1, <2>2 DEF InStep, OneCommand
  <2> QED
    BY <1>2, <2>1, <2>2, <2>3
<1>11. OneCommand(busy)'
  <2>1. 2 \in DOMAIN busy => busy[2].old = FALSE
    BY DEF InStep, OneCommand
  <2> QED
    BY <1>10, <2>1 DEF OneCommand
<1>12. CASE dev.pdu # "no" /\ cmd.k # "pdu"
  <2>1. \A i \in DOMAIN line' : i \in DOMAIN line /\ line'[i] = line[i]
    BY <1>7, <1>8, <1>12
  <2>2. OneAnswer(line') /\ NewResults(line') /\ NoResult(line')
    BY <1>9, <2>1 DEF InStep, OneAnswer, NewResults, NoResult
  <2>3. Prompting(line, busy)'
    <3> SUFFICES ASSUME NEW i \in DOMAIN line', line'[i].k = ">"
                 PROVE  dev'.pdu # "no" /\ \A j \in DOMAIN busy' : busy'[j].k # "pdu"
      BY DEF Prompting
    <3>1. \A j \in DOMAIN busy : busy[j].k # "pdu"
      BY <2>1 DEF InStep, Prompting
    <3>2. \A j \in DOMAIN busy' : busy'[j].k # "pdu"
      BY <1>10, <3>1
    <3> QED
      BY <1>5, <1>6, <1>12, <3>2
  <2> QED
    BY <1>9, <1>11, <2>2, <2>3 DEF InStep
<1>13. CASE ~ (dev.pdu # "no" /\ cmd.k # "pdu")
  <2>1. 2 \notin DOMAIN busy
    BY <1>13 DEF InStep, OneCommand
  <2>2. DOMAIN busy' = {} /\ busy' = <<>>
    <3>1. DOMAIN busy' = {}
      BY <1>10, <2>1
    <3>2. busy' \in Seq(S)
      BY <1>1, <1>2
    <3> QED
      BY <3>1, <3>2
  <2>3. \A i \in DOMAIN line : line[i].k \notin {"ok", "err", ">"}
    BY <1>2, <1>9, <1>13 DEF InStep, Prompting, NoResult, cmd
  <2>4. \A i \in DOMAIN line' : line'[i].k \in {"ok", "err", ">"} =>
            \E j \in DOMAIN answer.line : i = Len(line) + j /\ line'[i] = answer.line[j]
    BY <1>8, <2>3
  <2>5. OneAnswer(line')
    <3> SUFFICES ASSUME NEW i \in DOMAIN line', NEW j \in DOMAIN line', line'[i].k \in {"ok", "err", ">"},
                        line'[j].k \in {"ok", "err", ">"}
                 PROVE  i = j
      BY DEF OneAnswer
    <3>1. PICK a \in DOMAIN answer.line : i = Len(line) + a /\ line'[i] = answer.line[a]
      BY <2>4
    <3>2. PICK c \in DOMAIN answer.line : j = Len(line) + c /\ line'[j] = answer.line[c]
      BY <2>4
    <3>3. a = c
      BY <1>4, <3>1, <3>2 DEF OneAnswer
    <3> QED
      BY <3>1, <3>2, <3>3
  <2>6. NewResults(line')
    BY <1>4, <1>9, <2>4 DEF NewResults
  <2>7. Prompting(line, busy)'
    BY <1>4, <1>5, <1>6, <2>2, <2>4 DEF Prompting
  <2> QED
    BY <1>9, <1>11, <2>2, <2>5, <2>6, <2>7 DEF InStep
<1> QED
  BY <1>12, <1>13

LEMMA StepsInStep ==
  ASSUME Wire(line), Wire(busy), Counts, IsDevice(dev), ~ Late => InStep, Next
  PROVE  IsDevice(dev') /\ (~ Late' => InStep')
<1>1. (Late => Late') /\ (Fault("late") \/ Fault("crash") => Late')
  BY CountsKept
<1>2. CASE GotResult \/ TimedOut
  BY <1>1, <1>2, WaitInStep DEF GotResult, TimedOut, EndOfWait
<1>3. CASE GotPrompt
  BY <1>1, <1>3, PromptInStep DEF GotPrompt
<1>4. CASE Open \/ Outbox \/ Sent \/ PushReceived \/ PushFails \/ DeleteReceived \/ NoneReceived \/ IdleLoop \/ RestartModemd
  <2>1. dev' = dev
    BY <1>4 DEF Open, Outbox, Sent, PushReceived, PushFails, DeleteReceived, NoneReceived, IdleLoop, RestartModemd, wire
  <2> QED
    BY <1>1, <1>4, <2>1, RoundInStep
<1>5. CASE ModemAnswers
  BY <1>1, <1>5, AnswersInStep
<1>6. CASE Unsolicited
  BY <1>1, <1>6, UnsolicitedInStep DEF Unsolicited
<1>7. CASE CrashModemd
  BY <1>1, <1>7 DEF CrashModemd
<1>8. CASE SmsArrives
  <2>1. PICK s, m : dev' = [dev EXCEPT !.store[s] = m]
    BY <1>8 DEF SmsArrives
  <2>2. IsDevice(dev') /\ dev'.pdu = dev.pdu
    BY <2>1 DEF IsDevice
  <2>3. UNCHANGED <<line, busy, mpc, rcOld>>
    BY <1>8 DEF SmsArrives, modemd
  <2> QED
    BY <1>1, <2>2, <2>3 DEF InStep, Prompting, OneCommand
<1>9. CASE Statusd \/ Tick \/ SetBack \/ Signal \/ CrashStatusd \/ RestartStatusd
  <2>1. UNCHANGED <<line, busy, dev, mpc, rcOld>>
    BY <1>9 DEF Statusd, Wake, TakeCommand, ActOnCommand, Report, Waited, Tick, SetBack, Signal, CrashStatusd,
                RestartStatusd, wire, modemd
  <2> QED
    BY <1>1, <2>1 DEF InStep, Prompting, OneCommand
<1> QED
  BY <1>2, <1>3, <1>4, <1>5, <1>6, <1>7, <1>8, <1>9 DEF Next, Modemd, Environment

LEMMA MailStep ==
  ASSUME Wire(line), Wire(busy), Counts, Next
  PROVE  /\ Keeps
         /\ InOrder /\ ~ Renamed => \A no \in Numbers(outbox) \ Numbers(outbox') : no \in accepted \/ rcOld
<1>1. clock \in Nat /\ clock' \in Nat /\ (clock' < clock => Renamed')
  BY CountsKept DEF Counts
<1>2. CASE Modemd
  <2>1. CASE GotResult \/ TimedOut
    BY <2>1, WaitKeeps DEF GotResult, TimedOut, EndOfWait, queues, history
  <2>2. CASE GotPrompt \/ Outbox
    BY <2>2, PromptKeeps, OutboxKeeps DEF GotPrompt, Outbox, queues
  <2>3. CASE Sent
    BY <2>3, SentKeeps
  <2>4. CASE Open \/ DeleteReceived \/ NoneReceived \/ PushReceived \/ IdleLoop
    BY <2>4, GoingRoundKeeps DEF Open, DeleteReceived, NoneReceived, PushReceived, IdleLoop, queues
  <2>5. CASE PushFails
    BY <1>1, <2>5, NothingSent DEF PushFails, queues, wire
  <2> QED
    BY <1>2, <2>1, <2>2, <2>3, <2>4, <2>5 DEF Modemd
<1>3. CASE Statusd
  <2>1. CASE Report
    BY <2>1, ReportKeeps
  <2>2. CASE Wake \/ TakeCommand \/ ActOnCommand \/ Waited
    BY <1>1, <2>2, NothingSent DEF Wake, TakeCommand, ActOnCommand, Waited, queues, wire, modemd, history
  <2> QED
    BY <1>3, <2>1, <2>2 DEF Statusd
<1>4. CASE Environment
  <2>1. CASE ModemAnswers
    BY <2>1, ModemAnswersKeeps DEF ModemAnswers, queues
  <2>2. CASE Unsolicited \/ CrashModemd \/ RestartModemd
    BY <2>2, UnsolicitedKeeps, CrashKeeps, GoingRoundKeeps DEF Unsolicited, CrashModemd, RestartModemd, queues
  <2>3. CASE SmsArrives \/ Tick \/ SetBack \/ Signal \/ CrashStatusd \/ RestartStatusd
    BY <1>1, <2>3, NothingSent
       DEF SmsArrives, Tick, SetBack, Signal, CrashStatusd, RestartStatusd, queues, wire, modemd, history
  <2> QED
    BY <1>4, <2>1, <2>2, <2>3 DEF Environment
<1> QED
  BY <1>2, <1>3, <1>4 DEF Next

LEMMA MailInitial == MCInit => MailInv
<1> SUFFICES ASSUME Init PROVE MailInv
  BY DEF MCInit
<1>1. IsSeq(<<>>) /\ DOMAIN <<>> = {}
  <2>1. <<>> \in Seq({})
    OBVIOUS
  <2> QED
    BY <2>1 DEF IsSeq
<1>2. MailType
  <2>1. IsDevice([store |-> [s \in Slots |-> None], pdu |-> "no"])
    BY DEF IsDevice
  <2> QED
    BY <1>1, <2>1 DEF Init, MailType, Counts, Wire, Daemons
<1>3. InOrder
  BY <1>1 DEF Init, InOrder, AnswersInTime, CommandsInTime, SendsOneOfThem, SentWasTaken, Numbered, Empty
<1>4. InStep
  BY <1>1 DEF Init, InStep, OneAnswer, NewResults, NoResult, Prompting, OneCommand
<1> QED
  BY <1>2, <1>3, <1>4 DEF MailInv

LEMMA MailInvKept ==
  ASSUME MailInv, [MailMoves \/ ToolMoves \/ WordsMove]_mailMCVars
  PROVE  /\ MailInv'
         /\ [\A no \in Numbers(outbox) \ Numbers(outbox') : no \in accepted \/ (Late /\ rcOld) \/ Renamed]_vars
<1>1. CASE UNCHANGED vars
  BY <1>1 DEF vars, MailInv, MailType, Counts, Wire, Renamed, Late, Had, InOrder, AnswersInTime, CommandsInTime,
              SendsOneOfThem, SentWasTaken, Numbered, InHand, InStep, OneAnswer, NewResults, NoResult, Prompting, OneCommand
<1>2. CASE Next
  <2>1. Wire(line) /\ Wire(busy) /\ Counts /\ IsDevice(dev) /\ (~ Renamed => InOrder) /\ (~ Late => InStep)
    BY DEF MailInv, MailType
  <2>2. Counts' /\ (Renamed => Renamed')
    BY <1>2, <2>1, CountsKept
  <2>3. Wire(line)' /\ Wire(busy)' /\ (InOrder /\ ~ Renamed' => InOrder')
    BY <1>2, <2>1, MailStep DEF Keeps
  <2>4. ~ Renamed => \A no \in Numbers(outbox) \ Numbers(outbox') : no \in accepted \/ rcOld
    BY <1>2, <2>1, MailStep
  <2>5. IsDevice(dev') /\ (~ Late' => InStep')
    BY <1>2, <2>1, StepsInStep
  <2>6. ~ Late => rcOld = FALSE
    BY <2>1 DEF InStep
  <2> QED
    BY <2>1, <2>2, <2>3, <2>4, <2>5, <2>6 DEF MailInv, MailType
<1> QED
  BY <1>1, <1>2 DEF MailMoves, ToolMoves, WordsMove, mailMCVars

\* As long as the modem answers in time and modemd does not crash, a status message leaves the outbox only when the
\* network has taken it, whatever the modem refuses, never answers or says unasked and whenever statusd crashes.  After
\* that it leaves only so, or on an answer to an earlier command; this as long as the clock was not set back and
\* numbers are left (modemd_main.cc:121-137, message-queue.cc:102-148).
THEOREM OutboxIsKept == MCSpec => MailKept
<1> DEFINE Kept == [\A no \in Numbers(outbox) \ Numbers(outbox') : no \in accepted \/ (Late /\ rcOld) \/ Renamed]_vars
<1>1. MailInv /\ [MailMoves \/ ToolMoves \/ WordsMove]_mailMCVars => MailInv' /\ Kept
  BY MailInvKept
<1> HIDE DEF Kept
<1>2. MCSpec => [][Kept]_vars
  BY <1>1, MailInitial, PTL DEF MCSpec, mailMCVars
<1> QED
  BY <1>2, PTL DEF MailKept, Kept
=============================================================================
