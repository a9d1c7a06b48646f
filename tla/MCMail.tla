-------------------------------- MODULE MCMail --------------------------------
(* The two programs that send and receive SMS, and what they send.  They share nothing *)
(* with each other, so that one run explores them side by side: subject says which one  *)
(* moves.                                                                               *)
EXTENDS Mail

CONSTANTS Procs, Receivers, Retries, Mortal, Places, MaxSms,
          MaxEvents     \* bound on commands and faults together

VARIABLES subject, lock, step, retries, seen, idx, store, sms, printed, robbed,
          letter, words, octets, read
toolVars == <<lock, step, retries, seen, idx, store, sms, printed, robbed>>
wordVars == <<letter, words, octets, read>>

\* The second command is in capitals and asks for a report.
SomeCommands == <<[mode |-> "brake", ack |-> FALSE], [mode |-> "dock", ack |-> TRUE],
                  [mode |-> "brake", ack |-> FALSE]>>

\* Two processes wait as long as it takes, a third one is started with -r 1.
SomeRetries == [p \in Procs |-> IF p \in Receivers THEN -1 ELSE 1]
Tool == INSTANCE SmsTool WITH pc <- step

\* The numbers of messages are used up at some time.
ASSUME MailAssumption == IdSpace \in Nat \ {0}

\* A process id is a number, and the lock file names one or does not exist.
ASSUME ToolAssumption ==
    Retries \in [Procs -> Int] /\ Places \subseteq Nat /\ Tool!NoLock \notin Procs

\* Texts that end before, with and after an octet, twice round; numbers of even and odd length.
SomeTexts == {[k \in 1 .. n |-> IF k % m = 0 THEN 1 ELSE 127 - k] : n \in 0 .. 17, m \in {2, 3}}
SomePhones == {<<4, 1, 7>>, <<4, 6, 7, 0>>}
SomeStamps == {<<11, 8, 18, 4, 45, 59, 4>>, <<12, 12, 31, 23, 9, 0, 0>>}
SomeReports == [gps : {"none", "nan", "known"}, iridium : {"old", "known"}, bearing : BOOLEAN,
    speed : {"none", "ahead", "fast", "astern"}, apparent : {"none", "angle", "both"},
    true : {"none", "angle", "both"}, battery : {TRUE}, fuel : {FALSE}, other : {4, 130}]
Words == INSTANCE Sms WITH todo <- letter, text <- words, Texts <- SomeTexts, Reports <- SomeReports,
                           Phones <- SomePhones, Stamps <- SomeStamps

\* Only the one that moves starts in all the ways it may.
FirstLetter == CHOOSE l \in Words!Orders : l.text = <<>>
MCInit ==
    /\ Init /\ Tool!Init /\ subject \in {"modemd", "sms", "words"}
    /\ words = <<>> /\ octets = <<>> /\ read = Words!Nothing
    /\ letter \in IF subject = "words" THEN Words!Statuses \cup Words!Shouts \cup Words!Orders ELSE {FirstLetter}
MailMoves == subject = "modemd" /\ Next /\ Len(arrived') + Len(faults') <= MaxEvents /\ UNCHANGED <<subject, toolVars, wordVars>>
ToolMoves == subject = "sms" /\ Tool!Next /\ UNCHANGED <<subject, vars, wordVars>>
WordsMove == subject = "words" /\ Words!Next /\ UNCHANGED <<subject, vars, toolVars>>
MCFairness ==
    /\ WF_vars(subject = "modemd" /\ Modemd)
    /\ WF_vars(subject = "modemd" /\ Statusd)
    /\ WF_vars(subject = "modemd" /\ ModemAnswers)
MCSpec == MCInit /\ [][MailMoves \/ ToolMoves \/ WordsMove]_<<subject, vars, toolVars, wordVars>> /\ MCFairness

ReadBeforeDelete == Tool!ReadBeforeDelete
ReadAsWritten == Words!ReadAsWritten
=============================================================================
