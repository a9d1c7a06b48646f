------------------------------ MODULE LineBuffer ------------------------------
(***************************************************************************)
(* io2/lib/linebuffer.c: the buffer between a stream of characters and       *)
(* complete lines that every program on a bus reads through, and that          *)
(* linebusd also writes through.  A character is NL or Chr; line holds the      *)
(* characters [0, head) of the C array, eol and discard are its fields.          *)
(***************************************************************************)
EXTENDS Integers, SequencesExt

CONSTANTS NL, Chr,      \* a newline, any other character
          Cap,          \* sizeof(line) - 1: 1023 in the code
          Puts,         \* the strings that lb_putline is called with
          Sizes,        \* the sizes of the buffers that lb_getline is called with
          MaxFed        \* bound on the characters fed to the buffer

ASSUME LineBufferAssumption ==
    /\ NL # Chr
    /\ Cap \in Nat \ {0} /\ MaxFed \in Nat
    /\ Puts \subseteq Seq({NL, Chr}) /\ Sizes \subseteq Nat

VARIABLES line, eol, discard,   \* the LineBuffer
          ret,                  \* <<call, result>> of the last call
          fed, taken            \* history: all characters put in, all taken out

vars == <<line, eol, discard, ret, fed, taken>>

EAGAIN == 11
EOF == -1

SizeLeft == Cap - Len(line)
Pending == eol > 0                              \* lb_pending

\* memchr for the first NL, as the position after it; 0 if there is none.
AfterNL(s) ==
    IF \E i \in DOMAIN s : s[i] = NL
    THEN CHOOSE i \in DOMAIN s : s[i] = NL /\ \A j \in 1 .. i - 1 : s[j] # NL
    ELSE 0
Skip(s, n) == SubSeq(s, n + 1, Len(s))

\* update_r: [line, eol, discard] after chunk arrived behind the old characters, of
\* which only the chunk is searched.
Found(lb, chunk) ==
    IF lb.eol # 0 THEN lb.eol
    ELSE IF AfterNL(chunk) # 0 THEN Len(lb.line) + AfterNL(chunk)
    ELSE 0
UpdateRForgetful(lb, chunk) ==          \* mutant: discard is not remembered
    LET text == lb.line \o chunk
        found == Found(lb, chunk)
    IN  IF found = 0 /\ Len(text) >= Cap THEN [line |-> <<>>, eol |-> 0, discard |-> FALSE]
        ELSE [line |-> text, eol |-> found, discard |-> FALSE]
UpdateR(lb, chunk) ==
    LET text == lb.line \o chunk
        found == Found(lb, chunk)
        drop == lb.discard \/ (found = 0 /\ Len(text) >= Cap)
        rest == Skip(text, found)
    IN  CASE ~drop              -> [line |-> text, eol |-> found, discard |-> FALSE]
          [] drop /\ found = 0  -> [line |-> <<>>, eol |-> 0, discard |-> TRUE]
          [] drop /\ found # 0  -> [line |-> rest, eol |-> AfterNL(rest), discard |-> FALSE]

Buffer == [line |-> line, eol |-> eol, discard |-> discard]
Become(lb) == line' = lb.line /\ eol' = lb.eol /\ discard' = lb.discard

\* update_w: the first n characters are gone; eol was the end of the line (or
\* lines) they were taken from.
TakeOut(n, end) ==
    /\ line' = Skip(line, n)
    /\ eol' = IF end = n THEN AfterNL(Skip(line, n)) ELSE end - n
    /\ taken' = taken \o SubSeq(line, 1, n)

\* last_eol, of a buffer with a complete line.
LastEol == CHOOSE i \in DOMAIN line : line[i] = NL /\ \A j \in i + 1 .. Len(line) : line[j] # NL

Init ==
    /\ line = <<>> /\ eol = 0 /\ discard = FALSE
    /\ ret = <<"init", 0>>
    /\ fed = <<>> /\ taken = <<>>

-----------------------------------------------------------------------------
\* lb_readfd (and lb_readstr): whatever the peer has sent, up to the space left.
ReadFd ==
    /\ \E n \in 1 .. SizeLeft : \E chunk \in [1 .. n -> {NL, Chr}] :
          /\ Len(fed) + n <= MaxFed
          /\ Become(UpdateR(Buffer, chunk))
          /\ fed' = fed \o chunk
    /\ ret' = <<"read", IF eol' = 0 THEN EAGAIN ELSE 0>>
    /\ UNCHANGED taken

\* With no space left read(2) is asked for 0 characters and returns 0: lb_readfd
\* takes that for the end of the file.
ReadFull ==
    /\ SizeLeft = 0
    /\ ret' = <<"full", EOF>>
    /\ UNCHANGED <<line, eol, discard, fed, taken>>

PutLine(s) ==
    LET mustadd == s # <<>> /\ Last(s) # NL
        text == IF mustadd THEN Append(s, NL) ELSE s
        put == UpdateR(Buffer, s)
    IN  IF Len(text) > SizeLeft
        THEN ret' = <<"put", -1>> /\ UNCHANGED <<line, eol, discard, fed, taken>>
        ELSE /\ Len(fed) + Len(text) <= MaxFed
             /\ Become(IF mustadd THEN UpdateR(put, <<NL>>) ELSE put)
             /\ fed' = fed \o text
             /\ ret' = <<"put", Len(s)>>
             /\ UNCHANGED taken

\* lb_writefd writes (part of) the first line, lb_writefd_all of all complete ones:
\* it then pretends that what it wrote was the first line.
WriteFd ==
    /\ Pending
    /\ \E n \in 1 .. eol : TakeOut(n, eol)
    /\ ret' = <<"write", IF eol' = 0 THEN 0 ELSE EAGAIN>>
    /\ UNCHANGED <<discard, fed>>
WriteFdAll ==
    /\ Pending
    /\ \E n \in 1 .. LastEol : TakeOut(n, n)
    /\ ret' = <<"write", IF eol' = 0 THEN 0 ELSE EAGAIN>>
    /\ UNCHANGED <<discard, fed>>

\* lb_getline into a buffer of a given size.
GetLine(size) ==
    IF ~Pending \/ size < eol + 1
    THEN ret' = <<"get", IF Pending THEN -1 ELSE 0>> /\ UNCHANGED <<line, eol, discard, fed, taken>>
    ELSE /\ TakeOut(eol, eol)
         /\ ret' = <<"get", eol>>
         /\ UNCHANGED <<discard, fed>>

Next ==
    \/ ReadFd \/ ReadFull \/ WriteFd \/ WriteFdAll
    \/ \E s \in Puts : PutLine(s)
    \/ \E size \in Sizes : GetLine(size)
Spec == Init /\ [][Next]_vars

-----------------------------------------------------------------------------
TypeOK ==
    /\ line \in Seq({NL, Chr}) /\ Len(line) <= Cap          \* no write behind the array
    /\ eol \in 0 .. Len(line)
    /\ discard \in BOOLEAN

\* A complete line never sits in the buffer unseen, and no incomplete one is taken
\* for a line: eol is the first NL after every mixture of calls (linebuffer.c:52-158).
EolIsFirst == eol = AfterNL(line)

\* The lines of s without those that do not fit into the buffer, and the line begun.
SplitAt(acc, c) ==
    IF c # NL THEN [acc EXCEPT !.begun = Append(@, c)]
    ELSE [whole |-> IF Len(acc.begun) < Cap THEN acc.whole \o acc.begun \o <<NL>> ELSE acc.whole,
          begun |-> <<>>]
Split(s) ==
    LET after[k \in 0 .. Len(s)] ==
            IF k = 0 THEN [whole |-> <<>>, begun |-> <<>>] ELSE SplitAt(after[k - 1], s[k])
    IN  after[Len(s)]

\* The characters that ought to come out of s: those lines, and the begun one unless it
\* does not fit already.
Kept(s) ==
    LET end == Split(s)
    IN  end.whole \o (IF Len(end.begun) < Cap THEN end.begun ELSE <<>>)

\* What goes in comes out: in order, once, without a gap, except that a line too
\* long for the buffer is left out as a whole, however the stream was cut into reads
\* and partial writes (linebuffer.h:11-17, linebuffer.c:52-158).
NothingLostButLongLines == taken \o line = Kept(fed)

\* linebuffer.h:38-44 and 51-58: reading returns 0 iff there is a line to get,
\* writing returns 0 iff no line is left.
ReturnTellsPending ==
    /\ ret[1] = "read" => (ret[2] = 0 <=> NL \in Range(line))
    /\ ret[1] = "write" => (ret[2] = 0 <=> NL \notin Range(line))
=============================================================================
