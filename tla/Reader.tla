------------------------------- MODULE Reader -------------------------------
(***************************************************************************)
(* How a worker takes headers and chunks from a connection (HTTPHandler::  *)
(* ReadHeader and ReadBodyPart over the receive buffer of SocketHandler).  *)
(* TCP delivers a stream of bytes; what one recv() returns of it ends      *)
(* anywhere, and nothing that is read may depend on where.                 *)
(*                                                                         *)
(* A byte is one of the few that the functions tell apart.  What the peer  *)
(* sends is a conversation, a sequence of frames whose encodings make up   *)
(* the stream; ProxySession knows only whether a frame was read.           *)
(***************************************************************************)
EXTENDS Integers, Sequences, SequencesExt, FiniteSets, FiniteSetsExt

CONSTANTS
    Conversations,       \* what peers may send, see Frame
    MAXRECV,             \* most bytes of one recv()
    MAXHTTPHEADERLENGTH,
    MAXCHUNKHEADER,      \* 256 in the code
    MAXCHUNK,            \* 1 MB in the code
    WORD                 \* 2^32, the range of unsigned int

Blank == {"cr", "lf", "sp"}
Hex == {"0", "1", "2", "3"}  \* the hexadecimal digits that occur
Bytes == Blank \cup Hex \cup {"x"}

CRLF == <<"cr", "lf">>
EmptyLine == CRLF \o CRLF
WrongEmptyLine == <<"lf", "lf">>

\* text is a header without its end, the body of a chunk, a body, or nothing;
\* before is blank space in front of a header, or zeros in front of the size of a
\* chunk, and after an extension of it.  A body that is not chunked comes last.
Frame == [kind : {"header", "wrongheader", "chunk", "last", "body"},
          before : Seq(Bytes), text : Seq(Bytes), after : Seq(Bytes)]

Digit == <<"0", "1", "2", "3">>
Value(d) == (CHOOSE n \in DOMAIN Digit : Digit[n] = d) - 1

IsHeader(f) == f.kind \in {"header", "wrongheader"}
IsExtension(after) == after = <<>> \/ (after[1] \notin Hex /\ \A i \in DOMAIN after : after[i] # "cr")
SizeLine(f) == f.before \o <<Digit[Len(f.text) + 1]>> \o f.after \o CRLF

Encoded(f) ==
    CASE f.kind = "header" -> f.before \o f.text \o EmptyLine
      [] f.kind = "wrongheader" -> f.before \o f.text \o WrongEmptyLine
      [] f.kind \in {"chunk", "last"} -> SizeLine(f) \o f.text \o CRLF
      [] f.kind = "body" -> f.text

\* The first i frames, as they are sent.
Sent(c, i) ==
    LET sent[k \in 0..Len(c)] == IF k = 0 THEN <<>> ELSE sent[k - 1] \o Encoded(c[k])
    IN  sent[i]

\* What the reading functions return of it.
Contents(f) ==
    CASE f.kind = "header" -> f.text \o CRLF
      [] f.kind = "wrongheader" -> f.text \o WrongEmptyLine
      [] OTHER -> f.text

\* string::find(), 0 for npos
Find(s, t) ==
    LET at == {i \in 1..(Len(s) - Len(t) + 1) : SubSeq(s, i, i + Len(t) - 1) = t}
    IN  IF at = {} THEN 0 ELSE Min(at)

\* The texts say where they end, chunks come before a last one, and a body is what
\* the header before it announces.  A header that ends in LF LF is not followed by
\* an end in CR LF CR LF, which would be found first.
IsText(f, end) ==
    /\ f.before \in Seq(Blank) /\ f.text # <<>> /\ f.text[1] \notin Blank
    /\ Find(f.text \o end, end) = Len(f.text) + 1
IsFrame(f, next, following) ==
    CASE f.kind = "header" -> IsText(f, EmptyLine) /\ Find(f.text, WrongEmptyLine) = 0
      [] f.kind = "wrongheader" ->
           /\ IsText(f, WrongEmptyLine) /\ next \subseteq {"body"}
           /\ Find(f.text \o WrongEmptyLine \o following, EmptyLine) = 0
      [] f.kind = "chunk" ->
           /\ Len(f.text) \in 1..3 /\ next \subseteq {"chunk", "last"}
           /\ f.before \in Seq({"0"}) /\ IsExtension(f.after)
      [] f.kind = "last" ->
           /\ f.text = <<>> /\ next \subseteq {"header", "wrongheader"}
           /\ f.before \in Seq({"0"}) /\ IsExtension(f.after)
      [] f.kind = "body" -> f.text # <<>> /\ next = {}

IsConversation(c) ==
    /\ c \in Seq(Frame)
    /\ \A i \in DOMAIN c :
          IF i = Len(c) THEN IsFrame(c[i], {}, <<>>)
          ELSE IsFrame(c[i], {c[i + 1].kind}, c[i + 1].text)
    /\ Len(Sent(c, Len(c))) < WORD - 1

ASSUME ReaderAssumption ==
    /\ \A c \in Conversations : IsConversation(c)
    /\ {MAXRECV, MAXHTTPHEADERLENGTH, MAXCHUNKHEADER, MAXCHUNK, WORD} \subseteq Nat \ {0}

VARIABLES
    conv,      \* what the peer sends, never changes
    recvd,     \* bytes of it that recv() has returned
    closed,    \* the peer closed, or went silent, before all of it
    RecvBuf,
    pc,
    temp,      \* tempheader of ReadHeader, Temp of ReadBodyPart
    got,       \* headerT or bodyT
    poscount,  \* bytes of a header that were taken before its end was found
    received,
    want,      \* a RecvLength() that waits for more
    out,       \* what the calls so far have returned
    badcut     \* history: a recv() ended where it must not

network == <<conv, recvd, closed, badcut>>
locals == <<temp, got, poscount, received>>
vars == <<network, RecvBuf, pc, locals, want, out>>

Stream == Sent(conv, Len(conv))

Places == {"call", "skip", "find", "more", "crlf", "chunk", "data", "body",
           "recv", "return", "failed", "done"}
Nothing == [n |-> 0, keep |-> FALSE, then |-> "call"]

TypeOK ==
    /\ conv \in Conversations /\ recvd \in 0..Len(Stream)
    /\ closed \in BOOLEAN /\ badcut \in BOOLEAN
    /\ RecvBuf \in Seq(Bytes) /\ Len(RecvBuf) <= MAXRECV
    /\ pc \in Places
    /\ temp \in Seq(Bytes) /\ got \in Seq(Bytes)
    /\ poscount \in Nat /\ received \in Nat
    /\ want \in [n : 0..(WORD - 1), keep : BOOLEAN, then : Places]
    /\ out \in Seq(Seq(Bytes))

Init ==
    /\ conv \in Conversations /\ recvd = 0 /\ closed = FALSE /\ badcut = FALSE
    /\ RecvBuf = <<>> /\ pc = "call" /\ temp = <<>> /\ got = <<>>
    /\ poscount = 0 /\ received = 0 /\ want = Nothing /\ out = <<>>

-----------------------------------------------------------------------------
(* SocketHandler.                                                          *)

\* Where a recv() must not end, as the code is: before the last byte of an empty
\* line, and inside the size of a chunk or the line end in front of it.
BadPlaces(i) ==
    LET start == Len(Sent(conv, i - 1))
        end == start + Len(Encoded(conv[i]))
        f == conv[i]
    IN  CASE f.kind = "header" -> {end - 1}
          [] f.kind = "chunk" -> (start + 1)..(start + Len(SizeLine(f)) - 1) \cup {end - 1}
          [] f.kind = "last" -> (start + 1)..(start + Len(SizeLine(f)) - 1)
          [] OTHER -> {}

\* What a recv() may return, and that it does.
Arriving ==
    IF closed THEN {}
    ELSE {SubSeq(Stream, recvd + 1, p) : p \in (recvd + 1)..Min({recvd + MAXRECV, Len(Stream)})}

Arrives(p) ==
    /\ recvd' = recvd + Len(p)
    /\ badcut' = (badcut \/ \E i \in DOMAIN conv : recvd' \in BadPlaces(i))
    /\ UNCHANGED <<conv, closed>>

\* Recv(): what is buffered, as it is, or else what arrives.
Received == IF RecvBuf # <<>> THEN {RecvBuf} ELSE Arriving
Recv(p) == IF RecvBuf # <<>> THEN UNCHANGED network ELSE Arrives(p)

\* Variant (mutant): what was taken stays in the buffer.
Erased_Not(n) == RecvBuf

Erased(n) == SubSeq(RecvBuf, n + 1, Len(RecvBuf))

\* RecvLength(): n bytes of what is buffered, or all of it and then more.  With
\* keep they are appended to headerT or bodyT.
RecvLength(n, keep, then) ==
    LET m == Min({n, Len(RecvBuf)}) IN
    /\ got' = IF keep THEN got \o SubSeq(RecvBuf, 1, m) ELSE got
    /\ RecvBuf' = Erased(m)
    /\ IF n <= Len(RecvBuf)
          THEN pc' = then /\ want' = Nothing
          ELSE pc' = "recv" /\ want' = [n |-> n - m, keep |-> keep, then |-> then]

RecvMore ==
    /\ pc = "recv"
    /\ \E p \in Arriving :
          LET m == Min({want.n, Len(p)}) IN
          /\ Arrives(p)
          /\ got' = IF want.keep THEN got \o SubSeq(p, 1, m) ELSE got
          /\ RecvBuf' = RecvBuf \o SubSeq(p, m + 1, Len(p))
          /\ IF want.n <= Len(p)
                THEN pc' = want.then /\ want' = Nothing
                ELSE pc' = pc /\ want' = [want EXCEPT !.n = @ - m]
    /\ UNCHANGED <<temp, poscount, received, out>>

Waiting ==
    \/ pc \in {"more", "recv"}
    \/ pc \in {"skip", "chunk", "body"} /\ RecvBuf = <<>>

\* "Did not receive last empty line?"
IsTolerated(n) == pc = "more" /\ n = 0 /\ Last(got) \in {"cr", "lf"}

\* The peer closes (0), or nothing comes until the timeout (-1).
NoMore ==
    /\ Waiting
    /\ closed' = (closed \/ recvd < Len(Stream))
    /\ \E n \in {0, -1} : pc' = IF IsTolerated(n) THEN "return" ELSE "failed"
    /\ UNCHANGED <<conv, recvd, badcut, RecvBuf, locals, want, out>>

-----------------------------------------------------------------------------
(* The caller knows from the headers what comes next, and gives up when a  *)
(* reading function fails.                                                 *)

Place(f) ==
    CASE IsHeader(f) -> "skip" [] f.kind \in {"chunk", "last"} -> "chunk" [] OTHER -> "body"

Call ==
    /\ pc = "call"
    /\ pc' = IF Len(out) < Len(conv) THEN Place(conv[Len(out) + 1]) ELSE "done"
    /\ temp' = <<>> /\ got' = <<>> /\ poscount' = 0 /\ received' = 0
    /\ UNCHANGED <<network, RecvBuf, want, out>>

Return ==
    /\ pc = "return"
    /\ pc' = "call" /\ out' = Append(out, got)
    /\ UNCHANGED <<network, RecvBuf, locals, want>>

-----------------------------------------------------------------------------
(* HTTPHandler::ReadHeader.                                                *)

\* find_first_not_of(), 0 for npos
FirstNot(s, chars) == SelectInSeq(s, LAMBDA c : c \notin chars)

\* "Ignore whitespace from beginning."
SkipBlanks ==
    /\ pc = "skip"
    /\ \E p \in Received :
          LET text == FirstNot(p, Blank) IN
          /\ Recv(p)
          /\ received' = received + Len(p)
          /\ temp' = IF text = 0 THEN <<>> ELSE SubSeq(p, text, Len(p))
          /\ IF text = 0 /\ received' > MAXHTTPHEADERLENGTH
                THEN pc' = "failed" /\ RecvBuf' = p
                ELSE pc' = (IF text = 0 THEN "skip" ELSE "find") /\ RecvBuf' = temp'
    /\ UNCHANGED <<got, poscount, want, out>>

Position == IF Find(temp, EmptyLine) # 0 THEN Find(temp, EmptyLine) ELSE Find(temp, WrongEmptyLine)
WrongHeader == Find(temp, EmptyLine) = 0

\* Variant (mutant): what was received is not counted.
Counted_Not == received

Counted == received + Len(RecvBuf)

\* The end is not in what has come so far: all of it is taken.
NotFound ==
    /\ pc = "find" /\ Position = 0
    /\ got' = got \o RecvBuf /\ RecvBuf' = Erased(Len(RecvBuf))
    /\ poscount' = poscount + Len(RecvBuf)
    /\ received' = Counted
    /\ pc' = IF received' > MAXHTTPHEADERLENGTH THEN "failed" ELSE "more"
    /\ UNCHANGED <<network, temp, want, out>>

More ==
    /\ pc = "more"
    /\ \E p \in Arriving :
          Arrives(p) /\ temp' = temp \o p /\ RecvBuf' = RecvBuf \o p
    /\ pc' = "find"
    /\ UNCHANGED <<got, poscount, received, want, out>>

\* Variant (mutant): the end is sought in all that came, the length counted as
\* if it were in the last piece.
LastPart_OfPiece == (Position - 1 + 2) % WORD

\* Variant (mutant): the end is one byte short.
LastPart_OneLess == (Position - 1 - poscount + 1) % WORD

\* position - poscount + 2, as an unsigned int: of a header whose last but one
\* byte was the last of a recv(), more was taken than there is left.
LastPart == (Position - 1 - poscount + 2) % WORD

FindEnd ==
    /\ pc = "find" /\ Position # 0
    /\ RecvLength(LastPart, TRUE, IF WrongHeader THEN "return" ELSE "crlf")
    /\ UNCHANGED <<network, temp, poscount, received, out>>

LastCRLF ==
    /\ pc = "crlf"
    /\ RecvLength(2, FALSE, "return")
    /\ UNCHANGED <<network, temp, poscount, received, out>>

-----------------------------------------------------------------------------
(* HTTPHandler::ReadBodyPart.                                              *)

\* Variant (mutant): the line end in front of a size stays.
LineEnd_Kept == <<>>

LineEnd == CRLF

\* What the first digits of line say.
Number(line, digits) ==
    LET value[k \in 0..digits] == IF k = 0 THEN 0 ELSE 16 * value[k - 1] + Value(line[k])
    IN  value[digits]

\* Variant (mutant): what is looked at in vain is not counted.
Looked_Not(p) == received

Looked(p) == received + Len(p)

\* The end of the last chunk is still there; Recv() does not take anything, so
\* that a second look at what is buffered adds it to temp once more.
ReadSize ==
    /\ pc = "chunk"
    /\ \E p \in Received :
          LET line == temp \o p
              position == Find(line, CRLF)
              digits == FirstNot(line, Hex) - 1
              csize == Number(line, digits)
          IN
          /\ Recv(p)
          /\ received' = IF position = 0 THEN Looked(p) ELSE received
          /\ temp' = IF position = 0 THEN line ELSE <<>>
          /\ \/ /\ position <= 1  \* none yet, or the line end before it
                /\ RecvBuf' = IF position = 0 THEN p ELSE SubSeq(p, Len(LineEnd) + 1, Len(p))
                /\ pc' = IF received' > MAXCHUNKHEADER THEN "failed" ELSE "chunk"
                /\ UNCHANGED want
             \/ /\ position > 1 /\ digits \notin 1..7
                /\ RecvBuf' = p /\ pc' = "failed" /\ UNCHANGED want
             \/ /\ position > 1 /\ digits \in 1..7
                /\ RecvBuf' = SubSeq(p, position + 2, Len(p))
                /\ pc' = CASE csize = 0 -> "return"
                           [] csize > MAXCHUNK -> "failed"
                           [] OTHER -> "data"
                /\ want' = [Nothing EXCEPT !.n = csize]
    /\ UNCHANGED <<got, poscount, out>>

Data ==
    /\ pc = "data"
    /\ RecvLength(want.n, TRUE, "return")
    /\ UNCHANGED <<network, temp, poscount, received, out>>

\* Not chunked: whatever is there, until the caller has the announced length.
Body ==
    /\ pc = "body"
    /\ \E p \in Received : Recv(p) /\ got' = got \o p
    /\ RecvBuf' = <<>>
    /\ pc' = IF Len(got') >= Len(conv[Len(out) + 1].text) THEN "return" ELSE "body"
    /\ UNCHANGED <<temp, poscount, received, want, out>>

Next ==
    \/ RecvMore \/ NoMore \/ Call \/ Return
    \/ SkipBlanks \/ NotFound \/ More \/ FindEnd \/ LastCRLF
    \/ ReadSize \/ Data \/ Body

\* Every wait for the peer has a timeout.
Spec == Init /\ [][Next]_vars /\ WF_vars(Next)

-----------------------------------------------------------------------------
(* Properties.                                                             *)

\* Whatever the pieces in which a stream arrives, what was read are its frames,
\* one after the other, without the blanks and line ends around them.  Only of a
\* header whose connection was closed some of the lines may be missing.
OnlyFrames ==
    \A i \in DOMAIN out :
        \/ out[i] = Contents(conv[i])
        \/ /\ closed /\ i = Len(out) /\ IsHeader(conv[i])
           /\ IsPrefix(out[i], Encoded([conv[i] EXCEPT !.before = <<>>]))
           /\ Last(out[i]) \in {"cr", "lf"}

TooLong(f) ==
    \/ IsHeader(f) /\ Len(Encoded(f)) + MAXRECV + 2 > MAXHTTPHEADERLENGTH
    \/ f.kind \in {"chunk", "last"} /\ (Len(f.text) > MAXCHUNK \/ Len(f.before) > 6)

\* Nothing is refused, or waited for in vain, that came whole, except when it is
\* too long (a header by one recv(), as its first piece is counted twice, and the
\* line end after the last chunk; a size of more than seven digits) or a recv() ended
\* at one of the bad places.
OnlyBadCutsFail ==
    pc = "failed" => closed \/ badcut \/ Len(out) = Len(conv) \/ TooLong(conv[Len(out) + 1])

\* A header that goes on and on is given up: never is more of it kept than the
\* limit and one recv(), unless an end that is cut badly makes it wait for 4 GB.
HeaderBounded ==
    (~badcut /\ Len(out) < Len(conv) /\ IsHeader(conv[Len(out) + 1]))
        => Len(got) <= MAXHTTPHEADERLENGTH + MAXRECV

\* How many steps there are at most to the end: every byte is received once and taken
\* from the buffer once, what is left of the limits is not used twice, and a place that
\* comes later counts less.
Ahead ==
    CASE pc = "call" -> MAXCHUNKHEADER + 8
      [] pc = "chunk" -> MAXCHUNKHEADER - received + 6
      [] pc \in {"skip", "body"} -> 6
      [] pc = "find" -> 5
      [] pc \in {"crlf", "data"} -> 4
      [] pc = "recv" -> 3
      [] pc = "more" -> 2
      [] pc = "return" -> 1
      [] OTHER -> 0
Left ==
    (MAXCHUNKHEADER + 8) * (Len(conv) - Len(out))
        + 20 * (Len(Stream) - recvd) + 10 * Len(RecvBuf) + Ahead

\* Every step of the reading functions brings them nearer to the end of what they read,
\* by bytes, by places, or by the count of what they refuse to look at again: none of
\* the loops over a buffer that stays as it is goes on for longer than that.
StepsRunOut == [][Left' \in 0..(Left - 1)]_vars

\* Every conversation is read to its end, or given up: no loop of the reading
\* functions looks at the same buffer for ever.
ReadingEnds == <>(pc \in {"done", "failed"})

=============================================================================
