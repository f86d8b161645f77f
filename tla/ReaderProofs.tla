---------------------------- MODULE ReaderProofs ----------------------------
(***************************************************************************)
(* What a worker reads of a stream that is cut and broken off anywhere,    *)
(* for all conversations and limits.                                       *)
(***************************************************************************)
EXTENDS Reader, Counting, SequenceTheorems

-----------------------------------------------------------------------------
(* string::find().                                                         *)

Occurs(s, t, i) == i \in 1..(Len(s) - Len(t) + 1) /\ SubSeq(s, i, i + Len(t) - 1) = t

LEMMA FindFirst ==
  ASSUME NEW S, NEW s \in Seq(S), NEW t \in Seq(S)
  PROVE  /\ Find(s, t) \in Nat
         /\ Find(s, t) = 0 => \A i \in Nat : ~ Occurs(s, t, i)
         /\ Find(s, t) # 0 => /\ Occurs(s, t, Find(s, t))
                              /\ \A i \in Nat : Occurs(s, t, i) => Find(s, t) <= i
<1> DEFINE at == {i \in 1..(Len(s) - Len(t) + 1) : SubSeq(s, i, i + Len(t) - 1) = t}
<1>1. Find(s, t) = IF at = {} THEN 0 ELSE Min(at)
  BY DEF Find
<1>2. \A i \in Nat : i \in at <=> Occurs(s, t, i)
  BY DEF Occurs
<1>3. at \subseteq Nat \ {0}
  OBVIOUS
<1> HIDE DEF at
<1>4. CASE at = {}
  BY <1>1, <1>2, <1>4
<1>5. CASE at # {}
  <2>1. Min(at) \in at /\ \A i \in at : Min(at) <= i
    BY <1>3, <1>5, MinOfSome
  <2>2. QED  BY <1>1, <1>2, <1>3, <1>5, <2>1
<1>6. QED
  BY <1>4, <1>5

LEMMA FindIs ==
  ASSUME NEW S, NEW s \in Seq(S), NEW t \in Seq(S), NEW p \in Nat,
         Occurs(s, t, p), \A i \in 1..(p - 1) : ~ Occurs(s, t, i)
  PROVE  Find(s, t) = p
<1>1. p >= 1
  BY DEF Occurs
<1>2. \A i \in Nat : Occurs(s, t, i) => i >= 1
  BY DEF Occurs
<1>3. Find(s, t) # 0 /\ Find(s, t) <= p /\ Occurs(s, t, Find(s, t)) /\ Find(s, t) \in Nat
  BY FindFirst
<1>4. ~ (Find(s, t) \in 1..(p - 1))
  BY <1>3
<1>5. QED
  BY <1>1, <1>2, <1>3, <1>4

\* What is found in a text does not depend on what comes before or after it.
LEMMA OccursSame ==
  ASSUME NEW S, NEW s \in Seq(S), NEW w \in Seq(S), NEW t \in Seq(S), NEW i \in Nat \ {0},
         i + Len(t) - 1 <= Len(s), i + Len(t) - 1 <= Len(w),
         \A k \in i..(i + Len(t) - 1) : s[k] = w[k]
  PROVE  Occurs(s, t, i) <=> Occurs(w, t, i)
<1> DEFINE j == i + Len(t) - 1
<1>1. Len(t) \in Nat /\ Len(s) \in Nat /\ Len(w) \in Nat
  OBVIOUS
<1>2. \A k \in i..j : s[k] \in S /\ w[k] \in S
  <2>1. \A k \in i..j : k \in 1..Len(s) /\ k \in 1..Len(w)
    BY <1>1
  <2>2. QED  BY <2>1, ElementOfSeq
<1>3. SubSeq(s, i, j) \in Seq(S) /\ SubSeq(w, i, j) \in Seq(S)
  <2>1. j \in Int
    BY <1>1
  <2> HIDE DEF j
  <2>2. QED  BY <1>2, <2>1, SubSeqProperties
<1>4. SubSeq(s, i, j) = SubSeq(w, i, j)
  <2>1. j \in Int
    BY <1>1
  <2> HIDE DEF j
  <2>2. /\ Len(SubSeq(s, i, j)) = IF i <= j THEN j - i + 1 ELSE 0
        /\ \A k \in 1..(j - i + 1) : SubSeq(s, i, j)[k] = s[i + k - 1]
    BY <1>2, <2>1, SubSeqProperties
  <2>3. /\ Len(SubSeq(w, i, j)) = IF i <= j THEN j - i + 1 ELSE 0
        /\ \A k \in 1..(j - i + 1) : SubSeq(w, i, j)[k] = w[i + k - 1]
    BY <1>2, <2>1, SubSeqProperties
  <2>4. \A k \in 1..Len(SubSeq(s, i, j)) : SubSeq(s, i, j)[k] = SubSeq(w, i, j)[k]
    <3>1. \A k \in i..j : s[k] = w[k]
      BY DEF j
    <3>2. SUFFICES ASSUME NEW k \in 1..Len(SubSeq(s, i, j))
                   PROVE  SubSeq(s, i, j)[k] = SubSeq(w, i, j)[k]
      OBVIOUS
    <3>3. k \in 1..(j - i + 1) /\ i + k - 1 \in i..j
      BY <2>1, <2>2
    <3>4. QED  BY <2>2, <2>3, <3>1, <3>3
  <2>5. QED  BY <1>3, <2>2, <2>3, <2>4, SeqEqual
<1>5. QED
  BY <1>1, <1>4 DEF Occurs

LEMMA FindSame ==
  ASSUME NEW S, NEW s \in Seq(S), NEW w \in Seq(S), NEW t \in Seq(S), t # <<>>,
         \A k \in 1..Len(s) : k <= Len(w) => s[k] = w[k]
  PROVE  /\ (Find(w, t) = 0 /\ Len(s) <= Len(w)) => Find(s, t) = 0
         /\ (Find(w, t) = Len(w) - Len(t) + 1 /\ Len(t) <= Len(w)) =>
               Find(s, t) = IF Len(s) < Len(w) THEN 0 ELSE Len(w) - Len(t) + 1
<1>1. Len(t) \in Nat \ {0} /\ Len(s) \in Nat /\ Len(w) \in Nat
  OBVIOUS
<1>2. ASSUME NEW i \in Nat, Occurs(s, t, i), i + Len(t) - 1 <= Len(w) PROVE Occurs(w, t, i)
  <2>1. i \in Nat \ {0} /\ i + Len(t) - 1 <= Len(s)
    BY <1>1, <1>2 DEF Occurs
  <2>2. \A k \in i..(i + Len(t) - 1) : s[k] = w[k]
    BY <1>1, <1>2, <2>1
  <2>3. QED  BY <1>2, <2>1, <2>2, OccursSame
<1>3. ASSUME Find(w, t) = 0, Len(s) <= Len(w) PROVE Find(s, t) = 0
  <2>1. \A i \in Nat : ~ Occurs(w, t, i)
    BY <1>3, FindFirst
  <2>2. \A i \in Nat : Occurs(s, t, i) => i + Len(t) - 1 <= Len(s)
    BY <1>1 DEF Occurs
  <2>3. \A i \in Nat : ~ Occurs(s, t, i)
    BY <1>1, <1>2, <1>3, <2>1, <2>2
  <2>4. QED  BY <2>3, FindFirst
<1>4. ASSUME Find(w, t) = Len(w) - Len(t) + 1, Find(w, t) # 0
      PROVE  Find(s, t) = IF Len(s) < Len(w) THEN 0 ELSE Len(w) - Len(t) + 1
  <2> DEFINE p == Len(w) - Len(t) + 1
  <2>1. p \in Nat \ {0} /\ Occurs(w, t, p) /\ \A i \in Nat : Occurs(w, t, i) => p <= i
    BY <1>4, FindFirst
  <2>2. \A i \in 1..(p - 1) : ~ Occurs(s, t, i)
    <3>1. \A i \in 1..(p - 1) : i \in Nat /\ i + Len(t) - 1 <= Len(w) /\ ~ (p <= i)
      BY <1>1, <2>1
    <3> HIDE DEF p
    <3>2. QED  BY <1>2, <2>1, <3>1
  <2>3. CASE Len(s) < Len(w)
    <3>1. \A i \in Nat : Occurs(s, t, i) => i \in 1..(p - 1)
      BY <1>1, <2>3 DEF Occurs
    <3>2. QED  BY <2>2, <2>3, <3>1, FindFirst
  <2>4. CASE ~ (Len(s) < Len(w))
    <3>1. p + Len(t) - 1 = Len(w)
      BY <1>1
    <3>2. \A k \in p..(p + Len(t) - 1) : s[k] = w[k]
      BY <1>1, <2>1, <2>4, <3>1
    <3>3. p + Len(t) - 1 <= Len(s) /\ p + Len(t) - 1 <= Len(w)
      BY <1>1, <2>4, <3>1
    <3> HIDE DEF p
    <3>4. Occurs(s, t, p)
      BY <2>1, <3>2, <3>3, OccursSame
    <3>5. Find(s, t) = p
      BY <2>1, <2>2, <3>4, FindIs
    <3>6. QED  BY <2>4, <3>5 DEF p
  <2>5. QED  BY <2>3, <2>4
<1>5. QED
  BY <1>1, <1>3, <1>4

-----------------------------------------------------------------------------
(* What frames look like.                                                  *)

LEMMA Joined ==
  ASSUME NEW S, NEW s \in Seq(S), NEW t \in Seq(S)
  PROVE  /\ s \o t \in Seq(S) /\ Len(s \o t) = Len(s) + Len(t)
         /\ \A k \in 1..Len(s) : (s \o t)[k] = s[k]
         /\ \A k \in 1..Len(t) : (s \o t)[Len(s) + k] = t[k]
<1>1. /\ s \o t \in Seq(S) /\ Len(s \o t) = Len(s) + Len(t)
      /\ \A k \in 1..(Len(s) + Len(t)) : (s \o t)[k] = IF k <= Len(s) THEN s[k] ELSE t[k - Len(s)]
  BY ConcatProperties
<1>2. Len(s) \in Nat /\ Len(t) \in Nat
  OBVIOUS
<1>3. ASSUME NEW k \in 1..Len(t) PROVE (s \o t)[Len(s) + k] = t[k]
  <2>1. Len(s) + k \in 1..(Len(s) + Len(t)) /\ ~ (Len(s) + k <= Len(s)) /\ Len(s) + k - Len(s) = k
   BY <1>2
  <2>2. QED BY <1>1, <2>1
<1>4. ASSUME NEW k \in 1..Len(s) PROVE (s \o t)[k] = s[k]
   BY <1>1, <1>2
<1>5. QED
  BY <1>1, <1>3, <1>4

LEMMA OneMore ==
  ASSUME NEW S, NEW b \in Seq(S), NEW x \in S
  PROVE  /\ b \o <<x>> \in Seq(S) /\ Len(b \o <<x>>) = Len(b) + 1
         /\ \A k \in 1..Len(b) : (b \o <<x>>)[k] = b[k]
         /\ (b \o <<x>>)[Len(b) + 1] = x
<1> DEFINE d == <<x>>
<1>1. d \in Seq(S) /\ Len(d) = 1 /\ d[1] = x
  OBVIOUS
<1> HIDE DEF d
<1>2. /\ b \o d \in Seq(S) /\ Len(b \o d) = Len(b) + Len(d)
      /\ \A k \in 1..Len(b) : (b \o d)[k] = b[k]
      /\ \A k \in 1..Len(d) : (b \o d)[Len(b) + k] = d[k]
  BY <1>1, Joined
<1>3. 1 \in 1..Len(d)
  BY <1>1
<1>4. /\ b \o d \in Seq(S) /\ Len(b \o d) = Len(b) + 1
      /\ \A k \in 1..Len(b) : (b \o d)[k] = b[k]
      /\ (b \o d)[Len(b) + 1] = x
  BY <1>1, <1>2, <1>3
<1>5. QED
  BY <1>4, Zenon DEF d

LEMMA TwoAndTwo ==
  ASSUME NEW S, NEW s \in Seq(S), NEW t \in Seq(S), Len(s) = 2, Len(t) = 2
  PROVE  /\ s \o t \in Seq(S) /\ Len(s \o t) = 4
         /\ (s \o t)[1] = s[1] /\ (s \o t)[2] = s[2] /\ (s \o t)[3] = t[1] /\ (s \o t)[4] = t[2]
<1>1. /\ s \o t \in Seq(S) /\ Len(s \o t) = Len(s) + Len(t)
      /\ \A k \in 1..Len(s) : (s \o t)[k] = s[k]
      /\ \A k \in 1..Len(t) : (s \o t)[Len(s) + k] = t[k]
  BY Joined
<1>2. 1 \in 1..Len(s) /\ 2 \in 1..Len(s) /\ 1 \in 1..Len(t) /\ 2 \in 1..Len(t)
  OBVIOUS
<1>3. QED BY <1>1, <1>2

LEMMA Ends ==
    /\ CRLF \in Seq(Bytes) /\ Len(CRLF) = 2 /\ CRLF[1] = "cr" /\ CRLF[2] = "lf"
    /\ WrongEmptyLine \in Seq(Bytes) /\ Len(WrongEmptyLine) = 2
    /\ WrongEmptyLine[1] = "lf" /\ WrongEmptyLine[2] = "lf"
    /\ EmptyLine \in Seq(Bytes) /\ Len(EmptyLine) = 4
    /\ EmptyLine[1] = "cr" /\ EmptyLine[2] = "lf" /\ EmptyLine[3] = "cr" /\ EmptyLine[4] = "lf"
<1>1. "cr" \in Bytes /\ "lf" \in Bytes
  BY DEF Bytes, Blank
<1>2. CRLF \in Seq(Bytes) /\ Len(CRLF) = 2 /\ CRLF[1] = "cr" /\ CRLF[2] = "lf"
  BY <1>1 DEF CRLF
<1>3. /\ WrongEmptyLine \in Seq(Bytes) /\ Len(WrongEmptyLine) = 2
      /\ WrongEmptyLine[1] = "lf" /\ WrongEmptyLine[2] = "lf"
  BY <1>1 DEF WrongEmptyLine
<1>4. /\ EmptyLine \in Seq(Bytes) /\ Len(EmptyLine) = 4
      /\ EmptyLine[1] = "cr" /\ EmptyLine[2] = "lf" /\ EmptyLine[3] = "cr" /\ EmptyLine[4] = "lf"
  <2>1. /\ CRLF \o CRLF \in Seq(Bytes) /\ Len(CRLF \o CRLF) = 4
        /\ (CRLF \o CRLF)[1] = CRLF[1] /\ (CRLF \o CRLF)[2] = CRLF[2]
        /\ (CRLF \o CRLF)[3] = CRLF[1] /\ (CRLF \o CRLF)[4] = CRLF[2]
    BY <1>2, TwoAndTwo
  <2>2. QED  BY <1>2, <2>1 DEF EmptyLine
<1>5. QED
  BY <1>2, <1>3, <1>4

\* What the kind of a frame says of it.
Chunky(f) ==
    /\ f.kind \in {"chunk", "last"} /\ Len(f.text) \in 0..3
    /\ f.before \in Seq({"0"}) /\ IsExtension(f.after)

LEMMA FrameFacts ==
  ASSUME NEW c, IsConversation(c), NEW i \in 1..Len(c)
  PROVE  /\ c[i] \in Frame
         /\ IF i = Len(c) THEN IsFrame(c[i], {}, <<>>)
            ELSE IsFrame(c[i], {c[i + 1].kind}, c[i + 1].text)
         /\ c[i].before \in Seq(Bytes) /\ c[i].text \in Seq(Bytes) /\ c[i].after \in Seq(Bytes)
         /\ c[i].kind \in {"chunk", "last"} => Chunky(c[i])
         /\ c[i].kind \notin {"chunk", "last"} => c[i].text # <<>>
         /\ c[i].kind \in {"header", "wrongheader", "chunk", "last", "body"}
         /\ c[i].kind = "chunk" => c[i].text # <<>>
         /\ c[i].kind = "last" => c[i].text = <<>>
         /\ IsHeader(c[i]) => c[i].before \in Seq(Blank) /\ c[i].text[1] \notin Blank
<1>1. c[i] \in Frame
  BY DEF IsConversation
<1>2. IF i = Len(c) THEN IsFrame(c[i], {}, <<>>)
      ELSE IsFrame(c[i], {c[i + 1].kind}, c[i + 1].text)
  <2>1. DOMAIN c = 1..Len(c)
    BY DEF IsConversation
  <2>2. QED  BY <2>1 DEF IsConversation
<1>3. /\ c[i].before \in Seq(Bytes) /\ c[i].text \in Seq(Bytes) /\ c[i].after \in Seq(Bytes)
      /\ c[i].kind \in {"header", "wrongheader", "chunk", "last", "body"}
  BY <1>1 DEF Frame
<1>4. PICK next, following : IsFrame(c[i], next, following)
  BY <1>2
<1>5. CASE IsHeader(c[i])
  BY <1>1, <1>2, <1>3, <1>4, <1>5 DEF IsFrame, IsText, IsHeader
<1>6. CASE c[i].kind \in {"chunk", "last"}
  <2>1. Len(c[i].text) \in 0..3 /\ c[i].before \in Seq({"0"}) /\ IsExtension(c[i].after)
    <3>1. CASE c[i].kind = "chunk"
      BY <1>4, <3>1 DEF IsFrame
    <3>2. CASE c[i].kind = "last"
      BY <1>4, <3>2 DEF IsFrame
    <3>3. QED  BY <1>6, <3>1, <3>2
  <2>2. (c[i].kind = "chunk" => c[i].text # <<>>) /\ (c[i].kind = "last" => c[i].text = <<>>)
    <3>1. CASE c[i].kind = "chunk"
      <4>1. Len(c[i].text) \in 1..3
        BY <1>4, <3>1 DEF IsFrame
      <4>2. c[i].text # <<>>
        BY <4>1, EmptySeq, SMTT(30)
      <4>3. QED  BY <3>1, <4>2
    <3>2. CASE c[i].kind = "last"
      BY <1>4, <3>2 DEF IsFrame
    <3>3. QED  BY <1>6, <3>1, <3>2
  <2>3. QED  BY <1>1, <1>2, <1>3, <1>6, <2>1, <2>2 DEF Chunky, IsHeader
<1>7. CASE c[i].kind = "body"
  BY <1>1, <1>2, <1>3, <1>4, <1>7 DEF IsFrame, IsHeader
<1>8. QED
  BY <1>3, <1>5, <1>6, <1>7 DEF IsHeader

LEMMA SizeLineLayout ==
  ASSUME NEW f \in Frame, Chunky(f)
  PROVE  /\ SizeLine(f) \in Seq(Bytes) /\ Len(SizeLine(f)) = Len(f.before) + Len(f.after) + 3
         /\ \A k \in 1..Len(f.before) : SizeLine(f)[k] = "0"
         /\ SizeLine(f)[Len(f.before) + 1] = Digit[Len(f.text) + 1]
         /\ \A k \in 1..Len(f.after) : SizeLine(f)[Len(f.before) + 1 + k] = f.after[k]
         /\ SizeLine(f)[Len(SizeLine(f)) - 1] = "cr" /\ SizeLine(f)[Len(SizeLine(f))] = "lf"
<1> DEFINE b == f.before
           d == Digit[Len(f.text) + 1]
           a == f.after
           bd == b \o <<d>>
           bda == bd \o a
<1>1. b \in Seq(Bytes) /\ a \in Seq(Bytes)
  BY DEF Frame
<1>2. d \in Bytes
  <2> DEFINE n == Len(f.text)
  <2>1. n + 1 = 1 \/ n + 1 = 2 \/ n + 1 = 3 \/ n + 1 = 4
    <3>1. n \in 0..3
      BY DEF Chunky
    <3> HIDE DEF n
    <3>2. QED  BY <3>1
  <2>2. Digit[1] = "0" /\ Digit[2] = "1" /\ Digit[3] = "2" /\ Digit[4] = "3"
    BY DEF Digit
  <2>3. QED  BY <2>1, <2>2 DEF Bytes, Hex
<1>3. \A k \in 1..Len(b) : b[k] = "0"
  <2>1. b \in Seq({"0"})
    BY DEF Chunky
  <2>2. QED  BY <2>1, ElementOfSeq
<1>4. SizeLine(f) = bda \o CRLF
  BY DEF SizeLine
<1> HIDE DEF b, d, a
<1>5. /\ bd \in Seq(Bytes) /\ Len(bd) = Len(b) + 1
      /\ \A k \in 1..Len(b) : bd[k] = b[k]
      /\ bd[Len(b) + 1] = d
  BY <1>1, <1>2, OneMore
<1> HIDE DEF bd
<1>t. bd \in Seq(Bytes)
  BY <1>5
<1>6. /\ bda \in Seq(Bytes) /\ Len(bda) = Len(bd) + Len(a)
      /\ \A k \in 1..Len(bd) : bda[k] = bd[k]
      /\ \A k \in 1..Len(a) : bda[Len(bd) + k] = a[k]
  BY <1>1, <1>t, Joined
<1> HIDE DEF bda
<1>u. bda \in Seq(Bytes) /\ CRLF \in Seq(Bytes)
  BY <1>6, Ends
<1>7. /\ SizeLine(f) \in Seq(Bytes) /\ Len(SizeLine(f)) = Len(bda) + Len(CRLF)
      /\ \A k \in 1..Len(bda) : SizeLine(f)[k] = bda[k]
      /\ \A k \in 1..Len(CRLF) : SizeLine(f)[Len(bda) + k] = CRLF[k]
  BY <1>4, <1>u, Joined
<1>8. Len(b) \in Nat /\ Len(a) \in Nat
  BY <1>1
<1>9. Len(bd) = Len(b) + 1 /\ Len(bda) = Len(b) + Len(a) + 1 /\ Len(SizeLine(f)) = Len(b) + Len(a) + 3
  BY <1>5, <1>6, <1>7, <1>8, Ends
<1>10. ASSUME NEW k \in 1..Len(b) PROVE SizeLine(f)[k] = "0"
  <2>1. k \in 1..Len(bd) /\ k \in 1..Len(bda)
    BY <1>8, <1>9
  <2>2. QED  BY <1>3, <1>5, <1>6, <1>7, <2>1
<1>11. SizeLine(f)[Len(b) + 1] = d
  <2>1. Len(b) + 1 \in 1..Len(bd) /\ Len(b) + 1 \in 1..Len(bda)
    BY <1>8, <1>9
  <2>2. QED  BY <1>5, <1>6, <1>7, <2>1
<1>12. ASSUME NEW k \in 1..Len(a) PROVE SizeLine(f)[Len(b) + 1 + k] = a[k]
  <2>1. Len(b) + 1 + k = Len(bd) + k /\ Len(bd) + k \in 1..Len(bda)
    BY <1>8, <1>9
  <2>2. QED  BY <1>6, <1>7, <2>1
<1>13. SizeLine(f)[Len(SizeLine(f)) - 1] = "cr" /\ SizeLine(f)[Len(SizeLine(f))] = "lf"
  <2>1. /\ 1 \in 1..Len(CRLF) /\ 2 \in 1..Len(CRLF)
        /\ Len(SizeLine(f)) - 1 = Len(bda) + 1 /\ Len(SizeLine(f)) = Len(bda) + 2
    BY <1>7, <1>8, <1>9, Ends
  <2>2. QED  BY <1>7, <2>1, Ends
<1>14. QED
  BY <1>7, <1>8, <1>9, <1>10, <1>11, <1>12, <1>13 DEF d, b, a

\* The parts of v are s, t and u.
Parts(S, v, s, t, u) ==
    /\ v \in Seq(S) /\ Len(v) = Len(s) + Len(t) + Len(u)
    /\ \A k \in 1..Len(s) : v[k] = s[k]
    /\ \A k \in 1..Len(t) : v[Len(s) + k] = t[k]
    /\ \A k \in 1..Len(u) : v[Len(s) + Len(t) + k] = u[k]

LEMMA ThreeJoined ==
  ASSUME NEW S, NEW s \in Seq(S), NEW t \in Seq(S), NEW u \in Seq(S)
  PROVE  Parts(S, (s \o t) \o u, s, t, u)
<1> DEFINE v == s \o t
           w == v \o u
<1>1. /\ v \in Seq(S) /\ Len(v) = Len(s) + Len(t)
      /\ \A k \in 1..Len(s) : v[k] = s[k]
      /\ \A k \in 1..Len(t) : v[Len(s) + k] = t[k]
  BY Joined
<1> HIDE DEF v
<1>2. v \in Seq(S)
  BY <1>1
<1>3. /\ w \in Seq(S) /\ Len(w) = Len(v) + Len(u)
      /\ \A k \in 1..Len(v) : w[k] = v[k]
      /\ \A k \in 1..Len(u) : w[Len(v) + k] = u[k]
  BY <1>2, Joined
<1> HIDE DEF w
<1>4. Len(s) \in Nat /\ Len(t) \in Nat /\ Len(u) \in Nat
  OBVIOUS
<1>5. ASSUME NEW k \in 1..Len(s) PROVE w[k] = s[k]
  <2>1. k \in 1..Len(v)
    BY <1>1, <1>4
  <2>2. QED  BY <1>1, <1>3, <2>1
<1>6. ASSUME NEW k \in 1..Len(t) PROVE w[Len(s) + k] = t[k]
  <2>1. Len(s) + k \in 1..Len(v)
    BY <1>1, <1>4
  <2>2. QED  BY <1>1, <1>3, <2>1
<1>7. QED
  BY <1>1, <1>3, <1>4, <1>5, <1>6 DEF Parts, v, w

HeaderEnd(f) == IF f.kind = "header" THEN EmptyLine ELSE WrongEmptyLine

LEMMA HeaderLayout ==
  ASSUME NEW f \in Frame, IsHeader(f)
  PROVE  /\ HeaderEnd(f) \in Seq(Bytes) /\ Len(HeaderEnd(f)) = IF f.kind = "header" THEN 4 ELSE 2
         /\ Encoded(f) = (f.before \o f.text) \o HeaderEnd(f)
         /\ Encoded(f) \in Seq(Bytes)
         /\ Len(Encoded(f)) = Len(f.before) + Len(f.text) + Len(HeaderEnd(f))
         /\ \A k \in 1..Len(f.before) : Encoded(f)[k] = f.before[k]
         /\ \A k \in 1..Len(f.text) : Encoded(f)[Len(f.before) + k] = f.text[k]
         /\ \A k \in 1..Len(HeaderEnd(f)) :
               Encoded(f)[Len(f.before) + Len(f.text) + k] = HeaderEnd(f)[k]
<1>1. f.before \in Seq(Bytes) /\ f.text \in Seq(Bytes)
  BY DEF Frame
<1>2. HeaderEnd(f) \in Seq(Bytes)
  BY Ends DEF HeaderEnd
<1>3. Len(HeaderEnd(f)) = IF f.kind = "header" THEN 4 ELSE 2
  BY Ends DEF HeaderEnd
<1>4. Encoded(f) = (f.before \o f.text) \o HeaderEnd(f)
  BY DEF IsHeader, Encoded, HeaderEnd
<1> DEFINE b == f.before
           t == f.text
           e == HeaderEnd(f)
<1>5. b \in Seq(Bytes) /\ t \in Seq(Bytes) /\ e \in Seq(Bytes)
  BY <1>1, <1>2
<1> HIDE DEF b, t, e
<1>6. Parts(Bytes, (b \o t) \o e, b, t, e)
  BY <1>5, ThreeJoined
<1>7. Encoded(f) = (b \o t) \o e
  BY <1>4 DEF b, t, e
<1>8. Parts(Bytes, Encoded(f), b, t, e)
  BY <1>6, <1>7
<1>9. QED
  BY <1>2, <1>3, <1>4, <1>8 DEF Parts, b, t, e

LEMMA ChunkLayout ==
  ASSUME NEW f \in Frame, Chunky(f)
  PROVE  /\ Encoded(f) \in Seq(Bytes)
         /\ Len(Encoded(f)) = Len(SizeLine(f)) + Len(f.text) + 2
         /\ \A k \in 1..Len(SizeLine(f)) : Encoded(f)[k] = SizeLine(f)[k]
         /\ \A k \in 1..Len(f.text) : Encoded(f)[Len(SizeLine(f)) + k] = f.text[k]
         /\ \A k \in 1..2 : Encoded(f)[Len(SizeLine(f)) + Len(f.text) + k] = CRLF[k]
<1>1. SizeLine(f) \in Seq(Bytes) /\ f.text \in Seq(Bytes) /\ CRLF \in Seq(Bytes)
  BY SizeLineLayout, Ends DEF Frame
<1>2. Len(CRLF) = 2
  BY Ends
<1>3. Encoded(f) = (SizeLine(f) \o f.text) \o CRLF
  BY DEF Encoded, Chunky
<1> DEFINE l == SizeLine(f)
           t == f.text
           e == CRLF
<1>4. l \in Seq(Bytes) /\ t \in Seq(Bytes) /\ e \in Seq(Bytes)
  BY <1>1
<1> HIDE DEF l, t, e
<1>5. Parts(Bytes, (l \o t) \o e, l, t, e)
  BY <1>4, ThreeJoined
<1>6. Encoded(f) = (l \o t) \o e
  BY <1>3 DEF l, t, e
<1>7. Parts(Bytes, Encoded(f), l, t, e)
  BY <1>5, <1>6
<1>8. QED
  BY <1>2, <1>7 DEF Parts, l, t, e

LEMMA EncodedBytes ==
  ASSUME NEW c, IsConversation(c), NEW i \in 1..Len(c)
  PROVE  Encoded(c[i]) \in Seq(Bytes)
<1>1. c[i] \in Frame /\ c[i].text \in Seq(Bytes)
  BY FrameFacts
<1>2. CASE IsHeader(c[i])
  BY <1>1, <1>2, HeaderLayout
<1>3. CASE c[i].kind \in {"chunk", "last"}
  <2>1. Chunky(c[i])
    BY <1>3, FrameFacts
  <2>2. QED  BY <1>1, <2>1, ChunkLayout
<1>4. CASE c[i].kind = "body"
  BY <1>1, <1>4 DEF Encoded
<1>5. QED
  BY <1>2, <1>3, <1>4, FrameFacts DEF IsHeader

-----------------------------------------------------------------------------
(* Where frames are in the stream.                                         *)

LEMMA SentStep ==
  ASSUME NEW c, IsConversation(c)
  PROVE  /\ Len(c) \in Nat /\ Sent(c, 0) = <<>>
         /\ \A i \in 0..Len(c) : Sent(c, i) \in Seq(Bytes)
         /\ \A i \in 1..Len(c) : Sent(c, i) = Sent(c, i - 1) \o Encoded(c[i])
<1> DEFINE n == Len(c)
           A == Seq(Bytes)
           sent[k \in 0..Len(c)] == IF k = 0 THEN <<>> ELSE sent[k - 1] \o Encoded(c[k])
           step == [k \in 1..n |-> [s \in A |-> s \o Encoded(c[k])]]
<1>1. n \in Nat
  BY DEF IsConversation
<1>2. \A i \in 1..n : Encoded(c[i]) \in A
  BY EncodedBytes
<1>3. step \in [1..n -> [A -> A]]
  <2> HIDE DEF n
  <2>1. ASSUME NEW i \in 1..n, NEW s \in A PROVE s \o Encoded(c[i]) \in A
    <3>1. Encoded(c[i]) \in A
      BY <1>2
    <3>2. QED  BY <3>1
  <2> HIDE DEF A
  <2>2. QED  BY <2>1
<1>4. <<>> \in A
  OBVIOUS
<1>5. PICK f : Steps(f, A, <<>>, n, step)
  <2> HIDE DEF step, n, A
  <2>1. QED  BY <1>1, <1>3, <1>4, StepByStep
<1>6. f \in [0..n -> A] /\ f[0] = <<>> /\ \A i \in 1..n : f[i] = f[i - 1] \o Encoded(c[i])
  <2>1. f \in [0..n -> A] /\ f[0] = <<>> /\ \A i \in 1..n : f[i] = step[i][f[i - 1]]
    <3> HIDE DEF step, n, A
    <3>1. QED  BY <1>5 DEF Steps
  <2>2. \A i \in 1..n : i - 1 \in 0..n
    BY <1>1
  <2> HIDE DEF n, A
  <2>3. QED  BY <2>1, <2>2
<1>7. f = [k \in 0..n |-> IF k = 0 THEN <<>> ELSE f[k - 1] \o Encoded(c[k])]
  <2> HIDE DEF n, A
  <2> DEFINE g == [k \in 0..n |-> IF k = 0 THEN <<>> ELSE f[k - 1] \o Encoded(c[k])]
  <2>1. ASSUME NEW i \in 0..n PROVE f[i] = g[i]
    <3>1. CASE i = 0
      BY <1>6, <3>1
    <3>2. CASE i # 0
      <4>1. i \in 1..n
        BY <1>1, <3>2
      <4>2. QED  BY <1>6, <3>2, <4>1
    <3>3. QED  BY <3>1, <3>2
  <2>2. f = g
    <3> HIDE DEF g
    <3>1. g = [i \in 0..n |-> g[i]]
      BY DEF g
    <3>2. QED  BY <1>6, <2>1, <3>1
  <2>3. QED  BY <2>2
<1>8. sent = [k \in 0..n |-> IF k = 0 THEN <<>> ELSE sent[k - 1] \o Encoded(c[k])]
  BY <1>7
<1>9. \A i \in 0..n : Sent(c, i) = sent[i]
  BY DEF Sent
<1> HIDE DEF sent, n, A
<1>10. sent[0] = <<>> /\ \A i \in 1..n : sent[i] = sent[i - 1] \o Encoded(c[i])
  BY <1>1, <1>8
<1> DEFINE T == {k \in Nat : k <= n => sent[k] \in A}
<1>11. 0 \in T
  BY <1>4, <1>10
<1>12. ASSUME NEW k \in Nat, k \in T PROVE k + 1 \in T
  <2>1. SUFFICES ASSUME k + 1 <= n PROVE sent[k + 1] \in A
    OBVIOUS
  <2>2. k + 1 \in 1..n /\ (k + 1) - 1 = k /\ sent[k] \in A
    BY <1>1, <1>12, <2>1
  <2>3. sent[k + 1] = sent[k] \o Encoded(c[k + 1]) /\ Encoded(c[k + 1]) \in A
    BY <1>2, <1>10, <2>2
  <2>4. QED  BY <2>2, <2>3, Joined DEF A
<1>13. Nat \subseteq T
  <2> HIDE DEF T
  <2>1. QED  BY <1>11, <1>12, AllNumbers
<1>14. Sent(c, 0) = <<>>
  BY <1>1, <1>9, <1>10
<1>15. ASSUME NEW i \in 0..n PROVE Sent(c, i) \in A
  BY <1>1, <1>9, <1>13
<1>16. ASSUME NEW i \in 1..n PROVE Sent(c, i) = Sent(c, i - 1) \o Encoded(c[i])
  <2>1. i \in 0..n /\ i - 1 \in 0..n
    BY <1>1
  <2>2. QED  BY <1>9, <1>10, <2>1
<1>17. QED
  BY <1>1, <1>14, <1>15, <1>16 DEF n, A

LEMMA Beginning ==
  ASSUME NEW c, IsConversation(c), NEW i \in 0..Len(c), NEW j \in i..Len(c)
  PROVE  /\ Len(Sent(c, i)) <= Len(Sent(c, j))
         /\ \A k \in 1..Len(Sent(c, i)) : Sent(c, j)[k] = Sent(c, i)[k]
<1> DEFINE first == Sent(c, i)
           T == {d \in Nat : i + d <= Len(c) =>
                    /\ Len(first) <= Len(Sent(c, i + d))
                    /\ \A k \in 1..Len(first) : Sent(c, i + d)[k] = first[k]}
<1>1. Len(c) \in Nat /\ \A d \in 0..Len(c) : Sent(c, d) \in Seq(Bytes) /\ Len(Sent(c, d)) \in Nat
  BY SentStep
<1>2. 0 \in T
  <2>1. i + 0 = i
    BY <1>1
  <2>2. QED  BY <1>1, <2>1
<1>3. ASSUME NEW d \in Nat, d \in T PROVE d + 1 \in T
  <2>1. SUFFICES ASSUME i + (d + 1) <= Len(c)
                 PROVE  /\ Len(first) <= Len(Sent(c, i + (d + 1)))
                        /\ \A k \in 1..Len(first) : Sent(c, i + (d + 1))[k] = first[k]
    OBVIOUS
  <2> DEFINE m == i + d
             now == Sent(c, m)
             end == Encoded(c[m + 1])
  <2>2. m \in 0..Len(c) /\ m + 1 \in 1..Len(c) /\ (m + 1) - 1 = m /\ m + 1 = i + (d + 1)
    BY <1>1, <2>1
  <2>3. Len(first) <= Len(now) /\ \A k \in 1..Len(first) : now[k] = first[k]
    BY <1>1, <1>3, <2>1
  <2>4. Sent(c, m + 1) = now \o end
    <3> HIDE DEF m
    <3>1. QED  BY <2>2, SentStep
  <2>5. now \in Seq(Bytes) /\ end \in Seq(Bytes)
    <3> HIDE DEF m
    <3>1. QED  BY <1>1, <2>2, EncodedBytes
  <2> HIDE DEF now, end, m
  <2>6. /\ Len(now \o end) = Len(now) + Len(end)
        /\ \A k \in 1..Len(now) : (now \o end)[k] = now[k]
    BY <2>5, Joined
  <2>7. Len(first) \in Nat /\ Len(now) \in Nat /\ Len(end) \in Nat
    BY <1>1, <2>5
  <2>8. Len(first) <= Len(now \o end) /\ \A k \in 1..Len(first) : (now \o end)[k] = first[k]
    <3> HIDE DEF first
    <3>1. QED  BY <2>3, <2>6, <2>7
  <2>9. QED  BY <2>2, <2>4, <2>8
<1>4. j - i \in T
  <2>1. j - i \in Nat
    BY <1>1
  <2> HIDE DEF T
  <2>2. QED  BY <1>2, <1>3, <2>1, AllNumbers
<1>5. i + (j - i) = j
  BY <1>1
<1>6. QED
  BY <1>4, <1>5

LEMMA Inside ==
  ASSUME NEW c, IsConversation(c), NEW i \in 1..Len(c)
  PROVE  /\ Len(Sent(c, i - 1)) \in Nat /\ Len(Encoded(c[i])) \in Nat
         /\ Len(Sent(c, i)) = Len(Sent(c, i - 1)) + Len(Encoded(c[i]))
         /\ Len(Sent(c, i)) <= Len(Sent(c, Len(c)))
         /\ \A k \in 1..Len(Encoded(c[i])) :
               Sent(c, Len(c))[Len(Sent(c, i - 1)) + k] = Encoded(c[i])[k]
<1> DEFINE s == Sent(c, i - 1)
           e == Encoded(c[i])
           all == Sent(c, Len(c))
<1>1. Len(c) \in Nat /\ i - 1 \in 0..Len(c) /\ i \in 0..Len(c) /\ Len(c) \in i..Len(c)
  BY SentStep
<1>2. s \in Seq(Bytes) /\ e \in Seq(Bytes) /\ Sent(c, i) = s \o e
  BY <1>1, SentStep, EncodedBytes
<1>3. Len(Sent(c, i)) <= Len(all) /\ \A k \in 1..Len(Sent(c, i)) : all[k] = Sent(c, i)[k]
  BY <1>1, Beginning
<1> HIDE DEF s, e, all
<1>4. s \in Seq(Bytes) /\ e \in Seq(Bytes)
  BY <1>2
<1>5. Len(s \o e) = Len(s) + Len(e) /\ \A k \in 1..Len(e) : (s \o e)[Len(s) + k] = e[k]
  BY <1>4, Joined
<1>6. Len(s) \in Nat /\ Len(e) \in Nat
  BY <1>4
<1>7. ASSUME NEW k \in 1..Len(e) PROVE all[Len(s) + k] = e[k]
  <2>1. Len(s) + k \in 1..Len(Sent(c, i))
    BY <1>2, <1>5, <1>6
  <2>2. QED  BY <1>2, <1>3, <1>5, <2>1
<1>8. QED
  BY <1>2, <1>3, <1>5, <1>6, <1>7 DEF s, e, all

\* What comes after the first from bytes, up to byte to.
Cut(s, from, to) == SubSeq(s, from + 1, to)

LEMMA CutIs ==
  ASSUME NEW S, NEW s \in Seq(S), NEW a \in Nat, NEW b \in a..Len(s)
  PROVE  /\ Cut(s, a, b) \in Seq(S) /\ Len(Cut(s, a, b)) = b - a
         /\ \A k \in 1..(b - a) : Cut(s, a, b)[k] = s[a + k]
<1>1. Len(s) \in Nat /\ b \in Nat /\ a + 1 \in Int /\ b \in Int /\ a <= b
  OBVIOUS
<1>2. \A i \in (a + 1)..b : s[i] \in S
  <2>1. \A i \in (a + 1)..b : i \in 1..Len(s)
    BY <1>1
  <2>2. QED  BY <2>1, ElementOfSeq
<1>3. /\ Cut(s, a, b) \in Seq(S)
      /\ Len(Cut(s, a, b)) = IF a + 1 <= b THEN b - (a + 1) + 1 ELSE 0
      /\ \A i \in 1..(b - (a + 1) + 1) : Cut(s, a, b)[i] = s[(a + 1) + i - 1]
  BY <1>1, <1>2, SubSeqProperties DEF Cut
<1>4. \A k \in 1..(b - a) : k \in 1..(b - (a + 1) + 1) /\ (a + 1) + k - 1 = a + k
  BY <1>1
<1>5. \A k \in 1..(b - a) : Cut(s, a, b)[k] = s[a + k]
  BY <1>3, <1>4
<1>6. Len(Cut(s, a, b)) = b - a
  BY <1>1, <1>3
<1>7. QED
  BY <1>3, <1>5, <1>6

LEMMA CutEqual ==
  ASSUME NEW S, NEW s \in Seq(S), NEW a \in Nat, NEW b \in a..Len(s),
         NEW t \in Seq(S), Len(t) = b - a, \A k \in 1..(b - a) : t[k] = s[a + k]
  PROVE  t = Cut(s, a, b)
<1>1. /\ Cut(s, a, b) \in Seq(S) /\ Len(Cut(s, a, b)) = b - a
      /\ \A k \in 1..(b - a) : Cut(s, a, b)[k] = s[a + k]
  BY CutIs
<1>2. \A k \in 1..Len(t) : t[k] = Cut(s, a, b)[k]
  BY <1>1
<1>3. QED
  BY <1>1, <1>2, SeqEqual

LEMMA CutJoin ==
  ASSUME NEW S, NEW s \in Seq(S), NEW a \in Nat, NEW b \in a..Len(s), NEW d \in b..Len(s)
  PROVE  Cut(s, a, b) \o Cut(s, b, d) = Cut(s, a, d)
<1> DEFINE x == Cut(s, a, b)
           y == Cut(s, b, d)
<1>1. b \in Nat /\ d \in Nat /\ d \in a..Len(s)
  OBVIOUS
<1>2. x \in Seq(S) /\ y \in Seq(S)
  BY <1>1, CutIs
<1>3. Len(x) = b - a /\ \A k \in 1..(b - a) : x[k] = s[a + k]
  BY <1>1, CutIs
<1>4. Len(y) = d - b /\ \A k \in 1..(d - b) : y[k] = s[b + k]
  BY <1>1, CutIs
<1> HIDE DEF x, y
<1>5. /\ x \o y \in Seq(S) /\ Len(x \o y) = Len(x) + Len(y)
      /\ \A k \in 1..Len(x) : (x \o y)[k] = x[k]
      /\ \A k \in 1..Len(y) : (x \o y)[Len(x) + k] = y[k]
  BY <1>2, Joined
<1>6. Len(x \o y) = d - a
  BY <1>1, <1>3, <1>4, <1>5
<1>7. ASSUME NEW k \in 1..(d - a) PROVE (x \o y)[k] = s[a + k]
  <2>1. CASE k <= b - a
    <3>1. k \in 1..Len(x) /\ k \in 1..(b - a)
      BY <1>1, <1>3, <2>1
    <3>2. QED  BY <1>3, <1>5, <3>1
  <2>2. CASE ~ (k <= b - a)
    <3>1. /\ k - (b - a) \in 1..Len(y) /\ k - (b - a) \in 1..(d - b)
          /\ Len(x) + (k - (b - a)) = k /\ b + (k - (b - a)) = a + k
      BY <1>1, <1>3, <1>4, <2>2
    <3>2. QED  BY <1>4, <1>5, <3>1
  <2>3. QED  BY <2>1, <2>2
<1>8. QED
  BY <1>1, <1>5, <1>6, <1>7, CutEqual DEF x, y

LEMMA CutOfCut ==
  ASSUME NEW S, NEW s \in Seq(S), NEW a \in Nat, NEW b \in a..Len(s),
         NEW m \in Nat, NEW n \in m..(b - a)
  PROVE  SubSeq(Cut(s, a, b), m + 1, n) = Cut(s, a + m, a + n)
<1> DEFINE x == Cut(s, a, b)
           y == Cut(x, m, n)
<1>1. x \in Seq(S) /\ Len(x) = b - a /\ \A k \in 1..(b - a) : x[k] = s[a + k]
  BY CutIs
<1>2. b \in Nat /\ n \in Nat /\ a + m \in Nat /\ a + n \in (a + m)..Len(s)
  OBVIOUS
<1> HIDE DEF x
<1>3. n \in m..Len(x)
  BY <1>1
<1>t. x \in Seq(S)
  BY <1>1
<1>4. y \in Seq(S) /\ Len(y) = n - m /\ \A k \in 1..(n - m) : y[k] = x[m + k]
  BY <1>t, <1>3, CutIs
<1>5. \A k \in 1..(n - m) : m + k \in 1..(b - a) /\ a + (m + k) = (a + m) + k
  BY <1>2
<1>6. \A k \in 1..(n - m) : y[k] = s[(a + m) + k]
  BY <1>1, <1>4, <1>5
<1> DEFINE from == a + m
           to == a + n
<1>7. to - from = n - m /\ from \in Nat /\ to \in from..Len(s)
  BY <1>2
<1>8. \A k \in 1..(to - from) : y[k] = s[from + k]
  BY <1>6, <1>7
<1> HIDE DEF y, from, to
<1>9. y = Cut(s, from, to)
  <2>1. Len(y) = to - from /\ y \in Seq(S)
    BY <1>4, <1>7
  <2>2. QED  BY <1>7, <1>8, <2>1, CutEqual
<1>10. QED
  BY <1>9 DEF x, y, from, to, Cut

-----------------------------------------------------------------------------
(* The end of a header is found where it is.                               *)

LEMMA NoEmptyLines ==
  ASSUME NEW text \in Seq(Bytes), Find(text, WrongEmptyLine) = 0
  PROVE  Find(text \o EmptyLine, WrongEmptyLine) = 0
<1> DEFINE w == text \o EmptyLine
           n == Len(text)
<1>1. EmptyLine \in Seq(Bytes) /\ WrongEmptyLine \in Seq(Bytes)
  BY Ends
<1>2. /\ w \in Seq(Bytes) /\ Len(w) = Len(text) + Len(EmptyLine)
      /\ \A k \in 1..Len(text) : w[k] = text[k]
      /\ \A k \in 1..Len(EmptyLine) : w[Len(text) + k] = EmptyLine[k]
  BY <1>1, Joined
<1>3. n \in Nat
  OBVIOUS
<1>4. /\ Len(w) = n + 4 /\ \A k \in 1..n : w[k] = text[k]
      /\ w[n + 1] = "cr" /\ w[n + 2] = "lf" /\ w[n + 3] = "cr" /\ w[n + 4] = "lf"
  <2>1. 1 \in 1..Len(EmptyLine) /\ 2 \in 1..Len(EmptyLine) /\ 3 \in 1..Len(EmptyLine)
        /\ 4 \in 1..Len(EmptyLine) /\ Len(EmptyLine) = 4
    BY Ends
  <2> HIDE DEF w
  <2>2. QED  BY <1>2, <2>1, Ends
<1>w. w \in Seq(Bytes)
  BY <1>2
<1> HIDE DEF w
<1>5. SUFFICES ASSUME NEW i \in Nat, Occurs(w, WrongEmptyLine, i) PROVE FALSE
  <2>1. Find(w, WrongEmptyLine) # 0 => \E i \in Nat : Occurs(w, WrongEmptyLine, i)
    BY <1>1, <1>w, FindFirst
  <2>2. QED  BY <2>1 DEF w
<1>6. i \in 1..(n + 3) /\ Cut(w, i - 1, i + 1) = WrongEmptyLine
  <2>1. Len(WrongEmptyLine) = 2
    BY Ends
  <2>2. (i - 1) + 1 = i /\ i + 2 - 1 = i + 1 /\ n + 4 - 2 + 1 = n + 3
    BY <1>3
  <2>3. i \in 1..(n + 4 - 2 + 1) /\ SubSeq(w, i, i + 2 - 1) = WrongEmptyLine
    BY <1>4, <1>5, <2>1 DEF Occurs
  <2>4. QED  BY <2>2, <2>3 DEF Cut
<1>7. w[i] = "lf" /\ w[i + 1] = "lf"
  <2> DEFINE a == i - 1
             b == i + 1
  <2>1. a \in Nat /\ b \in a..Len(w) /\ b - a = 2 /\ a + 1 = i /\ a + 2 = i + 1
    BY <1>3, <1>4, <1>6
  <2> HIDE DEF a, b
  <2>2. \A k \in 1..(b - a) : Cut(w, a, b)[k] = w[a + k]
    <3>1. a \in Nat /\ b \in a..Len(w)
      BY <2>1
    <3>2. QED  BY <1>w, <3>1, CutIs
  <2>3. Cut(w, a, b)[1] = w[i] /\ Cut(w, a, b)[2] = w[i + 1]
    BY <2>1, <2>2
  <2>4. Cut(w, a, b) = WrongEmptyLine
    BY <1>6 DEF a, b
  <2>5. QED  BY <2>3, <2>4, Ends
<1>8. i <= n - 1
  BY <1>3, <1>4, <1>6, <1>7
<1>9. Occurs(text, WrongEmptyLine, i)
  <2>1. Len(WrongEmptyLine) = 2
    BY Ends
  <2>2. /\ i \in Nat \ {0} /\ i + Len(WrongEmptyLine) - 1 <= Len(text)
        /\ i + Len(WrongEmptyLine) - 1 <= Len(w)
        /\ \A k \in i..(i + Len(WrongEmptyLine) - 1) : text[k] = w[k]
    BY <1>3, <1>4, <1>6, <1>8, <2>1
  <2>3. w \in Seq(Bytes)
    BY <1>2
  <2>4. QED  BY <1>1, <1>5, <2>2, <2>3, OccursSame
<1>10. QED
  BY <1>1, <1>9, FindFirst

\* What has come since the text of a header began, of itself and of what follows.
LEMMA HeaderText ==
  ASSUME NEW c, IsConversation(c), NEW i \in 1..Len(c), IsHeader(c[i]),
         NEW n \in Nat, n <= Len(Sent(c, Len(c))),
         Len(Sent(c, i - 1)) + Len(c[i].before) <= n
  PROVE  LET f == c[i]
             begin == Len(Sent(c, i - 1)) + Len(f.before)
             seen == Cut(Sent(c, Len(c)), begin, n)
             w == f.text \o HeaderEnd(f)
         IN  /\ begin \in Nat /\ seen \in Seq(Bytes) /\ Len(seen) = n - begin
             /\ w \in Seq(Bytes) /\ Len(w) = Len(f.text) + Len(HeaderEnd(f))
             /\ \A k \in 1..Len(w) : Sent(c, Len(c))[begin + k] = w[k]
             /\ \A k \in 1..Len(seen) : k <= Len(w) => seen[k] = w[k]
             /\ Len(Sent(c, i)) = begin + Len(w)
<1> DEFINE f == c[i]
           start == Len(Sent(c, i - 1))
           begin == start + Len(f.before)
           all == Sent(c, Len(c))
           seen == Cut(all, begin, n)
           e == HeaderEnd(f)
           t == f.text
           w == t \o e
<1>1. f \in Frame /\ f.before \in Seq(Bytes) /\ t \in Seq(Bytes)
  BY FrameFacts
<1>2. start \in Nat /\ Len(f.before) \in Nat /\ begin \in Nat /\ all \in Seq(Bytes)
  <2>1. Len(c) \in Nat /\ Len(c) \in 0..Len(c)
    BY SentStep
  <2>2. all \in Seq(Bytes)
    BY <2>1, SentStep
  <2>3. start \in Nat
    BY Inside
  <2>4. Len(f.before) \in Nat
    <3> DEFINE b == f.before
    <3>1. b \in Seq(Bytes)
      BY <1>1
    <3> HIDE DEF b
    <3>2. Len(b) \in Nat
      BY <3>1
    <3>3. QED  BY <3>2 DEF b
  <2> HIDE DEF start, all, f
  <2>5. QED  BY <2>2, <2>3, <2>4
<1>3. seen \in Seq(Bytes) /\ Len(seen) = n - begin
      /\ \A k \in 1..(n - begin) : seen[k] = all[begin + k]
  <2>1. n \in begin..Len(all)
    <3>1. begin <= n /\ n <= Len(all)
      OBVIOUS
    <3> HIDE DEF begin, all
    <3>2. QED  BY <1>2, <3>1
  <2> HIDE DEF begin, all
  <2>2. QED  BY <1>2, <2>1, CutIs
<1>4. /\ e \in Seq(Bytes)
      /\ Len(Encoded(f)) = Len(f.before) + Len(t) + Len(e)
      /\ \A k \in 1..Len(t) : Encoded(f)[Len(f.before) + k] = t[k]
      /\ \A k \in 1..Len(e) : Encoded(f)[Len(f.before) + Len(t) + k] = e[k]
  <2> HIDE DEF f
  <2>1. IsHeader(f)
    BY DEF f
  <2>2. QED  BY <1>1, <2>1, HeaderLayout
<1>5. /\ Len(Sent(c, i)) = start + Len(Encoded(f))
      /\ \A k \in 1..Len(Encoded(f)) : all[start + k] = Encoded(f)[k]
  BY Inside
<1>e. e \in Seq(Bytes)
  BY <1>4
<1> HIDE DEF f, start, all, seen, e, t
<1>6. /\ w \in Seq(Bytes) /\ Len(w) = Len(t) + Len(e)
      /\ \A k \in 1..Len(t) : w[k] = t[k]
      /\ \A k \in 1..Len(e) : w[Len(t) + k] = e[k]
  BY <1>1, <1>e, Joined
<1> HIDE DEF w
<1>7. Len(t) \in Nat /\ Len(e) \in Nat
  BY <1>1, <1>e
<1> DEFINE lf == Len(f.before)
<1>l. /\ lf \in Nat /\ begin = start + lf /\ Len(Encoded(f)) = lf + Len(t) + Len(e)
      /\ \A k \in 1..Len(t) : Encoded(f)[lf + k] = t[k]
      /\ \A k \in 1..Len(e) : Encoded(f)[lf + Len(t) + k] = e[k]
  BY <1>2, <1>4
<1> HIDE DEF begin, lf
<1>8. ASSUME NEW k \in 1..Len(w) PROVE all[begin + k] = w[k]
  <2>1. CASE k <= Len(t)
    <3>1. k \in 1..Len(t) /\ lf + k \in 1..Len(Encoded(f))
          /\ start + (lf + k) = begin + k
      BY <1>2, <1>l, <1>7, <2>1
    <3>2. QED  BY <1>l, <1>5, <1>6, <3>1
  <2>2. CASE ~ (k <= Len(t))
    <3> DEFINE j == k - Len(t)
    <3>1. j \in 1..Len(e) /\ lf + Len(t) + j \in 1..Len(Encoded(f))
          /\ start + (lf + Len(t) + j) = begin + k /\ Len(t) + j = k
      BY <1>2, <1>l, <1>6, <1>7, <2>2
    <3> HIDE DEF j
    <3>2. QED  BY <1>l, <1>5, <1>6, <3>1, SMTT(30)
  <2>3. QED  BY <2>1, <2>2
<1>9. ASSUME NEW k \in 1..Len(seen), k <= Len(w) PROVE seen[k] = w[k]
  <2>1. k \in 1..(n - begin) /\ k \in 1..Len(w)
    BY <1>2, <1>3, <1>6, <1>7, <1>9
  <2>2. QED  BY <1>3, <1>8, <2>1
<1>10. Len(Sent(c, i)) = begin + Len(w)
  <2> DEFINE lt == Len(t)
             le == Len(e)
             lw == Len(w)
  <2>1. /\ Len(Sent(c, i)) = start + (lf + lt + le) /\ lw = lt + le
        /\ start \in Nat /\ lt \in Nat /\ le \in Nat
    BY <1>2, <1>l, <1>5, <1>6, <1>7
  <2> HIDE DEF lt, le, lw
  <2>2. Len(Sent(c, i)) = begin + lw
    BY <1>l, <2>1
  <2>3. QED  BY <2>2 DEF lw
<1>11. QED
  BY <1>2, <1>3, <1>6, <1>8, <1>9, <1>10 DEF begin, f, start, all, seen, e, t, w

LEMMA WrongHeaderFollows ==
  ASSUME NEW c, IsConversation(c), NEW i \in 1..Len(c), c[i].kind = "wrongheader"
  PROVE  /\ i = Len(c) \/ (i + 1 = Len(c) /\ c[i + 1].kind = "body")
         /\ Find((c[i].text \o WrongEmptyLine)
                    \o (IF i = Len(c) THEN <<>> ELSE c[i + 1].text), EmptyLine) = 0
<1>1. Len(c) \in Nat
  BY SentStep
<1>2. CASE i = Len(c)
  <2>1. IsFrame(c[i], {}, <<>>)
    BY <1>2, FrameFacts
  <2>2. QED  BY <1>2, <2>1 DEF IsFrame
<1>3. CASE i # Len(c)
  <2>1. IsFrame(c[i], {c[i + 1].kind}, c[i + 1].text) /\ i + 1 \in 1..Len(c)
    <3>1. IsFrame(c[i], {c[i + 1].kind}, c[i + 1].text)
      BY <1>3, FrameFacts
    <3>2. i + 1 \in 1..Len(c)
      BY <1>1, <1>3
    <3>3. QED  BY <3>1, <3>2
  <2>2. c[i + 1].kind = "body" /\ Find((c[i].text \o WrongEmptyLine) \o c[i + 1].text, EmptyLine) = 0
    BY <2>1 DEF IsFrame
  <2>3. i + 1 = Len(c)
    <3> DEFINE j == i + 1
    <3>1. j \in 1..Len(c) /\ c[j].kind = "body"
      BY <2>1, <2>2
    <3>2. SUFFICES ASSUME j # Len(c) PROVE FALSE
      OBVIOUS
    <3> HIDE DEF j
    <3>3. IsFrame(c[j], {c[j + 1].kind}, c[j + 1].text)
      BY <3>1, <3>2, FrameFacts
    <3>4. QED  BY <3>1, <3>3 DEF IsFrame
  <2>4. QED  BY <1>3, <2>2, <2>3
<1>4. QED
  BY <1>2, <1>3

LEMMA HeaderFound ==
  ASSUME NEW c, IsConversation(c), NEW i \in 1..Len(c), IsHeader(c[i]),
         NEW n \in Nat, n <= Len(Sent(c, Len(c))),
         Len(Sent(c, i - 1)) + Len(c[i].before) <= n
  PROVE  LET seen == Cut(Sent(c, Len(c)), Len(Sent(c, i - 1)) + Len(c[i].before), n)
         IN  IF n < Len(Sent(c, i))
                THEN Find(seen, EmptyLine) = 0 /\ Find(seen, WrongEmptyLine) = 0
             ELSE IF c[i].kind = "header"
                THEN Find(seen, EmptyLine) = Len(c[i].text) + 1
             ELSE Find(seen, EmptyLine) = 0 /\ Find(seen, WrongEmptyLine) = Len(c[i].text) + 1
<1> DEFINE f == c[i]
           begin == Len(Sent(c, i - 1)) + Len(f.before)
           all == Sent(c, Len(c))
           seen == Cut(all, begin, n)
           e == HeaderEnd(f)
           t == f.text
           w == t \o e
<1>1. /\ begin \in Nat /\ seen \in Seq(Bytes) /\ Len(seen) = n - begin
      /\ w \in Seq(Bytes) /\ Len(w) = Len(t) + Len(e)
      /\ \A k \in 1..Len(w) : all[begin + k] = w[k]
      /\ \A k \in 1..Len(seen) : k <= Len(w) => seen[k] = w[k]
      /\ Len(Sent(c, i)) = begin + Len(w)
  BY HeaderText
<1>2. f \in Frame /\ t \in Seq(Bytes) /\ Len(t) \in Nat
  <2>1. f \in Frame /\ t \in Seq(Bytes)
    BY FrameFacts
  <2> HIDE DEF t, f
  <2>2. Len(t) \in Nat
    BY <2>1
  <2>3. QED  BY <2>1, <2>2
<1>w. w \in Seq(Bytes) /\ seen \in Seq(Bytes)
  BY <1>1
<1>l. Len(w) \in Nat /\ Len(seen) \in Nat
  <2> HIDE DEF w, seen
  <2>1. QED  BY <1>w
<1>3. e \in Seq(Bytes) /\ Len(e) \in Nat \ {0} /\ e # <<>>
  BY Ends DEF HeaderEnd
<1>4. Find(w, e) = Len(t) + 1
  <2>1. PICK next, following : IsFrame(c[i], next, following)
    BY FrameFacts
  <2>2. QED  BY <2>1 DEF IsFrame, IsText, IsHeader, HeaderEnd
<1>5. c[i].kind = "wrongheader" => Find(seen, EmptyLine) = 0
  <2>1. SUFFICES ASSUME c[i].kind = "wrongheader" PROVE Find(seen, EmptyLine) = 0
    OBVIOUS
  <2> DEFINE x == IF i = Len(c) THEN <<>> ELSE c[i + 1].text
             v == w \o x
  <2>2. e = WrongEmptyLine
    BY <2>1 DEF HeaderEnd
  <2>3. i = Len(c) \/ (i + 1 = Len(c) /\ c[i + 1].kind = "body")
    BY <2>1, WrongHeaderFollows
  <2>4. Find(v, EmptyLine) = 0
    BY <2>1, <2>2, WrongHeaderFollows
  <2>5. Len(c) \in Nat
    BY SentStep
  <2>6. x \in Seq(Bytes) /\ Len(x) \in Nat
    <3>1. CASE i = Len(c)
      BY <3>1
    <3>2. CASE i # Len(c)
      <4>1. i + 1 \in 1..Len(c) /\ x = c[i + 1].text
        BY <2>3, <2>5, <3>2
      <4> HIDE DEF x
      <4>2. x \in Seq(Bytes)
        BY <4>1, FrameFacts
      <4>3. QED  BY <4>2
    <3>3. QED  BY <3>1, <3>2
  <2>7. /\ Len(all) = begin + Len(w) + Len(x)
        /\ \A k \in 1..Len(x) : all[begin + Len(w) + k] = x[k]
    <3>1. CASE i = Len(c)
      <4>1. Len(x) = 0
        BY <3>1
      <4>2. Len(all) = begin + Len(w)
        BY <1>1, <3>1
      <4>3. begin \in Nat
        BY <1>1
      <4> HIDE DEF w, x, begin, all
      <4>4. \A k \in 1..Len(x) : all[begin + Len(w) + k] = x[k]
        BY <4>1
      <4> DEFINE lw == Len(w)
                 lx == Len(x)
      <4>5. lw \in Nat /\ lx = 0 /\ Len(all) = begin + lw
        BY <1>l, <4>1, <4>2
      <4> HIDE DEF lw, lx
      <4>6. Len(all) = begin + lw + lx
        BY <4>3, <4>5
      <4>7. QED  BY <4>4, <4>6 DEF lw, lx
    <3>2. CASE i # Len(c)
      <4> DEFINE j == i + 1
      <4>1. j \in 1..Len(c) /\ j = Len(c) /\ c[j].kind = "body" /\ j - 1 = i /\ x = c[j].text
        BY <2>3, <2>5, <3>2
      <4>2. Encoded(c[j]) = x
        BY <4>1 DEF Encoded
      <4> HIDE DEF j
      <4>3. /\ Len(Sent(c, j)) = Len(Sent(c, j - 1)) + Len(Encoded(c[j]))
            /\ \A k \in 1..Len(Encoded(c[j])) : all[Len(Sent(c, j - 1)) + k] = Encoded(c[j])[k]
        <5>1. j \in 1..Len(c)
          BY <4>1
        <5>2. QED  BY <5>1, Inside
      <4>4. Len(Sent(c, j - 1)) = begin + Len(w) /\ Len(all) = Len(Sent(c, j))
        BY <1>1, <4>1
      <4> HIDE DEF w, x, begin, all
      <4>5. QED  BY <4>2, <4>3, <4>4
    <3>3. QED  BY <3>1, <3>2
  <2>8. w \in Seq(Bytes) /\ x \in Seq(Bytes)
    BY <1>1, <2>6
  <2>n. n <= Len(all) /\ begin <= n /\ all \in Seq(Bytes)
    <3>1. Len(c) \in 0..Len(c)
      BY <2>5
    <3>2. QED  BY <3>1, SentStep
  <2>t. Len(seen) = n - begin /\ begin \in Nat
    BY <1>1
  <2> HIDE DEF w, x, begin, all, seen
  <2>9. /\ v \in Seq(Bytes) /\ Len(v) = Len(w) + Len(x)
        /\ \A k \in 1..Len(w) : v[k] = w[k]
        /\ \A k \in 1..Len(x) : v[Len(w) + k] = x[k]
    BY <2>8, Joined
  <2> DEFINE lw == Len(w)
             lx == Len(x)
             lt == Len(seen)
             lv == Len(v)
  <2>m. \A k \in 1..lt : k <= lw => seen[k] = w[k]
    BY <1>1
  <2>10. lw \in Nat /\ lx \in Nat /\ lv = lw + lx /\ lt = n - begin /\ lt <= lw + lx
    <3>1. Len(all) = begin + lw + lx /\ lw \in Nat /\ lx \in Nat
      BY <1>l, <2>6, <2>7
    <3> HIDE DEF lw, lx
    <3>2. lt = n - begin /\ lt <= lw + lx
      BY <2>n, <2>t, <3>1
    <3>3. lv = lw + lx
      BY <2>9 DEF lw, lx
    <3>4. QED  BY <3>1, <3>2, <3>3
  <2>v. /\ \A k \in 1..lw : v[k] = w[k]
        /\ \A k \in 1..lx : v[lw + k] = x[k]
        /\ \A k \in 1..lx : all[begin + lw + k] = x[k]
    BY <2>7, <2>9
  <2>11. ASSUME NEW k \in 1..lt, k <= lv PROVE seen[k] = v[k]
    <3> HIDE DEF lw, lx, lt, lv, v
    <3>1. CASE k <= lw
      <4>1. k \in 1..lw
        BY <2>10, <3>1
      <4>2. QED  BY <2>m, <2>v, <2>11, <3>1, <4>1
    <3>2. CASE ~ (k <= lw)
      <4>1. seen[k] = all[begin + k]
        <5>1. n \in begin..Len(all) /\ k \in 1..(n - begin)
          BY <2>n, <2>t, <2>10
        <5>2. \A d \in 1..(n - begin) : Cut(all, begin, n)[d] = all[begin + d]
          BY <2>n, <2>t, <5>1, CutIs
        <5>3. QED  BY <5>1, <5>2 DEF seen
      <4> DEFINE d == k - lw
      <4>2. d \in 1..lx /\ begin + lw + d = begin + k /\ lw + d = k
        BY <2>t, <2>10, <2>11, <3>2
      <4> HIDE DEF d
      <4>3. all[begin + lw + d] = x[d] /\ v[lw + d] = x[d]
        BY <2>v, <4>2
      <4>4. QED  BY <4>1, <4>2, <4>3
    <3>3. QED  BY <3>1, <3>2
  <2>12. seen \in Seq(Bytes) /\ v \in Seq(Bytes) /\ EmptyLine \in Seq(Bytes) /\ EmptyLine # <<>>
    <3>1. EmptyLine # <<>>
      BY Ends, EmptySeq
    <3>2. QED  BY <1>1, <2>9, <3>1, Ends
  <2>13. Len(seen) <= Len(v)
    BY <2>10
  <2> HIDE DEF v, lw, lx
  <2>14. QED  BY <2>4, <2>11, <2>12, <2>13, FindSame
<1>6. IF Len(seen) < Len(w) THEN Find(seen, e) = 0 ELSE Find(seen, e) = Len(t) + 1
  <2>1. Find(w, e) = Len(w) - Len(e) + 1 /\ Len(e) <= Len(w)
    <3>1. Len(w) = Len(t) + Len(e)
      BY <1>1
    <3> HIDE DEF w, t, e
    <3>2. QED  BY <1>2, <1>3, <1>4, <3>1
  <2>2. /\ seen \in Seq(Bytes) /\ w \in Seq(Bytes) /\ e \in Seq(Bytes) /\ e # <<>>
        /\ \A k \in 1..Len(seen) : k <= Len(w) => seen[k] = w[k]
    BY <1>1, <1>3
  <2> HIDE DEF w, seen, e, t
  <2>3. Find(seen, e) = IF Len(seen) < Len(w) THEN 0 ELSE Len(w) - Len(e) + 1
    BY <2>1, <2>2, FindSame
  <2>4. QED  BY <1>4, <2>1, <2>3
<1>7. (c[i].kind = "header" /\ Len(seen) < Len(w)) => Find(seen, WrongEmptyLine) = 0
  <2>1. SUFFICES ASSUME c[i].kind = "header", Len(seen) < Len(w)
                 PROVE  Find(seen, WrongEmptyLine) = 0
    OBVIOUS
  <2>2. e = EmptyLine
    BY <2>1 DEF HeaderEnd
  <2>3. Find(t, WrongEmptyLine) = 0
    <3>1. PICK next, following : IsFrame(c[i], next, following)
      BY FrameFacts
    <3>2. QED  BY <2>1, <3>1 DEF IsFrame
  <2>4. Find(w, WrongEmptyLine) = 0
    BY <1>2, <2>2, <2>3, NoEmptyLines
  <2>5. /\ seen \in Seq(Bytes) /\ w \in Seq(Bytes)
        /\ WrongEmptyLine \in Seq(Bytes) /\ WrongEmptyLine # <<>>
        /\ \A k \in 1..Len(seen) : k <= Len(w) => seen[k] = w[k]
    BY <1>1, Ends, EmptySeq
  <2>6. Len(seen) <= Len(w)
    <3> HIDE DEF w, seen
    <3>1. Len(seen) \in Nat /\ Len(w) \in Nat
      BY <2>5
    <3>2. QED  BY <2>1, <3>1
  <2> HIDE DEF w, seen
  <2>7. QED  BY <2>4, <2>5, <2>6, FindSame
<1>8. n < Len(Sent(c, i)) <=> Len(seen) < Len(w)
  <2>1. Len(seen) = n - begin /\ Len(Sent(c, i)) = begin + Len(w) /\ begin \in Nat
    BY <1>1
  <2> HIDE DEF w, seen, begin
  <2>2. QED  BY <1>l, <2>1
<1>9. c[i].kind \in {"header", "wrongheader"}
  BY DEF IsHeader
<1>10. e = IF c[i].kind = "header" THEN EmptyLine ELSE WrongEmptyLine
  BY DEF HeaderEnd
<1> HIDE DEF w, e
<1>11. QED
  BY <1>5, <1>6, <1>7, <1>8, <1>9, <1>10

-----------------------------------------------------------------------------
(* The size of a chunk is read where it is.                                *)

NoCRLF(s) == \A i \in 1..(Len(s) - 1) : ~ (s[i] = "cr" /\ s[i + 1] = "lf")

LEMMA OccursCRLF ==
  ASSUME NEW s \in Seq(Bytes), NEW i \in Nat
  PROVE  Occurs(s, CRLF, i) <=> i \in 1..(Len(s) - 1) /\ s[i] = "cr" /\ s[i + 1] = "lf"
<1> DEFINE n == Len(s)
           a == i - 1
           b == i + 1
<1>1. n \in Nat
  OBVIOUS
<1>2. Len(CRLF) = 2 /\ CRLF[1] = "cr" /\ CRLF[2] = "lf" /\ CRLF \in Seq(Bytes)
  BY Ends
<1>3. Occurs(s, CRLF, i) <=> i \in 1..(n - 1) /\ Cut(s, a, b) = CRLF
  <2>1. n - Len(CRLF) + 1 = n - 1 /\ i + Len(CRLF) - 1 = b /\ a + 1 = i
    BY <1>1, <1>2
  <2>2. Occurs(s, CRLF, i) <=>
          i \in 1..(n - Len(CRLF) + 1) /\ SubSeq(s, i, i + Len(CRLF) - 1) = CRLF
    BY DEF Occurs
  <2> HIDE DEF n, a, b
  <2>3. QED  BY <2>1, <2>2 DEF Cut
<1>4. ASSUME i \in 1..(n - 1) PROVE Cut(s, a, b) = CRLF <=> s[i] = "cr" /\ s[i + 1] = "lf"
  <2>1. a \in Nat /\ b \in a..Len(s) /\ b - a = 2 /\ a + 1 = i /\ a + 2 = i + 1
    BY <1>1, <1>4
  <2> HIDE DEF a, b
  <2>2. /\ Cut(s, a, b) \in Seq(Bytes) /\ Len(Cut(s, a, b)) = b - a
        /\ \A k \in 1..(b - a) : Cut(s, a, b)[k] = s[a + k]
    BY <2>1, CutIs
  <2>3. Cut(s, a, b)[1] = s[i] /\ Cut(s, a, b)[2] = s[i + 1] /\ Len(Cut(s, a, b)) = 2
    BY <2>1, <2>2
  <2>4. ASSUME s[i] = "cr", s[i + 1] = "lf" PROVE Cut(s, a, b) = CRLF
    <3> DEFINE x == Cut(s, a, b)
    <3>1. x \in Seq(Bytes) /\ Len(x) = Len(CRLF)
      BY <1>2, <2>2, <2>3
    <3>2. \A k \in 1..2 : x[k] = CRLF[k]
      BY <1>2, <2>3, <2>4
    <3>3. \A k \in 1..Len(x) : x[k] = CRLF[k]
      BY <2>3, <3>2
    <3> HIDE DEF x
    <3>4. x = CRLF
      BY <1>2, <3>1, <3>3, SeqEqual
    <3>5. QED  BY <3>4 DEF x
  <2>5. QED  BY <1>2, <2>3, <2>4
<1>5. QED
  BY <1>3, <1>4 DEF n

LEMMA FindCRLF ==
  ASSUME NEW s \in Seq(Bytes)
  PROVE  /\ NoCRLF(s) => Find(s, CRLF) = 0
         /\ \A p \in 1..(Len(s) - 1) :
               (/\ s[p] = "cr" /\ s[p + 1] = "lf"
                /\ \A k \in 1..(p - 1) : s[k] # "cr") => Find(s, CRLF) = p
<1>1. CRLF \in Seq(Bytes)
  BY Ends
<1>2. ASSUME NoCRLF(s) PROVE Find(s, CRLF) = 0
  <2>1. \A i \in Nat : ~ Occurs(s, CRLF, i)
    BY <1>2, OccursCRLF DEF NoCRLF
  <2>2. QED  BY <1>1, <2>1, FindFirst
<1>3. ASSUME NEW p \in 1..(Len(s) - 1), s[p] = "cr", s[p + 1] = "lf",
             \A k \in 1..(p - 1) : s[k] # "cr"
      PROVE  Find(s, CRLF) = p
  <2>1. p \in Nat /\ Occurs(s, CRLF, p)
    BY <1>3, OccursCRLF
  <2>2. \A i \in 1..(p - 1) : ~ Occurs(s, CRLF, i)
    <3>1. \A i \in 1..(p - 1) : i \in Nat /\ s[i] # "cr"
      BY <1>3
    <3>2. QED  BY <3>1, OccursCRLF
  <2>3. QED  BY <1>1, <2>1, <2>2, FindIs
<1>4. QED
  BY <1>2, <1>3

LEMMA FirstNotIs ==
  ASSUME NEW S, NEW s \in Seq(S), NEW chars
  PROVE  /\ (\A k \in 1..Len(s) : s[k] \in chars) => FirstNot(s, chars) = 0
         /\ \A p \in 1..Len(s) :
               (s[p] \notin chars /\ \A k \in 1..(p - 1) : s[k] \in chars)
                  => FirstNot(s, chars) = p
<1> DEFINE I == {i \in 1..Len(s) : s[i] \notin chars}
<1>1. FirstNot(s, chars) = IF I # {} THEN Min(I) ELSE 0
  BY DEF FirstNot, SelectInSeq
<1>2. ASSUME \A k \in 1..Len(s) : s[k] \in chars PROVE I = {}
  BY <1>2
<1>3. ASSUME NEW p \in 1..Len(s), s[p] \notin chars, \A k \in 1..(p - 1) : s[k] \in chars
      PROVE  I # {} /\ Min(I) = p
  <2>1. I \subseteq Nat /\ p \in I /\ p \in Nat
    BY <1>3
  <2>2. \A k \in I : ~ (k \in 1..(p - 1)) /\ k >= 1
    BY <1>3
  <2> HIDE DEF I
  <2>3. Min(I) \in I /\ \A k \in I : Min(I) <= k
    BY <2>1, MinOfSome
  <2> DEFINE m == Min(I)
  <2>4. m \in Nat /\ m <= p /\ m >= 1 /\ ~ (m \in 1..(p - 1))
    BY <2>1, <2>2, <2>3
  <2> HIDE DEF m
  <2>5. m = p
    BY <2>1, <2>4
  <2>6. QED  BY <2>1, <2>5 DEF m
<1> HIDE DEF I
<1>4. QED
  BY <1>1, <1>2, <1>3

LEMMA DigitValues ==
    Value("0") = 0 /\ Value("1") = 1 /\ Value("2") = 2 /\ Value("3") = 3
<1>1. DOMAIN Digit = 1..4
  BY DEF Digit
<1>2. Digit[1] = "0" /\ Digit[2] = "1" /\ Digit[3] = "2" /\ Digit[4] = "3"
  BY DEF Digit
<1>3. \A n \in 1..4 : n = 1 \/ n = 2 \/ n = 3 \/ n = 4
  OBVIOUS
<1>4. \A n \in 1..4 : /\ Digit[n] = "0" <=> n = 1
                      /\ Digit[n] = "1" <=> n = 2
                      /\ Digit[n] = "2" <=> n = 3
                      /\ Digit[n] = "3" <=> n = 4
  BY <1>2, <1>3
<1>5. /\ (CHOOSE n \in DOMAIN Digit : Digit[n] = "0") = 1
      /\ (CHOOSE n \in DOMAIN Digit : Digit[n] = "1") = 2
      /\ (CHOOSE n \in DOMAIN Digit : Digit[n] = "2") = 3
      /\ (CHOOSE n \in DOMAIN Digit : Digit[n] = "3") = 4
  BY <1>1, <1>4
<1>6. QED
  BY <1>5 DEF Value

LEMMA NumberIs ==
  ASSUME NEW line, NEW m \in Nat, NEW x \in 0..3,
         \A k \in 1..m : line[k] = "0", line[m + 1] = Digit[x + 1]
  PROVE  Number(line, m + 1) = x
<1> DEFINE n == m + 1
           value[k \in 0..n] == IF k = 0 THEN 0 ELSE 16 * value[k - 1] + Value(line[k])
           step == [k \in 1..n |-> [v \in Nat |-> 16 * v + Value(line[k])]]
<1>1. Value(line[m + 1]) = x
  <2>1. x = 0 \/ x = 1 \/ x = 2 \/ x = 3
    OBVIOUS
  <2>2. Digit[1] = "0" /\ Digit[2] = "1" /\ Digit[3] = "2" /\ Digit[4] = "3"
    BY DEF Digit
  <2>3. QED  BY <2>1, <2>2, DigitValues
<1>2. \A k \in 1..m : Value(line[k]) = 0
  BY DigitValues
<1>3. \A k \in 1..n : k \in 1..m \/ k = m + 1
  OBVIOUS
<1>4. \A k \in 1..n : Value(line[k]) \in Nat
  BY <1>1, <1>2, <1>3
<1>5. n \in Nat /\ \A k \in 1..n : k - 1 \in 0..n
  OBVIOUS
<1>6. step \in [1..n -> [Nat -> Nat]]
  <2>1. ASSUME NEW k \in 1..n, NEW v \in Nat PROVE 16 * v + Value(line[k]) \in Nat
    BY <1>4
  <2> HIDE DEF n
  <2>2. QED  BY <2>1
<1>7. PICK f : Steps(f, Nat, 0, n, step)
  <2>1. 0 \in Nat
    OBVIOUS
  <2> HIDE DEF step, n
  <2>2. QED  BY <1>5, <1>6, <2>1, StepByStep
<1>8. f \in [0..n -> Nat] /\ f[0] = 0 /\ \A k \in 1..n : f[k] = 16 * f[k - 1] + Value(line[k])
  <2>1. f \in [0..n -> Nat] /\ f[0] = 0 /\ \A k \in 1..n : f[k] = step[k][f[k - 1]]
    <3> HIDE DEF step, n
    <3>1. QED  BY <1>7 DEF Steps
  <2>2. \A k \in 1..n : f[k - 1] \in Nat
    <3> HIDE DEF n
    <3>1. QED  BY <1>5, <2>1
  <2> HIDE DEF n
  <2>3. QED  BY <2>1, <2>2
<1>9. f = [k \in 0..n |-> IF k = 0 THEN 0 ELSE 16 * f[k - 1] + Value(line[k])]
  <2> DEFINE g == [k \in 0..n |-> IF k = 0 THEN 0 ELSE 16 * f[k - 1] + Value(line[k])]
  <2>0. \A k \in 0..n : k # 0 => k \in 1..n
    BY <1>5
  <2> HIDE DEF n
  <2>1. ASSUME NEW k \in 0..n PROVE f[k] = g[k]
    <3>1. CASE k = 0
      BY <1>8, <3>1
    <3>2. CASE k # 0
      BY <1>8, <2>0, <3>2
    <3>3. QED  BY <3>1, <3>2
  <2> HIDE DEF g
  <2>2. g = [k \in 0..n |-> g[k]]
    BY DEF g
  <2>3. f = g
    BY <1>8, <2>1, <2>2
  <2>4. QED  BY <2>3 DEF g
<1>10. value = [k \in 0..n |-> IF k = 0 THEN 0 ELSE 16 * value[k - 1] + Value(line[k])]
  BY <1>9
<1>11. Number(line, n) = value[n]
  BY DEF Number
<1> HIDE DEF value
<1>12. value[0] = 0 /\ \A k \in 1..n : value[k] = 16 * value[k - 1] + Value(line[k])
  <2>1. 0 \in 0..n /\ \A k \in 1..n : k \in 0..n /\ k # 0
    BY <1>5
  <2> HIDE DEF n
  <2>2. QED  BY <1>10, <2>1
<1> DEFINE T == {k \in Nat : k <= m => value[k] = 0}
<1>13. 0 \in T
  BY <1>12
<1>14. ASSUME NEW k \in Nat, k \in T PROVE k + 1 \in T
  <2>1. SUFFICES ASSUME k + 1 <= m PROVE value[k + 1] = 0
    OBVIOUS
  <2>2. value[k] = 0 /\ k + 1 \in 1..n /\ k + 1 \in 1..m /\ (k + 1) - 1 = k
    BY <1>14, <2>1
  <2>3. QED  BY <1>2, <1>12, <2>2
<1>15. m \in T
  <2> HIDE DEF T
  <2>1. QED  BY <1>13, <1>14, AllNumbers
<1>16. value[m] = 0 /\ n \in 1..n /\ n - 1 = m
  BY <1>15
<1>17. value[n] = 16 * 0 + x
  <2>1. value[n] = 16 * value[n - 1] + Value(line[n])
    BY <1>12, <1>16
  <2>2. Value(line[n]) = x
    BY <1>1
  <2> HIDE DEF n
  <2>3. QED  BY <1>16, <2>1, <2>2
<1>18. QED
  BY <1>11, <1>17

\* What has come since the size of a chunk began.
LEMMA SizeFound ==
  ASSUME NEW c, IsConversation(c), NEW i \in 1..Len(c), c[i].kind \in {"chunk", "last"},
         NEW n \in Nat, n <= Len(Sent(c, Len(c))), Len(Sent(c, i - 1)) < n
  PROVE  LET f == c[i]
             start == Len(Sent(c, i - 1))
             line == start + Len(SizeLine(f))
             p == Cut(Sent(c, Len(c)), start, n)
         IN  /\ Len(SizeLine(f)) \in Nat /\ Len(f.before) \in Nat /\ Len(f.text) \in 0..3
             /\ n < line => NoCRLF(p) /\ p[1] # "lf"
             /\ n >= line => /\ Find(p, CRLF) = Len(SizeLine(f)) - 1
                             /\ Len(SizeLine(f)) - 1 > 1
                             /\ FirstNot(p, Hex) - 1 = Len(f.before) + 1
                             /\ Number(p, Len(f.before) + 1) = Len(f.text)
<1> DEFINE f == c[i]
           start == Len(Sent(c, i - 1))
           all == Sent(c, Len(c))
           p == Cut(all, start, n)
           l == SizeLine(f)
           b == Len(f.before)
           a == Len(f.after)
           x == Len(f.text)
           ll == Len(l)
<1>1. f \in Frame /\ Chunky(f) /\ f.before \in Seq(Bytes) /\ f.after \in Seq(Bytes)
  BY FrameFacts
<1>2. x \in 0..3 /\ b \in Nat /\ a \in Nat
  <2>1. x \in 0..3
    BY <1>1 DEF Chunky
  <2> DEFINE fb == f.before
             fa == f.after
  <2>2. fb \in Seq(Bytes) /\ fa \in Seq(Bytes)
    BY <1>1
  <2> HIDE DEF fa, fb
  <2>3. Len(fb) \in Nat /\ Len(fa) \in Nat
    BY <2>2
  <2>4. QED  BY <2>1, <2>3 DEF fa, fb
<1>3. /\ ll = b + a + 3
      /\ \A k \in 1..b : l[k] = "0"
      /\ l[b + 1] = Digit[x + 1]
      /\ \A k \in 1..a : l[b + 1 + k] = f.after[k]
      /\ l[ll - 1] = "cr" /\ l[ll] = "lf"
  BY <1>1, SizeLineLayout
<1>4. \A k \in 1..Len(l) : Encoded(f)[k] = l[k]
  BY <1>1, ChunkLayout
<1>5. Len(Encoded(f)) = ll + x + 2
  BY <1>1, ChunkLayout
<1>6. start \in Nat /\ \A k \in 1..Len(Encoded(f)) : all[start + k] = Encoded(f)[k]
  BY Inside
<1>7. IsExtension(f.after) /\ DOMAIN f.after = 1..a
  BY <1>1 DEF Chunky
<1>8. all \in Seq(Bytes)
  <2>1. Len(c) \in 0..Len(c)
    BY SentStep
  <2>2. QED  BY <2>1, SentStep
<1>9. n \in start..Len(all) /\ start < n /\ n <= Len(all)
  BY <1>6
<1> HIDE DEF f, start, all, l, b, a, x, ll
<1>10. p \in Seq(Bytes) /\ Len(p) = n - start /\ \A k \in 1..(n - start) : p[k] = all[start + k]
  BY <1>6, <1>8, <1>9, CutIs
<1> HIDE DEF p
<1>11. ASSUME NEW k \in 1..(n - start), k <= ll PROVE p[k] = l[k]
  <2>1. k \in 1..ll
    BY <1>6, <1>9, <1>11, <1>2, <1>3
  <2>2. k \in 1..Len(Encoded(f))
    BY <1>2, <1>3, <1>5, <2>1
  <2>3. Encoded(f)[k] = l[k]
    BY <1>4, <2>1 DEF ll
  <2>4. QED  BY <1>6, <1>10, <2>2, <2>3
<1>12. Digit[x + 1] \in Hex
  <2>1. x = 0 \/ x = 1 \/ x = 2 \/ x = 3
    BY <1>2
  <2>2. Digit[1] = "0" /\ Digit[2] = "1" /\ Digit[3] = "2" /\ Digit[4] = "3"
    BY DEF Digit
  <2>3. QED  BY <2>1, <2>2 DEF Hex
<1>13. ASSUME NEW k \in 1..(ll - 2) PROVE l[k] # "cr"
  <2>1. CASE k <= b
    <3>1. k \in 1..b
      BY <1>2, <1>3, <2>1
    <3>2. QED  BY <1>3, <3>1
  <2>2. CASE k = b + 1
    BY <1>3, <1>12, <2>2 DEF Hex
  <2>3. CASE k > b + 1
    <3> DEFINE d == k - b - 1
    <3>1. d \in 1..a /\ b + 1 + d = k
      BY <1>2, <1>3, <2>3
    <3> HIDE DEF d
    <3>2. f.after[d] # "cr"
      <4>1. f.after # <<>>
        <5>1. a # 0
          BY <1>2, <3>1
        <5>2. QED  BY <5>1, EmptySeq DEF a
      <4>2. QED  BY <1>7, <3>1, <4>1 DEF IsExtension
    <3>3. QED  BY <1>3, <3>1, <3>2
  <2>4. QED  BY <1>2, <2>1, <2>2, <2>3
<1>14. ASSUME n < start + ll PROVE NoCRLF(p) /\ p[1] # "lf"
  <2>1. \A k \in 1..(n - start) : k <= ll
    BY <1>2, <1>3, <1>6, <1>9, <1>14
  <2>2. \A k \in 1..((n - start) - 1) : k \in 1..(ll - 2) /\ k \in 1..(n - start)
    BY <1>2, <1>3, <1>6, <1>9, <1>14
  <2>3. \A k \in 1..((n - start) - 1) : p[k] # "cr"
    BY <1>11, <1>13, <2>1, <2>2
  <2>4. NoCRLF(p)
    BY <1>10, <2>3 DEF NoCRLF
  <2>5. p[1] = l[1]
    <3>1. 1 \in 1..(n - start) /\ 1 <= ll
      BY <1>2, <1>3, <1>6, <1>9
    <3>2. QED  BY <1>11, <3>1
  <2>6. l[1] # "lf"
    <3>1. CASE b = 0
      BY <1>3, <1>12, <3>1 DEF Hex
    <3>2. CASE b # 0
      <4>1. 1 \in 1..b
        BY <1>2, <3>2
      <4>2. QED  BY <1>3, <4>1
    <3>3. QED  BY <3>1, <3>2
  <2>7. QED  BY <2>4, <2>5, <2>6
<1>15. ASSUME n >= start + ll
       PROVE  /\ Find(p, CRLF) = ll - 1 /\ ll - 1 > 1
              /\ FirstNot(p, Hex) - 1 = b + 1 /\ Number(p, b + 1) = x
  <2>1. \A k \in 1..ll : k \in 1..(n - start) /\ p[k] = l[k]
    <3>1. \A k \in 1..ll : k \in 1..(n - start) /\ k <= ll
      BY <1>2, <1>3, <1>6, <1>9, <1>15
    <3>2. QED  BY <1>11, <3>1
  <2>2. p \in Seq(Bytes) /\ Len(p) = n - start
    BY <1>10
  <2>3. Find(p, CRLF) = ll - 1
    <3>1. ll - 1 \in 1..ll /\ ll \in 1..ll /\ (ll - 1) + 1 = ll /\ ll - 1 \in 1..(Len(p) - 1)
      BY <1>2, <1>3, <1>6, <1>9, <1>15, <2>2
    <3>2. \A k \in 1..((ll - 1) - 1) : k \in 1..ll /\ k \in 1..(ll - 2)
      BY <1>2, <1>3
    <3>3. p[ll - 1] = "cr" /\ p[(ll - 1) + 1] = "lf"
      BY <1>3, <2>1, <3>1
    <3>4. \A k \in 1..((ll - 1) - 1) : p[k] # "cr"
      BY <1>13, <2>1, <3>2
    <3>5. p \in Seq(Bytes)
      BY <2>2
    <3>6. QED  BY <3>1, <3>3, <3>4, <3>5, FindCRLF
  <2>4. FirstNot(p, Hex) = b + 2
    <3>1. \A k \in 1..((b + 2) - 1) : p[k] \in Hex
      <4>1. \A k \in 1..((b + 2) - 1) : k \in 1..ll /\ (k \in 1..b \/ k = b + 1)
        BY <1>2, <1>3
      <4>2. QED  BY <1>3, <1>12, <2>1, <4>1 DEF Hex
    <3>2. b + 2 \in 1..ll /\ b + 2 \in 1..Len(p)
      BY <1>2, <1>3, <1>6, <1>9, <1>15, <2>2
    <3>3. l[b + 2] \notin Hex
      <4>1. CASE a = 0
        <5>1. b + 2 = ll - 1
          BY <1>2, <1>3, <4>1
        <5>2. QED  BY <1>3, <5>1 DEF Hex
      <4>2. CASE a # 0
        <5>1. 1 \in 1..a /\ b + 1 + 1 = b + 2
          BY <1>2, <4>2
        <5>2. f.after # <<>>
          BY <4>2, EmptySeq DEF a
        <5>3. f.after[1] \notin Hex
          BY <1>7, <5>2 DEF IsExtension
        <5>4. QED  BY <1>3, <5>1, <5>3
      <4>3. QED  BY <4>1, <4>2
    <3>4. p \in Seq(Bytes) /\ p[b + 2] \notin Hex
      BY <2>1, <2>2, <3>2, <3>3
    <3>5. QED  BY <3>1, <3>2, <3>4, FirstNotIs
  <2>5. Number(p, b + 1) = x
    <3>1. \A k \in 1..b : k \in 1..ll
      BY <1>2, <1>3
    <3>2. b + 1 \in 1..ll
      BY <1>2, <1>3
    <3>3. (\A k \in 1..b : p[k] = "0") /\ p[b + 1] = Digit[x + 1]
      BY <1>3, <2>1, <3>1, <3>2
    <3>4. QED  BY <1>2, <3>3, NumberIs
  <2>6. QED  BY <1>2, <1>3, <2>3, <2>4, <2>5
<1>16. /\ ll \in Nat /\ b \in Nat /\ x \in 0..3
       /\ n < start + ll => NoCRLF(p) /\ p[1] # "lf"
       /\ n >= start + ll => /\ Find(p, CRLF) = ll - 1
                             /\ ll - 1 > 1
                             /\ FirstNot(p, Hex) - 1 = b + 1
                             /\ Number(p, b + 1) = x
  BY <1>2, <1>3, <1>14, <1>15
<1>17. QED
  BY <1>16, Zenon DEF f, start, all, l, b, x, ll, p

-----------------------------------------------------------------------------
(* Where the worker is in the stream.                                      *)

Piece(from, to) == Cut(Stream, from, to)
Taken == recvd - Len(RecvBuf)

\* The frame that is read now, where it begins, and where the reading does: the line
\* end after a chunk is left to whoever reads on.
Current == conv[Len(out) + 1]
Start == Len(Sent(conv, Len(out)))
Owed(f) == IF f.kind \in {"chunk", "last"} THEN 2 ELSE 0
Begin == Start - (IF Len(out) = 0 THEN 0 ELSE Owed(conv[Len(out)]))
Text == Start + Len(Current.before)
Line == Start + Len(SizeLine(Current))
End == Start + Len(Encoded(Current))

\* The connection was closed, and nothing of it is left.
Torn == closed /\ RecvBuf = <<>>
Whole == \A i \in DOMAIN out : out[i] = Contents(conv[i])
TornText ==
    /\ IsHeader(Current) /\ got # <<>>
    /\ IsPrefix(got, Encoded([Current EXCEPT !.before = <<>>])) /\ Last(got) \in {"cr", "lf"}

\* A piece of the size of a chunk, which is looked at again and again.
Stuck ==
    /\ badcut /\ RecvBuf # <<>> /\ RecvBuf[1] # "lf" /\ NoCRLF(RecvBuf) /\ NoCRLF(temp)

Small == IsHeader(Current) => Len(got) <= MAXHTTPHEADERLENGTH + MAXRECV

AtCall == (Torn \/ (Whole /\ Taken = Begin)) /\ (Len(out) < Len(conv) => Small)
AtSkip ==
    /\ IsHeader(Current) /\ got = <<>> /\ poscount = 0
    /\ Torn \/ (Whole /\ Taken \in Begin..Text /\ received = Taken - Begin)
AtFind ==
    /\ IsHeader(Current) /\ Taken \in Text..(End - 1) /\ RecvBuf # <<>>
    /\ temp = Piece(Text, recvd) /\ got = Piece(Text, Taken) /\ poscount = Taken - Text
    /\ poscount <= received /\ poscount <= MAXHTTPHEADERLENGTH
    /\ received + Len(RecvBuf) <= recvd - Begin + MAXRECV
    /\ (Current.kind = "header" /\ Taken = End - 1) => badcut
AtMore ==
    /\ IsHeader(Current) /\ RecvBuf = <<>> /\ recvd \in (Text + 1)..(End - 1)
    /\ temp = Piece(Text, recvd) /\ got = temp /\ poscount = recvd - Text
    /\ poscount <= received /\ received <= MAXHTTPHEADERLENGTH
    /\ received <= recvd - Begin + MAXRECV
AtCRLF ==
    /\ Current.kind = "header" /\ got = Contents(Current) /\ Small
    /\ Taken = End - 2 /\ Len(RecvBuf) >= 2
AtChunk ==
    /\ Current.kind \in {"chunk", "last"} /\ got = <<>>
    /\ \/ Torn
       \/ Whole /\ temp = <<>> /\ received = 0 /\ Taken \in {Begin, Start}
       \/ Whole /\ Stuck
AtData == Current.kind = "chunk" /\ got = <<>> /\ want.n = Len(Current.text) /\ Taken = Line
AtBody == Current.kind = "body" /\ (Torn \/ (Whole /\ Taken \in Start..(End - 1) /\ got = Piece(Start, Taken)))
AtRecv ==
    /\ RecvBuf = <<>>
    /\ \/ /\ Current.kind = "chunk" /\ want.keep /\ want.then = "return"
          /\ recvd >= Line /\ got = Piece(Line, recvd)
          /\ want.n = Line + Len(Current.text) - recvd /\ want.n > 0
       \/ IsHeader(Current) /\ badcut /\ want.n > Len(Stream) - recvd
AtReturn ==
    /\ Small
    /\ \/ got = Contents(Current) /\ Taken = End - Owed(Current)
       \/ Torn /\ TornText

PlaceInv ==
    /\ pc \notin {"call", "done"} => Len(out) < Len(conv)
    /\ pc \in {"find", "more", "crlf", "data", "recv", "return"} => Whole
    /\ pc = "call" => AtCall
    /\ pc = "skip" => AtSkip
    /\ pc = "find" => AtFind
    /\ pc = "more" => AtMore
    /\ pc = "crlf" => AtCRLF
    /\ pc = "chunk" => AtChunk
    /\ pc = "data" => AtData
    /\ pc = "body" => AtBody
    /\ pc = "recv" => AtRecv
    /\ pc = "return" => AtReturn
    /\ pc = "done" => Len(out) = Len(conv)
    /\ pc = "failed" => (closed \/ badcut \/ TooLong(Current)) /\ (badcut \/ Small)

Network ==
    /\ conv \in Conversations /\ recvd \in 0..Len(Stream)
    /\ closed \in BOOLEAN /\ badcut \in BOOLEAN
    /\ \A i \in DOMAIN conv : recvd \in BadPlaces(i) => badcut
Buffer ==
    /\ RecvBuf \in Seq(Bytes) /\ Len(RecvBuf) <= recvd /\ Len(RecvBuf) <= MAXRECV
    /\ RecvBuf = Piece(Taken, recvd)
Locals ==
    /\ pc \in Places
    /\ temp \in Seq(Bytes) /\ got \in Seq(Bytes)
    /\ poscount \in Nat /\ received \in Nat
    /\ want \in [n : 0..(WORD - 1), keep : BOOLEAN, then : Places]
    /\ out \in Seq(Seq(Bytes)) /\ Len(out) <= Len(conv)
BufferInv == Network /\ Buffer /\ Locals

IInv == BufferInv /\ PlaceInv /\ OnlyFrames
-----------------------------------------------------------------------------
(* The frame that is read now.                                             *)

LEMMA Here ==
  ASSUME BufferInv, Len(out) < Len(conv)
  PROVE  /\ IsConversation(conv) /\ Len(out) + 1 \in 1..Len(conv) /\ Len(out) \in Nat
         /\ Stream \in Seq(Bytes) /\ Len(Stream) \in Nat
         /\ WORD \in Nat /\ Len(Stream) < WORD - 1 /\ MAXRECV \in Nat /\ MAXHTTPHEADERLENGTH \in Nat
         /\ Start \in Nat /\ Start = Len(Sent(conv, (Len(out) + 1) - 1))
         /\ Len(Encoded(Current)) \in Nat /\ End = Start + Len(Encoded(Current))
         /\ End = Len(Sent(conv, Len(out) + 1)) /\ End \in Nat /\ End <= Len(Stream)
         /\ \A k \in 1..Len(Encoded(Current)) : Stream[Start + k] = Encoded(Current)[k]
         /\ recvd \in Nat /\ recvd <= Len(Stream) /\ Len(RecvBuf) \in Nat
         /\ Taken \in Nat /\ Taken <= recvd /\ RecvBuf \in Seq(Bytes)
<1> DEFINE i == Len(out) + 1
<1>1. IsConversation(conv)
  BY ReaderAssumption DEF BufferInv, Network, Buffer, Locals
<1>2. Len(conv) \in Nat /\ Len(out) \in Nat /\ i \in 1..Len(conv) /\ i - 1 = Len(out)
  <2>1. Len(out) \in Nat
    <3>1. out \in Seq(Seq(Bytes))
      BY DEF BufferInv, Network, Buffer, Locals
    <3>2. QED  BY <3>1
  <2>2. Len(conv) \in Nat
    BY <1>1, SentStep
  <2>3. QED  BY <2>1, <2>2
<1>3. Stream \in Seq(Bytes) /\ Len(Stream) \in Nat
  <2>1. Len(conv) \in 0..Len(conv)
    BY <1>2
  <2>2. Stream \in Seq(Bytes)
    BY <1>1, <2>1, SentStep DEF Stream
  <2>3. QED  BY <2>2
<1>4. /\ Len(Sent(conv, i - 1)) \in Nat /\ Len(Encoded(conv[i])) \in Nat
      /\ Len(Sent(conv, i)) = Len(Sent(conv, i - 1)) + Len(Encoded(conv[i]))
      /\ Len(Sent(conv, i)) <= Len(Stream)
      /\ \A k \in 1..Len(Encoded(conv[i])) : Stream[Len(Sent(conv, i - 1)) + k] = Encoded(conv[i])[k]
  <2> HIDE DEF i
  <2>1. QED  BY <1>1, <1>2, Inside DEF Stream
<1>5. Current = conv[i] /\ Start = Len(Sent(conv, i - 1))
  BY <1>2 DEF Current, Start
<1>6. WORD \in Nat /\ Len(Stream) < WORD - 1 /\ MAXRECV \in Nat /\ MAXHTTPHEADERLENGTH \in Nat
  BY <1>1, ReaderAssumption DEF IsConversation, Stream
<1>7. recvd \in Nat /\ recvd <= Len(Stream) /\ Len(RecvBuf) <= recvd
  BY <1>3 DEF BufferInv, Network, Buffer, Locals
<1>8. RecvBuf \in Seq(Bytes) /\ Len(RecvBuf) \in Nat
  <2>1. RecvBuf \in Seq(Bytes)
    BY DEF BufferInv, Network, Buffer, Locals
  <2>2. QED  BY <2>1
<1>9. QED
  BY <1>1, <1>2, <1>3, <1>4, <1>5, <1>6, <1>7, <1>8 DEF End, Taken

LEMMA HereHeader ==
  ASSUME BufferInv, Len(out) < Len(conv), IsHeader(Current)
  PROVE  /\ Current.kind \in {"header", "wrongheader"} /\ Current \in Frame
         /\ Text \in Nat /\ Start <= Text
         /\ Len(Current.text) \in Nat \ {0} /\ Len(Current.before) \in Nat
         /\ Text = Start + Len(Current.before)
         /\ End = Text + Len(Current.text) + (IF Current.kind = "header" THEN 4 ELSE 2)
         /\ Len(Encoded(Current)) = End - Start
         /\ Owed(Current) = 0 /\ Place(Current) = "skip"
<1>1. Len(out) + 1 \in 1..Len(conv) /\ IsConversation(conv)
  BY Here
<1>2. Current \in Frame /\ Current.text \in Seq(Bytes) /\ Current.text # <<>> /\ Current.before \in Seq(Bytes)
  <2> DEFINE i == Len(out) + 1
  <2> HIDE DEF i
  <2>1. \A j \in 1..Len(conv) : IsHeader(conv[j]) =>
            /\ conv[j] \in Frame /\ conv[j].text \in Seq(Bytes) /\ conv[j].text # <<>>
            /\ conv[j].before \in Seq(Bytes)
    BY <1>1, FrameFacts DEF IsHeader
  <2>2. QED  BY <1>1, <2>1 DEF Current
<1> DEFINE t == Current.text
           b == Current.before
           e == HeaderEnd(Current)
<1>3. Len(t) \in Nat \ {0} /\ Len(b) \in Nat
  <2>1. t \in Seq(Bytes) /\ t # <<>> /\ b \in Seq(Bytes)
    BY <1>2
  <2> HIDE DEF t, b
  <2>2. QED  BY <2>1, EmptySeq
<1>4. /\ Len(e) = IF Current.kind = "header" THEN 4 ELSE 2
      /\ Len(Encoded(Current)) = Len(b) + Len(t) + Len(e)
  BY <1>2, HeaderLayout
<1>5. Start \in Nat /\ Text = Start + Len(b) /\ End = Start + Len(Encoded(Current))
  BY Here DEF Text
<1>6. Current.kind \in {"header", "wrongheader"}
  BY DEF IsHeader
<1>7. Owed(Current) = 0 /\ Place(Current) = "skip"
  BY <1>6 DEF Owed, Place, IsHeader
<1> DEFINE lt == Len(t)
           lb == Len(b)
           le == Len(e)
           l == Len(Encoded(Current))
<1>8. /\ lt \in Nat \ {0} /\ lb \in Nat /\ Start \in Nat /\ Text = Start + lb /\ End = Start + l
      /\ l = lb + lt + le /\ le = IF Current.kind = "header" THEN 4 ELSE 2
  BY <1>3, <1>4, <1>5
<1> HIDE DEF lt, lb, le, l
<1>9. /\ Text \in Nat /\ Start <= Text /\ l = End - Start
      /\ End = Text + lt + (IF Current.kind = "header" THEN 4 ELSE 2)
  BY <1>6, <1>8
<1>10. QED
  BY <1>2, <1>6, <1>7, <1>8, <1>9 DEF lt, lb, le, l

LEMMA HereChunk ==
  ASSUME BufferInv, Len(out) < Len(conv), Current.kind \in {"chunk", "last"}
  PROVE  /\ Current \in Frame /\ Chunky(Current) /\ ~ IsHeader(Current)
         /\ Line \in Nat /\ Start + 3 <= Line
         /\ Line = Start + Len(SizeLine(Current)) /\ Len(SizeLine(Current)) \in Nat
         /\ Len(Current.text) \in 0..3 /\ Current.text \in Seq(Bytes)
         /\ Len(Current.before) \in Nat
         /\ Current.kind = "chunk" <=> Len(Current.text) # 0
         /\ End = Line + Len(Current.text) + 2
         /\ Contents(Current) = Current.text
         /\ Current.text = Piece(Line, Line + Len(Current.text))
         /\ Owed(Current) = 2 /\ Place(Current) = "chunk"
<1>1. Len(out) + 1 \in 1..Len(conv) /\ IsConversation(conv)
  BY Here
<1>2. /\ Current \in Frame /\ Chunky(Current) /\ Current.text \in Seq(Bytes)
      /\ Current.before \in Seq(Bytes) /\ Current.after \in Seq(Bytes)
      /\ Current.kind = "chunk" => Current.text # <<>>
      /\ Current.kind = "last" => Current.text = <<>>
  <2>1. \A j \in 1..Len(conv) : conv[j].kind \in {"chunk", "last"} =>
            /\ conv[j] \in Frame /\ Chunky(conv[j]) /\ conv[j].text \in Seq(Bytes)
            /\ conv[j].before \in Seq(Bytes) /\ conv[j].after \in Seq(Bytes)
            /\ conv[j].kind = "chunk" => conv[j].text # <<>>
            /\ conv[j].kind = "last" => conv[j].text = <<>>
    BY <1>1, FrameFacts
  <2>2. QED  BY <1>1, <2>1 DEF Current
<1> DEFINE t == Current.text
           b == Current.before
           a == Current.after
           s == SizeLine(Current)
           lt == Len(t)
           lb == Len(b)
           la == Len(a)
           ls == Len(s)
<1>3. lt \in 0..3
  BY <1>2 DEF Chunky
<1>4. lb \in Nat /\ la \in Nat
  <2>1. a \in Seq(Bytes) /\ b \in Seq(Bytes)
    BY <1>2
  <2> HIDE DEF a, b
  <2>2. QED  BY <2>1
<1>5. ls = lb + la + 3
  BY <1>2, SizeLineLayout
<1>6. Len(Encoded(Current)) = ls + lt + 2
  BY <1>2, ChunkLayout
<1>7. \A k \in 1..lt : Encoded(Current)[ls + k] = t[k]
  BY <1>2, ChunkLayout
<1>8. Start \in Nat /\ Line = Start + ls /\ End = Start + Len(Encoded(Current)) /\ End <= Len(Stream)
      /\ Stream \in Seq(Bytes)
      /\ \A k \in 1..Len(Encoded(Current)) : Stream[Start + k] = Encoded(Current)[k]
  BY Here DEF Line
<1>9. Current.kind = "chunk" <=> lt # 0
  <2>1. t \in Seq(Bytes) /\ (Current.kind = "chunk" <=> t # <<>>)
    BY <1>2
  <2> HIDE DEF t
  <2>2. QED  BY <2>1, EmptySeq
<1>10. Contents(Current) = Current.text
  BY DEF Contents
<1>11. Owed(Current) = 2 /\ Place(Current) = "chunk" /\ ~ IsHeader(Current)
  BY DEF Owed, Place, IsHeader
<1>12. t \in Seq(Bytes)
  BY <1>2
<1>13. lt = Len(t)
  OBVIOUS
<1> HIDE DEF t, b, a, s, lt, lb, la, ls
<1>14. /\ ls \in Nat /\ Line \in Nat /\ Start + 3 <= Line /\ End = Line + lt + 2
       /\ Line + lt \in Line..Len(Stream) /\ (Line + lt) - Line = lt
  <2>1. Len(Stream) \in Nat
    BY Here
  <2>2. QED  BY <1>3, <1>4, <1>5, <1>6, <1>8, <2>1
<1>15. ASSUME NEW k \in 1..lt PROVE t[k] = Stream[Line + k]
  <2>1. ls + k \in 1..Len(Encoded(Current)) /\ Start + (ls + k) = Line + k
    BY <1>3, <1>6, <1>8, <1>14
  <2>2. QED  BY <1>7, <1>8, <2>1
<1>16. t = Piece(Line, Line + lt)
  <2> DEFINE to == Line + lt
  <2>1. to \in Line..Len(Stream) /\ Len(t) = to - Line /\ \A k \in 1..(to - Line) : t[k] = Stream[Line + k]
    BY <1>13, <1>14, <1>15
  <2> HIDE DEF to
  <2>2. t = Cut(Stream, Line, to)
    BY <1>8, <1>12, <1>14, <2>1, CutEqual
  <2>3. QED  BY <2>2 DEF Piece, to
<1>17. /\ Line \in Nat /\ Start + 3 <= Line /\ Line = Start + ls /\ ls \in Nat
       /\ lt \in 0..3 /\ lb \in Nat /\ Current.kind = "chunk" <=> lt # 0
       /\ End = Line + lt + 2 /\ Current.text = Piece(Line, Line + lt)
  BY <1>3, <1>4, <1>8, <1>9, <1>14, <1>16 DEF t
<1>18. QED
  BY <1>2, <1>10, <1>11, <1>17 DEF t, b, s, lt, lb, ls

LEMMA HereBody ==
  ASSUME BufferInv, Len(out) < Len(conv), Current.kind = "body"
  PROVE  /\ Len(Current.text) \in Nat \ {0} /\ End = Start + Len(Current.text)
         /\ End = Len(Stream) /\ ~ IsHeader(Current)
         /\ Contents(Current) = Piece(Start, End)
         /\ Owed(Current) = 0 /\ Place(Current) = "body"
<1> DEFINE i == Len(out) + 1
<1>1. /\ i \in 1..Len(conv) /\ IsConversation(conv) /\ Start \in Nat /\ End = Len(Sent(conv, i))
      /\ Stream \in Seq(Bytes)
      /\ End = Start + Len(Encoded(Current)) /\ Current = conv[i]
      /\ \A k \in 1..Len(Encoded(Current)) : Stream[Start + k] = Encoded(Current)[k]
  BY Here DEF Current
<1> HIDE DEF i
<1>2. conv[i].text \in Seq(Bytes) /\ conv[i].text # <<>>
  BY <1>1, FrameFacts
<1>3. i = Len(conv)
  <2>1. i # Len(conv) => IsFrame(conv[i], {conv[i + 1].kind}, conv[i + 1].text)
    BY <1>1, FrameFacts
  <2>2. QED  BY <1>1, <2>1 DEF IsFrame
<1> DEFINE t == Current.text
<1>4. t \in Seq(Bytes) /\ t # <<>> /\ Encoded(Current) = t /\ Contents(Current) = t
  BY <1>1, <1>2 DEF Encoded, Contents
<1> HIDE DEF t
<1>5. Len(t) \in Nat \ {0}
  BY <1>4, EmptySeq
<1>6. End = Start + Len(t) /\ End = Len(Stream)
  BY <1>1, <1>3, <1>4 DEF Stream
<1>7. t = Cut(Stream, Start, End)
  <2>1. Len(t) = End - Start /\ End \in Start..Len(Stream)
    <3> DEFINE l == Len(t)
    <3>1. l \in Nat /\ End = Start + l
      BY <1>5, <1>6
    <3> HIDE DEF l
    <3>2. l = End - Start /\ End \in Start..End
      BY <1>1, <3>1
    <3>3. QED  BY <1>6, <3>2 DEF l
  <2>2. \A k \in 1..(End - Start) : t[k] = Stream[Start + k]
    BY <1>1, <1>4, <2>1
  <2>3. QED  BY <1>1, <1>4, <2>1, <2>2, CutEqual
<1>8. QED
  BY <1>4, <1>5, <1>6, <1>7 DEF t, Piece, Owed, Place, IsHeader

\* What is owed of the frame before is blank, and must come whole before a chunk.
LEMMA HereBegin ==
  ASSUME BufferInv, Len(out) < Len(conv)
  PROVE  /\ Begin \in Nat /\ Begin <= Start /\ Start <= Begin + 2
         /\ \A k \in (Begin + 1)..Start : Stream[k] \in Blank
         /\ Current.kind \in {"chunk", "last"} =>
               \/ Begin = Start
               \/ /\ Begin + 2 = Start /\ Stream[Begin + 1] = "cr" /\ Stream[Begin + 2] = "lf"
                  /\ \E i \in DOMAIN conv : Begin + 1 \in BadPlaces(i)
<1> DEFINE j == Len(out)
           before == conv[j]
<1>1. /\ IsConversation(conv) /\ j + 1 \in 1..Len(conv) /\ j \in Nat
      /\ Start \in Nat /\ Start = Len(Sent(conv, j))
  BY Here DEF Start
<1>2. CASE j = 0 \/ (j # 0 /\ Owed(before) = 0)
  <2>1. Begin = Start
    BY <1>1, <1>2 DEF Begin
  <2>2. QED  BY <1>1, <2>1
<1>3. CASE j # 0 /\ Owed(before) # 0
  <2>1. j \in 1..Len(conv) /\ before.kind \in {"chunk", "last"} /\ Owed(before) = 2
    BY <1>1, <1>3 DEF Owed
  <2>2. Begin = Start - 2
    BY <1>1, <1>3, <2>1 DEF Begin
  <2> HIDE DEF j
  <2>3. /\ before \in Frame /\ Chunky(before)
        /\ before.kind = "last" => IsFrame(before, {conv[j + 1].kind}, conv[j + 1].text)
    <3>1. j # Len(conv)
      BY <1>1
    <3>2. QED  BY <1>1, <2>1, <3>1, FrameFacts
  <2> DEFINE s == Len(Sent(conv, j - 1))
             l == Len(SizeLine(before))
             t == Len(before.text)
             e == Len(Encoded(before))
  <2>4. /\ e = l + t + 2
        /\ \A k \in 1..2 : Encoded(before)[l + t + k] = CRLF[k]
    BY <2>3, ChunkLayout
  <2>5. /\ s \in Nat /\ e \in Nat /\ Start = s + e
        /\ \A k \in 1..e : Stream[s + k] = Encoded(before)[k]
    BY <1>1, <2>1, Inside DEF Stream
  <2>6. l \in Nat /\ t \in 0..3
    <3>1. SizeLine(before) \in Seq(Bytes)
      BY <2>3, SizeLineLayout
    <3>2. l \in Nat
      BY <3>1
    <3>3. QED  BY <2>3, <3>2 DEF Chunky
  <2>e. BadPlaces(j) = CASE before.kind = "header" -> {s + e - 1}
                         [] before.kind = "chunk" -> (s + 1)..(s + l - 1) \cup {s + e - 1}
                         [] before.kind = "last" -> (s + 1)..(s + l - 1)
                         [] OTHER -> {}
    BY DEF BadPlaces
  <2> HIDE DEF s, l, t, e
  <2>7. Begin \in Nat /\ Begin + 2 = Start /\ Begin = s + l + t
    <3>1. e = l + t + 2 /\ Start = s + e /\ s \in Nat /\ e \in Nat
      BY <2>4, <2>5
    <3>2. QED  BY <2>2, <2>6, <3>1
  <2>8. Stream[Begin + 1] = "cr" /\ Stream[Begin + 2] = "lf"
    <3>1. /\ l + t + 1 \in 1..e /\ l + t + 2 \in 1..e
          /\ s + (l + t + 1) = Begin + 1 /\ s + (l + t + 2) = Begin + 2
      BY <2>4, <2>5, <2>6, <2>7
    <3>2. CRLF[1] = "cr" /\ CRLF[2] = "lf"
      BY Ends
    <3>3. Encoded(before)[l + t + 1] = CRLF[1] /\ Encoded(before)[l + t + 2] = CRLF[2]
      BY <2>4
    <3>4. Stream[s + (l + t + 1)] = "cr" /\ Stream[s + (l + t + 2)] = "lf"
      BY <2>5, <3>1, <3>2, <3>3
    <3>5. QED  BY <3>1, <3>4
  <2>9. ASSUME NEW k \in (Begin + 1)..Start PROVE Stream[k] \in Blank
    <3>1. k = Begin + 1 \/ k = Begin + 2
      BY <1>1, <2>7
    <3>2. QED  BY <2>8, <3>1 DEF Blank
  <2>10. ASSUME Current.kind \in {"chunk", "last"}
         PROVE  Begin + 1 \in BadPlaces(j) /\ j \in DOMAIN conv
    <3>1. before.kind = "chunk"
      <4>1. Current = conv[j + 1]
        BY DEF Current, j
      <4>2. before.kind # "last"
        BY <2>3, <2>10, <4>1 DEF IsFrame
      <4>3. QED  BY <2>1, <4>2
    <3>2. s + e - 1 = Begin + 1
      BY <2>4, <2>5, <2>6, <2>7
    <3>3. s + e - 1 \in BadPlaces(j)
      BY <2>e, <3>1
    <3>4. DOMAIN conv = 1..Len(conv)
      BY <1>1 DEF IsConversation
    <3>5. QED  BY <2>1, <3>2, <3>3, <3>4
  <2>11. QED  BY <1>1, <2>7, <2>8, <2>9, <2>10
<1>4. QED
  BY <1>2, <1>3

LEMMA HereContents ==
  ASSUME BufferInv, Len(out) < Len(conv), IsHeader(Current)
  PROVE  /\ Contents(Current) = Piece(Text, IF Current.kind = "header" THEN End - 2 ELSE End)
         /\ \A n \in (Text + 1)..(End - 1) :
               IsPrefix(Piece(Text, n), Encoded([Current EXCEPT !.before = <<>>]))
<1> DEFINE t == Current.text
           e == HeaderEnd(Current)
           w == t \o e
           i == Len(out) + 1
           m == IF Current.kind = "header" THEN End - 2 ELSE End
           lt == Len(t)
           le == Len(e)
<1>1. /\ IsConversation(conv) /\ i \in 1..Len(conv) /\ Current = conv[i]
      /\ Start = Len(Sent(conv, i - 1)) /\ End \in Nat /\ End <= Len(Stream) /\ Stream \in Seq(Bytes)
      /\ End = Len(Sent(conv, i)) /\ Len(Stream) \in Nat
  BY Here DEF Current
<1>2. /\ Current.kind \in {"header", "wrongheader"} /\ Text \in Nat /\ Current \in Frame
      /\ lt \in Nat \ {0} /\ Text = Start + Len(Current.before)
      /\ End = Text + lt + (IF Current.kind = "header" THEN 4 ELSE 2)
  BY HereHeader
<1>a. End \in Nat /\ End <= Len(Stream) /\ Len(Stream) \in Nat
  BY <1>1
<1>3. t \in Seq(Bytes)
  BY <1>2 DEF Frame
<1>4. e \in Seq(Bytes) /\ le = IF Current.kind = "header" THEN 4 ELSE 2
  BY <1>2, HeaderLayout
<1>5. /\ w \in Seq(Bytes) /\ Len(w) = lt + le
      /\ \A k \in 1..Len(w) : Stream[Text + k] = w[k]
  <2> HIDE DEF i
  <2>1. Text <= Len(Stream)
    <3>1. lt \in Nat /\ End = Text + lt + (IF Current.kind = "header" THEN 4 ELSE 2) /\ Text \in Nat
      BY <1>2
    <3> HIDE DEF lt
    <3>2. QED  BY <1>a, <3>1
  <2>2. IsHeader(conv[i])
    BY <1>1
  <2>3. Text <= Len(Sent(conv, Len(conv)))
    BY <2>1 DEF Stream
  <2>4. Len(Sent(conv, i - 1)) + Len(conv[i].before) = Text
    BY <1>1, <1>2, Zenon
  <2>5. Len(Sent(conv, i - 1)) + Len(conv[i].before) <= Text
    <3> DEFINE x == Len(Sent(conv, i - 1)) + Len(conv[i].before)
    <3>1. x = Text /\ Text \in Nat
      BY <1>2, <2>4, Zenon
    <3> HIDE DEF x
    <3>2. x <= Text
      BY <3>1
    <3>3. QED  BY <3>2 DEF x
  <2> DEFINE begin == Len(Sent(conv, i - 1)) + Len(conv[i].before)
             v == conv[i].text \o HeaderEnd(conv[i])
  <2>6. /\ v \in Seq(Bytes) /\ Len(v) = Len(conv[i].text) + Len(HeaderEnd(conv[i]))
        /\ \A k \in 1..Len(v) : Sent(conv, Len(conv))[begin + k] = v[k]
    <3>1. IsConversation(conv) /\ i \in 1..Len(conv) /\ Text \in Nat
      BY <1>1, <1>2, Zenon
    <3>2. QED  BY <3>1, <2>2, <2>3, <2>5, HeaderText, ZenonT(90)
  <2>7. v = w /\ begin = Text /\ conv[i] = Current
    BY <1>1, <2>4, Zenon
  <2> HIDE DEF v, begin
  <2>8. \A k \in 1..Len(w) : Stream[Text + k] = w[k]
    BY <2>6, <2>7, Zenon DEF Stream
  <2>9. w \in Seq(Bytes) /\ Len(w) = lt + le
    BY <2>6, <2>7, Zenon
  <2>10. QED  BY <2>8, <2>9
<1>6. Contents(Current) = IF Current.kind = "header" THEN t \o CRLF ELSE w
  BY <1>2 DEF Contents, HeaderEnd
<1>7. Encoded([Current EXCEPT !.before = <<>>]) = w
  <2> DEFINE f == [Current EXCEPT !.before = <<>>]
  <2>1. f.kind = Current.kind /\ f.text = Current.text /\ f.before = <<>> /\ HeaderEnd(f) = e
    BY <1>2 DEF Frame, HeaderEnd
  <2> HIDE DEF f
  <2>2. Encoded(f) = (f.before \o f.text) \o HeaderEnd(f)
    BY <1>2, <2>1 DEF Encoded, HeaderEnd
  <2>3. <<>> \o t = t
    <3> HIDE DEF t
    <3>1. QED  BY <1>3, ConcatEmptySeq
  <2>4. QED  BY <2>1, <2>2, <2>3 DEF f
<1> HIDE DEF i, t, e, w
<1>t. Len(t) = lt /\ Len(e) = le /\ le = IF Current.kind = "header" THEN 4 ELSE 2
  BY <1>4
<1>w. Len(w) = lt + le
  BY <1>5
<1>b. /\ Text \in Nat /\ lt \in Nat \ {0} /\ Current.kind \in {"header", "wrongheader"}
      /\ End = Text + lt + (IF Current.kind = "header" THEN 4 ELSE 2)
  BY <1>2
<1> HIDE DEF lt, le
<1>8. /\ lt \in Nat /\ le \in Nat /\ End = Text + (lt + le) /\ lt + le \in Nat
      /\ End \in Text..Len(Stream) /\ m \in Text..Len(Stream)
      /\ m - Text = IF Current.kind = "header" THEN lt + 2 ELSE lt + le
  BY <1>a, <1>b, <1>t
<1> HIDE DEF m
<1>9. \A k \in 1..(lt + le) : Stream[Text + k] = w[k]
  BY <1>5, <1>w
<1>10. ASSUME Current.kind = "wrongheader" PROVE Contents(Current) = Cut(Stream, Text, m)
  <2>1. Len(w) = m - Text /\ \A k \in 1..(m - Text) : w[k] = Stream[Text + k]
    BY <1>8, <1>9, <1>w, <1>10
  <2>2. w = Cut(Stream, Text, m)
    BY <1>1, <1>2, <1>5, <1>8, <2>1, CutEqual, ZenonT(60)
  <2>3. QED  BY <1>6, <1>10, <2>2
<1>11. ASSUME Current.kind = "header" PROVE Contents(Current) = Cut(Stream, Text, m)
  <2> DEFINE x == t \o CRLF
  <2>1. CRLF \in Seq(Bytes) /\ Len(CRLF) = 2
    BY Ends
  <2>2. /\ x \in Seq(Bytes) /\ Len(x) = Len(t) + Len(CRLF)
        /\ \A k \in 1..Len(t) : x[k] = t[k]
        /\ \A k \in 1..Len(CRLF) : x[Len(t) + k] = CRLF[k]
    <3>1. CRLF \in Seq(Bytes)
      BY <2>1
    <3>2. QED  BY <1>3, <3>1, Joined
  <2>3. /\ \A k \in 1..Len(t) : w[k] = t[k]
        /\ \A k \in 1..Len(e) : w[Len(t) + k] = e[k]
    <3>1. e \in Seq(Bytes)
      BY <1>4
    <3>2. QED  BY <1>3, <3>1, Joined DEF w
  <2>4. e[1] = "cr" /\ e[2] = "lf" /\ CRLF[1] = "cr" /\ CRLF[2] = "lf"
    BY <1>11, Ends DEF e, HeaderEnd
  <2> HIDE DEF x
  <2>5. Len(x) = m - Text
    BY <1>8, <1>11, <1>t, <2>1, <2>2
  <2>6. ASSUME NEW k \in 1..(m - Text) PROVE x[k] = Stream[Text + k]
    <3>1. k \in 1..(lt + le) /\ (k \in 1..lt \/ k = lt + 1 \/ k = lt + 2)
      BY <1>8, <1>11, <1>t
    <3>2. CASE k \in 1..lt
      BY <1>9, <1>t, <2>2, <2>3, <3>1, <3>2
    <3>3. CASE k = lt + 1
      <4>1. 1 \in 1..Len(CRLF) /\ 1 \in 1..Len(e)
        BY <1>11, <1>t, <2>1
      <4>2. x[lt + 1] = CRLF[1] /\ w[lt + 1] = e[1]
        BY <1>t, <2>2, <2>3, <4>1
      <4>3. QED  BY <1>9, <2>4, <3>1, <3>3, <4>2
    <3>4. CASE k = lt + 2
      <4>1. 2 \in 1..Len(CRLF) /\ 2 \in 1..Len(e)
        BY <1>11, <1>t, <2>1
      <4>2. x[lt + 2] = CRLF[2] /\ w[lt + 2] = e[2]
        BY <1>t, <2>2, <2>3, <4>1
      <4>3. QED  BY <1>9, <2>4, <3>1, <3>4, <4>2
    <3>5. QED  BY <3>1, <3>2, <3>3, <3>4
  <2>7. x \in Seq(Bytes)
    BY <2>2
  <2>8. x = Cut(Stream, Text, m)
    <3>1. Stream \in Seq(Bytes) /\ Text \in Nat /\ m \in Text..Len(Stream)
      BY <1>1, <1>2, <1>8
    <3>2. QED  BY <3>1, <2>5, <2>6, <2>7, CutEqual
  <2>9. QED  BY <1>6, <1>11, <2>8 DEF x
<1>12. Contents(Current) = Piece(Text, m)
  BY <1>2, <1>10, <1>11 DEF Piece
<1>13. ASSUME NEW n \in (Text + 1)..(End - 1)
       PROVE  IsPrefix(Piece(Text, n), w)
  <2> DEFINE x == Cut(Stream, Text, n)
  <2>1. n \in Text..Len(Stream) /\ n - Text <= lt + le
    BY <1>a, <1>b, <1>8
  <2>2. x \in Seq(Bytes) /\ Len(x) = n - Text /\ \A k \in 1..(n - Text) : x[k] = Stream[Text + k]
    <3>1. Stream \in Seq(Bytes)
      BY <1>1
    <3>2. QED  BY <3>1, <1>b, <2>1, CutIs
  <2> DEFINE d == n - Text
             y == Cut(w, 0, d)
  <2>3. d \in Nat /\ d \in 0..Len(w) /\ d - 0 = d
    BY <1>b, <1>8, <1>w, <2>1
  <2>w. w \in Seq(Bytes)
    BY <1>5
  <2> HIDE DEF d, x
  <2>4. y \in Seq(Bytes) /\ Len(y) = d - 0 /\ \A k \in 1..(d - 0) : y[k] = w[0 + k]
    BY <2>w, <2>3, CutIs, ZenonT(60)
  <2>5. Len(x) = d /\ \A k \in 1..d : x[k] = Stream[Text + k]
    BY <2>2 DEF d
  <2>6. \A k \in 1..d : k \in 1..(lt + le) /\ 0 + k = k
    BY <1>8, <1>w, <2>3
  <2>7. \A k \in 1..d : x[k] = y[k]
    BY <1>9, <2>3, <2>4, <2>5, <2>6
  <2> HIDE DEF y
  <2>8. x = y
    <3>1. Len(x) = Len(y) /\ \A k \in 1..Len(x) : x[k] = y[k]
      BY <2>3, <2>4, <2>5, <2>7
    <3>2. x \in Seq(Bytes) /\ y \in Seq(Bytes)
      BY <2>2, <2>4
    <3>3. QED  BY <3>1, <3>2, SeqEqual
  <2>9. SubSeq(x, 1, Len(x)) = x
    <3>1. x \in Seq(Bytes)
      BY <2>2
    <3>2. QED  BY <3>1, SubSeqFull
  <2>10. SubSeq(w, 1, d) = y
    BY DEF y, Cut
  <2>11. Len(x) <= Len(w)
    BY <2>3, <2>5
  <2>12. IsPrefix(x, w)
    BY <2>5, <2>8, <2>9, <2>10, <2>11 DEF IsPrefix
  <2>13. QED  BY <2>12 DEF x, Piece
<1>14. QED
  BY <1>7, <1>12, <1>13 DEF m

-----------------------------------------------------------------------------
(* What a step leaves as it is, and what it receives.                      *)

\* While the same frame is read, all places of it are where they were.
LEMMA Same ==
  ASSUME conv' = conv, out' = out
  PROVE  /\ Stream' = Stream /\ Current' = Current /\ Start' = Start /\ Begin' = Begin
         /\ Text' = Text /\ Line' = Line /\ End' = End /\ Whole' = Whole
         /\ IsHeader(Current)' = IsHeader(Current) /\ Contents(Current)' = Contents(Current)
         /\ Owed(Current)' = Owed(Current) /\ TooLong(Current)' = TooLong(Current)
         /\ Encoded([Current EXCEPT !.before = <<>>])' = Encoded([Current EXCEPT !.before = <<>>])
<1>1. Stream' = Stream /\ Current' = Current
  BY DEF Stream, Current
<1>2. Start' = Start /\ Begin' = Begin
  BY DEF Start, Begin
<1>3. Text' = Text /\ Line' = Line /\ End' = End
  BY <1>1, <1>2 DEF Text, Line, End
<1>4. Whole' = Whole
  BY DEF Whole
<1>5. /\ IsHeader(Current)' = IsHeader(Current) /\ Contents(Current)' = Contents(Current)
      /\ Owed(Current)' = Owed(Current) /\ TooLong(Current)' = TooLong(Current)
      /\ Encoded([Current EXCEPT !.before = <<>>])' = Encoded([Current EXCEPT !.before = <<>>])
  BY <1>1
<1>6. QED
  BY <1>1, <1>2, <1>3, <1>4, <1>5

LEMMA SameFrames ==
  ASSUME OnlyFrames, conv' = conv, out' = out, closed => closed'
  PROVE  OnlyFrames'
  BY DEF OnlyFrames

LEMMA Everywhere ==
  ASSUME BufferInv
  PROVE  /\ IsConversation(conv) /\ Len(conv) \in Nat /\ Len(out) \in Nat /\ Len(out) <= Len(conv)
         /\ Stream \in Seq(Bytes) /\ Len(Stream) \in Nat
         /\ WORD \in Nat /\ Len(Stream) < WORD - 1 /\ MAXRECV \in Nat \ {0} /\ MAXHTTPHEADERLENGTH \in Nat
         /\ recvd \in Nat /\ recvd <= Len(Stream) /\ Len(RecvBuf) \in Nat /\ RecvBuf \in Seq(Bytes)
         /\ Taken \in Nat /\ Taken <= recvd /\ Len(RecvBuf) = recvd - Taken
         /\ RecvBuf = Cut(Stream, Taken, recvd)
         /\ RecvBuf = <<>> <=> Taken = recvd
<1>1. IsConversation(conv)
  BY ReaderAssumption DEF BufferInv, Network, Buffer, Locals
<1>2. Len(conv) \in Nat /\ Len(out) \in Nat /\ Len(out) <= Len(conv)
  <2>1. out \in Seq(Seq(Bytes)) /\ Len(out) <= Len(conv)
    BY DEF BufferInv, Network, Buffer, Locals
  <2>2. Len(conv) \in Nat
    BY <1>1, SentStep
  <2>3. QED  BY <2>1, <2>2
<1>3. Stream \in Seq(Bytes) /\ Len(Stream) \in Nat
  <2>1. Stream \in Seq(Bytes)
    BY <1>1, <1>2, SentStep DEF Stream
  <2>2. QED  BY <2>1
<1>4. WORD \in Nat /\ Len(Stream) < WORD - 1 /\ MAXRECV \in Nat \ {0} /\ MAXHTTPHEADERLENGTH \in Nat
  BY <1>1, ReaderAssumption DEF IsConversation, Stream
<1>5. recvd \in Nat /\ recvd <= Len(Stream) /\ Len(RecvBuf) <= recvd
  BY <1>3 DEF BufferInv, Network, Buffer, Locals
<1>6. RecvBuf \in Seq(Bytes) /\ Len(RecvBuf) \in Nat
  <2>1. RecvBuf \in Seq(Bytes)
    BY DEF BufferInv, Network, Buffer, Locals
  <2>2. QED  BY <2>1
<1>7. Taken \in Nat /\ Taken <= recvd /\ Len(RecvBuf) = recvd - Taken
  BY <1>5, <1>6 DEF Taken
<1>8. RecvBuf = Cut(Stream, Taken, recvd)
  BY DEF BufferInv, Network, Buffer, Locals, Piece
<1>9. RecvBuf = <<>> <=> Taken = recvd
  <2>1. RecvBuf = <<>> <=> Len(RecvBuf) = 0
    BY <1>6, EmptySeq
  <2>2. QED  BY <1>5, <1>7, <2>1
<1>10. QED
  BY <1>1, <1>2, <1>3, <1>4, <1>5, <1>6, <1>7, <1>8, <1>9

LEMMA MinIs ==
  ASSUME NEW a \in Nat, NEW b \in Nat
  PROVE  Min({a, b}) = IF a <= b THEN a ELSE b
<1>1. {a, b} \subseteq Nat /\ {a, b} # {}
  OBVIOUS
<1> DEFINE m == Min({a, b})
<1>2. m \in {a, b} /\ \A k \in {a, b} : m <= k
  BY <1>1, MinOfSome
<1> HIDE DEF m
<1>3. m = IF a <= b THEN a ELSE b
  BY <1>2
<1>4. QED
  BY <1>3 DEF m

\* A recv() returns the next bytes of the stream.
LEMMA NextBytes ==
  ASSUME BufferInv, NEW p \in Arriving, Arrives(p)
  PROVE  /\ conv' = conv /\ closed' = closed /\ closed = FALSE /\ Network' /\ (badcut => badcut')
         /\ \E r \in Nat : /\ recvd' = r /\ recvd < r /\ r <= Len(Stream) /\ r <= recvd + MAXRECV
                           /\ p \in Seq(Bytes) /\ p = Cut(Stream, recvd, r) /\ Len(p) = r - recvd
<1>1. /\ Stream \in Seq(Bytes) /\ Len(Stream) \in Nat /\ MAXRECV \in Nat \ {0}
      /\ recvd \in Nat /\ recvd <= Len(Stream)
  BY Everywhere
<1>2. closed = FALSE
  BY DEF Arriving, BufferInv, Network, Buffer, Locals
<1> DEFINE most == Min({recvd + MAXRECV, Len(Stream)})
<1>3. most <= recvd + MAXRECV /\ most <= Len(Stream) /\ most \in Nat
  <2> DEFINE a == recvd + MAXRECV
             b == Len(Stream)
  <2>1. a \in Nat /\ b \in Nat
    BY <1>1
  <2> HIDE DEF a, b
  <2>2. Min({a, b}) = IF a <= b THEN a ELSE b
    BY <2>1, MinIs
  <2>3. QED  BY <2>1, <2>2 DEF a, b
<1>4. PICK r \in (recvd + 1)..most : p = SubSeq(Stream, recvd + 1, r)
  BY <1>2 DEF Arriving
<1> HIDE DEF most
<1>5. r \in recvd..Len(Stream) /\ r <= recvd + MAXRECV /\ recvd < r /\ r \in Nat /\ r <= Len(Stream)
  BY <1>1, <1>3, <1>4
<1>6. p = Cut(Stream, recvd, r)
  BY <1>4 DEF Cut
<1>7. p \in Seq(Bytes) /\ Len(p) = r - recvd
  BY <1>1, <1>5, <1>6, CutIs
<1>8. recvd' = r
  <2> DEFINE l == Len(p)
  <2>1. recvd' = recvd + l
    BY DEF Arrives
  <2>2. l = r - recvd
    BY <1>7
  <2> HIDE DEF l
  <2>3. QED  BY <1>1, <1>5, <2>1, <2>2
<1>9. /\ conv' = conv /\ closed' = closed /\ badcut' \in BOOLEAN /\ (badcut => badcut')
      /\ \A i \in DOMAIN conv : recvd' \in BadPlaces(i) => badcut'
  BY DEF Arrives
<1>10. \A i \in DOMAIN conv : BadPlaces(i)' = BadPlaces(i)
  BY <1>9 DEF BadPlaces
<1>11. Network'
  <2>1. conv' \in Conversations /\ closed' \in BOOLEAN /\ badcut' \in BOOLEAN
    BY <1>9 DEF BufferInv, Network, Buffer, Locals
  <2>2. recvd' \in 0..Len(Stream)'
    <3>1. Len(Stream)' = Len(Stream)
      BY <1>9 DEF Stream
    <3>2. QED  BY <1>1, <1>5, <1>8, <3>1
  <2>3. (\A i \in DOMAIN conv : recvd \in BadPlaces(i) => badcut)'
    BY <1>9, <1>10
  <2>4. QED  BY <2>1, <2>2, <2>3 DEF Network
<1>12. QED
  BY <1>2, <1>5, <1>6, <1>7, <1>8, <1>9, <1>11

\* What Recv() returns is what comes after what was taken.
LEMMA WhatIsReceived ==
  ASSUME BufferInv, NEW p \in Received, Recv(p)
  PROVE  /\ conv' = conv /\ closed' = closed /\ Network' /\ (badcut => badcut') /\ ~ Torn
         /\ RecvBuf # <<>> => recvd' = recvd /\ badcut' = badcut /\ p = RecvBuf
         /\ \E r \in Nat : /\ recvd' = r /\ Taken < r /\ recvd <= r /\ r <= Len(Stream)
                           /\ r - Taken <= MAXRECV /\ (RecvBuf = <<>> => recvd = Taken)
                           /\ p \in Seq(Bytes) /\ p = Cut(Stream, Taken, r) /\ Len(p) = r - Taken
<1>1. /\ RecvBuf = Cut(Stream, Taken, recvd) /\ RecvBuf \in Seq(Bytes) /\ Len(RecvBuf) = recvd - Taken
      /\ Taken \in Nat /\ Taken <= recvd /\ recvd \in Nat /\ recvd <= Len(Stream)
      /\ RecvBuf = <<>> <=> Taken = recvd
      /\ MAXRECV \in Nat /\ Len(Stream) \in Nat /\ Len(RecvBuf) \in Nat
  BY Everywhere
<1>2. CASE RecvBuf # <<>>
  <2>1. p = RecvBuf /\ UNCHANGED network
    BY <1>2 DEF Received, Recv
  <2>2. conv' = conv /\ closed' = closed /\ recvd' = recvd /\ badcut' = badcut
    BY <2>1 DEF network
  <2>3. Network'
    <3>1. /\ conv \in Conversations /\ recvd \in 0..Len(Stream)
          /\ closed \in BOOLEAN /\ badcut \in BOOLEAN
          /\ \A i \in DOMAIN conv : recvd \in BadPlaces(i) => badcut
      BY DEF BufferInv, Network, Buffer, Locals
    <3>2. Network
      BY <3>1 DEF Network
    <3>3. Stream' = Stream /\ \A i \in DOMAIN conv : BadPlaces(i)' = BadPlaces(i)
      BY <2>2 DEF Stream, BadPlaces
    <3>4. QED  BY <3>1, <3>3, <2>2 DEF Network
  <2>4. ~ Torn
    BY <1>2 DEF Torn
  <2>5. recvd - Taken <= MAXRECV
    BY <1>1 DEF BufferInv, Network, Buffer, Locals
  <2>6. QED  BY <1>1, <1>2, <2>1, <2>2, <2>3, <2>4, <2>5
<1>3. CASE RecvBuf = <<>>
  <2>1. p \in Arriving /\ Arrives(p)
    BY <1>3 DEF Received, Recv
  <2>2. conv' = conv /\ closed' = closed /\ closed = FALSE /\ Network' /\ (badcut => badcut')
    BY <2>1, NextBytes
  <2>3. PICK r \in Nat :
            /\ recvd' = r /\ recvd < r /\ r <= Len(Stream) /\ r <= recvd + MAXRECV
            /\ p \in Seq(Bytes) /\ p = Cut(Stream, recvd, r) /\ Len(p) = r - recvd
    BY <2>1, NextBytes
  <2>4. Taken = recvd /\ ~ Torn
    BY <1>1, <1>3, <2>2 DEF Torn
  <2>5. r - Taken <= MAXRECV /\ Taken < r /\ recvd <= r
    BY <1>1, <2>3, <2>4
  <2>6. QED  BY <1>3, <2>2, <2>3, <2>4, <2>5
<1>4. QED
  BY <1>2, <1>3

\* What is left of what was received after m bytes of it were taken.
LEMMA WhatIsLeft ==
  ASSUME BufferInv, conv' = conv, NEW r \in Nat, recvd' = r, Taken <= r, r <= Len(Stream),
         r - Taken <= MAXRECV,
         NEW m \in Nat, m <= r - Taken,
         RecvBuf' = SubSeq(Cut(Stream, Taken, r), m + 1, Len(Cut(Stream, Taken, r)))
  PROVE  /\ Buffer' /\ Taken' = Taken + m /\ (RecvBuf' = <<>> <=> Taken' = r)
         /\ Len(RecvBuf') = r - Taken' /\ RecvBuf' = Cut(Stream, Taken', r)
         /\ RecvBuf' \in Seq(Bytes)
<1>1. Stream \in Seq(Bytes) /\ Taken \in Nat /\ MAXRECV \in Nat /\ Len(Stream) \in Nat
  BY Everywhere
<1> DEFINE d == r - Taken
           n == Taken + m
           b == RecvBuf'
           lb == Len(b)
<1>2. d \in Nat /\ m \in 0..d /\ d <= MAXRECV /\ r \in Taken..Len(Stream)
  BY <1>1
<1>3. Len(Cut(Stream, Taken, r)) = d
  BY <1>1, <1>2, CutIs
<1>4. SubSeq(Cut(Stream, Taken, r), m + 1, d) = Cut(Stream, Taken + m, Taken + d)
  <2>1. d \in m..(r - Taken)
    BY <1>2
  <2> HIDE DEF d
  <2>2. QED  BY <1>1, <1>2, <2>1, CutOfCut
<1>5. /\ Taken + d = r /\ n \in Nat /\ r \in n..Len(Stream)
      /\ n <= r /\ r - n <= MAXRECV /\ r - n <= r
  BY <1>1, <1>2
<1> HIDE DEF d
<1>6. b = Cut(Stream, n, r)
  BY <1>3, <1>4, <1>5
<1> HIDE DEF n, b
<1>7. b \in Seq(Bytes) /\ Len(b) = r - n
  BY <1>1, <1>5, <1>6, CutIs
<1>8. b = <<>> <=> Len(b) = 0
  BY <1>7, EmptySeq
<1>9. lb = r - n /\ Taken' = r - lb /\ (b = <<>> <=> lb = 0)
  BY <1>7, <1>8 DEF Taken, b
<1> HIDE DEF lb
<1>11. /\ Taken' = n /\ lb <= r /\ lb <= MAXRECV /\ lb = r - n
       /\ b = <<>> <=> n = r
  BY <1>5, <1>9
<1>12. Stream' = Stream
  BY DEF Stream
<1>13. b = Cut(Stream, Taken', r) /\ b = Piece(Taken, recvd)'
  BY <1>6, <1>11, <1>12 DEF Piece
<1>14. Buffer'
  BY <1>7, <1>11, <1>13 DEF Buffer, lb, b
<1>15. QED
  BY <1>7, <1>11, <1>13, <1>14 DEF n, lb, b

\* Whoever receives and leaves everything in the buffer.
LEMMA AllLeft ==
  ASSUME BufferInv, NEW p \in Received, Recv(p), RecvBuf' = p
  PROVE  Buffer' /\ Taken' = Taken /\ RecvBuf' # <<>>
<1>1. conv' = conv
  BY WhatIsReceived
<1>2. PICK r \in Nat : /\ recvd' = r /\ Taken < r /\ r <= Len(Stream) /\ r - Taken <= MAXRECV
                       /\ p \in Seq(Bytes) /\ p = Cut(Stream, Taken, r)
  BY WhatIsReceived
<1>3. p = SubSeq(p, 0 + 1, Len(p))
  <2>1. p \in Seq(Bytes)
    BY <1>2
  <2>2. SubSeq(p, 1, Len(p)) = p
    BY <2>1, SubSeqFull
  <2>3. QED  BY <2>2
<1>4. Taken \in Nat
  BY Everywhere
<1> DEFINE m == 0
<1>5. m \in Nat /\ m <= r - Taken /\ Taken <= r /\ Taken + m = Taken /\ Taken # r
      /\ RecvBuf' = SubSeq(Cut(Stream, Taken, r), m + 1, Len(Cut(Stream, Taken, r)))
  BY <1>2, <1>3, <1>4
<1> HIDE DEF m
<1>6. Buffer' /\ Taken' = Taken + m /\ (RecvBuf' = <<>> <=> Taken' = r)
  BY <1>1, <1>2, <1>5, WhatIsLeft
<1>7. QED
  BY <1>5, <1>6

\* Where a recv() ends badly while this frame is read.
LEMMA HereBad ==
  ASSUME BufferInv, Len(out) < Len(conv)
  PROVE  /\ Current.kind = "header" => \E i \in DOMAIN conv : End - 1 \in BadPlaces(i)
         /\ Current.kind \in {"chunk", "last"} =>
               \A n \in (Start + 1)..(Line - 1) : \E i \in DOMAIN conv : n \in BadPlaces(i)
<1> DEFINE i == Len(out) + 1
<1>1. i \in 1..Len(conv) /\ i \in DOMAIN conv /\ Current = conv[i] /\ Start = Len(Sent(conv, i - 1))
  <2>1. /\ i \in 1..Len(conv) /\ IsConversation(conv) /\ Current = conv[i]
        /\ Start = Len(Sent(conv, i - 1))
    BY Here DEF Current
  <2>2. DOMAIN conv = 1..Len(conv)
    BY <2>1 DEF IsConversation
  <2>3. QED  BY <2>1, <2>2
<1> HIDE DEF i
<1>2. BadPlaces(i) =
        CASE Current.kind = "header" -> {End - 1}
          [] Current.kind = "chunk" -> (Start + 1)..(Line - 1) \cup {End - 1}
          [] Current.kind = "last" -> (Start + 1)..(Line - 1)
          [] OTHER -> {}
  BY <1>1 DEF BadPlaces, End, Line
<1>3. Current.kind = "header" => End - 1 \in BadPlaces(i)
  BY <1>2
<1>4. ASSUME Current.kind \in {"chunk", "last"}, NEW n \in (Start + 1)..(Line - 1)
      PROVE  n \in BadPlaces(i)
  BY <1>2, <1>4
<1>5. QED
  BY <1>1, <1>3, <1>4

LEMMA EndedBadly ==
  ASSUME Network', conv' = conv, NEW r, recvd' = r, \E i \in DOMAIN conv : r \in BadPlaces(i)
  PROVE  badcut'
<1>1. \A i \in DOMAIN conv : BadPlaces(i)' = BadPlaces(i)
  BY DEF BadPlaces
<1>2. \A i \in DOMAIN conv : recvd' \in BadPlaces(i) => badcut'
  BY <1>1 DEF Network
<1>3. QED
  BY <1>2

\* The blanks before a header.
LEMMA HereBlanks ==
  ASSUME BufferInv, Len(out) < Len(conv), IsHeader(Current)
  PROVE  /\ \A k \in (Begin + 1)..Text : Stream[k] \in Blank
         /\ Stream[Text + 1] \notin Blank
<1> DEFINE i == Len(out) + 1
<1>1. /\ i \in 1..Len(conv) /\ IsConversation(conv) /\ Current = conv[i] /\ Start \in Nat
      /\ \A k \in 1..Len(Encoded(Current)) : Stream[Start + k] = Encoded(Current)[k]
  BY Here DEF Current
<1>2. /\ Current \in Frame /\ Text \in Nat /\ Start <= Text
      /\ Len(Current.text) \in Nat \ {0} /\ Len(Current.before) \in Nat
      /\ Text = Start + Len(Current.before)
      /\ End = Text + Len(Current.text) + (IF Current.kind = "header" THEN 4 ELSE 2)
      /\ Len(Encoded(Current)) = End - Start
  BY HereHeader
<1>3. Begin \in Nat /\ Begin <= Start /\ \A k \in (Begin + 1)..Start : Stream[k] \in Blank
  BY HereBegin
<1> HIDE DEF i
<1>4. Current.before \in Seq(Blank) /\ Current.text[1] \notin Blank
  BY <1>1, FrameFacts
<1>5. /\ \A k \in 1..Len(Current.before) : Encoded(Current)[k] = Current.before[k]
      /\ \A k \in 1..Len(Current.text) : Encoded(Current)[Len(Current.before) + k] = Current.text[k]
  BY <1>2, HeaderLayout
<1>6. \A k \in 1..Len(Current.before) : Current.before[k] \in Blank
  <2> DEFINE b == Current.before
  <2>1. b \in Seq(Blank)
    BY <1>4
  <2> HIDE DEF b
  <2>2. \A k \in 1..Len(b) : b[k] \in Blank
    BY <2>1
  <2>3. QED  BY <2>2 DEF b
<1> DEFINE lb == Len(Current.before)
           lt == Len(Current.text)
           l == Len(Encoded(Current))
<1>7. /\ lb \in Nat /\ lt \in Nat /\ lt >= 1 /\ Text = Start + lb /\ lb + 1 <= l /\ l \in Nat
  <2>1. /\ lt \in Nat \ {0} /\ lb \in Nat /\ Text = Start + lb /\ l = End - Start
        /\ End = Text + lt + (IF Current.kind = "header" THEN 4 ELSE 2)
    BY <1>2
  <2>2. Start \in Nat
    BY <1>1
  <2> HIDE DEF lb, lt, l
  <2>3. QED  BY <2>1, <2>2
<1>8. /\ \A k \in 1..lb : Encoded(Current)[k] \in Blank
      /\ Encoded(Current)[lb + 1] \notin Blank
  <2>1. /\ \A k \in 1..lb : Encoded(Current)[k] = Current.before[k] /\ Current.before[k] \in Blank
        /\ \A k \in 1..lt : Encoded(Current)[lb + k] = Current.text[k]
    BY <1>5, <1>6
  <2> HIDE DEF lb, lt
  <2>2. 1 \in 1..lt
    BY <1>7
  <2>3. QED  BY <1>4, <2>1, <2>2
<1>9. \A k \in 1..l : Stream[Start + k] = Encoded(Current)[k]
  BY <1>1
<1> HIDE DEF lb, lt, l
<1>10. ASSUME NEW k \in (Begin + 1)..Text PROVE Stream[k] \in Blank
  <2>1. CASE k <= Start
    BY <1>1, <1>3, <1>7, <2>1
  <2>2. CASE ~ (k <= Start)
    <3>1. k - Start \in 1..lb /\ k - Start \in 1..l /\ Start + (k - Start) = k
      BY <1>1, <1>3, <1>7, <2>2
    <3>2. QED  BY <1>8, <1>9, <3>1
  <2>3. QED  BY <2>1, <2>2
<1>11. Stream[Text + 1] \notin Blank
  <2>1. lb + 1 \in 1..l /\ Start + (lb + 1) = Text + 1
    BY <1>1, <1>7
  <2>2. QED  BY <1>8, <1>9, <2>1
<1>12. QED
  BY <1>10, <1>11

-----------------------------------------------------------------------------
(* The steps.                                                              *)

\* What is given up.
LEMMA GivenUp ==
  ASSUME IInv, Network', Buffer', Locals', conv' = conv, out' = out, Len(out) < Len(conv),
         closed => closed', pc' = "failed", closed' \/ badcut' \/ TooLong(Current), badcut' \/ Small'
  PROVE  IInv'
<1>1. OnlyFrames'
  BY SameFrames DEF IInv
<1>2. TooLong(Current)' = TooLong(Current)
  BY Same
<1>3. PlaceInv'
  BY <1>2, Zenon DEF PlaceInv
<1>4. QED
  BY <1>1, <1>3 DEF IInv, BufferInv

\* What is read on.
LEMMA ReadOn ==
  ASSUME IInv, Network', Buffer', Locals', conv' = conv, out' = out, Len(out) < Len(conv),
         closed => closed', pc' \in Places \ {"call", "done", "failed"},
         pc' \in {"find", "more", "crlf", "data", "recv", "return"} => Whole,
         pc' = "skip" => AtSkip', pc' = "find" => AtFind', pc' = "more" => AtMore',
         pc' = "crlf" => AtCRLF', pc' = "chunk" => AtChunk', pc' = "data" => AtData',
         pc' = "body" => AtBody', pc' = "recv" => AtRecv', pc' = "return" => AtReturn'
  PROVE  IInv'
<1>1. OnlyFrames'
  BY SameFrames DEF IInv
<1>2. Whole' = Whole
  BY Same
<1>3. pc' # "call" /\ pc' # "done" /\ pc' # "failed" /\ Len(out') < Len(conv')
  OBVIOUS
<1>4. PlaceInv'
  BY <1>2, <1>3, Zenon DEF PlaceInv
<1>5. QED
  BY <1>1, <1>4 DEF IInv, BufferInv

LEMMA Read ==
  ASSUME IInv, pc \in Places \ {"call", "done"}
  PROVE  BufferInv /\ Network /\ Buffer /\ Locals /\ Len(out) < Len(conv)
  BY DEF IInv, PlaceInv, BufferInv

LEMMA SkipBlanksKeeps ==
  ASSUME IInv, SkipBlanks
  PROVE  IInv'
<1>1. pc = "skip" /\ BufferInv /\ Locals /\ Len(out) < Len(conv) /\ AtSkip /\ IsHeader(Current)
  BY Read DEF SkipBlanks, IInv, PlaceInv, AtSkip, Places
<1>2. PICK p \in Received :
          /\ Recv(p)
          /\ received' = received + Len(p)
          /\ temp' = IF FirstNot(p, Blank) = 0 THEN <<>> ELSE SubSeq(p, FirstNot(p, Blank), Len(p))
          /\ IF FirstNot(p, Blank) = 0 /\ received' > MAXHTTPHEADERLENGTH
                THEN pc' = "failed" /\ RecvBuf' = p
                ELSE pc' = (IF FirstNot(p, Blank) = 0 THEN "skip" ELSE "find") /\ RecvBuf' = temp'
  BY DEF SkipBlanks
<1>3. UNCHANGED <<got, poscount, want, out>>
  BY DEF SkipBlanks
<1>4. conv' = conv /\ closed' = closed /\ Network' /\ ~ Torn
  BY <1>1, <1>2, WhatIsReceived
<1>5. PICK r \in Nat :
          /\ recvd' = r /\ Taken < r /\ r <= Len(Stream) /\ r - Taken <= MAXRECV
          /\ p \in Seq(Bytes) /\ p = Cut(Stream, Taken, r) /\ Len(p) = r - Taken
  BY <1>1, <1>2, WhatIsReceived
<1>6. Whole /\ Taken \in Begin..Text /\ received = Taken - Begin /\ got = <<>> /\ poscount = 0
  BY <1>1, <1>4 DEF AtSkip
<1>7. /\ Stream \in Seq(Bytes) /\ Len(Stream) \in Nat /\ Taken \in Nat /\ MAXRECV \in Nat
      /\ MAXHTTPHEADERLENGTH \in Nat
  BY <1>1, Everywhere
<1>8. Begin \in Nat /\ Begin <= Start /\ Start <= Begin + 2
  BY <1>1, HereBegin
<1>9. /\ Start \in Nat /\ End \in Nat /\ End <= Len(Stream)
  BY <1>1, Here
<1>10. /\ Text \in Nat /\ Start <= Text /\ Text + 3 <= End /\ Len(Encoded(Current)) = End - Start
  <2> DEFINE lt == Len(Current.text)
  <2>1. /\ Text \in Nat /\ Start <= Text /\ lt \in Nat \ {0} /\ Len(Encoded(Current)) = End - Start
        /\ End = Text + lt + (IF Current.kind = "header" THEN 4 ELSE 2)
    BY <1>1, HereHeader
  <2> HIDE DEF lt
  <2>2. Text + 3 <= End
    BY <2>1
  <2>3. QED  BY <2>1, <2>2
<1>11. (\A k \in (Begin + 1)..Text : Stream[k] \in Blank) /\ Stream[Text + 1] \notin Blank
  BY <1>1, HereBlanks
<1>12. \A k \in 1..(r - Taken) : p[k] = Stream[Taken + k]
  <2>1. r \in Taken..Len(Stream)
    BY <1>5, <1>7
  <2>2. QED  BY <1>5, <1>7, <2>1, CutIs
<1>13. r <= Text => FirstNot(p, Blank) = 0
  <2>1. ASSUME r <= Text, NEW k \in 1..Len(p) PROVE p[k] \in Blank
    <3>1. k \in 1..(r - Taken)
      BY <1>5
    <3>2. Taken + k \in (Begin + 1)..Text
      BY <1>5, <1>6, <1>7, <1>8, <1>10, <2>1, <3>1
    <3>3. QED  BY <1>11, <1>12, <3>1, <3>2
  <2>2. QED  BY <1>5, <2>1, FirstNotIs
<1>14. r > Text => FirstNot(p, Blank) = Text + 1 - Taken
  <2> DEFINE n == Text + 1 - Taken
  <2>1. ASSUME r > Text PROVE n \in 1..(r - Taken) /\ Taken + n = Text + 1
    BY <1>5, <1>6, <1>7, <1>8, <1>10, <2>1
  <2> HIDE DEF n
  <2>2. ASSUME r > Text, NEW k \in 1..(n - 1) PROVE p[k] \in Blank
    <3>1. k \in 1..(r - Taken) /\ Taken + k \in (Begin + 1)..Text
      BY <1>5, <1>6, <1>7, <1>8, <1>10, <2>1, <2>2
    <3>2. QED  BY <1>11, <1>12, <3>1
  <2>3. ASSUME r > Text PROVE p[n] \notin Blank
    BY <1>11, <1>12, <2>1, <2>3
  <2>4. r > Text => n \in 1..Len(p)
    BY <1>5, <2>1
  <2>5. r > Text => FirstNot(p, Blank) = n
    BY <1>5, <2>2, <2>3, <2>4, FirstNotIs
  <2>6. QED  BY <2>5 DEF n
<1>15. received' = r - Begin
  <2> DEFINE l == Len(p)
  <2>1. received' = received + l /\ l = r - Taken /\ received = Taken - Begin
    BY <1>2, <1>5, <1>6
  <2> HIDE DEF l
  <2>2. QED  BY <1>5, <1>6, <1>7, <1>8, <2>1
<1>16. received' \in Nat
  BY <1>5, <1>6, <1>7, <1>8, <1>15
<1>17. /\ Begin' = Begin /\ Text' = Text /\ End' = End /\ Current' = Current /\ Stream' = Stream
       /\ IsHeader(Current)' = IsHeader(Current) /\ Whole' = Whole
  BY <1>3, <1>4, Same
<1> DEFINE lb == Len(RecvBuf')
<1>18. CASE r <= Text /\ received' > MAXHTTPHEADERLENGTH
  <2>1. pc' = "failed" /\ RecvBuf' = p /\ temp' = <<>>
    BY <1>2, <1>13, <1>18
  <2>2. Buffer'
    BY <1>1, <1>2, <2>1, AllLeft
  <2>3. Locals'
    BY <1>1, <1>3, <1>4, <1>16, <2>1 DEF Locals, Places
  <2>4. TooLong(Current)
    <3> DEFINE l == Len(Encoded(Current))
    <3>1. l = End - Start
      BY <1>10
    <3> HIDE DEF l
    <3>2. l + MAXRECV + 2 > MAXHTTPHEADERLENGTH
      BY <1>7, <1>8, <1>9, <1>10, <1>15, <1>18, <3>1
    <3>3. QED  BY <1>1, <3>2 DEF TooLong, l
  <2>5. Small'
    <3>1. got' = <<>>
      BY <1>3, <1>6
    <3>2. Len(got') = 0
      BY <3>1
    <3>3. QED  BY <1>7, <3>2 DEF Small
  <2>6. QED
    BY <1>1, <1>3, <1>4, <2>1, <2>2, <2>3, <2>4, <2>5, GivenUp
<1>19. CASE r <= Text /\ ~ (received' > MAXHTTPHEADERLENGTH)
  <2>1. pc' = "skip" /\ RecvBuf' = <<>> /\ temp' = <<>>
    BY <1>2, <1>13, <1>19
  <2> DEFINE m == r - Taken
  <2>2. m \in Nat /\ m <= r - Taken /\ Taken <= r /\ Taken + m = r
    BY <1>5, <1>7
  <2>3. RecvBuf' = SubSeq(Cut(Stream, Taken, r), m + 1, Len(Cut(Stream, Taken, r)))
    <3>1. Len(p) = m
      BY <1>5
    <3>2. SubSeq(p, m + 1, m) = <<>>
      <4> HIDE DEF m
      <4>1. QED  BY <1>5, <2>2
    <3>3. QED  BY <1>5, <2>1, <3>1, <3>2
  <2> HIDE DEF m
  <2>4. Buffer' /\ Taken' = Taken + m
    BY <1>1, <1>4, <1>5, <2>2, <2>3, WhatIsLeft
  <2>5. Taken' = r
    BY <2>2, <2>4
  <2>6. Locals'
    BY <1>1, <1>3, <1>4, <1>16, <2>1 DEF Locals, Places
  <2>7. Taken' \in Begin'..Text' /\ received' = Taken' - Begin'
    BY <1>5, <1>6, <1>7, <1>8, <1>10, <1>15, <1>17, <1>19, <2>5
  <2>8. AtSkip'
    BY <1>1, <1>3, <1>6, <1>17, <2>7 DEF AtSkip
  <2>9. QED
    BY <1>1, <1>3, <1>4, <2>1, <2>4, <2>6, <2>8, ReadOn DEF Places
<1>20. CASE r > Text
  <2> DEFINE n == Text + 1 - Taken
             m == Text - Taken
  <2>1. n # 0 /\ FirstNot(p, Blank) = n /\ n = m + 1
    BY <1>6, <1>7, <1>10, <1>14, <1>20
  <2>2. pc' = "find" /\ temp' = SubSeq(p, n, Len(p)) /\ RecvBuf' = temp'
    <3> HIDE DEF n
    <3>1. QED  BY <1>2, <2>1
  <2>3. m \in Nat /\ m <= r - Taken /\ Taken <= r /\ Taken + m = Text
    BY <1>5, <1>6, <1>7, <1>8, <1>10, <1>20
  <2> HIDE DEF n, m
  <2>4. RecvBuf' = SubSeq(Cut(Stream, Taken, r), m + 1, Len(Cut(Stream, Taken, r)))
    BY <1>5, <2>1, <2>2
  <2>5. /\ Buffer' /\ Taken' = Taken + m /\ (RecvBuf' = <<>> <=> Taken' = r)
        /\ Len(RecvBuf') = r - Taken' /\ RecvBuf' = Cut(Stream, Taken', r) /\ RecvBuf' \in Seq(Bytes)
    BY <1>1, <1>4, <1>5, <2>3, <2>4, WhatIsLeft
  <2>6. Taken' = Text /\ RecvBuf' # <<>>
    BY <1>5, <1>10, <1>20, <2>3, <2>5
  <2>7. Locals'
    BY <1>1, <1>3, <1>4, <1>16, <2>2, <2>5 DEF Locals, Places
  <2>8. temp' = Piece(Text, recvd)' /\ got' = Piece(Text, Taken)'
    <3>1. Piece(Text, Text) = <<>>
      BY <1>10 DEF Piece, Cut
    <3>2. temp' = Cut(Stream, Text, r) /\ got' = Cut(Stream, Text, Text)
      BY <1>3, <1>6, <2>2, <2>5, <2>6, <3>1 DEF Piece
    <3>3. QED  BY <1>5, <1>17, <2>6, <3>2 DEF Piece
  <2>9. /\ Taken' \in Text'..(End' - 1) /\ poscount' = Taken' - Text'
        /\ poscount' <= received' /\ poscount' <= MAXHTTPHEADERLENGTH
        /\ ~ (Taken' = End' - 1)
    BY <1>3, <1>5, <1>6, <1>7, <1>8, <1>9, <1>10, <1>16, <1>17, <2>6
  <2>10. received' + Len(RecvBuf') <= recvd' - Begin' + MAXRECV
    <3>1. lb = r - Text /\ received' = r - Begin
      BY <1>15, <2>5, <2>6
    <3> HIDE DEF lb
    <3>2. received' + lb <= r - Begin + MAXRECV
      BY <1>5, <1>6, <1>7, <1>8, <1>10, <3>1
    <3>3. QED  BY <1>5, <1>17, <3>2 DEF lb
  <2>11. AtFind'
    BY <1>1, <1>17, <2>6, <2>8, <2>9, <2>10 DEF AtFind
  <2>12. QED
    BY <1>1, <1>3, <1>4, <1>6, <2>2, <2>5, <2>7, <2>11, ReadOn DEF Places
<1>21. QED
  <2>1. r <= Text \/ r > Text
    BY <1>5, <1>10
  <2>2. QED  BY <1>18, <1>19, <1>20, <2>1

\* What the steps of ReadHeader compare.
LEMMA HeaderPlaces ==
  ASSUME BufferInv, Len(out) < Len(conv), IsHeader(Current)
  PROVE  /\ Stream \in Seq(Bytes) /\ Len(Stream) \in Nat /\ Taken \in Nat /\ MAXRECV \in Nat
         /\ recvd \in Nat /\ recvd <= Len(Stream) /\ Taken <= recvd /\ Len(RecvBuf) = recvd - Taken
         /\ RecvBuf \in Seq(Bytes) /\ RecvBuf = Cut(Stream, Taken, recvd)
         /\ RecvBuf = <<>> <=> Taken = recvd
         /\ MAXHTTPHEADERLENGTH \in Nat /\ WORD \in Nat /\ Len(Stream) < WORD - 1
         /\ Begin \in Nat /\ Begin <= Start /\ Start <= Begin + 2
         /\ Start \in Nat /\ End \in Nat /\ End <= Len(Stream)
         /\ Text \in Nat /\ Start <= Text /\ Text + 3 <= End
         /\ Len(Encoded(Current)) = End - Start
         /\ Len(Current.text) = End - Text - (IF Current.kind = "header" THEN 4 ELSE 2)
<1>1. /\ Stream \in Seq(Bytes) /\ Len(Stream) \in Nat /\ Taken \in Nat /\ MAXRECV \in Nat
      /\ recvd \in Nat /\ recvd <= Len(Stream) /\ Taken <= recvd /\ Len(RecvBuf) = recvd - Taken
      /\ RecvBuf \in Seq(Bytes) /\ RecvBuf = Cut(Stream, Taken, recvd)
      /\ RecvBuf = <<>> <=> Taken = recvd
      /\ MAXHTTPHEADERLENGTH \in Nat /\ WORD \in Nat /\ Len(Stream) < WORD - 1
  BY Everywhere
<1>2. Begin \in Nat /\ Begin <= Start /\ Start <= Begin + 2
  BY HereBegin
<1>3. /\ Start \in Nat /\ End \in Nat /\ End <= Len(Stream)
  BY Here
<1> DEFINE lt == Len(Current.text)
<1>4. /\ Text \in Nat /\ Start <= Text /\ lt \in Nat \ {0} /\ Len(Encoded(Current)) = End - Start
      /\ End = Text + lt + (IF Current.kind = "header" THEN 4 ELSE 2)
  BY HereHeader
<1> HIDE DEF lt
<1>5. Text + 3 <= End /\ lt = End - Text - (IF Current.kind = "header" THEN 4 ELSE 2)
  BY <1>3, <1>4
<1>6. QED
  BY <1>1, <1>2, <1>3, <1>4, <1>5 DEF lt

LEMMA Quiet ==
  ASSUME BufferInv, UNCHANGED network
  PROVE  /\ conv' = conv /\ recvd' = recvd /\ closed' = closed /\ badcut' = badcut
         /\ Network'
<1>1. conv' = conv /\ recvd' = recvd /\ closed' = closed /\ badcut' = badcut
  BY DEF network
<1>2. Stream' = Stream /\ \A i \in DOMAIN conv : BadPlaces(i)' = BadPlaces(i)
  BY <1>1 DEF Stream, BadPlaces
<1>3. Network
  BY DEF BufferInv
<1>4. QED
  BY <1>1, <1>2, <1>3 DEF Network

LEMMA WhatIsKept ==
  ASSUME BufferInv, UNCHANGED network, NEW m \in Nat, m <= recvd - Taken, RecvBuf' = Erased(m)
  PROVE  /\ Buffer' /\ Taken' = Taken + m /\ (RecvBuf' = <<>> <=> Taken' = recvd)
         /\ RecvBuf' = Cut(Stream, Taken', recvd) /\ RecvBuf' \in Seq(Bytes)
         /\ Len(RecvBuf') = recvd - Taken'
<1>1. /\ RecvBuf = Cut(Stream, Taken, recvd) /\ recvd \in Nat /\ recvd <= Len(Stream)
      /\ Taken \in Nat /\ Taken <= recvd /\ Len(RecvBuf) = recvd - Taken
  BY Everywhere
<1>2. conv' = conv /\ recvd' = recvd
  BY Quiet
<1>3. recvd - Taken <= MAXRECV
  <2>1. Len(RecvBuf) <= MAXRECV
    BY DEF BufferInv, Buffer
  <2>2. QED  BY <1>1, <2>1
<1>4. RecvBuf' = SubSeq(Cut(Stream, Taken, recvd), m + 1, Len(Cut(Stream, Taken, recvd)))
  BY <1>1, Zenon DEF Erased
<1>5. QED
  BY <1>1, <1>2, <1>3, <1>4, WhatIsLeft

\* The end of a header is found when it is there, and not before.
LEMMA EndFound ==
  ASSUME BufferInv, Len(out) < Len(conv), AtFind
  PROVE  IF recvd < End THEN Position = 0
         ELSE Position = Len(Current.text) + 1 /\ (WrongHeader <=> Current.kind = "wrongheader")
<1> DEFINE i == Len(out) + 1
<1>1. IsHeader(Current) /\ temp = Piece(Text, recvd) /\ Taken \in Text..(End - 1)
  BY DEF AtFind
<1>2. /\ IsConversation(conv) /\ i \in 1..Len(conv) /\ Current = conv[i]
      /\ Start = Len(Sent(conv, i - 1)) /\ End = Len(Sent(conv, i))
  BY Here DEF Current
<1>3. recvd \in Nat /\ recvd <= Len(Stream) /\ Taken <= recvd /\ Taken \in Nat /\ Text \in Nat /\ End \in Nat
  BY <1>1, HeaderPlaces
<1>4. Text <= recvd
  BY <1>1, <1>3
<1>5. Text = Len(Sent(conv, i - 1)) + Len(conv[i].before)
  BY <1>2, Zenon DEF Text
<1> HIDE DEF i
<1> DEFINE s == Cut(Sent(conv, Len(conv)), Len(Sent(conv, i - 1)) + Len(conv[i].before), recvd)
<1>6. IF recvd < Len(Sent(conv, i))
        THEN Find(s, EmptyLine) = 0 /\ Find(s, WrongEmptyLine) = 0
      ELSE IF conv[i].kind = "header"
        THEN Find(s, EmptyLine) = Len(conv[i].text) + 1
      ELSE Find(s, EmptyLine) = 0 /\ Find(s, WrongEmptyLine) = Len(conv[i].text) + 1
  <2>1. IsHeader(conv[i])
    BY <1>1, <1>2, Zenon
  <2>2. recvd <= Len(Sent(conv, Len(conv)))
    BY <1>3, Zenon DEF Stream
  <2>3. Len(Sent(conv, i - 1)) + Len(conv[i].before) <= recvd
    BY <1>4, <1>5, Zenon
  <2>4. IsConversation(conv) /\ i \in 1..Len(conv) /\ recvd \in Nat
    BY <1>2, <1>3, Zenon
  <2>5. QED  BY <2>1, <2>2, <2>3, <2>4, HeaderFound, Zenon
<1>7. s = temp /\ Len(Sent(conv, i)) = End /\ conv[i] = Current
  BY <1>1, <1>2, <1>5, Zenon DEF Piece, Stream
<1> HIDE DEF s
<1>8. IF recvd < End
        THEN Find(temp, EmptyLine) = 0 /\ Find(temp, WrongEmptyLine) = 0
      ELSE IF Current.kind = "header"
        THEN Find(temp, EmptyLine) = Len(Current.text) + 1
      ELSE Find(temp, EmptyLine) = 0 /\ Find(temp, WrongEmptyLine) = Len(Current.text) + 1
  BY <1>6, <1>7, Zenon
<1>9. Current.kind \in {"header", "wrongheader"}
  BY <1>1 DEF IsHeader
<1>10. Len(Current.text) + 1 # 0
  <2> DEFINE lt == Len(Current.text)
  <2>1. lt \in Nat
    BY <1>1, HereHeader
  <2> HIDE DEF lt
  <2>2. lt + 1 # 0
    BY <2>1
  <2>3. QED  BY <2>2 DEF lt
<1>11. CASE recvd < End
  BY <1>8, <1>11, Zenon DEF Position
<1>12. CASE ~ (recvd < End) /\ Current.kind = "header"
  <2>1. Find(temp, EmptyLine) = Len(Current.text) + 1
    BY <1>8, <1>12, Zenon
  <2>2. Position = Len(Current.text) + 1 /\ ~ WrongHeader
    BY <1>10, <2>1, Zenon DEF Position, WrongHeader
  <2>3. "header" # "wrongheader"
    OBVIOUS
  <2>4. QED  BY <1>12, <2>2, <2>3, Zenon
<1>13. CASE ~ (recvd < End) /\ Current.kind = "wrongheader"
  <2>1. Find(temp, EmptyLine) = 0 /\ Find(temp, WrongEmptyLine) = Len(Current.text) + 1
    BY <1>8, <1>13
  <2>2. QED  BY <1>13, <2>1, Zenon DEF Position, WrongHeader
<1>14. QED
  BY <1>9, <1>11, <1>12, <1>13

LEMMA NotFoundKeeps ==
  ASSUME IInv, NotFound
  PROVE  IInv'
<1>1. pc = "find" /\ BufferInv /\ Locals /\ Len(out) < Len(conv) /\ AtFind /\ IsHeader(Current) /\ Whole
  BY Read DEF NotFound, IInv, PlaceInv, AtFind, Places
<1>2. /\ Position = 0 /\ got' = got \o RecvBuf /\ RecvBuf' = Erased(Len(RecvBuf))
      /\ poscount' = poscount + Len(RecvBuf) /\ received' = received + Len(RecvBuf)
      /\ pc' = IF received' > MAXHTTPHEADERLENGTH THEN "failed" ELSE "more"
      /\ UNCHANGED <<network, temp, want, out>>
  BY DEF NotFound, Counted
<1>3. conv' = conv /\ recvd' = recvd /\ closed' = closed /\ badcut' = badcut /\ Network'
  BY <1>1, <1>2, Quiet
<1>4. /\ Stream \in Seq(Bytes) /\ Len(Stream) \in Nat /\ Taken \in Nat /\ MAXRECV \in Nat
      /\ recvd \in Nat /\ recvd <= Len(Stream) /\ Taken <= recvd /\ Len(RecvBuf) = recvd - Taken
      /\ RecvBuf \in Seq(Bytes) /\ RecvBuf = Cut(Stream, Taken, recvd)
      /\ MAXHTTPHEADERLENGTH \in Nat /\ Begin \in Nat /\ Begin <= Start /\ Start <= Begin + 2
      /\ RecvBuf = <<>> <=> Taken = recvd
      /\ Start \in Nat /\ End \in Nat /\ Text \in Nat /\ Start <= Text /\ Text + 3 <= End
      /\ End <= Len(Stream) /\ Len(Encoded(Current)) = End - Start
  BY <1>1, HeaderPlaces
<1>5. /\ Taken \in Text..(End - 1) /\ RecvBuf # <<>> /\ temp = Piece(Text, recvd)
      /\ got = Piece(Text, Taken) /\ poscount = Taken - Text /\ poscount <= received
      /\ poscount <= MAXHTTPHEADERLENGTH /\ poscount \in Nat /\ received \in Nat
      /\ received + Len(RecvBuf) <= recvd - Begin + MAXRECV
  BY <1>1 DEF AtFind, Locals
<1>6. recvd < End
  <2>1. ~ (recvd < End) => Position = Len(Current.text) + 1
    BY <1>1, EndFound, Zenon
  <2> DEFINE lt == Len(Current.text)
  <2>2. lt \in Nat
    BY <1>1, HereHeader
  <2> HIDE DEF lt
  <2>3. lt + 1 # 0
    BY <2>2
  <2>4. QED  BY <1>2, <2>1, <2>3, Zenon DEF lt
<1> DEFINE m == Len(RecvBuf)
<1>7. m = recvd - Taken /\ m <= MAXRECV
  BY <1>1, <1>4 DEF BufferInv, Buffer
<1>8. m \in Nat /\ m <= recvd - Taken /\ Taken + m = recvd
  <2>1. m = recvd - Taken
    BY <1>7
  <2> HIDE DEF m
  <2>2. QED  BY <1>4, <2>1
<1>9. RecvBuf' = Erased(m) /\ UNCHANGED network
  BY <1>2
<1>10. /\ poscount' = poscount + m /\ received' = received + m
       /\ received + m <= recvd - Begin + MAXRECV
  BY <1>2, <1>5
<1> HIDE DEF m
<1>11. /\ Buffer' /\ Taken' = recvd /\ RecvBuf' = <<>>
  <2>1. /\ Buffer' /\ Taken' = Taken + m /\ (RecvBuf' = <<>> <=> Taken' = recvd)
    BY <1>1, <1>8, <1>9, WhatIsKept
  <2>2. QED  BY <1>8, <2>1
<1>12. got' = Cut(Stream, Text, recvd) /\ got' \in Seq(Bytes) /\ Len(got') = recvd - Text
  <2>1. Taken \in Text..Len(Stream) /\ recvd \in Taken..Len(Stream) /\ recvd \in Text..Len(Stream)
    BY <1>4, <1>5, <1>6
  <2>2. Cut(Stream, Text, Taken) \o Cut(Stream, Taken, recvd) = Cut(Stream, Text, recvd)
    BY <1>4, <2>1, CutJoin
  <2>3. got' = Cut(Stream, Text, recvd)
    BY <1>2, <1>4, <1>5, <2>2, Zenon DEF Piece
  <2>4. Cut(Stream, Text, recvd) \in Seq(Bytes) /\ Len(Cut(Stream, Text, recvd)) = recvd - Text
    BY <1>4, <2>1, CutIs
  <2>5. QED  BY <2>3, <2>4, Zenon
<1>13. /\ recvd \in (Text + 1)..(End - 1) /\ poscount' = recvd - Text
       /\ poscount' \in Nat /\ received' \in Nat /\ poscount' <= received'
       /\ received' <= recvd - Begin + MAXRECV /\ recvd - Text <= MAXHTTPHEADERLENGTH + MAXRECV
  BY <1>4, <1>5, <1>6, <1>7, <1>8, <1>10
<1>14. pc' \in {"failed", "more"} /\ Locals'
  BY <1>1, <1>2, <1>3, <1>12, <1>13 DEF Locals, Places
<1>15. /\ Begin' = Begin /\ Text' = Text /\ End' = End /\ Current' = Current /\ Stream' = Stream
       /\ IsHeader(Current)' = IsHeader(Current)
  BY <1>2, <1>3, Same
<1>16. CASE received' > MAXHTTPHEADERLENGTH
  <2>1. pc' = "failed"
    BY <1>2, <1>16
  <2>2. TooLong(Current)
    <3> DEFINE l == Len(Encoded(Current))
    <3>1. l = End - Start
      BY <1>4
    <3> HIDE DEF l
    <3>2. l + MAXRECV + 2 > MAXHTTPHEADERLENGTH
      BY <1>4, <1>6, <1>13, <1>16, <3>1
    <3>3. QED  BY <1>1, <3>2 DEF TooLong, l
  <2>3. Small'
    BY <1>12, <1>13 DEF Small
  <2>4. QED
    BY <1>1, <1>2, <1>3, <1>11, <1>14, <2>1, <2>2, <2>3, GivenUp
<1>17. CASE ~ (received' > MAXHTTPHEADERLENGTH)
  <2>1. pc' = "more"
    BY <1>2, <1>17
  <2>2. received' <= MAXHTTPHEADERLENGTH
    BY <1>4, <1>13, <1>17
  <2>3. temp' = Piece(Text, recvd)' /\ got' = temp'
    BY <1>2, <1>3, <1>5, <1>12, <1>15 DEF Piece
  <2>4. AtMore'
    BY <1>1, <1>3, <1>11, <1>13, <1>15, <2>2, <2>3 DEF AtMore
  <2>5. QED
    BY <1>1, <1>2, <1>3, <1>11, <1>14, <2>1, <2>4, ReadOn DEF Places
<1>18. QED
  BY <1>16, <1>17

LEMMA MoreKeeps ==
  ASSUME IInv, More
  PROVE  IInv'
<1>1. pc = "more" /\ BufferInv /\ Locals /\ Len(out) < Len(conv) /\ AtMore /\ IsHeader(Current) /\ Whole
  BY Read DEF More, IInv, PlaceInv, AtMore, Places
<1>2. PICK p \in Arriving : Arrives(p) /\ temp' = temp \o p /\ RecvBuf' = RecvBuf \o p
  BY DEF More
<1>3. pc' = "find" /\ UNCHANGED <<got, poscount, received, want, out>>
  BY DEF More
<1>4. /\ RecvBuf = <<>> /\ recvd \in (Text + 1)..(End - 1)
      /\ temp = Piece(Text, recvd) /\ got = temp /\ poscount = recvd - Text
      /\ poscount <= received /\ received <= MAXHTTPHEADERLENGTH
      /\ received <= recvd - Begin + MAXRECV /\ received \in Nat /\ poscount \in Nat
  BY <1>1 DEF AtMore, Locals
<1>5. p \in Received /\ Recv(p)
  BY <1>2, <1>4 DEF Received, Recv
<1>6. conv' = conv /\ closed' = closed /\ Network' /\ (badcut => badcut')
  BY <1>1, <1>5, WhatIsReceived
<1>7. /\ Stream \in Seq(Bytes) /\ Len(Stream) \in Nat /\ Taken \in Nat /\ MAXRECV \in Nat
      /\ recvd \in Nat /\ (RecvBuf = <<>> <=> Taken = recvd)
      /\ MAXHTTPHEADERLENGTH \in Nat /\ Begin \in Nat
      /\ Start \in Nat /\ End \in Nat /\ Text \in Nat /\ Start <= Text /\ Text + 3 <= End
      /\ Begin <= Start
  BY <1>1, HeaderPlaces
<1>8. Taken = recvd
  BY <1>4, <1>7
<1>9. PICK r \in Nat :
          /\ recvd' = r /\ recvd < r /\ r <= Len(Stream) /\ p \in Seq(Bytes) /\ p = Cut(Stream, recvd, r)
  BY <1>1, <1>5, <1>8, WhatIsReceived
<1>10. RecvBuf' = p
  <2>1. <<>> \o p = p
    BY <1>9, ConcatEmptySeq
  <2>2. QED  BY <1>2, <1>4, <2>1
<1>11. Buffer' /\ Taken' = recvd /\ RecvBuf' # <<>>
  BY <1>1, <1>5, <1>8, <1>10, AllLeft
<1>12. RecvBuf' \in Seq(Bytes) /\ Len(RecvBuf') = r - recvd
  <2>1. r \in recvd..Len(Stream)
    BY <1>7, <1>9
  <2>2. QED  BY <1>7, <1>9, <1>10, <2>1, CutIs
<1>13. temp' = Cut(Stream, Text, r) /\ temp' \in Seq(Bytes)
  <2>1. recvd \in Text..Len(Stream) /\ r \in recvd..Len(Stream) /\ r \in Text..Len(Stream)
    BY <1>4, <1>7, <1>9
  <2>2. Cut(Stream, Text, recvd) \o Cut(Stream, recvd, r) = Cut(Stream, Text, r)
    BY <1>7, <2>1, CutJoin
  <2>3. Cut(Stream, Text, r) \in Seq(Bytes)
    BY <1>7, <2>1, CutIs
  <2>4. temp' = Cut(Stream, Text, r)
    BY <1>2, <1>4, <1>9, <2>2, Zenon DEF Piece
  <2>5. QED  BY <2>3, <2>4
<1>14. Locals'
  BY <1>1, <1>3, <1>6, <1>13 DEF Locals, Places
<1>15. /\ Begin' = Begin /\ Text' = Text /\ End' = End /\ Current' = Current /\ Stream' = Stream
       /\ IsHeader(Current)' = IsHeader(Current)
  BY <1>3, <1>6, Same
<1>16. temp' = Piece(Text, recvd)' /\ got' = Piece(Text, Taken)'
  BY <1>3, <1>4, <1>9, <1>11, <1>13, <1>15 DEF Piece
<1>17. (Current.kind = "header" /\ recvd = End - 1) => badcut'
  <2>1. ASSUME Current.kind = "header", recvd = End - 1 PROVE badcut
    <3>1. \E i \in DOMAIN conv : recvd \in BadPlaces(i)
      BY <1>1, <2>1, HereBad
    <3>2. QED  BY <1>1, <3>1 DEF BufferInv, Network
  <2>2. QED  BY <1>6, <2>1
<1>18. /\ Taken' \in Text'..(End' - 1) /\ poscount' = Taken' - Text'
       /\ poscount' <= received' /\ poscount' <= MAXHTTPHEADERLENGTH
  BY <1>3, <1>4, <1>7, <1>11, <1>15
<1>19. received' + Len(RecvBuf') <= recvd' - Begin' + MAXRECV
  <2> DEFINE lb == Len(RecvBuf')
  <2>1. lb = r - recvd
    BY <1>12
  <2> HIDE DEF lb
  <2>2. received + lb <= r - Begin + MAXRECV
    BY <1>4, <1>7, <1>9, <2>1
  <2>3. QED  BY <1>3, <1>9, <1>15, <2>2 DEF lb
<1>20. AtFind'
  BY <1>1, <1>11, <1>15, <1>16, <1>17, <1>18, <1>19 DEF AtFind
<1>21. QED
  BY <1>1, <1>3, <1>6, <1>11, <1>14, <1>20, ReadOn DEF Places

\* RecvLength() takes what is asked for from what is buffered, or all of it.
LEMMA TakesAll ==
  ASSUME BufferInv, UNCHANGED network, NEW n \in Nat, NEW keep, NEW then,
         RecvLength(n, keep, then), recvd - Taken < n
  PROVE  /\ Buffer' /\ Taken' = recvd /\ RecvBuf' = <<>> /\ pc' = "recv"
         /\ want' = [n |-> n - (recvd - Taken), keep |-> keep, then |-> then]
         /\ got' = IF keep THEN got \o Cut(Stream, Taken, recvd) ELSE got
<1>1. /\ RecvBuf = Cut(Stream, Taken, recvd) /\ RecvBuf \in Seq(Bytes) /\ Len(RecvBuf) = recvd - Taken
      /\ Taken \in Nat /\ Taken <= recvd /\ recvd \in Nat /\ Len(RecvBuf) \in Nat
  BY Everywhere
<1> DEFINE l == Len(RecvBuf)
           m == Min({n, l})
<1>2. l = recvd - Taken /\ l \in Nat
  BY <1>1
<1>3. m = IF n <= l THEN n ELSE l
  <2> HIDE DEF l
  <2>1. QED  BY <1>2, MinIs
<1>4. /\ got' = IF keep THEN got \o SubSeq(RecvBuf, 1, m) ELSE got
      /\ RecvBuf' = Erased(m)
      /\ IF n <= l
            THEN pc' = then /\ want' = Nothing
            ELSE pc' = "recv" /\ want' = [n |-> n - m, keep |-> keep, then |-> then]
  BY DEF RecvLength
<1>5. SubSeq(RecvBuf, 1, l) = RecvBuf
  BY <1>1, SubSeqFull
<1> HIDE DEF l, m
<1>6. m = l /\ ~ (n <= l) /\ m = recvd - Taken /\ m \in Nat /\ m <= recvd - Taken /\ Taken + m = recvd
  BY <1>1, <1>2, <1>3
<1>7. Buffer' /\ Taken' = Taken + m /\ (RecvBuf' = <<>> <=> Taken' = recvd)
  BY <1>4, <1>6, WhatIsKept
<1>8. pc' = "recv" /\ want' = [n |-> n - (recvd - Taken), keep |-> keep, then |-> then]
  BY <1>4, <1>6
<1>9. got' = IF keep THEN got \o Cut(Stream, Taken, recvd) ELSE got
  BY <1>1, <1>4, <1>5, <1>6, Zenon
<1>10. QED
  BY <1>6, <1>7, <1>8, <1>9

LEMMA TakesSome ==
  ASSUME BufferInv, UNCHANGED network, NEW n \in Nat, NEW keep, NEW then,
         RecvLength(n, keep, then), n <= recvd - Taken
  PROVE  /\ Buffer' /\ Taken' = Taken + n /\ pc' = then /\ want' = Nothing
         /\ Len(RecvBuf') = recvd - Taken'
         /\ got' = IF keep THEN got \o Cut(Stream, Taken, Taken + n) ELSE got
<1>1. /\ RecvBuf = Cut(Stream, Taken, recvd) /\ RecvBuf \in Seq(Bytes) /\ Len(RecvBuf) = recvd - Taken
      /\ Taken \in Nat /\ Taken <= recvd /\ recvd \in Nat /\ Len(RecvBuf) \in Nat
      /\ Stream \in Seq(Bytes) /\ recvd <= Len(Stream) /\ Len(Stream) \in Nat
  BY Everywhere
<1> DEFINE l == Len(RecvBuf)
           m == Min({n, l})
<1>2. l = recvd - Taken /\ l \in Nat
  BY <1>1
<1>3. m = IF n <= l THEN n ELSE l
  <2> HIDE DEF l
  <2>1. QED  BY <1>2, MinIs
<1>4. /\ got' = IF keep THEN got \o SubSeq(RecvBuf, 1, m) ELSE got
      /\ RecvBuf' = Erased(m)
      /\ IF n <= l
            THEN pc' = then /\ want' = Nothing
            ELSE pc' = "recv" /\ want' = [n |-> n - m, keep |-> keep, then |-> then]
  BY DEF RecvLength
<1> HIDE DEF l, m
<1>5. m = n /\ n <= l
  BY <1>1, <1>2, <1>3
<1>6. Buffer' /\ Taken' = Taken + n /\ Len(RecvBuf') = recvd - Taken'
  BY <1>4, <1>5, WhatIsKept
<1>7. SubSeq(RecvBuf, 1, n) = Cut(Stream, Taken, Taken + n)
  <2> DEFINE z == 0
  <2>1. z \in Nat /\ n \in z..(recvd - Taken) /\ recvd \in Taken..Len(Stream) /\ z + 1 = 1 /\ Taken + z = Taken
    BY <1>1
  <2> HIDE DEF z
  <2>2. SubSeq(Cut(Stream, Taken, recvd), z + 1, n) = Cut(Stream, Taken + z, Taken + n)
    <3>1. Stream \in Seq(Bytes) /\ Taken \in Nat
      BY <1>1
    <3>2. QED  BY <2>1, <3>1, CutOfCut, ZenonT(60)
  <2>3. QED  BY <1>1, <2>1, <2>2, Zenon
<1>8. QED
  BY <1>4, <1>5, <1>6, <1>7

LEMMA InWord ==
  ASSUME NEW w \in Nat \ {0}, NEW a \in Nat, a < w
  PROVE  a % w = a /\ (-1) % w = w - 1
  BY Z3

LEMMA FindEndKeeps ==
  ASSUME IInv, FindEnd
  PROVE  IInv'
<1>1. pc = "find" /\ BufferInv /\ Locals /\ Len(out) < Len(conv) /\ AtFind /\ IsHeader(Current) /\ Whole
  BY Read DEF FindEnd, IInv, PlaceInv, AtFind, Places
<1>2. /\ Position # 0 /\ RecvLength(LastPart, TRUE, IF WrongHeader THEN "return" ELSE "crlf")
      /\ UNCHANGED <<network, temp, poscount, received, out>>
  BY DEF FindEnd
<1>3. conv' = conv /\ recvd' = recvd /\ closed' = closed /\ badcut' = badcut /\ Network'
  BY <1>1, <1>2, Quiet
<1>4. /\ Stream \in Seq(Bytes) /\ Len(Stream) \in Nat /\ Taken \in Nat /\ MAXRECV \in Nat
      /\ recvd \in Nat /\ recvd <= Len(Stream) /\ Taken <= recvd
      /\ MAXHTTPHEADERLENGTH \in Nat /\ WORD \in Nat /\ Len(Stream) < WORD - 1
      /\ Start \in Nat /\ End \in Nat /\ Text \in Nat /\ Text + 3 <= End /\ End <= Len(Stream)
  BY <1>1, HeaderPlaces
<1>5. /\ Taken \in Text..(End - 1) /\ got = Piece(Text, Taken) /\ poscount = Taken - Text
      /\ poscount <= MAXHTTPHEADERLENGTH
      /\ (Current.kind = "header" /\ Taken = End - 1) => badcut
  BY <1>1 DEF AtFind, Locals
<1>6. Current.kind \in {"header", "wrongheader"}
  BY <1>1 DEF IsHeader
<1> DEFINE lt == Len(Current.text)
<1>7. lt = End - Text - (IF Current.kind = "header" THEN 4 ELSE 2)
  BY <1>1, HeaderPlaces
<1>8. recvd >= End /\ Position = lt + 1 /\ (WrongHeader <=> Current.kind = "wrongheader")
  <2>1. recvd < End => Position = 0
    BY <1>1, EndFound, Zenon
  <2>2. ~ (recvd < End)
    BY <1>2, <2>1
  <2>3. Position = lt + 1 /\ (WrongHeader <=> Current.kind = "wrongheader")
    BY <1>1, <2>2, EndFound, Zenon
  <2> HIDE DEF lt
  <2>4. QED  BY <1>4, <2>2, <2>3
<1> HIDE DEF lt
<1> DEFINE last == IF Current.kind = "header" THEN End - 2 ELSE End
           n == LastPart
<1>9. n = (last - Taken) % WORD
  <2>1. Position - 1 - poscount + 2 = last - Taken
    BY <1>4, <1>5, <1>7, <1>8
  <2>2. QED  BY <2>1 DEF LastPart
<1>10. /\ Begin' = Begin /\ Text' = Text /\ End' = End /\ Current' = Current /\ Stream' = Stream
       /\ IsHeader(Current)' = IsHeader(Current) /\ Contents(Current)' = Contents(Current)
       /\ Owed(Current)' = Owed(Current)
  BY <1>2, <1>3, Same
<1>11. Contents(Current) = Cut(Stream, Text, last) /\ Owed(Current) = 0
  BY <1>1, HereContents, HereHeader DEF Piece
<1>12. /\ last \in Nat /\ last <= End /\ Text <= last /\ WORD \in Nat \ {0} /\ last <= Len(Stream)
       /\ last = IF Current.kind = "header" THEN End - 2 ELSE End
  BY <1>4
<1> HIDE DEF last
<1>13. CASE Taken <= last
  <2>1. last - Taken \in Nat /\ last - Taken < WORD /\ last - Taken <= recvd - Taken
        /\ Taken + (last - Taken) = last
    BY <1>4, <1>8, <1>12, <1>13
  <2>2. n = last - Taken
    BY <1>9, <1>12, <2>1, InWord
  <2> HIDE DEF n
  <2>3. n \in Nat /\ n <= recvd - Taken /\ Taken + n = last
    BY <2>1, <2>2
  <2>4. RecvLength(n, TRUE, IF WrongHeader THEN "return" ELSE "crlf") /\ UNCHANGED network
    BY <1>2 DEF n
  <2>5. /\ Buffer' /\ Taken' = Taken + n /\ pc' = (IF WrongHeader THEN "return" ELSE "crlf")
        /\ want' = Nothing /\ Len(RecvBuf') = recvd - Taken'
        /\ got' = got \o Cut(Stream, Taken, Taken + n)
    BY <1>1, <2>3, <2>4, TakesSome
  <2>6. got' = Cut(Stream, Text, last) /\ got' \in Seq(Bytes) /\ Len(got') = last - Text
    <3>1. Taken \in Text..Len(Stream) /\ last \in Taken..Len(Stream) /\ last \in Text..Len(Stream)
      BY <1>4, <1>5, <1>12, <1>13
    <3>2. Cut(Stream, Text, Taken) \o Cut(Stream, Taken, last) = Cut(Stream, Text, last)
      BY <1>4, <3>1, CutJoin
    <3>3. got' = Cut(Stream, Text, last)
      BY <1>5, <2>3, <2>5, <3>2, Zenon DEF Piece
    <3>4. Cut(Stream, Text, last) \in Seq(Bytes) /\ Len(Cut(Stream, Text, last)) = last - Text
      BY <1>4, <3>1, CutIs
    <3>5. QED  BY <3>3, <3>4, Zenon
  <2>7. last - Text <= MAXHTTPHEADERLENGTH + MAXRECV
    <3>1. Len(RecvBuf) = recvd - Taken /\ Len(RecvBuf) <= MAXRECV
      BY <1>1, Everywhere DEF BufferInv, Buffer
    <3>2. recvd - Taken <= MAXRECV
      BY <3>1
    <3>3. QED  BY <1>4, <1>5, <1>12, <2>1, <3>2
  <2>8. Small'
    BY <2>6, <2>7 DEF Small
  <2>9. Nothing \in [n : 0..(WORD - 1), keep : BOOLEAN, then : Places]
    <3>1. 0 \in 0..(WORD - 1)
      BY <1>4, <1>12
    <3>2. QED  BY <3>1 DEF Nothing, Places
  <2>10. Locals'
    BY <1>1, <1>2, <1>3, <2>5, <2>6, <2>9 DEF Locals, Places
  <2>11. CASE WrongHeader
    <3>1. pc' = "return" /\ Taken' = End
      BY <1>6, <1>8, <1>12, <2>3, <2>5, <2>11
    <3>2. got' = Contents(Current)
      BY <1>11, <2>6
    <3>3. Taken' = End' - Owed(Current)'
      BY <1>4, <1>10, <1>11, <3>1
    <3>4. AtReturn'
      BY <1>10, <2>8, <3>2, <3>3 DEF AtReturn
    <3>5. QED
      BY <1>1, <1>2, <1>3, <2>5, <2>10, <3>1, <3>4, ReadOn DEF Places
  <2>12. CASE ~ WrongHeader
    <3>1. pc' = "crlf" /\ Taken' = End - 2 /\ Current.kind = "header"
      BY <1>6, <1>8, <1>12, <2>3, <2>5, <2>12
    <3>2. got' = Contents(Current)
      BY <1>11, <2>6
    <3>3. Len(RecvBuf') >= 2
      <4> DEFINE lb == Len(RecvBuf')
      <4>1. lb = recvd - Taken'
        BY <2>5
      <4> HIDE DEF lb
      <4>2. lb >= 2
        BY <1>4, <1>8, <3>1, <4>1
      <4>3. QED  BY <4>2 DEF lb
    <3>4. AtCRLF'
      BY <1>10, <2>8, <3>1, <3>2, <3>3 DEF AtCRLF
    <3>5. QED
      BY <1>1, <1>2, <1>3, <2>5, <2>10, <3>1, <3>4, ReadOn DEF Places
  <2>13. QED  BY <2>11, <2>12
<1>14. CASE ~ (Taken <= last)
  <2>1. Current.kind = "header" /\ Taken = End - 1 /\ last - Taken = -1
    BY <1>4, <1>5, <1>6, <1>12, <1>14
  <2>2. n = WORD - 1
    <3>1. 0 \in Nat /\ 0 < WORD
      BY <1>12
    <3>2. (-1) % WORD = WORD - 1
      BY <1>12, <3>1, InWord
    <3>3. QED  BY <1>9, <2>1, <3>2
  <2> HIDE DEF n
  <2>3. n \in Nat /\ recvd - Taken < n /\ badcut /\ ~ WrongHeader
    BY <1>4, <1>5, <1>8, <1>12, <2>1, <2>2
  <2>4. RecvLength(n, TRUE, IF WrongHeader THEN "return" ELSE "crlf") /\ UNCHANGED network
    BY <1>2 DEF n
  <2>5. /\ Buffer' /\ Taken' = recvd /\ RecvBuf' = <<>> /\ pc' = "recv"
        /\ want' = [n |-> n - (recvd - Taken), keep |-> TRUE,
                    then |-> IF WrongHeader THEN "return" ELSE "crlf"]
        /\ got' = got \o Cut(Stream, Taken, recvd)
    BY <1>1, <2>3, <2>4, TakesAll
  <2>6. n - (recvd - Taken) \in 0..(WORD - 1) /\ n - (recvd - Taken) > Len(Stream) - recvd
    BY <1>4, <2>2, <2>3
  <2>7. want' \in [n : 0..(WORD - 1), keep : BOOLEAN, then : Places]
    BY <2>3, <2>5, <2>6 DEF Places
  <2>8. got' \in Seq(Bytes)
    <3>1. got \in Seq(Bytes)
      BY <1>1 DEF Locals
    <3>2. Cut(Stream, Taken, recvd) \in Seq(Bytes)
      <4>1. recvd \in Taken..Len(Stream)
        BY <1>4
      <4>2. QED  BY <1>4, <4>1, CutIs
    <3>3. got \o Cut(Stream, Taken, recvd) \in Seq(Bytes)
      BY <3>1, <3>2, Joined
    <3>4. QED  BY <2>5, <3>3
  <2>9. Locals'
    BY <1>1, <1>2, <1>3, <2>5, <2>7, <2>8 DEF Locals, Places
  <2>10. want.n' > Len(Stream') - recvd'
    BY <1>3, <1>10, <2>5, <2>6
  <2>11. AtRecv'
    BY <1>1, <1>3, <1>10, <2>3, <2>5, <2>10 DEF AtRecv
  <2>12. QED
    BY <1>1, <1>2, <1>3, <2>5, <2>9, <2>11, ReadOn DEF Places
<1>15. QED
  BY <1>13, <1>14

LEMMA LastCRLFKeeps ==
  ASSUME IInv, LastCRLF
  PROVE  IInv'
<1>1. pc = "crlf" /\ BufferInv /\ Locals /\ Len(out) < Len(conv) /\ AtCRLF /\ IsHeader(Current) /\ Whole
  BY Read DEF LastCRLF, IInv, PlaceInv, AtCRLF, Places, IsHeader
<1>2. RecvLength(2, FALSE, "return") /\ UNCHANGED <<network, temp, poscount, received, out>>
  BY DEF LastCRLF
<1>3. conv' = conv /\ recvd' = recvd /\ closed' = closed /\ badcut' = badcut /\ Network'
  BY <1>1, <1>2, Quiet
<1>4. got = Contents(Current) /\ Small /\ Taken = End - 2 /\ Len(RecvBuf) >= 2
  BY <1>1 DEF AtCRLF
<1>5. Taken \in Nat /\ recvd \in Nat /\ Len(RecvBuf) = recvd - Taken /\ End \in Nat /\ Owed(Current) = 0
      /\ WORD \in Nat /\ Len(Stream) < WORD - 1 /\ Len(Stream) \in Nat
  BY <1>1, HeaderPlaces, HereHeader
<1> DEFINE n == 2
<1>6. n \in Nat /\ n <= recvd - Taken /\ Taken + n = End
  <2>1. recvd - Taken >= 2
    BY <1>4, <1>5
  <2>2. QED  BY <1>4, <1>5, <2>1
<1>7. RecvLength(n, FALSE, "return") /\ UNCHANGED network
  BY <1>2
<1> HIDE DEF n
<1>8. Buffer' /\ Taken' = Taken + n /\ pc' = "return" /\ want' = Nothing /\ got' = got
  BY <1>1, <1>6, <1>7, TakesSome
<1>9. /\ Current' = Current /\ End' = End /\ Owed(Current)' = Owed(Current)
      /\ IsHeader(Current)' = IsHeader(Current) /\ Contents(Current)' = Contents(Current)
  BY <1>2, <1>3, Same
<1>10. Nothing \in [n : 0..(WORD - 1), keep : BOOLEAN, then : Places]
  <2>1. 0 \in 0..(WORD - 1)
    BY <1>5
  <2>2. QED  BY <2>1 DEF Nothing, Places
<1>11. Locals'
  BY <1>1, <1>2, <1>3, <1>8, <1>10 DEF Locals, Places
<1>12. Small'
  BY <1>4, <1>8, <1>9 DEF Small
<1>13. Taken' = End' - Owed(Current)'
  BY <1>5, <1>6, <1>8, <1>9
<1>14. AtReturn'
  BY <1>4, <1>8, <1>9, <1>12, <1>13 DEF AtReturn
<1>15. QED
  BY <1>1, <1>2, <1>3, <1>8, <1>11, <1>14, ReadOn DEF Places

-----------------------------------------------------------------------------
(* Chunks.                                                                 *)

\* What the steps of ReadBodyPart compare.
LEMMA ChunkPlaces ==
  ASSUME BufferInv, Len(out) < Len(conv), Current.kind \in {"chunk", "last"}
  PROVE  /\ Stream \in Seq(Bytes) /\ Len(Stream) \in Nat /\ Taken \in Nat
         /\ recvd \in Nat /\ recvd <= Len(Stream) /\ Taken <= recvd
         /\ RecvBuf = <<>> <=> Taken = recvd
         /\ WORD \in Nat /\ Len(Stream) < WORD - 1
         /\ Start \in Nat /\ Line \in Nat /\ End \in Nat /\ Start + 3 <= Line /\ End <= Len(Stream)
         /\ Len(Current.text) = End - 2 - Line /\ End - 2 - Line \in 0..3
         /\ Current.kind = "chunk" <=> Line # End - 2
         /\ Contents(Current) = Cut(Stream, Line, End - 2) /\ Owed(Current) = 2
<1>1. /\ Stream \in Seq(Bytes) /\ Len(Stream) \in Nat /\ Taken \in Nat
      /\ recvd \in Nat /\ recvd <= Len(Stream) /\ Taken <= recvd
      /\ RecvBuf = <<>> <=> Taken = recvd
      /\ WORD \in Nat /\ Len(Stream) < WORD - 1
  BY Everywhere
<1>2. Start \in Nat /\ End \in Nat /\ End <= Len(Stream)
  BY Here
<1> DEFINE lt == Len(Current.text)
<1>3. /\ Line \in Nat /\ Start + 3 <= Line /\ lt \in 0..3 /\ End = Line + lt + 2
      /\ Current.kind = "chunk" <=> lt # 0
      /\ Contents(Current) = Piece(Line, Line + lt) /\ Owed(Current) = 2
  BY HereChunk
<1> HIDE DEF lt
<1>4. lt = End - 2 - Line /\ Line + lt = End - 2
  BY <1>2, <1>3
<1>5. Current.kind = "chunk" <=> Line # End - 2
  BY <1>2, <1>3, <1>4
<1>6. QED
  BY <1>1, <1>2, <1>3, <1>4, <1>5 DEF lt, Piece

LEMMA NothingIs ==
  ASSUME BufferInv
  PROVE  Nothing \in [n : 0..(WORD - 1), keep : BOOLEAN, then : Places]
<1>1. WORD \in Nat /\ Len(Stream) \in Nat /\ Len(Stream) < WORD - 1
  BY Everywhere
<1>2. 0 \in 0..(WORD - 1)
  BY <1>1
<1>3. QED
  BY <1>2 DEF Nothing, Places

LEMMA NothingWanted ==
  ASSUME BufferInv, NEW n \in Nat, n < WORD
  PROVE  /\ [Nothing EXCEPT !.n = n] \in [n : 0..(WORD - 1), keep : BOOLEAN, then : Places]
         /\ [Nothing EXCEPT !.n = n].n = n
<1>1. WORD \in Nat
  BY Everywhere
<1>2. n \in 0..(WORD - 1)
  BY <1>1
<1>3. Nothing \in [n : 0..(WORD - 1), keep : BOOLEAN, then : Places]
  BY NothingIs
<1>4. QED
  BY <1>2, <1>3

LEMMA NotHeader ==
  ASSUME BufferInv, Len(out) < Len(conv), Current.kind \in {"chunk", "last", "body"},
         conv' = conv, out' = out
  PROVE  Small'
<1>1. ~ IsHeader(Current) /\ IsHeader(Current)' = IsHeader(Current)
  BY Same DEF IsHeader
<1>2. QED
  BY <1>1 DEF Small

LEMMA DataKeeps ==
  ASSUME IInv, Data
  PROVE  IInv'
<1>1. /\ pc = "data" /\ BufferInv /\ Locals /\ Len(out) < Len(conv) /\ AtData /\ Whole
      /\ Current.kind = "chunk"
  BY Read DEF Data, IInv, PlaceInv, AtData, Places
<1>2. RecvLength(want.n, TRUE, "return") /\ UNCHANGED <<network, temp, poscount, received, out>>
  BY DEF Data
<1>3. conv' = conv /\ recvd' = recvd /\ closed' = closed /\ badcut' = badcut /\ Network'
  BY <1>1, <1>2, Quiet
<1>4. got = <<>> /\ want.n = Len(Current.text) /\ Taken = Line
  BY <1>1 DEF AtData
<1>5. /\ Stream \in Seq(Bytes) /\ Len(Stream) \in Nat /\ Taken \in Nat
      /\ recvd \in Nat /\ recvd <= Len(Stream) /\ Taken <= recvd
      /\ WORD \in Nat /\ Len(Stream) < WORD - 1
      /\ Line \in Nat /\ End \in Nat /\ End <= Len(Stream)
      /\ Len(Current.text) = End - 2 - Line /\ End - 2 - Line \in 0..3
      /\ Contents(Current) = Cut(Stream, Line, End - 2) /\ Owed(Current) = 2
  BY <1>1, ChunkPlaces
<1> DEFINE n == End - 2 - Line
<1>6. n \in Nat /\ Line + n = End - 2 /\ n < WORD
  BY <1>5
<1>7. RecvLength(n, TRUE, "return") /\ UNCHANGED network
  BY <1>2, <1>4, <1>5
<1> HIDE DEF n
<1>8. /\ Current' = Current /\ End' = End /\ Owed(Current)' = Owed(Current) /\ Line' = Line
      /\ Contents(Current)' = Contents(Current) /\ Stream' = Stream
  BY <1>2, <1>3, Same
<1>9. Small'
  BY <1>1, <1>2, <1>3, NotHeader
<1>10. \A to \in Line..Len(Stream) : Cut(Stream, Line, to) \in Seq(Bytes) /\ <<>> \o Cut(Stream, Line, to) = Cut(Stream, Line, to)
  <2>1. TAKE to \in Line..Len(Stream)
  <2>2. Cut(Stream, Line, to) \in Seq(Bytes)
    BY <1>5, CutIs
  <2>3. QED  BY <2>2, ConcatEmptySeq
<1>11. CASE n <= recvd - Taken
  <2>1. /\ Buffer' /\ Taken' = Taken + n /\ pc' = "return" /\ want' = Nothing
        /\ got' = got \o Cut(Stream, Taken, Taken + n)
    BY <1>1, <1>6, <1>7, <1>11, TakesSome
  <2>2. Taken' = End - 2
    BY <1>4, <1>6, <2>1
  <2>3. got' = Cut(Stream, Line, End - 2) /\ got' \in Seq(Bytes)
    <3>1. End - 2 \in Line..Len(Stream)
      BY <1>5, <1>6
    <3>2. got' = <<>> \o Cut(Stream, Line, End - 2)
      BY <1>4, <1>6, <2>1, Zenon
    <3>3. QED  BY <1>10, <3>1, <3>2
  <2>4. Locals'
    BY <1>1, <1>2, <1>3, <2>1, <2>3, NothingIs DEF Locals, Places
  <2>5. Taken' = End' - Owed(Current)' /\ got' = Contents(Current)'
    BY <1>5, <1>8, <2>2, <2>3
  <2>6. AtReturn'
    BY <1>9, <2>5 DEF AtReturn
  <2>7. QED
    BY <1>1, <1>2, <1>3, <2>1, <2>4, <2>6, ReadOn DEF Places
<1>12. CASE ~ (n <= recvd - Taken)
  <2>1. recvd - Taken < n /\ recvd \in Line..Len(Stream)
    BY <1>4, <1>5, <1>6, <1>12
  <2>2. /\ Buffer' /\ Taken' = recvd /\ RecvBuf' = <<>> /\ pc' = "recv"
        /\ want' = [n |-> n - (recvd - Taken), keep |-> TRUE, then |-> "return"]
        /\ got' = got \o Cut(Stream, Taken, recvd)
    BY <1>1, <1>6, <1>7, <2>1, TakesAll
  <2>3. got' = Cut(Stream, Line, recvd) /\ got' \in Seq(Bytes)
    <3>1. got' = <<>> \o Cut(Stream, Line, recvd)
      BY <1>4, <2>2, Zenon
    <3>2. QED  BY <1>10, <2>1, <3>1
  <2>4. /\ n - (recvd - Taken) \in 0..(WORD - 1) /\ n - (recvd - Taken) > 0
        /\ n - (recvd - Taken) = End - 2 - recvd
    BY <1>4, <1>5, <1>6, <2>1
  <2>5. want' \in [n : 0..(WORD - 1), keep : BOOLEAN, then : Places]
    BY <2>2, <2>4 DEF Places
  <2>6. Locals'
    BY <1>1, <1>2, <1>3, <2>2, <2>3, <2>5 DEF Locals, Places
  <2>7. Line + Len(Current.text) - recvd = End - 2 - recvd
    <3> DEFINE lt == Len(Current.text)
    <3>1. lt = End - 2 - Line
      BY <1>5
    <3> HIDE DEF lt
    <3>2. Line + lt - recvd = End - 2 - recvd
      BY <1>5, <3>1
    <3>3. QED  BY <3>2 DEF lt
  <2>8. want.n' = (Line + Len(Current.text) - recvd)' /\ want.n' > 0 /\ want.keep' /\ want.then' = "return"
    BY <1>3, <1>8, <2>2, <2>4, <2>7
  <2>9. got' = Piece(Line, recvd)' /\ recvd' >= Line'
    BY <1>3, <1>4, <1>5, <1>8, <2>3 DEF Piece
  <2>10. AtRecv'
    BY <1>1, <1>8, <2>2, <2>8, <2>9 DEF AtRecv
  <2>11. QED
    BY <1>1, <1>2, <1>3, <2>2, <2>6, <2>10, ReadOn DEF Places
<1>13. QED
  BY <1>11, <1>12

\* What a recv() of RecvLength() returns, after m bytes of it were taken.
LEMMA Arrived ==
  ASSUME BufferInv, RecvBuf = <<>>, NEW p \in Arriving, Arrives(p), NEW m \in Nat, m <= Len(p),
         RecvBuf' = RecvBuf \o SubSeq(p, m + 1, Len(p))
  PROVE  /\ Buffer' /\ Taken' = recvd + m /\ (RecvBuf' = <<>> <=> Taken' = recvd')
         /\ SubSeq(p, 1, m) = Cut(Stream, recvd, recvd + m)
<1>1. PICK r \in Nat : /\ recvd' = r /\ recvd < r /\ r <= Len(Stream) /\ r <= recvd + MAXRECV
                       /\ p \in Seq(Bytes) /\ p = Cut(Stream, recvd, r) /\ Len(p) = r - recvd
  BY NextBytes
<1>2. conv' = conv
  BY NextBytes
<1>3. /\ Taken = recvd /\ recvd \in Nat /\ Stream \in Seq(Bytes) /\ MAXRECV \in Nat /\ Len(Stream) \in Nat
  BY Everywhere
<1>4. m <= r - recvd /\ r - recvd \in Nat /\ r - recvd <= MAXRECV /\ recvd <= r /\ r \in recvd..Len(Stream)
  <2> DEFINE l == Len(p)
  <2>1. m <= l /\ l = r - recvd
    BY <1>1
  <2> HIDE DEF l
  <2>2. QED  BY <1>1, <1>3, <2>1
<1>5. RecvBuf' = SubSeq(Cut(Stream, recvd, r), m + 1, Len(Cut(Stream, recvd, r)))
  <2>1. SubSeq(p, m + 1, Len(p)) \in Seq(Bytes)
    <3> DEFINE d == r - recvd
    <3>1. d \in Nat /\ m <= d /\ Len(p) = d /\ p \in Seq(Bytes)
      BY <1>1, <1>4
    <3> HIDE DEF d
    <3>2. \A k \in (m + 1)..d : k \in 1..d
      BY <3>1
    <3>3. SubSeq(p, m + 1, d) \in Seq(Bytes)
      BY <3>1, <3>2
    <3>4. QED  BY <3>1, <3>3
  <2>2. <<>> \o SubSeq(p, m + 1, Len(p)) = SubSeq(p, m + 1, Len(p))
    BY <2>1, ConcatEmptySeq
  <2>3. RecvBuf' = SubSeq(p, m + 1, Len(p))
    BY <2>2, Zenon
  <2>4. QED  BY <1>1, <2>3, Zenon
<1>6. Buffer' /\ Taken' = recvd + m /\ (RecvBuf' = <<>> <=> Taken' = r)
  BY <1>1, <1>2, <1>3, <1>4, <1>5, WhatIsLeft
<1>7. SubSeq(p, 1, m) = Cut(Stream, recvd, recvd + m)
  <2> DEFINE z == 0
  <2>1. z \in Nat /\ m \in z..(r - recvd) /\ z + 1 = 1 /\ recvd + z = recvd
    BY <1>3, <1>4
  <2>2. Stream \in Seq(Bytes) /\ recvd \in Nat /\ r \in recvd..Len(Stream)
    BY <1>3, <1>4
  <2> HIDE DEF z
  <2>3. SubSeq(Cut(Stream, recvd, r), z + 1, m) = Cut(Stream, recvd + z, recvd + m)
    <3>1. z \in Nat /\ m \in z..(r - recvd)
      BY <2>1
    <3>2. QED  BY <2>2, <3>1, CutOfCut
  <2>4. QED  BY <1>1, <2>1, <2>3, Zenon
<1>8. QED
  BY <1>1, <1>6, <1>7

LEMMA RecvMoreKeeps ==
  ASSUME IInv, RecvMore
  PROVE  IInv'
<1>1. pc = "recv" /\ BufferInv /\ Locals /\ Len(out) < Len(conv) /\ AtRecv /\ Whole
  BY Read DEF RecvMore, IInv, PlaceInv, Places
<1>2. PICK p \in Arriving :
          /\ Arrives(p)
          /\ got' = IF want.keep THEN got \o SubSeq(p, 1, Min({want.n, Len(p)})) ELSE got
          /\ RecvBuf' = RecvBuf \o SubSeq(p, Min({want.n, Len(p)}) + 1, Len(p))
          /\ IF want.n <= Len(p)
                THEN pc' = want.then /\ want' = Nothing
                ELSE pc' = pc /\ want' = [want EXCEPT !.n = @ - Min({want.n, Len(p)})]
  BY DEF RecvMore
<1>3. UNCHANGED <<temp, poscount, received, out>>
  BY DEF RecvMore
<1>4. conv' = conv /\ closed' = closed /\ Network' /\ (badcut => badcut')
  BY <1>1, <1>2, NextBytes
<1>5. PICK r \in Nat : /\ recvd' = r /\ recvd < r /\ r <= Len(Stream)
                       /\ p \in Seq(Bytes) /\ p = Cut(Stream, recvd, r) /\ Len(p) = r - recvd
  BY <1>1, <1>2, NextBytes
<1>6. /\ RecvBuf = <<>> /\ got \in Seq(Bytes)
      /\ want \in [n : 0..(WORD - 1), keep : BOOLEAN, then : Places]
  BY <1>1 DEF AtRecv, Locals
<1>7. recvd \in Nat /\ Stream \in Seq(Bytes) /\ Len(Stream) \in Nat /\ WORD \in Nat /\ Len(Stream) < WORD - 1
      /\ Taken = recvd
  BY <1>1, <1>6, Everywhere
<1> DEFINE w == want.n
           l == Len(p)
           m == Min({w, l})
<1>8. w \in 0..(WORD - 1) /\ w \in Nat /\ l \in Nat /\ l = r - recvd
  <2>1. want.n \in 0..(WORD - 1)
    BY <1>6
  <2>2. l = r - recvd
    BY <1>5
  <2> HIDE DEF l
  <2>3. QED  BY <1>5, <1>7, <2>1, <2>2
<1>9. m = IF w <= l THEN w ELSE l
  <2> HIDE DEF w, l
  <2>1. QED  BY <1>8, MinIs
<1>m. m \in Nat /\ m <= l
  <2> HIDE DEF w, l, m
  <2>1. QED  BY <1>8, <1>9
<1>10. /\ Buffer' /\ Taken' = recvd + m /\ (RecvBuf' = <<>> <=> Taken' = recvd')
       /\ SubSeq(p, 1, m) = Cut(Stream, recvd, recvd + m)
  <2>1. RecvBuf' = RecvBuf \o SubSeq(p, m + 1, Len(p))
    BY <1>2
  <2> HIDE DEF m
  <2>2. m <= Len(p)
    BY <1>m
  <2>3. QED  BY <1>1, <1>2, <1>6, <1>m, <2>1, <2>2, Arrived
<1>11. /\ got' = IF want.keep THEN got \o SubSeq(p, 1, m) ELSE got
       /\ IF w <= l
             THEN pc' = want.then /\ want' = Nothing
             ELSE pc' = pc /\ want' = [want EXCEPT !.n = @ - m]
  BY <1>2
<1>12. \A to \in recvd..Len(Stream) : Cut(Stream, recvd, to) \in Seq(Bytes)
  BY <1>7, CutIs
<1>13. recvd + m \in recvd..Len(Stream)
  <2> HIDE DEF m, l, w
  <2>1. QED  BY <1>5, <1>7, <1>8, <1>m
<1>14. got' \in Seq(Bytes)
  <2>1. Cut(Stream, recvd, recvd + m) \in Seq(Bytes)
    BY <1>12, <1>13
  <2>2. got \o Cut(Stream, recvd, recvd + m) \in Seq(Bytes)
    BY <1>6, <2>1, Joined
  <2>3. QED  BY <1>6, <1>10, <1>11, <2>2
<1> HIDE DEF m, l, w
<1>15. want' \in [n : 0..(WORD - 1), keep : BOOLEAN, then : Places]
  <2>1. CASE w <= l
    BY <1>1, <1>11, <2>1, NothingIs
  <2>2. CASE ~ (w <= l)
    <3>1. w - m \in 0..(WORD - 1)
      BY <1>7, <1>8, <1>9, <1>m, <2>2
    <3>2. want' = [want EXCEPT !.n = w - m]
      BY <1>11, <2>2 DEF w
    <3>3. QED  BY <1>6, <3>1, <3>2
  <2>3. QED  BY <2>1, <2>2
<1>16. pc' \in Places
  <2>1. want.then \in Places /\ pc \in Places
    BY <1>1, <1>6 DEF Locals
  <2>2. QED  BY <1>11, <2>1
<1>17. Locals'
  BY <1>1, <1>3, <1>4, <1>14, <1>15, <1>16 DEF Locals
<1>18. /\ Current' = Current /\ End' = End /\ Owed(Current)' = Owed(Current) /\ Line' = Line
       /\ Contents(Current)' = Contents(Current) /\ Stream' = Stream
       /\ IsHeader(Current)' = IsHeader(Current)
  BY <1>3, <1>4, Same
<1>19. CASE Current.kind = "chunk" /\ want.keep /\ want.then = "return"
            /\ recvd >= Line /\ got = Piece(Line, recvd)
            /\ want.n = Line + Len(Current.text) - recvd /\ want.n > 0
  <2>1. /\ Line \in Nat /\ End \in Nat /\ End <= Len(Stream) /\ End - 2 - Line \in 0..3
        /\ Contents(Current) = Cut(Stream, Line, End - 2) /\ Owed(Current) = 2
    BY <1>1, <1>19, ChunkPlaces
  <2>2. w = End - 2 - recvd /\ w > 0 /\ recvd >= Line
    <3> DEFINE lt == Len(Current.text)
    <3>1. lt = End - 2 - Line
      BY <1>1, <1>19, ChunkPlaces
    <3>2. w = Line + lt - recvd /\ w > 0 /\ recvd >= Line
      BY <1>19 DEF w
    <3> HIDE DEF lt
    <3>3. QED  BY <1>7, <2>1, <3>1, <3>2
  <2>3. got' = Cut(Stream, Line, recvd + m)
    <3>1. recvd \in Line..Len(Stream) /\ recvd + m \in recvd..Len(Stream)
      BY <1>5, <1>7, <1>13, <2>2
    <3>2. Cut(Stream, Line, recvd) \o Cut(Stream, recvd, recvd + m) = Cut(Stream, Line, recvd + m)
      <4> DEFINE to == recvd + m
      <4>1. to \in recvd..Len(Stream)
        BY <3>1
      <4>2. Stream \in Seq(Bytes) /\ Line \in Nat
        BY <1>7, <2>1
      <4> HIDE DEF to
      <4>3. Cut(Stream, Line, recvd) \o Cut(Stream, recvd, to) = Cut(Stream, Line, to)
        BY <3>1, <4>1, <4>2, CutJoin
      <4>4. QED  BY <4>3 DEF to
    <3>3. got' = got \o Cut(Stream, recvd, recvd + m)
      BY <1>10, <1>11, <1>19
    <3>4. QED  BY <1>19, <3>2, <3>3, Zenon DEF Piece
  <2>4. CASE w <= l
    <3>1. pc' = "return" /\ recvd + m = End - 2
      BY <1>7, <1>8, <1>9, <1>11, <1>19, <2>1, <2>2, <2>4
    <3>2. Taken' = End' - Owed(Current)' /\ got' = Contents(Current)'
      BY <1>10, <1>18, <2>1, <2>3, <3>1
    <3>3. Small'
      BY <1>1, <1>3, <1>4, <1>19, NotHeader
    <3>4. AtReturn'
      BY <3>2, <3>3 DEF AtReturn
    <3>5. QED
      BY <1>1, <1>3, <1>4, <1>10, <1>17, <3>1, <3>4, ReadOn DEF Places
  <2>5. CASE ~ (w <= l)
    <3>1. pc' = "recv" /\ m = l /\ recvd + m = r
      BY <1>1, <1>5, <1>7, <1>8, <1>9, <1>11, <2>5
    <3>2. want.n' = w - m /\ want.keep' = want.keep /\ want.then' = want.then
      BY <1>6, <1>11, <2>5 DEF w
    <3>3. w - m = End - 2 - r /\ w - m > 0 /\ r >= Line
      BY <1>5, <1>7, <1>8, <2>1, <2>2, <2>5, <3>1
    <3>4. (Line + Len(Current.text) - recvd)' = End - 2 - r
      <4> DEFINE lt == Len(Current.text)
      <4>1. lt = End - 2 - Line
        BY <1>1, <1>19, ChunkPlaces
      <4> HIDE DEF lt
      <4>2. Line + lt - r = End - 2 - r
        BY <2>1, <4>1
      <4>3. QED  BY <1>5, <1>18, <4>2 DEF lt
    <3>5. RecvBuf' = <<>>
      BY <1>5, <1>10, <3>1
    <3>6. got' = Piece(Line, recvd)'
      BY <1>5, <1>18, <2>3, <3>1 DEF Piece
    <3>7. AtRecv'
      BY <1>5, <1>18, <1>19, <3>2, <3>3, <3>4, <3>5, <3>6 DEF AtRecv
    <3>8. QED
      BY <1>1, <1>3, <1>4, <1>10, <1>17, <3>1, <3>7, ReadOn DEF Places
  <2>6. QED  BY <2>4, <2>5
<1>20. CASE IsHeader(Current) /\ badcut /\ want.n > Len(Stream) - recvd
  <2>1. w > Len(Stream) - recvd
    BY <1>20 DEF w
  <2>2. ~ (w <= l)
    BY <1>5, <1>7, <1>8, <2>1
  <2>3. pc' = "recv" /\ m = l /\ recvd + m = r /\ w - m > Len(Stream) - r
    BY <1>1, <1>5, <1>7, <1>8, <1>9, <1>11, <2>1, <2>2, SMTT(30)
  <2>4. want.n' = w - m
    BY <1>6, <1>11, <2>2 DEF w
  <2>5. RecvBuf' = <<>>
    BY <1>5, <1>10, <2>3
  <2>6. AtRecv'
    BY <1>4, <1>5, <1>18, <1>20, <2>3, <2>4, <2>5 DEF AtRecv
  <2>7. QED
    BY <1>1, <1>3, <1>4, <1>10, <1>17, <2>3, <2>6, ReadOn DEF Places
<1>21. QED
  BY <1>1, <1>19, <1>20 DEF AtRecv

LEMMA BodyKeeps ==
  ASSUME IInv, Body
  PROVE  IInv'
<1>1. pc = "body" /\ BufferInv /\ Locals /\ Len(out) < Len(conv) /\ AtBody /\ Current.kind = "body"
  BY Read DEF Body, IInv, PlaceInv, AtBody, Places
<1>2. PICK p \in Received : Recv(p) /\ got' = got \o p
  BY DEF Body
<1>3. /\ RecvBuf' = <<>>
      /\ pc' = IF Len(got') >= Len(Current.text) THEN "return" ELSE "body"
      /\ UNCHANGED <<temp, poscount, received, want, out>>
  BY DEF Body, Current
<1>4. conv' = conv /\ closed' = closed /\ Network' /\ ~ Torn
  BY <1>1, <1>2, WhatIsReceived
<1>5. PICK r \in Nat :
          /\ recvd' = r /\ Taken < r /\ r <= Len(Stream) /\ r - Taken <= MAXRECV
          /\ p \in Seq(Bytes) /\ p = Cut(Stream, Taken, r) /\ Len(p) = r - Taken
  BY <1>1, <1>2, WhatIsReceived
<1>6. Whole /\ Taken \in Start..(End - 1) /\ got = Piece(Start, Taken)
  BY <1>1, <1>4 DEF AtBody
<1>7. Stream \in Seq(Bytes) /\ Len(Stream) \in Nat /\ Taken \in Nat
  BY <1>1, Everywhere
<1>8. Start \in Nat /\ End \in Nat
  BY <1>1, Here
<1>9. /\ End = Len(Stream) /\ Contents(Current) = Piece(Start, End) /\ Owed(Current) = 0
  BY <1>1, HereBody
<1>10. Len(Current.text) = End - Start
  <2> DEFINE lt == Len(Current.text)
  <2>1. lt \in Nat /\ End = Start + lt
    BY <1>1, HereBody
  <2> HIDE DEF lt
  <2>2. lt = End - Start
    BY <1>8, <2>1
  <2>3. QED  BY <2>2 DEF lt
<1> DEFINE m == r - Taken
<1>11. m \in Nat /\ m <= r - Taken /\ Taken <= r /\ Taken + m = r
  BY <1>5, <1>7
<1>12. RecvBuf' = SubSeq(Cut(Stream, Taken, r), m + 1, Len(Cut(Stream, Taken, r)))
  <2>1. Len(p) = m
    BY <1>5
  <2>2. SubSeq(p, m + 1, m) = <<>>
    <3> HIDE DEF m
    <3>1. QED  BY <1>5, <1>11
  <2>3. QED  BY <1>3, <1>5, <2>1, <2>2
<1> HIDE DEF m
<1>13. Buffer' /\ Taken' = r
  <2>1. Buffer' /\ Taken' = Taken + m
    BY <1>1, <1>4, <1>5, <1>11, <1>12, WhatIsLeft
  <2>2. QED  BY <1>11, <2>1
<1>14. got' = Cut(Stream, Start, r) /\ got' \in Seq(Bytes) /\ Len(got') = r - Start
  <2>1. Taken \in Start..Len(Stream) /\ r \in Taken..Len(Stream) /\ r \in Start..Len(Stream)
    BY <1>5, <1>6, <1>7, <1>8, <1>9
  <2>2. Cut(Stream, Start, Taken) \o Cut(Stream, Taken, r) = Cut(Stream, Start, r)
    BY <1>7, <1>8, <2>1, CutJoin
  <2>3. got' = Cut(Stream, Start, r)
    BY <1>2, <1>5, <1>6, <2>2, Zenon DEF Piece
  <2>4. Cut(Stream, Start, r) \in Seq(Bytes) /\ Len(Cut(Stream, Start, r)) = r - Start
    BY <1>7, <1>8, <2>1, CutIs
  <2>5. QED  BY <2>3, <2>4, Zenon
<1>15. pc' \in {"return", "body"} /\ Locals'
  BY <1>1, <1>3, <1>4, <1>14 DEF Locals, Places
<1>16. /\ Current' = Current /\ Start' = Start /\ End' = End /\ Owed(Current)' = Owed(Current)
       /\ Contents(Current)' = Contents(Current) /\ Stream' = Stream /\ Whole' = Whole
  BY <1>3, <1>4, Same
<1>17. pc' = IF r >= End THEN "return" ELSE "body"
  <2> DEFINE lg == Len(got')
             lt == Len(Current.text)
  <2>1. pc' = (IF lg >= lt THEN "return" ELSE "body") /\ lg = r - Start /\ lt = End - Start
    BY <1>3, <1>10, <1>14
  <2> HIDE DEF lg, lt
  <2>2. lg >= lt <=> r >= End
    BY <1>5, <1>8, <2>1
  <2>3. QED  BY <2>1, <2>2
<1>18. CASE r >= End
  <2>1. pc' = "return" /\ r = End
    BY <1>5, <1>8, <1>9, <1>17, <1>18
  <2>2. Taken' = End' - Owed(Current)' /\ got' = Contents(Current)'
    BY <1>8, <1>9, <1>13, <1>14, <1>16, <2>1 DEF Piece
  <2>3. Small'
    BY <1>1, <1>3, <1>4, NotHeader
  <2>4. AtReturn'
    BY <2>2, <2>3 DEF AtReturn
  <2>5. QED
    BY <1>1, <1>3, <1>4, <1>6, <1>13, <1>15, <2>1, <2>4, ReadOn DEF Places
<1>19. CASE ~ (r >= End)
  <2>1. pc' = "body" /\ r \in Start..(End - 1)
    BY <1>5, <1>6, <1>7, <1>8, <1>17, <1>19
  <2>2. AtBody'
    BY <1>1, <1>5, <1>6, <1>13, <1>14, <1>16, <2>1 DEF AtBody, Piece
  <2>3. QED
    BY <1>1, <1>3, <1>4, <1>13, <1>15, <2>1, <2>2, ReadOn DEF Places
<1>20. QED
  BY <1>18, <1>19

LEMMA SizeOf ==
  ASSUME BufferInv, Len(out) < Len(conv), Current.kind \in {"chunk", "last"},
         NEW r \in Nat, Start < r, r <= Len(Stream)
  PROVE  /\ Len(Current.before) \in Nat
         /\ r < Line => NoCRLF(Cut(Stream, Start, r)) /\ Cut(Stream, Start, r)[1] # "lf"
         /\ r >= Line => /\ Find(Cut(Stream, Start, r), CRLF) = Line - Start - 1
                         /\ FirstNot(Cut(Stream, Start, r), Hex) - 1 = Len(Current.before) + 1
                         /\ Number(Cut(Stream, Start, r), Len(Current.before) + 1) = Len(Current.text)
<1> DEFINE i == Len(out) + 1
<1>1. /\ IsConversation(conv) /\ i \in 1..Len(conv) /\ Current = conv[i]
      /\ Start = Len(Sent(conv, i - 1))
  BY Here DEF Current
<1>2. Start \in Nat
  BY Here
<1> DEFINE ls == Len(SizeLine(Current))
<1>3. Line = Start + ls /\ ls \in Nat
  BY HereChunk
<1> HIDE DEF i
<1> DEFINE s == Cut(Sent(conv, Len(conv)), Len(Sent(conv, i - 1)), r)
           ln == Len(Sent(conv, i - 1)) + Len(SizeLine(conv[i]))
<1>4. /\ Len(SizeLine(conv[i])) \in Nat /\ Len(conv[i].before) \in Nat /\ Len(conv[i].text) \in 0..3
      /\ r < ln => NoCRLF(s) /\ s[1] # "lf"
      /\ r >= ln => /\ Find(s, CRLF) = Len(SizeLine(conv[i])) - 1
                    /\ Len(SizeLine(conv[i])) - 1 > 1
                    /\ FirstNot(s, Hex) - 1 = Len(conv[i].before) + 1
                    /\ Number(s, Len(conv[i].before) + 1) = Len(conv[i].text)
  <2>1. conv[i].kind \in {"chunk", "last"}
    BY <1>1, Zenon
  <2>2. r <= Len(Sent(conv, Len(conv)))
    BY Zenon DEF Stream
  <2>3. Len(Sent(conv, i - 1)) < r
    BY <1>1, Zenon
  <2>4. IsConversation(conv) /\ i \in 1..Len(conv) /\ r \in Nat
    BY <1>1, Zenon
  <2>5. QED  BY <2>1, <2>2, <2>3, <2>4, SizeFound, Zenon
<1>5. s = Cut(Stream, Start, r) /\ ln = Line /\ conv[i] = Current
  BY <1>1, <1>3, Zenon DEF Stream
<1> HIDE DEF s, ln
<1>6. /\ Len(Current.before) \in Nat
      /\ r < Line => NoCRLF(s) /\ s[1] # "lf"
      /\ r >= Line => /\ Find(s, CRLF) = ls - 1
                      /\ FirstNot(s, Hex) - 1 = Len(Current.before) + 1
                      /\ Number(s, Len(Current.before) + 1) = Len(Current.text)
  BY <1>4, <1>5, Zenon
<1> HIDE DEF ls
<1>7. ls - 1 = Line - Start - 1
  BY <1>2, <1>3
<1>8. QED
  BY <1>5, <1>6, <1>7, Zenon

LEMMA NoLineEnds ==
  ASSUME NEW s \in Seq(Bytes), NEW t \in Seq(Bytes), NoCRLF(s), NoCRLF(t), t # <<>>, t[1] # "lf"
  PROVE  s \o t \in Seq(Bytes) /\ NoCRLF(s \o t)
<1> DEFINE w == s \o t
           ls == Len(s)
           lt == Len(t)
<1>1. /\ w \in Seq(Bytes) /\ Len(w) = Len(s) + Len(t)
      /\ \A k \in 1..Len(s) : w[k] = s[k]
      /\ \A k \in 1..Len(t) : w[Len(s) + k] = t[k]
  BY Joined
<1>2. Len(w) = ls + lt /\ ls \in Nat /\ lt \in Nat /\ lt # 0
  <2>1. Len(w) = ls + lt
    BY <1>1
  <2>2. ls \in Nat /\ lt \in Nat
    OBVIOUS
  <2>3. lt # 0
    BY EmptySeq
  <2>4. QED  BY <2>1, <2>2, <2>3
<1>3. /\ \A k \in 1..ls : w[k] = s[k]
      /\ \A k \in 1..lt : w[ls + k] = t[k]
  BY <1>1
<1>4. /\ \A k \in 1..(ls - 1) : ~ (s[k] = "cr" /\ s[k + 1] = "lf")
      /\ \A k \in 1..(lt - 1) : ~ (t[k] = "cr" /\ t[k + 1] = "lf")
  BY DEF NoCRLF
<1> HIDE DEF w, ls, lt
<1>5. ASSUME NEW k \in 1..(ls + lt - 1) PROVE ~ (w[k] = "cr" /\ w[k + 1] = "lf")
  <2>1. CASE k < ls
    <3>1. k \in 1..(ls - 1) /\ k \in 1..ls /\ k + 1 \in 1..ls
      BY <1>2, <2>1
    <3>2. QED  BY <1>3, <1>4, <3>1
  <2>2. CASE k = ls
    <3>1. 1 \in 1..lt /\ k + 1 = ls + 1
      BY <1>2, <2>2
    <3>2. QED  BY <1>3, <3>1
  <2>3. CASE k > ls
    <3>1. /\ k - ls \in 1..(lt - 1) /\ k - ls \in 1..lt /\ (k - ls) + 1 \in 1..lt
          /\ ls + (k - ls) = k /\ ls + ((k - ls) + 1) = k + 1
      BY <1>2, <2>3
    <3>2. w[k] = t[k - ls] /\ w[k + 1] = t[(k - ls) + 1]
      BY <1>3, <3>1
    <3>3. QED  BY <1>4, <3>1, <3>2
  <2>4. QED  BY <1>2, <2>1, <2>2, <2>3
<1>6. NoCRLF(w)
  BY <1>2, <1>5 DEF NoCRLF
<1>7. QED
  BY <1>1, <1>6 DEF w

\* No end of a size in what there is: it is looked at once more, or given up.
LEMMA SizeNotYet ==
  ASSUME IInv, ReadSize, BufferInv, Len(out) < Len(conv), Current.kind \in {"chunk", "last"}, Whole,
         got = <<>>, Locals,
         NEW p \in Received, Recv(p), conv' = conv, out' = out, closed' = closed, Network',
         got' = got, poscount' = poscount, want' = want,
         received' = received + Len(p), temp' = temp \o p, RecvBuf' = p,
         pc' = IF received' > MAXCHUNKHEADER THEN "failed" ELSE "chunk",
         badcut', NoCRLF(temp), NoCRLF(p), p[1] # "lf"
  PROVE  IInv'
<1>1. Buffer' /\ RecvBuf' # <<>>
  BY AllLeft
<1>2. p \in Seq(Bytes) /\ p # <<>> /\ Len(p) \in Nat
  <2>1. p \in Seq(Bytes)
    BY WhatIsReceived
  <2>2. p # <<>>
    BY <1>1
  <2>3. QED  BY <2>1, <2>2
<1>3. temp' \in Seq(Bytes) /\ NoCRLF(temp')
  <2>1. temp \in Seq(Bytes)
    BY DEF Locals
  <2>2. temp \o p \in Seq(Bytes) /\ NoCRLF(temp \o p)
    BY <1>2, <2>1, NoLineEnds
  <2>3. QED  BY <2>2
<1>4. received' \in Nat
  <2> DEFINE l == Len(p)
  <2>1. l \in Nat /\ received \in Nat /\ received' = received + l
    BY <1>2 DEF Locals
  <2> HIDE DEF l
  <2>2. QED  BY <2>1
<1>5. Locals' /\ pc' \in {"failed", "chunk"}
  BY <1>3, <1>4 DEF Locals, Places
<1>6. Small'
  BY NotHeader
<1>7. Current' = Current /\ Whole' = Whole
  BY Same
<1>8. Stuck'
  BY <1>1, <1>3 DEF Stuck, NoCRLF
<1>9. AtChunk'
  BY <1>7, <1>8 DEF AtChunk
<1>10. CASE pc' = "failed"
  BY <1>1, <1>5, <1>6, <1>10, GivenUp
<1>11. CASE pc' = "chunk"
  BY <1>1, <1>5, <1>9, <1>11, ReadOn DEF Places
<1>12. QED
  BY <1>5, <1>10, <1>11

LEMMA ReadSizeKeeps ==
  ASSUME IInv, ReadSize
  PROVE  IInv'
<1>1. pc = "chunk" /\ BufferInv /\ Locals /\ Len(out) < Len(conv) /\ AtChunk
      /\ Current.kind \in {"chunk", "last"} /\ got = <<>>
  BY Read DEF ReadSize, Looked, IInv, PlaceInv, AtChunk, Places
<1> DEFINE position(l) == Find(l, CRLF)
           digits(l) == FirstNot(l, Hex) - 1
           csize(l) == Number(l, digits(l))
<1>2. PICK p \in Received :
          /\ Recv(p)
          /\ received' = IF position(temp \o p) = 0 THEN received + Len(p) ELSE received
          /\ temp' = IF position(temp \o p) = 0 THEN temp \o p ELSE <<>>
          /\ \/ /\ position(temp \o p) <= 1
                /\ RecvBuf' = IF position(temp \o p) = 0 THEN p ELSE SubSeq(p, Len(LineEnd) + 1, Len(p))
                /\ pc' = IF received' > MAXCHUNKHEADER THEN "failed" ELSE "chunk"
                /\ UNCHANGED want
             \/ /\ position(temp \o p) > 1 /\ digits(temp \o p) \notin 1..7
                /\ RecvBuf' = p /\ pc' = "failed" /\ UNCHANGED want
             \/ /\ position(temp \o p) > 1 /\ digits(temp \o p) \in 1..7
                /\ RecvBuf' = SubSeq(p, position(temp \o p) + 2, Len(p))
                /\ pc' = CASE csize(temp \o p) = 0 -> "return"
                           [] csize(temp \o p) > MAXCHUNK -> "failed"
                           [] OTHER -> "data"
                /\ want' = [Nothing EXCEPT !.n = csize(temp \o p)]
  BY DEF ReadSize, Looked
<1>3. UNCHANGED <<got, poscount, out>>
  BY DEF ReadSize, Looked
<1>4. conv' = conv /\ closed' = closed /\ Network' /\ (badcut => badcut') /\ ~ Torn
  BY <1>1, <1>2, WhatIsReceived
<1>5. PICK r \in Nat :
          /\ recvd' = r /\ Taken < r /\ r <= Len(Stream) /\ r - Taken <= MAXRECV
          /\ p \in Seq(Bytes) /\ p = Cut(Stream, Taken, r) /\ Len(p) = r - Taken
  BY <1>1, <1>2, WhatIsReceived
<1>6. /\ Whole
      /\ \/ temp = <<>> /\ received = 0 /\ Taken \in {Begin, Start}
         \/ Stuck
  BY <1>1, <1>4 DEF AtChunk
<1>7. /\ Stream \in Seq(Bytes) /\ Len(Stream) \in Nat /\ Taken \in Nat
      /\ WORD \in Nat /\ Len(Stream) < WORD - 1
      /\ Start \in Nat /\ Line \in Nat /\ End \in Nat /\ Start + 3 <= Line /\ End <= Len(Stream)
      /\ End - 2 - Line \in 0..3 /\ (Current.kind = "chunk" <=> Line # End - 2)
      /\ Contents(Current) = Cut(Stream, Line, End - 2) /\ Owed(Current) = 2
  BY <1>1, ChunkPlaces
<1>8. Current' = Current /\ Line' = Line /\ End' = End /\ Start' = Start /\ Begin' = Begin
      /\ Whole' = Whole /\ Contents(Current)' = Contents(Current) /\ Owed(Current)' = Owed(Current)
  BY <1>3, <1>4, Same
<1>9. Small'
  BY <1>1, <1>3, <1>4, NotHeader
<1>10. ASSUME position(temp \o p) = 0, badcut', NoCRLF(temp), NoCRLF(p), p[1] # "lf"
       PROVE  IInv'
  <2>1. /\ received' = received + Len(p) /\ temp' = temp \o p /\ RecvBuf' = p
        /\ pc' = IF received' > MAXCHUNKHEADER THEN "failed" ELSE "chunk"
        /\ want' = want
    <3> HIDE DEF position, digits, csize
    <3>1. ~ (position(temp \o p) > 1) /\ position(temp \o p) <= 1
      BY <1>10
    <3>2. QED  BY <1>2, <1>10, <3>1
  <2>2. QED
    BY <1>1, <1>2, <1>3, <1>4, <1>6, <1>10, <2>1, SizeNotYet
<1>11. CASE Stuck
  <2>1. badcut /\ RecvBuf # <<>> /\ RecvBuf[1] # "lf" /\ NoCRLF(RecvBuf) /\ NoCRLF(temp)
    BY <1>11 DEF Stuck
  <2>2. p = RecvBuf /\ badcut'
    BY <1>1, <1>2, <1>4, <2>1, WhatIsReceived
  <2>3. temp \o p \in Seq(Bytes) /\ NoCRLF(temp \o p)
    <3>1. temp \in Seq(Bytes)
      BY <1>1 DEF Locals
    <3>2. QED  BY <1>5, <2>1, <2>2, <3>1, NoLineEnds
  <2>4. position(temp \o p) = 0
    BY <2>3, FindCRLF
  <2>5. QED  BY <1>10, <2>1, <2>2, <2>4
<1>12. ASSUME temp = <<>>, received = 0, Taken \in {Begin, Start}
       PROVE  IInv'
  <2>1. temp \o p = p
    BY <1>5, <1>12, ConcatEmptySeq
  <2>2. NoCRLF(temp)
    <3>1. 1..(Len(temp) - 1) = {}
      BY <1>12
    <3>2. QED  BY <3>1 DEF NoCRLF
  <2>3. CASE Taken = Start
    <3>1. Start < r
      BY <1>5, <2>3
    <3>2. p = Cut(Stream, Start, r)
      BY <1>5, <2>3
    <3>3. CASE r < Line
      <4>1. NoCRLF(p) /\ p[1] # "lf"
        BY <1>1, <1>5, <3>1, <3>2, <3>3, SizeOf
      <4>2. r \in (Start + 1)..(Line - 1)
        BY <1>7, <3>1, <3>3
      <4>3. \E i \in DOMAIN conv : r \in BadPlaces(i)
        BY <1>1, <4>2, HereBad
      <4>4. badcut'
        BY <1>4, <1>5, <4>3, EndedBadly
      <4>5. position(temp \o p) = 0
        BY <1>5, <2>1, <4>1, FindCRLF
      <4>6. QED  BY <1>10, <2>2, <4>1, <4>4, <4>5
    <3>4. CASE ~ (r < Line)
      <4> DEFINE b == Len(Current.before)
                 x == Len(Current.text)
                 f == Line - Start - 1
      <4>1. r >= Line
        BY <1>7, <3>4
      <4>2. b \in Nat
        BY <1>1, <1>5, <3>1, SizeOf
      <4>3. position(p) = f /\ digits(p) = b + 1 /\ csize(p) = x
        <5>1. Find(p, CRLF) = f /\ FirstNot(p, Hex) - 1 = b + 1 /\ Number(p, b + 1) = x
          BY <1>1, <1>5, <3>1, <3>2, <4>1, SizeOf
        <5>2. QED  BY <5>1
      <4>4. f > 1 /\ f # 0
        BY <1>7
      <4>x. x = End - 2 - Line
        BY <1>1, ChunkPlaces
      <4> HIDE DEF position, digits, csize, f, b, x
      <4>5. received' = 0 /\ temp' = <<>>
        BY <1>2, <1>12, <2>1, <4>3, <4>4
      <4>6. \/ /\ b + 1 \notin 1..7
               /\ RecvBuf' = p /\ pc' = "failed" /\ want' = want
            \/ /\ b + 1 \in 1..7
               /\ RecvBuf' = SubSeq(p, f + 2, Len(p))
               /\ pc' = CASE x = 0 -> "return"
                          [] x > MAXCHUNK -> "failed"
                          [] OTHER -> "data"
               /\ want' = [Nothing EXCEPT !.n = x]
        <5>1. ~ (f <= 1)
          BY <1>7, <4>4 DEF f
        <5>2. QED  BY <1>2, <2>1, <4>3, <4>4, <5>1, Zenon
      <4>7. CASE b + 1 \notin 1..7 /\ RecvBuf' = p /\ pc' = "failed" /\ want' = want
        <5>1. b > 6
          BY <4>2, <4>7
        <5>2. TooLong(Current)
          BY <1>1, <5>1 DEF TooLong, b
        <5>3. Buffer'
          BY <1>1, <1>2, <4>7, AllLeft
        <5>4. Locals'
          BY <1>1, <1>3, <1>4, <4>5, <4>7 DEF Locals, Places
        <5>5. QED
          BY <1>1, <1>3, <1>4, <1>9, <4>7, <5>2, <5>3, <5>4, GivenUp
      <4>8. CASE /\ b + 1 \in 1..7
                 /\ RecvBuf' = SubSeq(p, f + 2, Len(p))
                 /\ pc' = CASE x = 0 -> "return"
                            [] x > MAXCHUNK -> "failed"
                            [] OTHER -> "data"
                 /\ want' = [Nothing EXCEPT !.n = x]
        <5> DEFINE m == Line - Start
        <5>1. m \in Nat /\ m <= r - Taken /\ m + 1 = f + 2 /\ Taken + m = Line /\ Taken <= r
          BY <1>5, <1>7, <2>3, <4>1 DEF f
        <5>2. RecvBuf' = SubSeq(Cut(Stream, Taken, r), m + 1, Len(Cut(Stream, Taken, r)))
          BY <1>5, <4>8, <5>1
        <5> HIDE DEF m
        <5>3. Buffer' /\ Taken' = Line
          <6>1. Buffer' /\ Taken' = Taken + m
            BY <1>1, <1>4, <1>5, <5>1, <5>2, WhatIsLeft
          <6>2. QED  BY <5>1, <6>1
        <5>4. x \in Nat /\ x < WORD
          BY <1>7, <4>x
        <5>5. want' \in [n : 0..(WORD - 1), keep : BOOLEAN, then : Places] /\ want.n' = x
          BY <1>1, <4>8, <5>4, NothingWanted
        <5>6. pc' \in {"return", "failed", "data"}
          BY <4>8
        <5>7. Locals'
          BY <1>1, <1>3, <1>4, <4>5, <5>5, <5>6 DEF Locals, Places
        <5>8. CASE pc' = "return"
          <6>1. x = 0
            BY <4>8, <5>8
          <6>2. Line = End - 2
            BY <1>7, <4>x, <6>1
          <6>3. got' = Contents(Current)'
            <7>1. Cut(Stream, Line, Line) = <<>>
              BY <1>7 DEF Cut
            <7>2. QED  BY <1>1, <1>3, <1>7, <1>8, <6>2, <7>1
          <6>4. Taken' = End' - Owed(Current)'
            BY <1>7, <1>8, <5>3, <6>2
          <6>5. AtReturn'
            BY <1>9, <6>3, <6>4 DEF AtReturn
          <6>6. QED
            BY <1>1, <1>3, <1>4, <1>6, <5>3, <5>7, <5>8, <6>5, ReadOn DEF Places
        <5>9. CASE pc' = "failed"
          <6>1. x > MAXCHUNK
            BY <4>8, <5>9
          <6>2. TooLong(Current)
            BY <1>1, <6>1 DEF TooLong, x
          <6>3. QED
            BY <1>1, <1>3, <1>4, <1>9, <5>3, <5>7, <5>9, <6>2, GivenUp
        <5>10. CASE pc' = "data"
          <6>1. x # 0
            BY <4>8, <5>10
          <6>2. Current.kind = "chunk"
            BY <1>7, <4>x, <6>1
          <6>3. Taken' = Line' /\ want.n' = Len(Current.text)' /\ got' = <<>> /\ Current'.kind = "chunk"
            BY <1>1, <1>3, <1>8, <5>3, <5>5, <6>2 DEF x
          <6>4. AtData'
            BY <6>3 DEF AtData
          <6>5. QED
            BY <1>1, <1>3, <1>4, <1>6, <5>3, <5>7, <5>10, <6>4, ReadOn DEF Places
        <5>11. QED  BY <5>6, <5>8, <5>9, <5>10
      <4>9. QED  BY <4>6, <4>7, <4>8
    <3>5. QED  BY <3>3, <3>4
  <2>4. CASE Taken = Begin /\ Begin # Start
    <3>1. /\ Begin \in Nat /\ Begin + 2 = Start /\ Stream[Begin + 1] = "cr" /\ Stream[Begin + 2] = "lf"
          /\ \E i \in DOMAIN conv : Begin + 1 \in BadPlaces(i)
      BY <1>1, <2>4, HereBegin
    <3>2. \A k \in 1..(r - Taken) : p[k] = Stream[Taken + k]
      <4>1. r \in Taken..Len(Stream)
        BY <1>5, <1>7
      <4>2. QED  BY <1>5, <1>7, <4>1, CutIs, ZenonT(60)
    <3>3. 1 \in 1..(r - Taken) /\ p[1] = "cr"
      <4>1. 1 \in 1..(r - Taken)
        BY <1>5, <1>7
      <4>2. QED  BY <2>4, <3>1, <3>2, <4>1
    <3>4. CASE r = Begin + 1
      <4>1. badcut'
        BY <1>4, <1>5, <3>1, <3>4, EndedBadly
      <4>2. NoCRLF(p)
        <5> DEFINE l == Len(p)
        <5>1. l = r - Taken
          BY <1>5
        <5> HIDE DEF l
        <5>2. 1..(l - 1) = {}
          BY <1>7, <2>4, <3>4, <5>1
        <5>3. QED  BY <5>2 DEF NoCRLF, l
      <4>3. position(temp \o p) = 0
        BY <1>5, <2>1, <4>2, FindCRLF
      <4>4. QED  BY <1>10, <2>2, <3>3, <4>1, <4>2, <4>3
    <3>5. CASE r # Begin + 1
      <4>1. 2 \in 1..(r - Taken) /\ 2 <= r - Taken /\ Taken + 2 = Start /\ Taken <= r
        BY <1>5, <1>7, <2>4, <3>1, <3>5
      <4>2. p[2] = "lf"
        BY <2>4, <3>1, <3>2, <4>1
      <4>3. Find(p, CRLF) = 1
        <5> DEFINE l == Len(p)
                   q == 1
        <5>1. l = r - Taken
          BY <1>5
        <5> HIDE DEF l
        <5>2. q \in 1..(l - 1)
          BY <1>5, <1>7, <4>1, <5>1
        <5>3. p[q] = "cr" /\ p[q + 1] = "lf" /\ \A k \in 1..(q - 1) : p[k] # "cr"
          BY <3>3, <4>2
        <5> HIDE DEF q
        <5>4. Find(p, CRLF) = q
          <6>1. p \in Seq(Bytes)
            BY <1>5
          <6>2. q \in 1..(Len(p) - 1)
            BY <5>2 DEF l
          <6>3. QED  BY <5>3, <6>1, <6>2, FindCRLF
        <5>5. QED  BY <5>4 DEF q
      <4>4. position(temp \o p) = 1
        BY <2>1, <4>3
      <4> HIDE DEF position, digits, csize
      <4>5. received' = 0 /\ temp' = <<>>
        BY <1>2, <1>12, <4>4
      <4>6. RecvBuf' = SubSeq(p, Len(LineEnd) + 1, Len(p)) /\ want' = want
            /\ pc' = IF received' > MAXCHUNKHEADER THEN "failed" ELSE "chunk"
        <5>1. ~ (position(temp \o p) > 1) /\ position(temp \o p) # 0
          BY <4>4
        <5>2. QED  BY <1>2, <5>1
      <4>7. pc' = "chunk"
        <5>1. ~ (received' > MAXCHUNKHEADER)
          BY <4>5, ReaderAssumption
        <5>2. QED  BY <4>6, <5>1
      <4> DEFINE m == 2
      <4>8. m \in Nat /\ m <= r - Taken /\ Taken + m = Start /\ Taken <= r
        BY <4>1
      <4>9. RecvBuf' = SubSeq(Cut(Stream, Taken, r), m + 1, Len(Cut(Stream, Taken, r)))
        <5>1. Len(LineEnd) = m
          BY Ends DEF LineEnd
        <5>2. QED  BY <1>5, <4>6, <5>1
      <4> HIDE DEF m
      <4>10. Buffer' /\ Taken' = Start
        <5>1. Buffer' /\ Taken' = Taken + m
          BY <1>1, <1>4, <1>5, <4>8, <4>9, WhatIsLeft
        <5>2. QED  BY <4>8, <5>1
      <4>11. Locals'
        BY <1>1, <1>3, <1>4, <4>5, <4>6, <4>7 DEF Locals, Places
      <4>12. AtChunk'
        BY <1>1, <1>3, <1>6, <1>8, <4>5, <4>10 DEF AtChunk
      <4>13. QED
        BY <1>1, <1>3, <1>4, <4>7, <4>10, <4>11, <4>12, ReadOn DEF Places
    <3>6. QED  BY <3>4, <3>5
  <2>5. QED  BY <1>12, <2>3, <2>4
<1>13. QED
  BY <1>6, <1>11, <1>12

-----------------------------------------------------------------------------
(* The end of the connection, and of a frame.                              *)

LEMMA ClosedLate ==
  ASSUME BufferInv, conv' = conv, recvd' = recvd, badcut' = badcut, RecvBuf' = RecvBuf, closed' \in BOOLEAN
  PROVE  Network' /\ Buffer' /\ Taken' = Taken
<1>1. Network /\ Buffer
  BY DEF BufferInv
<1>2. Stream' = Stream /\ Taken' = Taken /\ \A i \in DOMAIN conv : BadPlaces(i)' = BadPlaces(i)
  BY DEF Stream, Taken, BadPlaces
<1>3. Network'
  BY <1>1, <1>2 DEF Network
<1>4. Piece(Taken, recvd)' = Piece(Taken, recvd)
  BY <1>2 DEF Piece
<1>5. Buffer'
  BY <1>1, <1>4 DEF Buffer
<1>6. QED
  BY <1>2, <1>3, <1>5

LEMMA NoMoreKeeps ==
  ASSUME IInv, NoMore
  PROVE  IInv'
<1>1. /\ Waiting /\ closed' = (closed \/ recvd < Len(Stream))
      /\ conv' = conv /\ recvd' = recvd /\ badcut' = badcut /\ RecvBuf' = RecvBuf
      /\ temp' = temp /\ got' = got /\ poscount' = poscount /\ received' = received
      /\ want' = want /\ out' = out
  BY DEF NoMore, locals
<1>2. PICK n \in {0, -1} : pc' = IF IsTolerated(n) THEN "return" ELSE "failed"
  BY DEF NoMore
<1>3. pc \in {"more", "recv", "skip", "chunk", "body"}
  BY <1>1 DEF Waiting
<1>4. BufferInv /\ Locals /\ Len(out) < Len(conv) /\ Network
  BY <1>3, Read DEF Places
<1>5. closed \in BOOLEAN /\ closed' \in BOOLEAN /\ (closed => closed')
  <2>1. closed \in BOOLEAN
    BY <1>4 DEF Network
  <2>2. QED  BY <1>1, <2>1
<1>6. Network' /\ Buffer' /\ Taken' = Taken
  BY <1>1, <1>4, <1>5, ClosedLate
<1>7. Locals'
  BY <1>1, <1>2, <1>4 DEF Locals, Places
<1>8. /\ recvd \in Nat /\ Taken \in Nat /\ Len(Stream) \in Nat /\ (RecvBuf = <<>> <=> Taken = recvd)
      /\ Stream \in Seq(Bytes) /\ recvd <= Len(Stream) /\ MAXRECV \in Nat /\ MAXHTTPHEADERLENGTH \in Nat
  BY <1>4, Everywhere
<1>9. Start \in Nat /\ End \in Nat /\ End <= Len(Stream)
  BY <1>4, Here
<1>10. /\ IsHeader(Current)' = IsHeader(Current) /\ Current' = Current
       /\ Encoded([Current EXCEPT !.before = <<>>])' = Encoded([Current EXCEPT !.before = <<>>])
  BY <1>1, Same
<1>11. (closed' \/ badcut') /\ (badcut' \/ Small')
  <2>1. CASE pc = "more"
    <3>1. /\ IsHeader(Current) /\ recvd \in (Text + 1)..(End - 1) /\ temp = Piece(Text, recvd)
          /\ got = temp /\ poscount = recvd - Text
          /\ poscount <= received /\ received <= MAXHTTPHEADERLENGTH /\ received \in Nat
      BY <2>1, <1>4 DEF IInv, PlaceInv, AtMore, Locals
    <3>2. Text \in Nat
      BY <1>4, <3>1, HereHeader
    <3>3. recvd < Len(Stream) /\ recvd \in Text..Len(Stream) /\ recvd - Text <= MAXHTTPHEADERLENGTH + MAXRECV
      BY <1>8, <1>9, <3>1, <3>2
    <3>4. Len(got) = recvd - Text
      BY <1>8, <3>1, <3>2, <3>3, CutIs, ZenonT(60) DEF Piece
    <3>5. QED  BY <1>1, <3>3, <3>4 DEF Small
  <2>2. CASE pc = "recv"
    <3>1. AtRecv
      BY <2>2 DEF IInv, PlaceInv
    <3>2. CASE IsHeader(Current) /\ badcut
      BY <1>1, <3>2
    <3>3. CASE Current.kind = "chunk" /\ want.n = Line + Len(Current.text) - recvd /\ want.n > 0
      <4> DEFINE lt == Len(Current.text)
      <4>1. Line + lt - recvd > 0
        BY <3>3
      <4>2. lt = End - 2 - Line /\ Line \in Nat
        BY <1>4, <3>3, ChunkPlaces
      <4> HIDE DEF lt
      <4>3. recvd < Len(Stream)
        BY <1>8, <1>9, <4>1, <4>2
      <4>4. Small'
        BY <1>1, <1>4, <3>3, NotHeader
      <4>5. QED  BY <1>1, <4>3, <4>4
    <3>4. QED  BY <3>1, <3>2, <3>3 DEF AtRecv
  <2>3. CASE pc = "skip"
    <3>1. AtSkip /\ RecvBuf = <<>>
      BY <1>1, <2>3 DEF IInv, PlaceInv, Waiting
    <3>2. IsHeader(Current) /\ got = <<>>
      BY <3>1 DEF AtSkip
    <3>3. Small'
      <4>1. got' = <<>>
        BY <1>1, <3>2
      <4>2. Len(got') = 0
        BY <4>1
      <4>3. QED  BY <1>8, <4>2 DEF Small
    <3>4. closed'
      <4>1. CASE Torn
        BY <1>5, <4>1 DEF Torn
      <4>2. CASE Taken \in Begin..Text
        <5>1. Text + 3 <= End /\ Text \in Nat /\ Begin \in Nat
          BY <1>4, <3>2, HeaderPlaces
        <5>2. recvd < Len(Stream)
          BY <1>8, <1>9, <3>1, <4>2, <5>1
        <5>3. QED  BY <1>1, <5>2
      <4>3. QED  BY <3>1, <4>1, <4>2 DEF AtSkip
    <3>5. QED  BY <3>3, <3>4
  <2>4. CASE pc = "chunk"
    <3>1. AtChunk /\ RecvBuf = <<>>
      BY <1>1, <2>4 DEF IInv, PlaceInv, Waiting
    <3>2. Current.kind \in {"chunk", "last"}
      BY <3>1 DEF AtChunk
    <3>3. Small'
      BY <1>1, <1>4, <3>2, NotHeader
    <3>4. closed'
      <4>1. CASE Torn
        BY <1>5, <4>1 DEF Torn
      <4>2. CASE Taken \in {Begin, Start}
        <5>1. Line \in Nat /\ Start + 3 <= Line /\ End - 2 - Line \in 0..3
          BY <1>4, <3>2, ChunkPlaces
        <5>2. Begin \in Nat /\ Begin <= Start
          BY <1>4, HereBegin
        <5>3. recvd < Len(Stream)
          BY <1>8, <1>9, <3>1, <4>2, <5>1, <5>2
        <5>4. QED  BY <1>1, <5>3
      <4>3. QED  BY <3>1, <4>1, <4>2 DEF AtChunk, Stuck
    <3>5. QED  BY <3>3, <3>4
  <2>5. CASE pc = "body"
    <3>1. AtBody /\ RecvBuf = <<>>
      BY <1>1, <2>5 DEF IInv, PlaceInv, Waiting
    <3>2. Current.kind = "body"
      BY <3>1 DEF AtBody
    <3>3. Small'
      BY <1>1, <1>4, <3>2, NotHeader
    <3>4. closed'
      <4>1. CASE Torn
        BY <1>5, <4>1 DEF Torn
      <4>2. CASE Taken \in Start..(End - 1)
        <5>1. recvd < Len(Stream)
          BY <1>8, <1>9, <3>1, <4>2
        <5>2. QED  BY <1>1, <5>1
      <4>3. QED  BY <3>1, <4>1, <4>2 DEF AtBody
    <3>5. QED  BY <3>3, <3>4
  <2>6. QED  BY <1>3, <2>1, <2>2, <2>3, <2>4, <2>5
<1>12. CASE pc' = "failed"
  BY <1>1, <1>4, <1>5, <1>6, <1>7, <1>11, <1>12, GivenUp
<1>13. CASE pc' = "return"
  <2>1. pc = "more" /\ Last(got) \in {"cr", "lf"}
    BY <1>2, <1>13 DEF IsTolerated
  <2>2. /\ IsHeader(Current) /\ recvd \in (Text + 1)..(End - 1) /\ RecvBuf = <<>>
        /\ got = Piece(Text, recvd) /\ Whole /\ poscount = recvd - Text
        /\ poscount <= received /\ received <= MAXHTTPHEADERLENGTH /\ received \in Nat
    BY <1>4, <2>1 DEF IInv, PlaceInv, AtMore, Locals
  <2>3. Text \in Nat
    BY <1>4, <2>2, HereHeader
  <2>4. /\ recvd < Len(Stream) /\ recvd \in Text..Len(Stream) /\ recvd - Text # 0
        /\ recvd - Text <= MAXHTTPHEADERLENGTH + MAXRECV
    BY <1>8, <1>9, <2>2, <2>3
  <2>5. Len(got) = recvd - Text
    BY <1>8, <2>2, <2>3, <2>4, CutIs, ZenonT(60) DEF Piece
  <2>6. got # <<>>
    <3>1. ASSUME got = <<>> PROVE FALSE
      <4>1. Len(got) = 0
        BY <3>1
      <4>2. QED  BY <2>4, <2>5, <4>1
    <3>2. QED  BY <3>1
  <2>7. IsPrefix(got, Encoded([Current EXCEPT !.before = <<>>]))
    BY <1>4, <2>2, HereContents
  <2>8. TornText'
    BY <1>1, <1>10, <2>1, <2>2, <2>6, <2>7 DEF TornText
  <2>9. Torn'
    BY <1>1, <2>2, <2>4 DEF Torn
  <2>10. Small'
    BY <1>1, <2>4, <2>5 DEF Small
  <2>11. AtReturn'
    BY <2>8, <2>9, <2>10 DEF AtReturn
  <2>12. QED
    BY <1>1, <1>4, <1>5, <1>6, <1>7, <1>13, <2>2, <2>11, ReadOn DEF Places
<1>14. QED
  BY <1>2, <1>12, <1>13

\* Neither a chunk nor a body comes before a body, so nothing is owed there.
LEMMA BodyBegins ==
  ASSUME BufferInv, Len(out) < Len(conv), Current.kind = "body"
  PROVE  Begin = Start
<1> DEFINE j == Len(out)
<1>1. IsConversation(conv) /\ j + 1 \in 1..Len(conv) /\ j \in Nat /\ Start \in Nat
  BY Here
<1>2. Current = conv[j + 1]
  BY DEF Current
<1>3. Begin = Start - (IF j = 0 THEN 0 ELSE Owed(conv[j]))
  BY DEF Begin
<1> HIDE DEF j
<1>4. ASSUME j # 0 PROVE Owed(conv[j]) = 0
  <2>1. j \in 1..Len(conv) /\ j # Len(conv)
    BY <1>1, <1>4
  <2>2. IsFrame(conv[j], {conv[j + 1].kind}, conv[j + 1].text)
    BY <1>1, <2>1, FrameFacts
  <2>3. conv[j].kind \notin {"chunk", "last"}
    BY <1>2, <2>2 DEF IsFrame
  <2>4. QED  BY <2>3 DEF Owed
<1>5. QED
  BY <1>1, <1>3, <1>4

LEMMA CallKeeps ==
  ASSUME IInv, Call
  PROVE  IInv'
<1>1. /\ pc = "call" /\ pc' = IF Len(out) < Len(conv) THEN Place(Current) ELSE "done"
      /\ temp' = <<>> /\ got' = <<>> /\ poscount' = 0 /\ received' = 0
      /\ UNCHANGED network /\ RecvBuf' = RecvBuf /\ want' = want /\ out' = out
  BY DEF Call, Current
<1>2. BufferInv /\ Locals /\ AtCall /\ OnlyFrames
  BY <1>1 DEF IInv, PlaceInv, BufferInv
<1>3. conv' = conv /\ recvd' = recvd /\ closed' = closed /\ badcut' = badcut
  BY <1>1, <1>2, Quiet
<1>4. Network' /\ Buffer' /\ Taken' = Taken
  <2>1. closed' \in BOOLEAN
    BY <1>2, <1>3 DEF BufferInv, Network
  <2>2. QED  BY <1>1, <1>2, <1>3, <2>1, ClosedLate
<1>5. /\ Begin' = Begin /\ Start' = Start /\ Text' = Text /\ End' = End /\ Current' = Current
      /\ IsHeader(Current)' = IsHeader(Current) /\ Whole' = Whole /\ Stream' = Stream
  BY <1>1, <1>3, Same
<1>6. pc' \in Places => Locals'
  <2>1. <<>> \in Seq(Bytes)
    OBVIOUS
  <2>2. QED  BY <1>1, <1>2, <1>3, <2>1 DEF Locals
<1>7. Torn \/ (Whole /\ Taken = Begin)
  BY <1>2 DEF AtCall
<1>8. Torn' = Torn
  BY <1>1, <1>3 DEF Torn
<1>9. CASE Len(out) < Len(conv)
  <2>1. Current.kind \in {"header", "wrongheader", "chunk", "last", "body"}
    <3>1. IsConversation(conv) /\ Len(out) + 1 \in 1..Len(conv)
      BY <1>2, <1>9, Here
    <3>2. QED  BY <3>1, FrameFacts DEF Current
  <2>2. /\ Begin \in Nat /\ Begin <= Start /\ Start \in Nat /\ End \in Nat
    BY <1>2, <1>9, Here, HereBegin
  <2>3. CASE IsHeader(Current)
    <3>1. pc' = "skip"
      <4>1. Place(Current) = "skip"
        BY <1>2, <1>9, <2>3, HereHeader
      <4>2. QED  BY <1>1, <1>9, <4>1
    <3>2. Text \in Nat /\ Start <= Text
      BY <1>2, <1>9, <2>3, HereHeader
    <3>3. Torn' \/ (Whole' /\ Taken' \in Begin'..Text' /\ received' = Taken' - Begin')
      BY <1>1, <1>4, <1>5, <1>7, <1>8, <2>2, <3>2
    <3>4. AtSkip'
      BY <1>1, <1>5, <2>3, <3>3 DEF AtSkip
    <3>5. QED
      BY <1>1, <1>3, <1>4, <1>6, <1>9, <3>1, <3>4, ReadOn DEF Places
  <2>4. CASE Current.kind \in {"chunk", "last"}
    <3>1. pc' = "chunk"
      BY <1>1, <1>9, <2>4 DEF Place, IsHeader
    <3>2. AtChunk'
      BY <1>1, <1>4, <1>5, <1>7, <1>8, <2>4 DEF AtChunk
    <3>3. QED
      BY <1>1, <1>3, <1>4, <1>6, <1>9, <3>1, <3>2, ReadOn DEF Places
  <2>5. CASE Current.kind = "body"
    <3>1. pc' = "body"
      BY <1>1, <1>9, <2>5 DEF Place, IsHeader
    <3>2. Begin = Start
      BY <1>2, <1>9, <2>5, BodyBegins
    <3>3. Start \in Start..(End - 1)
      <4> DEFINE lt == Len(Current.text)
      <4>1. lt \in Nat \ {0} /\ End = Start + lt
        BY <1>2, <1>9, <2>5, HereBody
      <4> HIDE DEF lt
      <4>2. QED  BY <2>2, <4>1
    <3>4. Piece(Start, Start) = <<>>
      BY <2>2 DEF Piece, Cut
    <3>5. Torn' \/ (Whole' /\ Taken' \in Start'..(End' - 1) /\ got' = Piece(Start, Taken)')
      <4>1. CASE Torn
        BY <1>8, <4>1
      <4>2. CASE Whole /\ Taken = Begin
        <5>1. Piece(Start, Taken)' = Piece(Start, Start)
          BY <1>4, <1>5, <3>2, <4>2 DEF Piece
        <5>2. QED  BY <1>1, <1>4, <1>5, <3>2, <3>3, <3>4, <4>2, <5>1
      <4>3. QED  BY <1>7, <4>1, <4>2
    <3>6. AtBody'
      BY <1>5, <2>5, <3>5 DEF AtBody
    <3>7. QED
      BY <1>1, <1>3, <1>4, <1>6, <1>9, <3>1, <3>6, ReadOn DEF Places
  <2>6. QED  BY <2>1, <2>3, <2>4, <2>5 DEF IsHeader
<1>10. CASE ~ (Len(out) < Len(conv))
  <2>1. pc' = "done"
    BY <1>1, <1>10
  <2>2. Len(out) = Len(conv)
    BY <1>2, <1>10, Everywhere
  <2>3. Locals'
    BY <1>6, <2>1 DEF Places
  <2>4. OnlyFrames'
    BY <1>1, <1>2, <1>3, SameFrames
  <2>5. Len(out') = Len(conv')
    BY <1>1, <1>3, <2>2
  <2>6. PlaceInv'
    BY <2>1, <2>5, Zenon DEF PlaceInv
  <2>7. QED  BY <1>4, <2>3, <2>4, <2>6 DEF IInv, BufferInv
<1>11. QED
  BY <1>9, <1>10

LEMMA ReturnKeeps ==
  ASSUME IInv, Return
  PROVE  IInv'
<1>1. /\ pc = "return" /\ pc' = "call" /\ out' = Append(out, got)
      /\ UNCHANGED network /\ RecvBuf' = RecvBuf /\ want' = want
      /\ temp' = temp /\ got' = got /\ poscount' = poscount /\ received' = received
  BY DEF Return, locals
<1>2. BufferInv /\ Locals /\ Len(out) < Len(conv) /\ AtReturn /\ Whole
  BY <1>1, Read DEF IInv, PlaceInv, Places
<1>3. conv' = conv /\ recvd' = recvd /\ closed' = closed /\ badcut' = badcut
  BY <1>1, <1>2, Quiet
<1>4. Network' /\ Buffer' /\ Taken' = Taken
  <2>1. closed' \in BOOLEAN
    BY <1>2, <1>3 DEF BufferInv, Network
  <2>2. QED  BY <1>1, <1>2, <1>3, <2>1, ClosedLate
<1> DEFINE j == Len(out)
<1>5. /\ IsConversation(conv) /\ j + 1 \in 1..Len(conv) /\ j \in Nat
      /\ End = Len(Sent(conv, j + 1)) /\ End \in Nat /\ Current = conv[j + 1] /\ Len(conv) \in Nat
  BY <1>2, Here, Everywhere DEF Current
<1>6. out \in Seq(Seq(Bytes)) /\ got \in Seq(Bytes)
  BY <1>2 DEF Locals
<1>7. /\ Len(out') = j + 1 /\ out' \in Seq(Seq(Bytes))
      /\ DOMAIN out' = 1..(j + 1) /\ DOMAIN out = 1..j
      /\ \A i \in 1..j : out'[i] = out[i]
      /\ out'[j + 1] = got
  BY <1>1, <1>6
<1> HIDE DEF j
<1>8. Locals'
  <2>1. j + 1 <= Len(conv)
    BY <1>5
  <2>2. Len(out') <= Len(conv')
    BY <1>3, <1>7, <2>1
  <2>3. QED  BY <1>1, <1>2, <1>6, <1>7, <2>2 DEF Locals, Places
<1>9. got = Contents(Current) \/ (Torn /\ TornText)
  BY <1>2 DEF AtReturn
<1>10. \A i \in 1..j : out'[i] = Contents(conv[i])
  BY <1>2, <1>7 DEF Whole
<1>11. OnlyFrames'
  <2>1. ASSUME NEW i \in 1..(j + 1)
        PROVE  \/ out'[i] = Contents(conv[i])
               \/ /\ closed /\ i = j + 1 /\ IsHeader(conv[i])
                  /\ IsPrefix(out'[i], Encoded([conv[i] EXCEPT !.before = <<>>]))
                  /\ Last(out'[i]) \in {"cr", "lf"}
    <3>1. CASE i \in 1..j
      BY <1>10, <3>1
    <3>2. CASE i = j + 1
      <4>1. CASE got = Contents(Current)
        BY <1>5, <1>7, <3>2, <4>1
      <4>2. CASE Torn /\ TornText
        BY <1>5, <1>7, <3>2, <4>2, Zenon DEF Torn, TornText
      <4>3. QED  BY <1>9, <4>1, <4>2
    <3>3. QED  BY <1>5, <3>1, <3>2
  <2>2. QED  BY <1>3, <1>7, <2>1 DEF OnlyFrames
<1>12. Start' = End
  BY <1>1, <1>3, <1>5, <1>7 DEF Start
<1>13. Begin' = End - Owed(Current)
  <2>1. j + 1 # 0
    BY <1>5
  <2>2. Begin' = Start' - (IF Len(out') = 0 THEN 0 ELSE Owed(conv[Len(out')]))
    BY <1>3 DEF Begin
  <2>3. QED  BY <1>5, <1>7, <1>12, <2>1, <2>2
<1>14. Torn' \/ (Whole' /\ Taken' = Begin')
  <2>1. CASE got = Contents(Current) /\ Taken = End - Owed(Current)
    <3>1. Whole'
      <4>1. \A i \in 1..(j + 1) : out'[i] = Contents(conv[i])
        BY <1>5, <1>7, <1>10, <2>1
      <4>2. QED  BY <1>3, <1>7, <4>1 DEF Whole
    <3>2. QED  BY <1>4, <1>13, <2>1, <3>1
  <2>2. CASE Torn
    BY <1>1, <1>3, <2>2 DEF Torn
  <2>3. QED  BY <1>2, <2>1, <2>2 DEF AtReturn
<1>15. Len(out') < Len(conv') => Small'
  <2>1. SUFFICES ASSUME j + 1 < Len(conv), IsHeader(conv[j + 2])
                 PROVE  Len(got) <= MAXHTTPHEADERLENGTH + MAXRECV
    <3>1. Current' = conv[(j + 1) + 1]
      BY <1>3, <1>7 DEF Current
    <3>2. (j + 1) + 1 = j + 2
      BY <1>5
    <3>3. QED  BY <1>1, <1>3, <1>7, <3>1, <3>2 DEF Small
  <2>2. j + 1 \in 1..Len(conv) /\ j + 1 # Len(conv) /\ (j + 1) + 1 = j + 2
    BY <1>5, <2>1
  <2>3. /\ IsFrame(conv[j + 1], {conv[j + 2].kind}, conv[j + 2].text)
        /\ conv[j + 1].kind \in {"header", "wrongheader", "chunk", "last", "body"}
    <3> DEFINE i == j + 1
    <3>1. i \in 1..Len(conv) /\ i # Len(conv) /\ i + 1 = j + 2
      BY <2>2
    <3> HIDE DEF i
    <3>2. IsFrame(conv[i], {conv[i + 1].kind}, conv[i + 1].text)
          /\ conv[i].kind \in {"header", "wrongheader", "chunk", "last", "body"}
      BY <1>5, <3>1, FrameFacts
    <3>3. IsFrame(conv[i], {conv[j + 2].kind}, conv[j + 2].text)
      BY <3>1, <3>2
    <3>4. QED  BY <3>2, <3>3 DEF i
  <2>4. IsHeader(Current) \/ Current.kind = "last"
    BY <1>5, <2>1, <2>3 DEF IsFrame, IsHeader
  <2>5. CASE IsHeader(Current)
    BY <1>2, <2>5 DEF AtReturn, Small
  <2>6. CASE Current.kind = "last"
    <3>1. Current.text = <<>>
      BY <1>5, <2>6, FrameFacts
    <3>2. got = <<>>
      BY <1>9, <2>6, <3>1 DEF Contents, TornText, IsHeader
    <3>3. Len(got) = 0
      BY <3>2
    <3>4. MAXHTTPHEADERLENGTH \in Nat /\ MAXRECV \in Nat
      BY <1>2, Everywhere
    <3>5. QED  BY <3>3, <3>4
  <2>7. QED  BY <2>4, <2>5, <2>6
<1>16. PlaceInv'
  <2>1. AtCall'
    BY <1>14, <1>15 DEF AtCall
  <2>2. QED  BY <1>1, <2>1, Zenon DEF PlaceInv
<1>17. QED
  BY <1>4, <1>8, <1>11, <1>16 DEF IInv, BufferInv

LEMMA StutterKeeps ==
  ASSUME IInv, UNCHANGED vars
  PROVE  IInv'
<1>1. /\ conv' = conv /\ recvd' = recvd /\ closed' = closed /\ badcut' = badcut /\ RecvBuf' = RecvBuf
      /\ pc' = pc /\ temp' = temp /\ got' = got /\ poscount' = poscount /\ received' = received
      /\ want' = want /\ out' = out
  BY DEF vars, network, locals
<1>2. /\ Stream' = Stream /\ Current' = Current /\ Start' = Start /\ Begin' = Begin
      /\ Text' = Text /\ Line' = Line /\ End' = End /\ Whole' = Whole
      /\ IsHeader(Current)' = IsHeader(Current) /\ Contents(Current)' = Contents(Current)
      /\ Owed(Current)' = Owed(Current) /\ TooLong(Current)' = TooLong(Current)
      /\ Encoded([Current EXCEPT !.before = <<>>])' = Encoded([Current EXCEPT !.before = <<>>])
  BY <1>1, Same
<1>3. BufferInv /\ Network /\ Buffer /\ Locals
  BY DEF IInv, BufferInv
<1>4. Network' /\ Buffer' /\ Taken' = Taken
  <2>1. closed' \in BOOLEAN
    BY <1>1, <1>3 DEF Network
  <2>2. QED  BY <1>1, <1>3, <2>1, ClosedLate
<1>5. Locals'
  BY <1>1, <1>3 DEF Locals
<1>6. Small' = Small /\ Torn' = Torn /\ TornText' = TornText /\ Stuck' = Stuck
  BY <1>1, <1>2 DEF Small, Torn, TornText, Stuck
<1>7. /\ AtCall' = AtCall /\ AtSkip' = AtSkip /\ AtFind' = AtFind /\ AtMore' = AtMore
      /\ AtCRLF' = AtCRLF /\ AtChunk' = AtChunk /\ AtData' = AtData /\ AtBody' = AtBody
      /\ AtRecv' = AtRecv /\ AtReturn' = AtReturn
  <2>1. AtCall' = AtCall /\ AtSkip' = AtSkip
    BY <1>1, <1>2, <1>4, <1>6 DEF AtCall, AtSkip
  <2>2. AtFind' = AtFind /\ AtMore' = AtMore
    BY <1>1, <1>2, <1>4 DEF AtFind, AtMore, Piece
  <2>3. AtCRLF' = AtCRLF /\ AtChunk' = AtChunk
    BY <1>1, <1>2, <1>4, <1>6 DEF AtCRLF, AtChunk
  <2>4. AtData' = AtData /\ AtBody' = AtBody
    BY <1>1, <1>2, <1>4, <1>6 DEF AtData, AtBody, Piece
  <2>5. AtRecv' = AtRecv /\ AtReturn' = AtReturn
    BY <1>1, <1>2, <1>4, <1>6 DEF AtRecv, AtReturn, Piece
  <2>6. QED  BY <2>1, <2>2, <2>3, <2>4, <2>5
<1>8. PlaceInv
  BY DEF IInv
<1>9. PlaceInv'
  <2>1. (Len(out) < Len(conv))' = (Len(out) < Len(conv)) /\ (Len(out) = Len(conv))' = (Len(out) = Len(conv))
    BY <1>1
  <2>2. /\ (pc \notin {"call", "done"} => Len(out) < Len(conv))'
        /\ (pc = "done" => Len(out) = Len(conv))'
    BY <1>1, <1>8, <2>1 DEF PlaceInv
  <2>3. (pc \in {"find", "more", "crlf", "data", "recv", "return"} => Whole)'
    BY <1>1, <1>2, <1>8 DEF PlaceInv
  <2>4. /\ (pc = "call" => AtCall)' /\ (pc = "skip" => AtSkip)' /\ (pc = "find" => AtFind)'
        /\ (pc = "more" => AtMore)' /\ (pc = "crlf" => AtCRLF)' /\ (pc = "chunk" => AtChunk)'
        /\ (pc = "data" => AtData)' /\ (pc = "body" => AtBody)' /\ (pc = "recv" => AtRecv)'
        /\ (pc = "return" => AtReturn)'
    BY <1>1, <1>7, <1>8 DEF PlaceInv
  <2>5. (pc = "failed" => (closed \/ badcut \/ TooLong(Current)) /\ (badcut \/ Small))'
    BY <1>1, <1>2, <1>6, <1>8 DEF PlaceInv
  <2>6. QED  BY <2>2, <2>3, <2>4, <2>5 DEF PlaceInv
<1>10. OnlyFrames'
  BY <1>1, SameFrames DEF IInv
<1>11. QED
  BY <1>4, <1>5, <1>9, <1>10 DEF IInv, BufferInv

-----------------------------------------------------------------------------
(* The theorems.                                                           *)

\* No recv() has ended badly before the first.
LEMMA NoneBadYet ==
  ASSUME NEW c, IsConversation(c), conv = c, NEW i \in 1..Len(c)
  PROVE  0 \notin BadPlaces(i)
<1> DEFINE f == c[i]
           s == Len(Sent(c, i - 1))
           e == Len(Encoded(f))
           l == Len(SizeLine(f))
           t == Len(f.text)
<1>1. s \in Nat /\ e \in Nat
  BY Inside
<1>2. BadPlaces(i) = CASE f.kind = "header" -> {s + e - 1}
                       [] f.kind = "chunk" -> (s + 1)..(s + l - 1) \cup {s + e - 1}
                       [] f.kind = "last" -> (s + 1)..(s + l - 1)
                       [] OTHER -> {}
  BY DEF BadPlaces
<1>3. /\ f \in Frame /\ (f.kind \in {"chunk", "last"} => Chunky(f))
      /\ f.text \in Seq(Bytes) /\ f.before \in Seq(Bytes)
  BY FrameFacts
<1>4. f.kind = "header" => e > 1
  <2>1. SUFFICES ASSUME f.kind = "header" PROVE e > 1
    OBVIOUS
  <2> DEFINE b == Len(f.before)
             h == Len(HeaderEnd(f))
  <2>2. h = 4 /\ e = b + t + h
    BY <1>3, <2>1, HeaderLayout DEF IsHeader
  <2>3. t \in Nat /\ b \in Nat
    <3> DEFINE ft == f.text
               fb == f.before
    <3>1. ft \in Seq(Bytes) /\ fb \in Seq(Bytes)
      BY <1>3
    <3> HIDE DEF ft, fb
    <3>2. Len(ft) \in Nat /\ Len(fb) \in Nat
      BY <3>1
    <3>3. QED  BY <3>2 DEF ft, fb
  <2> HIDE DEF t, b, h, e, f
  <2>4. QED  BY <2>2, <2>3
<1>5. f.kind = "chunk" => e > 1
  <2>1. SUFFICES ASSUME f.kind = "chunk" PROVE e > 1
    OBVIOUS
  <2>2. Chunky(f)
    BY <1>3, <2>1
  <2>3. e = l + t + 2
    BY <1>3, <2>2, ChunkLayout
  <2>4. t \in 0..3
    BY <2>2 DEF Chunky
  <2>5. l \in Nat
    <3>1. SizeLine(f) \in Seq(Bytes)
      BY <1>3, <2>2, SizeLineLayout
    <3>2. QED  BY <3>1
  <2> HIDE DEF t, l, e, f
  <2>6. QED  BY <2>3, <2>4, <2>5
<1> HIDE DEF s, e, l, t, f
<1>6. s + e - 1 # 0 \/ ~ (e > 1)
  BY <1>1
<1>7. 0 \notin (s + 1)..(s + l - 1)
  BY <1>1
<1>8. QED
  BY <1>2, <1>4, <1>5, <1>6, <1>7

LEMMA Initially ==
  ASSUME Init
  PROVE  IInv
<1>1. /\ conv \in Conversations /\ recvd = 0 /\ closed = FALSE /\ badcut = FALSE
      /\ RecvBuf = <<>> /\ pc = "call" /\ temp = <<>> /\ got = <<>>
      /\ poscount = 0 /\ received = 0 /\ want = Nothing /\ out = <<>>
  BY DEF Init
<1>2. IsConversation(conv)
  BY <1>1, ReaderAssumption
<1>3. Len(conv) \in Nat /\ Stream \in Seq(Bytes) /\ Sent(conv, 0) = <<>> /\ DOMAIN conv = 1..Len(conv)
  <2>1. /\ Len(conv) \in Nat /\ Sent(conv, 0) = <<>>
        /\ \A i \in 0..Len(conv) : Sent(conv, i) \in Seq(Bytes)
    BY <1>2, SentStep
  <2>2. Stream \in Seq(Bytes)
    <3>1. Len(conv) \in 0..Len(conv)
      BY <2>1
    <3>2. QED  BY <2>1, <3>1 DEF Stream
  <2>3. DOMAIN conv = 1..Len(conv)
    <3>1. conv \in Seq(Frame)
      BY <1>2 DEF IsConversation
    <3>2. QED  BY <3>1
  <2>4. QED  BY <2>1, <2>2, <2>3
<1>4. Len(out) = 0 /\ Len(RecvBuf) = 0 /\ Len(got) = 0 /\ DOMAIN out = {}
  BY <1>1
<1>5. WORD \in Nat \ {0} /\ MAXRECV \in Nat \ {0} /\ MAXHTTPHEADERLENGTH \in Nat
  BY ReaderAssumption
<1>6. Taken = 0
  <2>1. recvd = 0 /\ Len(RecvBuf) = 0
    BY <1>1, <1>4
  <2>2. QED  BY <2>1 DEF Taken
<1>7. Network
  <2>1. recvd \in 0..Len(Stream)
    <3>1. Len(Stream) \in Nat
      BY <1>3
    <3>2. QED  BY <1>1, <3>1
  <2>2. \A i \in DOMAIN conv : recvd \notin BadPlaces(i)
    BY <1>1, <1>2, <1>3, NoneBadYet
  <2>3. QED  BY <1>1, <2>1, <2>2 DEF Network
<1>8. Buffer
  <2>1. Piece(Taken, recvd) = <<>>
    BY <1>1, <1>6 DEF Piece, Cut
  <2>2. <<>> \in Seq(Bytes)
    OBVIOUS
  <2>3. QED  BY <1>1, <1>4, <1>5, <2>1, <2>2 DEF Buffer
<1>9. Locals
  <2>1. 0 \in 0..(WORD - 1)
    BY <1>5
  <2>2. want \in [n : 0..(WORD - 1), keep : BOOLEAN, then : Places]
    BY <1>1, <2>1 DEF Nothing, Places
  <2>3. <<>> \in Seq(Bytes) /\ <<>> \in Seq(Seq(Bytes))
    OBVIOUS
  <2>4. QED  BY <1>1, <1>3, <1>4, <2>2, <2>3 DEF Locals, Places
<1>10. AtCall
  <2>1. Start = 0
    <3>1. Len(Sent(conv, 0)) = 0
      BY <1>3
    <3>2. QED  BY <1>4, <3>1 DEF Start
  <2>2. Begin = 0
    BY <1>4, <2>1 DEF Begin
  <2>3. Whole
    BY <1>4 DEF Whole
  <2>4. Small
    BY <1>4, <1>5 DEF Small
  <2>5. QED  BY <1>6, <2>2, <2>3, <2>4 DEF AtCall
<1>11. PlaceInv
  BY <1>1, <1>10, Zenon DEF PlaceInv
<1>12. OnlyFrames
  BY <1>4 DEF OnlyFrames
<1>13. QED
  BY <1>7, <1>8, <1>9, <1>11, <1>12 DEF IInv, BufferInv

LEMMA Inductive ==
  ASSUME IInv, [Next]_vars
  PROVE  IInv'
<1>1. CASE RecvMore
  BY <1>1, RecvMoreKeeps
<1>2. CASE NoMore
  BY <1>2, NoMoreKeeps
<1>3. CASE Call
  BY <1>3, CallKeeps
<1>4. CASE Return
  BY <1>4, ReturnKeeps
<1>5. CASE SkipBlanks
  BY <1>5, SkipBlanksKeeps
<1>6. CASE NotFound
  BY <1>6, NotFoundKeeps
<1>7. CASE More
  BY <1>7, MoreKeeps
<1>8. CASE FindEnd
  BY <1>8, FindEndKeeps
<1>9. CASE LastCRLF
  BY <1>9, LastCRLFKeeps
<1>10. CASE ReadSize
  BY <1>10, ReadSizeKeeps
<1>11. CASE Data
  BY <1>11, DataKeeps
<1>12. CASE Body
  BY <1>12, BodyKeeps
<1>13. CASE UNCHANGED vars
  BY <1>13, StutterKeeps
<1>14. QED
  BY <1>1, <1>2, <1>3, <1>4, <1>5, <1>6, <1>7, <1>8, <1>9, <1>10, <1>11, <1>12, <1>13 DEF Next

\* The inductive invariant: where in the stream the worker is at every place of
\* its functions, and what its variables hold of it.
THEOREM Always == Spec => []IInv
<1>1. Init => IInv
  BY Initially
<1>2. IInv /\ [Next]_vars => IInv'
  BY Inductive
<1>3. QED
  BY <1>1, <1>2, PTL DEF Spec

\* The buffer never holds more than one recv(), and a RecvLength() never waits for
\* more than an unsigned int can say.
THEOREM TypeCorrect == Spec => []TypeOK
<1>1. IInv => TypeOK
  BY DEF IInv, BufferInv, Network, Buffer, Locals, TypeOK
<1>2. QED
  BY <1>1, Always, PTL

\* Whatever the pieces in which a stream arrives, the reading functions return its
\* headers, chunks and bodies, one after the other, and of a header that was broken
\* off only what came of it.
THEOREM FramesAreRead == Spec => []OnlyFrames
<1>1. IInv => OnlyFrames
  BY DEF IInv
<1>2. QED
  BY <1>1, Always, PTL

\* Only a closed connection, a length above the limits or a recv() that ended at one
\* of the bad places makes a reading function fail.
THEOREM FailuresExplained == Spec => []OnlyBadCutsFail
<1>1. IInv => OnlyBadCutsFail
  BY Zenon DEF IInv, PlaceInv, OnlyBadCutsFail, Current
<1>2. QED
  BY <1>1, Always, PTL

LEMMA SmallEnough ==
  ASSUME IInv
  PROVE  HeaderBounded
<1>1. SUFFICES ASSUME ~ badcut, Len(out) < Len(conv), IsHeader(Current)
               PROVE  Len(got) <= MAXHTTPHEADERLENGTH + MAXRECV
  BY DEF HeaderBounded, Current
<1>2. BufferInv /\ PlaceInv /\ pc \in Places
  BY DEF IInv, BufferInv, Locals
<1>3. Current.kind \notin {"chunk", "last", "body"}
  BY <1>1 DEF IsHeader
<1>4. /\ MAXHTTPHEADERLENGTH \in Nat /\ MAXRECV \in Nat /\ Text \in Nat /\ Stream \in Seq(Bytes)
      /\ Taken \in Nat /\ recvd \in Nat /\ End \in Nat /\ End <= Len(Stream) /\ Len(Stream) \in Nat
      /\ recvd <= Len(Stream) /\ Taken <= recvd
  BY <1>1, <1>2, HeaderPlaces
<1>5. CASE Small
  BY <1>1, <1>5 DEF Small
<1>6. CASE pc = "skip"
  <2>1. got = <<>>
    BY <1>2, <1>6 DEF PlaceInv, AtSkip
  <2>2. Len(got) = 0
    BY <2>1
  <2>3. QED  BY <1>4, <2>2
<1>7. CASE pc = "find"
  <2>1. /\ Taken \in Text..(End - 1) /\ got = Cut(Stream, Text, Taken)
        /\ Taken - Text <= MAXHTTPHEADERLENGTH
    BY <1>2, <1>7 DEF PlaceInv, AtFind, Piece
  <2>2. Taken \in Text..Len(Stream)
    BY <1>4, <2>1
  <2>3. Len(got) = Taken - Text
    BY <1>4, <2>1, <2>2, CutIs
  <2>4. QED  BY <1>4, <2>1, <2>3
<1>8. CASE pc = "more"
  <2>1. /\ recvd \in (Text + 1)..(End - 1) /\ got = Cut(Stream, Text, recvd)
        /\ recvd - Text <= received /\ received <= MAXHTTPHEADERLENGTH /\ received \in Nat
    BY <1>2, <1>8 DEF PlaceInv, AtMore, Piece, BufferInv, Locals
  <2>2. recvd \in Text..Len(Stream)
    BY <1>4, <2>1
  <2>3. Len(got) = recvd - Text
    BY <1>4, <2>1, <2>2, CutIs
  <2>4. recvd - Text <= MAXHTTPHEADERLENGTH + MAXRECV
    BY <1>4, <2>1
  <2>5. QED  BY <2>3, <2>4
<1>9. CASE pc \in {"chunk", "data", "body", "recv", "done"}
  <2>1. pc # "chunk"
    BY <1>2, <1>3 DEF PlaceInv, AtChunk
  <2>2. pc # "data"
    BY <1>2, <1>3 DEF PlaceInv, AtData
  <2>3. pc # "body"
    BY <1>2, <1>3 DEF PlaceInv, AtBody
  <2>4. pc # "recv"
    BY <1>1, <1>2, <1>3 DEF PlaceInv, AtRecv
  <2>5. pc # "done"
    <3>1. Len(out) # Len(conv)
      <4>1. Len(out) \in Nat /\ Len(conv) \in Nat
        BY <1>2, Everywhere
      <4>2. QED  BY <1>1, <4>1
    <3>2. QED  BY <1>2, <3>1 DEF PlaceInv
  <2>6. QED  BY <1>9, <2>1, <2>2, <2>3, <2>4, <2>5
<1>10. CASE pc \in {"call", "crlf", "return", "failed"}
  <2>1. Small
    BY <1>1, <1>2, <1>10 DEF PlaceInv, AtCall, AtCRLF, AtReturn
  <2>2. QED  BY <1>5, <2>1
<1>11. QED
  BY <1>2, <1>6, <1>7, <1>8, <1>9, <1>10 DEF Places

\* However long a header is, and however it arrives, no more of it than the limit
\* and one recv() is ever kept, except when its end was cut badly.
THEOREM HeadersBounded == Spec => []HeaderBounded
<1>1. IInv => HeaderBounded
  BY SmallEnough
<1>2. QED
  BY <1>1, Always, PTL

-----------------------------------------------------------------------------
(* The loops end.                                                          *)

\* What the places of the loops promise besides.
Tries ==
    /\ pc = "chunk" => received <= MAXCHUNKHEADER
    /\ pc = "recv" => want.then \in {"return", "crlf"}

LEMMA TriesKept ==
  ASSUME IInv, Tries, [Next]_vars
  PROVE  Tries'
<1> USE DEF Tries, Places
<1>0. /\ MAXCHUNKHEADER \in Nat /\ received \in Nat
      /\ want \in [n : 0..(WORD - 1), keep : BOOLEAN, then : Places]
  BY ReaderAssumption DEF IInv, BufferInv, Locals
<1>1. CASE RecvMore
  BY <1>0, <1>1 DEF RecvMore
<1>2. CASE NoMore
  BY <1>2 DEF NoMore
<1>3. CASE Call
  BY <1>0, <1>3 DEF Call, Place
<1>4. CASE Return
  BY <1>4 DEF Return
<1>5. CASE SkipBlanks
  BY <1>5 DEF SkipBlanks
<1>6. CASE NotFound
  BY <1>6 DEF NotFound
<1>7. CASE More
  BY <1>7 DEF More
<1>8. CASE FindEnd
  BY <1>8 DEF FindEnd, RecvLength
<1>9. CASE LastCRLF
  BY <1>9 DEF LastCRLF, RecvLength
<1>10. CASE ReadSize
  <2>1. PICK p \in Received :
            /\ Recv(p)
            /\ received' = received + Len(p) \/ received' = received
            /\ pc' # "recv"
            /\ pc' = "chunk" => ~ received' > MAXCHUNKHEADER
    BY <1>10 DEF ReadSize, Looked
  <2>2. Len(p) \in Nat
    BY <2>1, WhatIsReceived DEF IInv
  <2> QED
    BY <1>0, <2>1, <2>2
<1>11. CASE Data
  BY <1>11 DEF Data, RecvLength
<1>12. CASE Body
  BY <1>12 DEF Body
<1>13. CASE UNCHANGED vars
  BY <1>13 DEF vars, locals
<1> QED
  BY <1>1, <1>2, <1>3, <1>4, <1>5, <1>6, <1>7, <1>8, <1>9, <1>10, <1>11, <1>12, <1>13 DEF Next

\* What has been received and taken: it never becomes less.
Moved == recvd + Taken

\* A step that takes more of the stream, or goes on to a place that counts less.
LEMMA Nearer ==
  ASSUME BufferInv, BufferInv', conv' = conv, out' = out, NEW a \in Nat, NEW b \in Nat,
         Ahead = a, Ahead' = b,
         \/ Moved' >= Moved /\ b < a
         \/ Moved' > Moved /\ b < a + 10
  PROVE  Left' \in 0..(Left - 1)
<1> DEFINE F == Len(conv) - Len(out)
           K == (MAXCHUNKHEADER + 8) * F
           S == Len(Stream)
           n == Len(RecvBuf)
<1>1. /\ F \in Nat /\ S \in Nat /\ n \in Nat /\ recvd \in Nat /\ recvd <= S
      /\ Moved = 2 * recvd - n
  BY Everywhere DEF Moved, Taken
<1>2. PICK r \in Nat, m \in Nat : recvd' = r /\ Len(RecvBuf') = m /\ r <= S /\ Moved' = 2 * r - m
  <2>1. Stream' = Stream
    BY Same
  <2>2. /\ recvd' \in Nat /\ recvd' <= Len(Stream') /\ Len(RecvBuf') \in Nat
        /\ Taken' = recvd' - Len(RecvBuf')
    BY Everywhere, <2>1, LenProperties DEF BufferInv, Network, Buffer, Taken
  <2> QED
    BY <2>1, <2>2 DEF Moved
<1>3. K \in Nat
  <2>1. MAXCHUNKHEADER + 8 \in Nat
    BY ReaderAssumption
  <2> HIDE DEF F
  <2> QED
    BY <1>1, <2>1
<1>4. Left = K + 20 * (S - recvd) + 10 * n + a
  BY DEF Left
<1>5. Left' = K + 20 * (S - r) + 10 * m + b
  BY <1>2, Same DEF Left
<1> HIDE DEF K, S, n, F
<1> QED
  BY <1>1, <1>2, <1>3, <1>4, <1>5

\* What is left of a text from its byte a on.
LEMMA RestOf ==
  ASSUME NEW S, NEW s \in Seq(S), NEW a \in Nat \ {0}
  PROVE  /\ SubSeq(s, a, Len(s)) \in Seq(S) /\ Len(SubSeq(s, a, Len(s))) <= Len(s)
         /\ a > 1 /\ Len(s) > 0 => Len(SubSeq(s, a, Len(s))) < Len(s)
<1> DEFINE n == Len(s)
           t == SubSeq(s, a, n)
<1>1. n \in Nat /\ \A i \in a..n : s[i] \in S
  BY ElementOfSeq, LenProperties
<1>2. t \in Seq(S) /\ Len(t) = IF a <= n THEN n - a + 1 ELSE 0
  <2> HIDE DEF n
  <2> QED
    BY <1>1, SubSeqProperties
<1> HIDE DEF n, t
<1>3. Len(t) <= n /\ (a > 1 /\ n > 0 => Len(t) < n)
  BY <1>1, <1>2
<1> QED
  BY <1>2, <1>3 DEF n, t

LEMMA FirstNotIn ==
  ASSUME NEW S, NEW s \in Seq(S), NEW chars
  PROVE  FirstNot(s, chars) \in 0..Len(s)
<1> DEFINE I == {i \in 1..Len(s) : s[i] \notin chars}
<1>1. FirstNot(s, chars) = IF I # {} THEN Min(I) ELSE 0
  BY DEF FirstNot, SelectInSeq
<1>2. Len(s) \in Nat /\ I \subseteq Nat
  BY LenProperties
<1>3. I # {} => Min(I) \in I
  <2> HIDE DEF I
  <2> QED
    BY <1>2, MinOfSome
<1> QED
  BY <1>1, <1>2, <1>3

\* What is received and not put back is taken.
LEMMA MovesOn ==
  ASSUME BufferInv, NEW p \in Received, Recv(p), RecvBuf' \in Seq(Bytes), Len(RecvBuf') <= Len(p)
  PROVE  /\ Moved \in Int /\ Moved' \in Int /\ Moved' >= Moved
         /\ RecvBuf = <<>> \/ Len(RecvBuf') < Len(p) => Moved' > Moved
<1>1. PICK r \in Nat :
          /\ recvd' = r /\ Taken < r /\ recvd <= r /\ (RecvBuf = <<>> => recvd = Taken)
          /\ Len(p) = r - Taken
  BY WhatIsReceived
<1>2. Taken \in Nat /\ recvd \in Nat
  BY Everywhere
<1>3. PICK m \in Nat : Len(RecvBuf') = m /\ Moved' = 2 * r - m
  <2>1. PICK m \in Nat : Len(RecvBuf') = m
    BY LenProperties
  <2> QED
    BY <1>1, <2>1 DEF Moved, Taken
<1> DEFINE T == Taken
<1>4. Moved = recvd + T
  BY DEF Moved
<1> HIDE DEF T
<1>5. /\ m <= r - T /\ T \in Nat /\ recvd \in Nat /\ recvd <= r /\ T < r
      /\ (RecvBuf = <<>> => recvd = T)
  BY <1>1, <1>2, <1>3 DEF T
<1>6. Moved \in Int /\ Moved' \in Int /\ Moved' >= Moved
  BY <1>3, <1>4, <1>5
<1>7. ASSUME RecvBuf = <<>>
      PROVE  Moved' > Moved
  BY <1>3, <1>4, <1>5, <1>7
<1>8. ASSUME Len(RecvBuf') < Len(p)
      PROVE  Moved' > Moved
  <2>1. m < r - T
    BY <1>1, <1>3, <1>8 DEF T
  <2> QED
    BY <1>3, <1>4, <1>5, <2>1
<1> QED
  BY <1>6, <1>7, <1>8

\* RecvLength() never gives back.
LEMMA TakesOn ==
  ASSUME BufferInv, UNCHANGED network, NEW n \in Nat, NEW keep, NEW then, RecvLength(n, keep, then)
  PROVE  /\ Moved \in Int /\ Moved' \in Int /\ Moved' >= Moved
         /\ pc' \in {"recv", then}
<1>1. /\ recvd \in Nat /\ Taken \in Nat /\ Taken <= recvd /\ recvd' = recvd
  BY Everywhere, Quiet
<1>2. CASE recvd - Taken < n
  <2>1. Taken' = recvd /\ pc' = "recv"
    BY <1>2, TakesAll
  <2> DEFINE T == Taken
  <2>2. Moved = recvd + T /\ Moved' = recvd + recvd /\ T \in Nat /\ T <= recvd
    BY <1>1, <2>1 DEF Moved
  <2> HIDE DEF T
  <2> QED
    BY <1>1, <2>1, <2>2
<1>3. CASE n <= recvd - Taken
  <2>1. Taken' = Taken + n /\ pc' = then
    BY <1>3, TakesSome
  <2> DEFINE T == Taken
  <2>2. Moved = recvd + T /\ Moved' = recvd + (T + n) /\ T \in Nat
    BY <1>1, <2>1 DEF Moved
  <2> HIDE DEF T
  <2> QED
    BY <1>1, <2>1, <2>2
<1> QED
  BY <1>1, <1>2, <1>3

\* How much the places count.
Counts ==
    /\ MAXCHUNKHEADER \in Nat /\ received \in Nat /\ Ahead \in Nat
    /\ pc = "call" => Ahead = MAXCHUNKHEADER + 8
    /\ pc = "chunk" => Ahead = MAXCHUNKHEADER - received + 6 /\ received <= MAXCHUNKHEADER
    /\ pc \in {"skip", "body"} => Ahead = 6
    /\ pc = "find" => Ahead = 5
    /\ pc \in {"crlf", "data"} => Ahead = 4
    /\ pc = "recv" => Ahead = 3
    /\ pc = "more" => Ahead = 2
    /\ pc = "return" => Ahead = 1
    /\ pc \in {"done", "failed"} => Ahead = 0

LEMMA PlacesCount ==
  ASSUME Locals, Tries
  PROVE  Counts
<1>1. MAXCHUNKHEADER \in Nat /\ received \in Nat /\ pc \in Places
  BY ReaderAssumption DEF Locals
<1> QED
  BY <1>1 DEF Counts, Ahead, Tries, Places

LEMMA NextPlacesCount ==
  ASSUME Locals', Tries'
  PROVE  Counts'
<1>1. MAXCHUNKHEADER \in Nat /\ received' \in Nat /\ pc' \in Places
  BY ReaderAssumption DEF Locals
<1> QED
  BY <1>1 DEF Counts, Ahead, Tries, Places

\* A step that reads on in the same frame.
LEMMA NearerBy ==
  ASSUME BufferInv, BufferInv', Counts, Counts', conv' = conv, out' = out,
         Moved \in Int, Moved' \in Int, Moved' >= Moved,
         \/ Ahead' < Ahead
         \/ Moved' > Moved /\ Ahead' < Ahead + 10
  PROVE  Left' \in 0..(Left - 1)
<1>1. PICK a \in Nat, b \in Nat : Ahead = a /\ Ahead' = b
  BY DEF Counts
<1> QED
  BY <1>1, Nearer

LEMMA ReadSizeNearer ==
  ASSUME IInv, IInv', Counts, Counts', Tries', ReadSize
  PROVE  Left' \in 0..(Left - 1)
<1>1. BufferInv /\ BufferInv' /\ pc = "chunk" /\ out' = out
  BY DEF IInv, ReadSize
<1>2. PICK p \in Received :
          /\ Recv(p)
          /\ \/ /\ received' = received + Len(p) /\ RecvBuf' = p /\ pc' \in {"failed", "chunk"}
             \/ /\ received' = received /\ RecvBuf' = SubSeq(p, 3, Len(p))
                /\ pc' \in {"failed", "chunk"}
             \/ RecvBuf' = p /\ pc' = "failed"
             \/ \E q \in {i \in Nat : i > 1} :
                   RecvBuf' = SubSeq(p, q + 2, Len(p)) /\ pc' \in {"return", "failed", "data"}
  <2>1. PICK p \in Received :
            /\ Recv(p)
            /\ received' = IF Find(temp \o p, CRLF) = 0 THEN received + Len(p) ELSE received
            /\ \/ /\ Find(temp \o p, CRLF) <= 1
                  /\ RecvBuf' = IF Find(temp \o p, CRLF) = 0 THEN p ELSE SubSeq(p, Len(LineEnd) + 1, Len(p))
                  /\ pc' \in {"failed", "chunk"}
               \/ RecvBuf' = p /\ pc' = "failed"
               \/ /\ Find(temp \o p, CRLF) > 1
                  /\ RecvBuf' = SubSeq(p, Find(temp \o p, CRLF) + 2, Len(p))
                  /\ pc' \in {"return", "failed", "data"}
    BY DEF ReadSize, Looked
  <2>2. Len(LineEnd) + 1 = 3
    BY Ends DEF LineEnd
  <2>3. Find(temp \o p, CRLF) \in Nat
    <3>1. p \in Seq(Bytes) /\ temp \in Seq(Bytes) /\ CRLF \in Seq(Bytes)
      BY <1>1, <2>1, WhatIsReceived, Ends DEF BufferInv, Locals
    <3>2. temp \o p \in Seq(Bytes)
      BY <3>1, Joined
    <3> QED
      BY <3>1, <3>2, FindFirst
  <2> DEFINE q == Find(temp \o p, CRLF)
  <2> HIDE DEF q
  <2> QED
    BY <2>1, <2>2, <2>3 DEF q
<1>3. p \in Seq(Bytes) /\ Len(p) \in Nat \ {0} /\ conv' = conv
  <2>1. PICK r \in Nat : Taken < r /\ p \in Seq(Bytes) /\ Len(p) = r - Taken
    BY <1>1, <1>2, WhatIsReceived
  <2>2. Taken \in Nat
    BY <1>1, Everywhere
  <2> DEFINE T == Taken
  <2> HIDE DEF T
  <2>3. Len(p) \in Nat \ {0}
    BY <2>1, <2>2 DEF T
  <2> QED
    BY <1>1, <1>2, <2>1, <2>3, WhatIsReceived
<1>4. \A q \in {i \in Nat : i > 0} :
          SubSeq(p, q + 2, Len(p)) \in Seq(Bytes) /\ Len(SubSeq(p, q + 2, Len(p))) < Len(p)
  <2> SUFFICES ASSUME NEW q \in {i \in Nat : i > 0}
               PROVE  SubSeq(p, q + 2, Len(p)) \in Seq(Bytes) /\ Len(SubSeq(p, q + 2, Len(p))) < Len(p)
    OBVIOUS
  <2>1. q + 2 \in Nat \ {0} /\ q + 2 > 1
    OBVIOUS
  <2> DEFINE a == q + 2
  <2> HIDE DEF a
  <2> QED
    BY <1>3, <2>1, RestOf DEF a
<1>5. RecvBuf' \in Seq(Bytes) /\ (RecvBuf' = p \/ Len(RecvBuf') < Len(p))
  <2>1. SubSeq(p, 3, Len(p)) \in Seq(Bytes) /\ Len(SubSeq(p, 3, Len(p))) < Len(p)
    BY <1>3, RestOf
  <2>2. ASSUME NEW q \in {i \in Nat : i > 1}, RecvBuf' = SubSeq(p, q + 2, Len(p))
        PROVE  RecvBuf' \in Seq(Bytes) /\ Len(RecvBuf') < Len(p)
    <3>1. q \in {i \in Nat : i > 0}
      OBVIOUS
    <3> QED
      BY <1>4, <2>2, <3>1, Zenon
  <2>3. CASE RecvBuf' = SubSeq(p, 3, Len(p))
    BY <2>1, <2>3
  <2>4. CASE RecvBuf' = p
    BY <1>3, <2>4
  <2> QED
    BY <1>2, <2>2, <2>3, <2>4
<1>6. Moved \in Int /\ Moved' \in Int /\ Moved' >= Moved /\ (Len(RecvBuf') < Len(p) => Moved' > Moved)
  <2>1. Len(RecvBuf') <= Len(p)
    BY <1>3, <1>5, LenProperties
  <2> QED
    BY <1>1, <1>2, <1>5, <2>1, MovesOn
<1>7. \/ Ahead' < Ahead
      \/ Moved' > Moved /\ Ahead' < Ahead + 10
  <2>1. CASE received' = received + Len(p) /\ pc' \in {"failed", "chunk"}
    BY <1>1, <1>3, <2>1 DEF Counts
  <2>2. CASE received' = received /\ RecvBuf' = SubSeq(p, 3, Len(p)) /\ pc' \in {"failed", "chunk"}
    <3>1. Len(RecvBuf') < Len(p)
      BY <1>3, <2>2, RestOf
    <3> QED
      BY <1>1, <1>6, <2>2, <3>1 DEF Counts
  <2>3. CASE pc' \in {"return", "failed", "data"}
    BY <1>1, <2>3 DEF Counts
  <2> QED
    BY <1>2, <2>1, <2>2, <2>3
<1> QED
  BY <1>1, <1>3, <1>6, <1>7, NearerBy

LEMMA StepNearer ==
  ASSUME IInv, IInv', Counts, Counts', Tries, Tries', Next
  PROVE  Left' \in 0..(Left - 1)
<1>0. BufferInv /\ BufferInv' /\ Moved \in Int
  <2>1. BufferInv /\ BufferInv'
    BY DEF IInv
  <2>2. recvd \in Nat /\ Taken \in Nat
    BY <2>1, Everywhere
  <2> QED
    BY <2>1, <2>2 DEF Moved
<1>1. CASE RecvMore
  <2>1. pc = "recv" /\ RecvBuf = <<>> /\ out' = out /\ want.n \in Nat
    BY <1>1 DEF RecvMore, IInv, PlaceInv, AtRecv, BufferInv, Locals
  <2>2. PICK p \in Arriving :
            /\ Arrives(p)
            /\ RecvBuf' = RecvBuf \o SubSeq(p, Min({want.n, Len(p)}) + 1, Len(p))
            /\ pc' \in {"recv", want.then}
    BY <1>1, <2>1 DEF RecvMore
  <2>3. p \in Received /\ Recv(p) /\ conv' = conv /\ p \in Seq(Bytes)
    BY <1>0, <2>1, <2>2, NextBytes DEF Received, Recv
  <2>4. RecvBuf' \in Seq(Bytes) /\ Len(RecvBuf') <= Len(p)
    <3>1. Len(p) \in Nat
      BY <2>3, LenProperties
    <3>2. PICK m \in Nat : m = Min({want.n, Len(p)}) /\ m <= Len(p)
      BY <2>1, <3>1, MinIs
    <3>3. SubSeq(p, m + 1, Len(p)) \in Seq(Bytes) /\ Len(SubSeq(p, m + 1, Len(p))) <= Len(p)
      <4>1. m + 1 \in Nat \ {0}
        OBVIOUS
      <4> QED
        BY <2>3, <4>1, RestOf
    <3> DEFINE q == SubSeq(p, m + 1, Len(p))
    <3>4. q \in Seq(Bytes) /\ Len(q) <= Len(p) /\ RecvBuf' = <<>> \o q
      BY <2>1, <2>2, <3>2, <3>3
    <3> HIDE DEF q
    <3>5. <<>> \o q = q
      BY <3>4, ConcatEmptySeq
    <3> QED
      BY <3>4, <3>5
  <2>5. Moved' \in Int /\ Moved' > Moved
    BY <1>0, <2>1, <2>3, <2>4, MovesOn
  <2>6. pc' \in {"recv", "return", "crlf"}
    BY <2>1, <2>2 DEF Tries
  <2>9. Ahead' < Ahead + 10
    BY <2>1, <2>3, <2>5, <2>6 DEF Counts
  <2> QED
    BY <1>0, <2>1, <2>3, <2>5, <2>6, <2>9, NearerBy
<1>2. CASE NoMore
  <2>1. /\ pc \in {"more", "recv", "skip", "chunk", "body"} /\ pc' \in {"return", "failed"}
        /\ pc' = "return" => pc = "more"
        /\ conv' = conv /\ out' = out /\ recvd' = recvd /\ RecvBuf' = RecvBuf
    BY <1>2 DEF NoMore, Waiting, IsTolerated
  <2>2. Moved' = Moved
    BY <2>1 DEF Moved, Taken
  <2>9. Ahead' < Ahead
    BY <2>1, <2>2 DEF Counts
  <2> QED
    BY <1>0, <2>1, <2>2, <2>9, NearerBy
<1>3. CASE Call
  <2>1. /\ pc = "call" /\ pc' \in {"skip", "chunk", "body", "done"} /\ received' = 0
        /\ conv' = conv /\ out' = out /\ recvd' = recvd /\ RecvBuf' = RecvBuf
    BY <1>3 DEF Call, Place, network
  <2>2. Moved' = Moved
    BY <2>1 DEF Moved, Taken
  <2>9. Ahead' < Ahead
    BY <2>1, <2>2 DEF Counts
  <2> QED
    BY <1>0, <2>1, <2>2, <2>9, NearerBy
<1>5. CASE SkipBlanks
  <2>1. pc = "skip" /\ out' = out
    BY <1>5 DEF SkipBlanks
  <2>2. PICK p \in Received :
            /\ Recv(p)
            /\ \/ pc' = "failed" /\ RecvBuf' = p
               \/ pc' = "skip" /\ RecvBuf' = <<>>
               \/ pc' = "find" /\ RecvBuf' = SubSeq(p, FirstNot(p, Blank), Len(p)) /\ FirstNot(p, Blank) # 0
    BY <1>5 DEF SkipBlanks
  <2>3. conv' = conv /\ p \in Seq(Bytes)
    BY <1>0, <2>2, WhatIsReceived
  <2>4. Len(p) \in Nat \ {0}
    <3>1. PICK r \in Nat : Taken < r /\ Len(p) = r - Taken
      BY <1>0, <2>2, WhatIsReceived
    <3>2. Taken \in Nat
      BY <1>0, Everywhere
    <3> DEFINE T == Taken
    <3> HIDE DEF T
    <3> QED
      BY <3>1, <3>2 DEF T
  <2>5. /\ RecvBuf' \in Seq(Bytes) /\ Len(RecvBuf') <= Len(p)
        /\ pc' = "skip" => Len(RecvBuf') < Len(p)
    <3>1. CASE RecvBuf' = p /\ pc' = "failed"
      BY <2>3, <2>4, <3>1
    <3>2. CASE RecvBuf' = <<>>
      BY <2>4, <3>2, EmptySeq
    <3>3. CASE pc' = "find" /\ RecvBuf' = SubSeq(p, FirstNot(p, Blank), Len(p)) /\ FirstNot(p, Blank) # 0
      <4>1. FirstNot(p, Blank) \in Nat \ {0}
        BY <2>3, <2>4, <3>3, FirstNotIn
      <4> QED
        BY <2>3, <2>4, <3>3, <4>1, RestOf
    <3> QED
      BY <2>2, <3>1, <3>2, <3>3
  <2>6. Moved' \in Int /\ Moved' >= Moved /\ (pc' = "skip" => Moved' > Moved)
    BY <1>0, <2>2, <2>5, MovesOn
  <2>9. Ahead' < Ahead \/ (pc' = "skip" /\ Ahead' < Ahead + 10)
    BY <2>1, <2>2, <2>3, <2>6 DEF Counts
  <2> QED
    BY <1>0, <2>1, <2>2, <2>3, <2>6, <2>9, NearerBy
<1>6. CASE NotFound
  <2>1. /\ pc = "find" /\ pc' \in {"failed", "more"} /\ out' = out /\ UNCHANGED network
        /\ RecvBuf' = Erased(Len(RecvBuf))
    BY <1>6 DEF NotFound
  <2>2. Len(RecvBuf) \in Nat /\ Len(RecvBuf) = recvd - Taken /\ recvd \in Nat /\ Taken \in Nat
    BY <1>0, Everywhere
  <2>3. PICK m \in Nat : m = Len(RecvBuf) /\ m = recvd - Taken
    BY <2>2
  <2>4. Taken' = Taken + m /\ recvd' = recvd /\ conv' = conv
    BY <1>0, <2>1, <2>3, WhatIsKept, Quiet
  <2>5. Moved' \in Int /\ Moved' >= Moved
    BY <2>2, <2>3, <2>4 DEF Moved
  <2>9. Ahead' < Ahead
    BY <2>1, <2>4, <2>5 DEF Counts
  <2> QED
    BY <1>0, <2>1, <2>4, <2>5, <2>9, NearerBy
<1>7. CASE More
  <2>1. pc = "more" /\ pc' = "find" /\ RecvBuf = <<>> /\ out' = out
    BY <1>7 DEF More, IInv, PlaceInv, AtMore
  <2>2. PICK p \in Arriving : Arrives(p) /\ RecvBuf' = RecvBuf \o p
    BY <1>7 DEF More
  <2>3. p \in Received /\ Recv(p) /\ conv' = conv /\ p \in Seq(Bytes)
    BY <1>0, <2>1, <2>2, NextBytes DEF Received, Recv
  <2>4. RecvBuf' = p /\ Len(p) \in Nat
    BY <2>1, <2>2, <2>3, ConcatProperties, LenProperties
  <2>5. Moved' \in Int /\ Moved' > Moved
    BY <1>0, <2>1, <2>3, <2>4, MovesOn
  <2>9. Ahead' < Ahead + 10
    BY <2>1, <2>3, <2>5 DEF Counts
  <2> QED
    BY <1>0, <2>1, <2>3, <2>5, <2>9, NearerBy
<1>8. CASE FindEnd
  <2>1. pc = "find" /\ out' = out /\ UNCHANGED network
        /\ RecvLength(LastPart, TRUE, IF WrongHeader THEN "return" ELSE "crlf")
    BY <1>8 DEF FindEnd
  <2>2. LastPart \in Nat
    <3>1. AtFind /\ temp \in Seq(Bytes) /\ poscount \in Nat /\ WORD \in Nat \ {0}
      BY <1>0, <2>1, ReaderAssumption DEF IInv, PlaceInv, BufferInv, Locals
    <3>2. Position \in Nat
      BY <3>1, FindFirst, Ends DEF Position
    <3> DEFINE P == Position
    <3>3. LastPart = (P - 1 - poscount + 2) % WORD
      BY DEF LastPart
    <3> HIDE DEF P
    <3> QED
      BY <3>1, <3>2, <3>3 DEF P
  <2>3. Moved' \in Int /\ Moved' >= Moved /\ pc' \in {"recv", "return", "crlf"} /\ conv' = conv
    BY <1>0, <2>1, <2>2, TakesOn, Quiet
  <2>9. Ahead' < Ahead
    BY <2>1, <2>3 DEF Counts
  <2> QED
    BY <1>0, <2>1, <2>3, <2>9, NearerBy
<1>9. CASE LastCRLF
  <2>1. pc = "crlf" /\ out' = out /\ UNCHANGED network /\ RecvLength(2, FALSE, "return")
    BY <1>9 DEF LastCRLF
  <2>2. Moved' \in Int /\ Moved' >= Moved /\ pc' \in {"recv", "return"} /\ conv' = conv
    BY <1>0, <2>1, TakesOn, Quiet
  <2>9. Ahead' < Ahead
    BY <2>1, <2>2 DEF Counts
  <2> QED
    BY <1>0, <2>1, <2>2, <2>9, NearerBy
<1>10. CASE ReadSize
  BY <1>10, ReadSizeNearer
<1>11. CASE Data
  <2>1. pc = "data" /\ out' = out /\ UNCHANGED network /\ RecvLength(want.n, TRUE, "return")
    BY <1>11 DEF Data
  <2>2. want.n \in Nat
    BY <1>0 DEF BufferInv, Locals
  <2>3. Moved' \in Int /\ Moved' >= Moved /\ pc' \in {"recv", "return"} /\ conv' = conv
    BY <1>0, <2>1, <2>2, TakesOn, Quiet
  <2>9. Ahead' < Ahead
    BY <2>1, <2>3 DEF Counts
  <2> QED
    BY <1>0, <2>1, <2>3, <2>9, NearerBy
<1>12. CASE Body
  <2>1. pc = "body" /\ pc' \in {"return", "body"} /\ RecvBuf' = <<>> /\ out' = out
    BY <1>12 DEF Body
  <2>2. PICK p \in Received : Recv(p)
    BY <1>12 DEF Body
  <2>3. PICK r \in Nat : conv' = conv /\ p \in Seq(Bytes) /\ Taken < r /\ Len(p) = r - Taken
    BY <1>0, <2>2, WhatIsReceived
  <2>4. Taken \in Nat
    BY <1>0, Everywhere
  <2> DEFINE T == Taken
  <2>5. Len(p) > 0
    <3> HIDE DEF T
    <3> QED
      BY <2>3, <2>4 DEF T
  <2>6. Len(RecvBuf') < Len(p) /\ RecvBuf' \in Seq(Bytes) /\ Len(RecvBuf') <= Len(p)
    BY <2>1, <2>3, <2>5, EmptySeq, LenProperties
  <2>7. Moved' \in Int /\ Moved' > Moved
    BY <1>0, <2>2, <2>6, MovesOn
  <2>9. Ahead' < Ahead + 10
    BY <2>1, <2>3, <2>7 DEF Counts
  <2> QED
    BY <1>0, <2>1, <2>3, <2>7, <2>9, NearerBy
<1>4. CASE Return
  <2>1. /\ pc = "return" /\ pc' = "call" /\ out' = Append(out, got) /\ UNCHANGED network /\ RecvBuf' = RecvBuf
        /\ Len(out) < Len(conv)
    BY <1>4 DEF Return, IInv, PlaceInv
  <2>2. /\ Stream' = Stream /\ recvd' = recvd /\ conv' = conv
        /\ Len(out) \in Nat /\ Len(conv) \in Nat /\ Len(Stream) \in Nat /\ Len(RecvBuf) \in Nat
        /\ recvd \in Nat /\ recvd <= Len(Stream)
    BY <1>0, <2>1, Everywhere, Quiet DEF Stream
  <2>3. Len(out') = Len(out) + 1
    BY <2>1 DEF IInv, BufferInv, Locals
  <2>4. MAXCHUNKHEADER \in Nat /\ Ahead = 1 /\ Ahead' = MAXCHUNKHEADER + 8
    BY <2>1 DEF Counts
  <2> DEFINE F == Len(conv) - Len(out)
             G == Len(conv') - Len(out')
             K == (MAXCHUNKHEADER + 8) * F
             H == (MAXCHUNKHEADER + 8) * G
             R == 20 * (Len(Stream) - recvd) + 10 * Len(RecvBuf)
  <2>5. F \in Nat /\ G \in Nat /\ F = G + 1 /\ R \in Nat
    BY <2>1, <2>2, <2>3
  <2>6. Left = K + R + 1 /\ Left' = H + R + (MAXCHUNKHEADER + 8)
    <3>1. /\ Left = (MAXCHUNKHEADER + 8) * (Len(conv) - Len(out))
                       + 20 * (Len(Stream) - recvd) + 10 * Len(RecvBuf) + Ahead
          /\ Left' = (MAXCHUNKHEADER + 8) * (Len(conv') - Len(out'))
                       + 20 * (Len(Stream') - recvd') + 10 * Len(RecvBuf') + Ahead'
      BY DEF Left
    <3>2. K \in Int /\ H \in Int
      <4> HIDE DEF F, G
      <4> QED
        BY <2>4, <2>5
    <3>3. /\ Left = K + 20 * (Len(Stream) - recvd) + 10 * Len(RecvBuf) + 1
          /\ Left' = H + 20 * (Len(Stream) - recvd) + 10 * Len(RecvBuf) + (MAXCHUNKHEADER + 8)
      BY <2>1, <2>2, <2>4, <3>1
    <3> DEFINE x == 20 * (Len(Stream) - recvd)
               y == 10 * Len(RecvBuf)
    <3>4. x \in Int /\ y \in Int
      BY <2>2
    <3> HIDE DEF K, H, x, y
    <3> QED
      BY <2>4, <3>2, <3>3, <3>4 DEF x, y
  <2>7. K = H + (MAXCHUNKHEADER + 8) /\ H \in Nat
    <3> HIDE DEF F, G
    <3>1. K = (MAXCHUNKHEADER + 8) * (G + 1)
      BY <2>5
    <3>2. \A k \in Nat, g \in Nat : k * (g + 1) = k * g + k /\ k * g \in Nat
      OBVIOUS
    <3>3. MAXCHUNKHEADER + 8 \in Nat
      BY <2>4
    <3> QED
      BY <2>5, <3>1, <3>2, <3>3
  <2> HIDE DEF F, G, K, H, R
  <2> QED
    BY <2>4, <2>5, <2>6, <2>7
<1> QED
  BY <1>1, <1>2, <1>3, <1>4, <1>5, <1>6, <1>7, <1>8, <1>9, <1>10, <1>11, <1>12 DEF Next

\* However a stream is cut, every step brings the reading functions nearer to their
\* end: no loop of theirs goes on over a buffer that does not change.
THEOREM StepsCounted == Spec => StepsRunOut
<1>1. Init => Tries
  BY DEF Init, Tries
<1>2. IInv /\ Tries /\ [Next]_vars => Tries'
  BY TriesKept
<1>3. IInv /\ IInv' /\ Tries /\ Tries' /\ [Next]_vars => [Left' \in 0..(Left - 1)]_vars
  <2> SUFFICES ASSUME IInv, IInv', Tries, Tries', Next
               PROVE  Left' \in 0..(Left - 1)
    OBVIOUS
  <2>1. Counts /\ Counts'
    BY PlacesCount, NextPlacesCount DEF IInv, BufferInv
  <2> QED
    BY <2>1, StepNearer
<1> QED
  BY <1>1, <1>2, <1>3, Always, PTL DEF Spec, StepsRunOut

=============================================================================
