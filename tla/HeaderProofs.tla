---------------------------- MODULE HeaderProofs ----------------------------
(***************************************************************************)
(* What reading and passing on a header does to its lines, whatever they   *)
(* are and however many.                                                   *)
(***************************************************************************)
EXTENDS Headers, Counting

-----------------------------------------------------------------------------
(* Filters.                                                                *)

LEMMA RangeOfAppend ==
  ASSUME NEW X, NEW s \in Seq(X), NEW x
  PROVE  Range(Append(s, x)) = Range(s) \cup {x}
<1> DEFINE t == Append(s, x)
<1>1. /\ DOMAIN t = 1..(Len(s) + 1) /\ DOMAIN s = 1..Len(s) /\ Len(s) \in Nat
      /\ t[Len(s) + 1] = x /\ \A i \in 1..Len(s) : t[i] = s[i]
  OBVIOUS
<1> HIDE DEF t
<1>2. QED  BY <1>1 DEF Range, t

LEMMA OnlyLines ==
  ASSUME NEW X, NEW lines \in Seq(X), NEW S
  PROVE  /\ Only(lines, S) \in Seq(X)
         /\ Range(Only(lines, S)) = Range(lines) \cap S
<1> DEFINE n == Len(lines)
           only[i \in 0..Len(lines)] ==
             IF i = 0 THEN <<>>
             ELSE IF lines[i] \in S THEN Append(only[i - 1], lines[i]) ELSE only[i - 1]
           step == [i \in 1..n |-> [s \in Seq(X) |->
                      IF lines[i] \in S THEN Append(s, lines[i]) ELSE s]]
           taken(k) == {lines[i] : i \in 1..k} \cap S
           T == {k \in Nat : k <= n => only[k] \in Seq(X) /\ Range(only[k]) = taken(k)}
<1>1. n \in Nat /\ \A i \in 1..n : lines[i] \in X
  OBVIOUS
<1>2. only = [i \in 0..n |-> IF i = 0 THEN <<>>
                 ELSE IF lines[i] \in S THEN Append(only[i - 1], lines[i]) ELSE only[i - 1]]
  <2>1. step \in [1..n -> [Seq(X) -> Seq(X)]]
    BY <1>1
  <2>2. PICK f : Steps(f, Seq(X), <<>>, n, step)
    <3>1. <<>> \in Seq(X)
      OBVIOUS
    <3> HIDE DEF step, n
    <3>2. QED BY <1>1, <2>1, <3>1, StepByStep
  <2>3. f = [i \in 0..n |-> IF i = 0 THEN <<>>
                 ELSE IF lines[i] \in S THEN Append(f[i - 1], lines[i]) ELSE f[i - 1]]
    <3>1. ASSUME NEW i \in 1..n
          PROVE  f[i] = IF lines[i] \in S THEN Append(f[i - 1], lines[i]) ELSE f[i - 1]
      <4>1. f[i - 1] \in Seq(X) /\ f[i] = step[i][f[i - 1]]
        <5> HIDE DEF step, n
        <5>1. QED  BY <1>1, <2>2 DEF Steps
      <4>2. QED  BY <4>1
    <3>2. f \in [0..n -> Seq(X)] /\ f[0] = <<>>
      BY <2>2 DEF Steps
    <3> HIDE DEF n
    <3> DEFINE g == [i \in 0..n |-> IF i = 0 THEN <<>>
                      ELSE IF lines[i] \in S THEN Append(f[i - 1], lines[i]) ELSE f[i - 1]]
    <3>3. ASSUME NEW i \in 0..n PROVE f[i] = g[i]
      <4>1. CASE i = 0
        BY <4>1, <3>2
      <4>2. CASE i # 0
        <5>1. i \in 1..n
          BY <1>1, <4>2
        <5>2. QED  BY <3>1, <4>2, <5>1
      <4>3. QED  BY <4>1, <4>2
    <3>4. f = g
      <4> HIDE DEF g
      <4>1. g = [i \in 0..n |-> g[i]]
        BY DEF g
      <4>2. QED  BY <3>2, <3>3, <4>1
    <3>5. QED  BY <3>4
  <2>4. QED  BY <2>3
<1>3. Only(lines, S) = only[n]
  BY DEF Only
<1> HIDE DEF only
<1>4. 0 \in T
  BY <1>1, <1>2 DEF Range
<1>5. ASSUME NEW k \in Nat, k \in T PROVE k + 1 \in T
  <2>1. SUFFICES ASSUME k + 1 <= n
                 PROVE  only[k + 1] \in Seq(X) /\ Range(only[k + 1]) = taken(k + 1)
    OBVIOUS
  <2>2. only[k] \in Seq(X) /\ Range(only[k]) = taken(k)
    BY <1>5, <2>1
  <2>3. taken(k + 1) = taken(k) \cup ({lines[k + 1]} \cap S)
    BY <2>1
  <2>4. only[k + 1] = IF lines[k + 1] \in S THEN Append(only[k], lines[k + 1]) ELSE only[k]
    <3>1. k + 1 \in 0..n /\ k + 1 # 0 /\ (k + 1) - 1 = k
      BY <1>1, <2>1
    <3> HIDE DEF n
    <3>2. QED  BY <1>2, <3>1
  <2>5. Range(Append(only[k], lines[k + 1])) = Range(only[k]) \cup {lines[k + 1]}
    BY <2>2, RangeOfAppend
  <2>6. QED  BY <1>1, <2>1, <2>2, <2>3, <2>4, <2>5
<1>6. n \in T
  <2> HIDE DEF T
  <2>1. QED  BY <1>1, <1>4, <1>5, AllNumbers
<1>7. taken(n) = Range(lines) \cap S
  BY DEF Range
<1>8. QED
  BY <1>3, <1>6, <1>7
-----------------------------------------------------------------------------
(* Answers.                                                                *)

LEMMA LinesReadType ==
  ASSUME NEW lines \in Seq(HeaderLine)
  PROVE  /\ LinesRead(lines) \in Seq(HeaderLine)
         /\ Range(LinesRead(lines)) \subseteq Range(lines)
<1> DEFINE errors == {i \in 1..Len(lines) :
                        lines[i].name = "transfer-encoding" /\ lines[i].words[1] # "chunked"}
           error == IF errors # {} THEN Min(errors) ELSE 0
<1>1. error \in 0..Len(lines)
  <2>1. errors \subseteq 1..Len(lines) /\ errors \subseteq Nat
    OBVIOUS
  <2>2. errors # {} => Min(errors) \in errors
    <3> HIDE DEF errors
    <3>1. QED  BY <2>1, MinOfSome
  <2>3. Len(lines) \in Nat
    OBVIOUS
  <2> HIDE DEF errors
  <2>4. errors # {} => Min(errors) \in 1..Len(lines)
    BY <2>1, <2>2
  <2>5. QED  BY <2>3, <2>4
<1>2. LinesRead(lines) = IF error = 0 THEN lines ELSE SubSeq(lines, 1, error - 1)
  BY DEF LinesRead, SelectInSeq
<1> HIDE DEF error
<1>3. QED
  BY <1>1, <1>2 DEF Range

\* What an answer is understood as: the length that counts is that of one of its
\* lines.
LEMMA AnswerUnderstood ==
  ASSUME NEW lines \in Seq(HeaderLine), \A i \in DOMAIN lines : lines[i].num >= -1,
         NEW status, NEW h, h = AnalyseAnswer(status, lines)
  PROVE  /\ h.tokens \in Seq(HeaderLine)
         /\ h.ContentLength \in Nat \cup {-1}
         /\ h.ContentLength # -1 =>
              \E line \in Range(h.tokens) :
                 line.name = "content-length" /\ line.num = h.ContentLength
         /\ h.IsKeepAlive \in BOOLEAN /\ h.IsChunked \in BOOLEAN
         /\ status = "unreadable" => h.ContentLength = -1
<1> DEFINE read == IF status = "unreadable" THEN <<>> ELSE LinesRead(lines)
           lengths == {i \in DOMAIN read : read[i].name = "content-length" /\ read[i].num # -1}
<1>1. read \in Seq(HeaderLine) /\ \A i \in DOMAIN read : read[i].num >= -1
  <2>1. Range(read) \subseteq Range(lines) /\ read \in Seq(HeaderLine)
    <3>1. <<>> \in Seq(HeaderLine) /\ Range(<<>>) = {}
      BY DEF Range
    <3>2. QED  BY <3>1, LinesReadType
  <2>2. QED  BY <2>1 DEF Range
<1>2. /\ h.tokens = read
      /\ h.ContentLength = IF lengths = {} THEN -1 ELSE read[Max(lengths)].num
      /\ h.IsKeepAlive \in BOOLEAN /\ h.IsChunked \in BOOLEAN
  BY DEF AnalyseAnswer, Understood
<1>3. status = "unreadable" => lengths = {}
  OBVIOUS
<1>4. CASE lengths = {}
  BY <1>1, <1>2, <1>4
<1>5. CASE lengths # {}
  <2> HIDE DEF read
  <2>1. Max(lengths) \in lengths
    <3>1. lengths \subseteq 1..Len(read) /\ Len(read) \in Nat
      BY <1>1
    <3> HIDE DEF lengths
    <3>2. QED  BY <1>5, <3>1, MaxOfSome
  <2> DEFINE last == read[Max(lengths)]
  <2>2. last \in Range(read) /\ last.name = "content-length" /\ last.num \in Nat
    <3>1. ASSUME NEW i \in lengths
          PROVE  /\ read[i] \in Range(read) /\ read[i].name = "content-length"
                 /\ read[i].num \in Nat
      <4>1. read[i] \in HeaderLine /\ i \in DOMAIN read /\ read[i].num >= -1
        BY <1>1
      <4>2. QED  BY <4>1 DEF HeaderLine, Range
    <3> HIDE DEF lengths
    <3>2. QED  BY <2>1, <3>1
  <2> HIDE DEF lengths, last
  <2>3. h.ContentLength = last.num
    BY <1>2, <1>5 DEF last
  <2>4. QED  BY <1>1, <1>2, <1>3, <1>5, <2>2, <2>3
<1>6. QED
  BY <1>4, <1>5

\* What is passed on of an answer, without the line about the connection.
LEMMA PreparedForBrowser ==
  ASSUME NEW h, h.tokens \in Seq(HeaderLine),
         NEW lines, lines = PrepareHeaderForBrowser(h)
  PROVE  /\ lines \in Seq(HeaderLine) /\ Range(lines) \subseteq Range(h.tokens)
         /\ \A line \in Range(lines) : line.name \notin Own
         /\ h.ContentLength # -1 =>
              \A line \in Range(h.tokens) :
                 line.name = "content-length" => line \in Range(lines)
<1> DEFINE dropped(line) ==
             \/ \E own \in Own \cup {"transfer-encoding"} : MatchBegin(line.name, own)
             \/ line.name = "content-length" /\ h.ContentLength = -1
           S == {line \in Range(h.tokens) : ~ dropped(line)}
<1>1. lines = Only(h.tokens, S)
  BY DEF PrepareHeaderForBrowser
<1>2. lines \in Seq(HeaderLine) /\ Range(lines) = Range(h.tokens) \cap S
  <2> HIDE DEF S
  <2>1. QED  BY <1>1, OnlyLines
<1>3. ASSUME NEW line \in Range(lines) PROVE line.name \notin Own
  BY <1>2, <1>3, NamesAssumption
<1>4. ASSUME h.ContentLength # -1, NEW line \in Range(h.tokens), line.name = "content-length"
      PROVE  line \in Range(lines)
  BY <1>2, <1>4, NamesAssumption
<1>5. QED
  BY <1>2, <1>3, <1>4

-----------------------------------------------------------------------------
(* Requests.                                                               *)

LEMMA LineType ==
  ASSUME NEW name \in STRING, NEW words \in Seq(STRING)
  PROVE  Line(name, words) \in HeaderLine
  BY DEF Line, HeaderLine

\* What is passed on of a request.
LEMMA PreparedForServer ==
  ASSUME NEW lines \in Seq(HeaderLine), NEW Host, NEW UseParentProxy \in BOOLEAN,
         NEW passed, passed = PrepareHeaderForServer(lines, Host, UseParentProxy)
  PROVE  /\ \E X : passed \in Seq(X)
         /\ Len(passed) \in Nat \ {0}
         /\ \A i \in 1..Len(passed) :
              /\ passed[i].name \notin Own
              /\ passed[i].num \in Int
              /\ passed[i].name = "host" => passed[i].words = Host
              /\ ~ UseParentProxy => passed[i].name # "proxy-authorization"
<1> DEFINE dropped(name) ==
             \/ /\ MatchBegin(name, "proxy")
                /\ ~ (UseParentProxy /\ MatchBegin(name, "proxy-authorization"))
             \/ \E own \in {"keep-alive", "via", "connection", "x-forward"} : MatchBegin(name, own)
           S == {line \in Range(lines) : ~ dropped(line.name)}
           kept == Only(lines, S)
           renamed(line) == IF MatchBegin(line.name, "host") THEN Line("host", Host) ELSE line
           mapped == [i \in DOMAIN kept |-> renamed(kept[i])]
           via == Line("via", <<"PROXY">>)
<1>1. passed = Append(mapped, via)
  BY DEF PrepareHeaderForServer
<1>2. kept \in Seq(HeaderLine) /\ Range(kept) = Range(lines) \cap S
  <2> HIDE DEF S
  <2>1. QED  BY OnlyLines
<1> DEFINE Fine(line) ==
              /\ line.name \notin Own /\ line.num \in Int
              /\ line.name = "host" => line.words = Host
              /\ ~ UseParentProxy => line.name # "proxy-authorization"
<1>3. ASSUME NEW i \in DOMAIN kept PROVE Fine(renamed(kept[i]))
  <2> HIDE DEF kept
  <2>1. kept[i] \in HeaderLine /\ kept[i] \in S
    BY <1>2 DEF Range
  <2>2. CASE MatchBegin(kept[i].name, "host")
    BY <2>2 DEF Line, Own
  <2>3. CASE ~ MatchBegin(kept[i].name, "host")
    <3>1. kept[i].name # "host" /\ kept[i].num \in Int /\ renamed(kept[i]) = kept[i]
      BY <2>1, <2>3, NamesAssumption DEF HeaderLine
    <3>2. kept[i].name \notin Own
      BY <2>1, NamesAssumption DEF Own
    <3>3. ~ UseParentProxy => kept[i].name # "proxy-authorization"
      BY <2>1, NamesAssumption
    <3>4. QED  BY <3>1, <3>2, <3>3
  <2>4. QED  BY <2>2, <2>3
<1>4. Fine(via)
  BY DEF Line, Own
<1> HIDE DEF Fine, kept, via
<1>5. /\ mapped \in Seq({renamed(kept[i]) : i \in DOMAIN kept}) /\ DOMAIN mapped = DOMAIN kept
      /\ \A i \in DOMAIN kept : mapped[i] = renamed(kept[i])
  BY <1>2
<1> HIDE DEF mapped, renamed
<1>6. /\ Len(mapped) \in Nat /\ DOMAIN mapped = 1..Len(mapped)
  BY <1>5
<1>7. /\ \E X : passed \in Seq(X)
      /\ Len(passed) = Len(mapped) + 1
      /\ \A i \in 1..Len(mapped) : passed[i] = mapped[i]
      /\ passed[Len(mapped) + 1] = via
  <2> DEFINE X == {renamed(kept[i]) : i \in DOMAIN kept} \cup {via}
  <2>1. mapped \in Seq(X) /\ via \in X
    BY <1>5
  <2> HIDE DEF X
  <2>2. /\ Append(mapped, via) \in Seq(X)
        /\ Len(Append(mapped, via)) = Len(mapped) + 1
        /\ \A i \in 1..Len(mapped) : Append(mapped, via)[i] = mapped[i]
        /\ Append(mapped, via)[Len(mapped) + 1] = via
    BY <2>1
  <2>3. QED  BY <1>1, <2>2
<1>8. ASSUME NEW i \in 1..Len(passed) PROVE Fine(passed[i])
  <2>1. CASE i = Len(mapped) + 1
    BY <1>4, <1>7, <2>1
  <2>2. CASE i # Len(mapped) + 1
    <3>1. i \in 1..Len(mapped)
      BY <1>6, <1>7, <2>2
    <3>2. QED  BY <1>3, <1>5, <1>6, <1>7, <3>1
  <2>3. QED  BY <2>1, <2>2
<1>9. QED
  BY <1>6, <1>7, <1>8 DEF Fine

-----------------------------------------------------------------------------
(* What is read of a request.                                              *)

\* All that is read is known of except for the host and the path.
Codes == {0, -201, -202, -210, -212}
Types(method) == {"", method}
Protocols == {"", "http", "ftp"}
Ports == PortNumbers \cup {""}

Read(method, hosts, paths) ==
    [ret : Codes, RequestType : Types(method), RequestProtocol : Protocols, Host : hosts,
     Port : Ports, Request : paths, ContentLength : Int, IsKeepAlive : BOOLEAN,
     ProxyConnection : BOOLEAN]

LEMMA FailedRead ==
  ASSUME NEW method, NEW hosts, NEW paths, NEW b \in Read(method, hosts, paths),
         NEW code \in Codes
  PROVE  Failed(b, code) \in Read(method, hosts, paths)
  BY DEF Read, Failed

LEMMA WithPortRead ==
  ASSUME NEW method, NEW hosts, NEW paths, NEW b \in Read(method, hosts, paths),
         NEW text, NEW colon, NEW default,
         (IF colon = 0 THEN text ELSE SubSeq(text, 1, colon - 1)) \in hosts
  PROVE  WithPort(b, text, colon, default) \in Read(method, hosts, paths)
<1> DEFINE host == IF colon = 0 THEN text ELSE SubSeq(text, 1, colon - 1)
           port == IF colon = 0 THEN <<default>> ELSE SubSeq(text, colon + 1, Len(text))
<1>1. WithPort(b, text, colon, default) =
        IF port \notin {<<p>> : p \in PortNumbers} THEN Failed(b, -212)
        ELSE [b EXCEPT !.Host = host, !.Port = port[1]]
  BY DEF WithPort
<1>2. host \in hosts
  OBVIOUS
<1> HIDE DEF host, port
<1>3. CASE port \in {<<p>> : p \in PortNumbers}
  <2>1. port[1] \in Ports
    <3>1. PICK p \in PortNumbers : port = <<p>>
      BY <1>3
    <3>2. QED  BY <3>1 DEF Ports
  <2>2. [b EXCEPT !.Host = host, !.Port = port[1]] \in Read(method, hosts, paths)
    BY <1>2, <2>1 DEF Read
  <2>3. QED  BY <1>1, <1>3, <2>2
<1>4. CASE port \notin {<<p>> : p \in PortNumbers}
  <2>1. -212 \in Codes
    BY DEF Codes
  <2>2. QED  BY <1>1, <1>4, <2>1, FailedRead
<1>5. QED
  BY <1>3, <1>4

LEMMA UrlRead ==
  ASSUME NEW method, NEW b, NEW url,
         \E hosts, paths : b \in Read(method, hosts, paths)
  PROVE  \E hosts, paths : GetHostAndPortOfUrl(b, url) \in Read(method, hosts, paths)
<1> DEFINE rest == Tail(url)
           first == SelectInSeq(rest, LAMBDA t : t = "/")
           authority == IF first = 0 THEN rest ELSE SubSeq(rest, 1, first - 1)
           domain == After("@", authority)
           path == IF first = 0 THEN <<"/">> ELSE SubSeq(rest, first, Len(rest))
           protocol == IF url[1] = "http://" THEN "http" ELSE "ftp"
           begun == [b EXCEPT !.RequestProtocol = protocol, !.Request = path]
           colon == LastOf(":", domain)
           default == IF url[1] = "http://" THEN "80" ELSE "21"
           named == WithPort(begun, domain, colon, default)
<1>1. GetHostAndPortOfUrl(b, url) =
        IF rest = <<>> \/ (domain = <<>> /\ authority # <<>>) THEN Failed(b, -201)
        ELSE IF named.ret = 0 /\ Size(named.Host) > MAXHOST THEN Failed(named, -210)
        ELSE named
  BY DEF GetHostAndPortOfUrl
<1>2. PICK hosts, paths : b \in Read(method, hosts, paths)
  OBVIOUS
<1> DEFINE host == IF colon = 0 THEN domain ELSE SubSeq(domain, 1, colon - 1)
           R == Read(method, hosts \cup {host}, paths \cup {path})
<1>3. b \in R /\ begun \in R
  <2>1. protocol \in Protocols
    BY DEF Protocols
  <2> HIDE DEF path, host, protocol
  <2>2. b \in R
    BY <1>2 DEF Read
  <2>3. path \in paths \cup {path}
    OBVIOUS
  <2>4. begun \in R
    BY <2>1, <2>2, <2>3 DEF Read
  <2>5. QED  BY <2>2, <2>4
<1> HIDE DEF begun, protocol, path, colon, default, domain
<1>4. named \in R
  <2>1. host \in hosts \cup {host}
    OBVIOUS
  <2>2. QED  BY <1>3, <2>1, WithPortRead
<1> HIDE DEF named, rest, authority
<1>5. Failed(b, -201) \in R /\ Failed(named, -210) \in R
  <2>1. -201 \in Codes /\ -210 \in Codes
    BY DEF Codes
  <2> HIDE DEF host
  <2>2. QED  BY <1>3, <1>4, <2>1, FailedRead
<1> HIDE DEF R
<1>6. GetHostAndPortOfUrl(b, url) \in R
  BY <1>1, <1>4, <1>5
<1>7. QED
  BY <1>6 DEF R

LEMMA FirstLineRead ==
  ASSUME NEW q, NEW Transparent
  PROVE  \E hosts, paths :
            AnalyseFirstRequestLine(q, Transparent) \in Read(q.method, hosts, paths)
<1> DEFINE b == [ClearedRequest EXCEPT !.RequestType = q.method]
           end == Len(q.method) + 1 + Size(q.url)
           begins == q.url # <<>> /\ q.url[1] \in IF Transparent THEN {"/"} ELSE {"http://", "ftp://"}
           alive == [b EXCEPT !.IsKeepAlive = (q.version = "1.1")]
           over == [alive EXCEPT !.RequestProtocol = "http", !.Request = q.url]
           R == Read(q.method, {<<>>}, {<<>>, q.url})
<1>1. AnalyseFirstRequestLine(q, Transparent) =
        IF q.method \notin METHODS THEN Failed(ClearedRequest, -202)
        ELSE IF ~ begins \/ end > MAXURL THEN Failed(b, -201)
        ELSE IF Transparent THEN over ELSE GetHostAndPortOfUrl(alive, q.url)
  BY DEF AnalyseFirstRequestLine, GetHostAndPortOfRequest
<1>2. /\ Failed(ClearedRequest, -202) \in R /\ Failed(b, -201) \in R
      /\ alive \in R /\ over \in R
  <2>1. ClearedRequest \in R
    BY DEF Read, Types, ClearedRequest, Codes, Protocols, Ports
  <2>2. b \in R
    <3>1. q.method \in Types(q.method)
      BY DEF Types
    <3>2. QED  BY <2>1, <3>1 DEF Read
  <2>3. /\ -202 \in Codes /\ -201 \in Codes /\ "http" \in Protocols
        /\ (q.version = "1.1") \in BOOLEAN
    BY DEF Codes, Protocols
  <2> HIDE DEF b
  <2>4. alive \in R
    BY <2>2, <2>3 DEF Read
  <2> HIDE DEF alive
  <2>5. over \in R
    BY <2>3, <2>4 DEF Read
  <2>6. QED  BY <2>1, <2>2, <2>3, <2>4, <2>5, FailedRead
<1> HIDE DEF R, alive, over, b, begins, end
<1>3. \E hosts, paths : alive \in Read(q.method, hosts, paths)
  BY <1>2 DEF R
<1>4. \E hosts, paths : GetHostAndPortOfUrl(alive, q.url) \in Read(q.method, hosts, paths)
  BY <1>3, UrlRead
<1>5. CASE AnalyseFirstRequestLine(q, Transparent) = GetHostAndPortOfUrl(alive, q.url)
  BY <1>4, <1>5
<1>6. CASE AnalyseFirstRequestLine(q, Transparent) # GetHostAndPortOfUrl(alive, q.url)
  <2>1. AnalyseFirstRequestLine(q, Transparent) \in R
    BY <1>1, <1>2, <1>6
  <2>2. QED  BY <2>1 DEF R
<1>7. QED
  BY <1>5, <1>6

HostIn(words) ==
    LET colon == SelectInSubSeq(words, 2, Len(words), LAMBDA t : t = ":")
    IN  IF colon = 0 THEN words ELSE SubSeq(words, 1, colon - 1)

LEMMA LineRead ==
  ASSUME NEW method, NEW hosts, NEW paths, NEW b \in Read(method, hosts, paths),
         NEW line \in HeaderLine, NEW Transparent,
         HostIn(line.words) \in hosts
  PROVE  AnalyseRequestLine(b, line, Transparent) \in Read(method, hosts, paths)
<1> DEFINE R == Read(method, hosts, paths)
           colon == SelectInSubSeq(line.words, 2, Len(line.words), LAMBDA t : t = ":")
<1>1. GetHostAndPortOfHostLine(b, line.words) \in R
  <2>1. GetHostAndPortOfHostLine(b, line.words) =
          IF colon # 0 /\ Size(SubSeq(line.words, 1, colon - 1)) > MAXHOST THEN Failed(b, -210)
          ELSE WithPort(b, line.words, colon, "80")
    BY DEF GetHostAndPortOfHostLine
  <2>0. (IF colon = 0 THEN line.words ELSE SubSeq(line.words, 1, colon - 1)) \in hosts
    BY DEF HostIn
  <2> HIDE DEF colon
  <2>2. WithPort(b, line.words, colon, "80") \in R
    BY <2>0, WithPortRead
  <2>3. Failed(b, -210) \in R
    <3>1. -210 \in Codes
      BY DEF Codes
    <3>2. QED  BY <3>1, FailedRead
  <2>4. QED  BY <2>1, <2>2, <2>3
<1>2. [b EXCEPT !.ContentLength = line.num] \in R
  BY DEF Read, HeaderLine
<1>3. [b EXCEPT !.ProxyConnection = (line.name = "proxy-connection"),
                !.IsKeepAlive = KeepAliveFirst(line)] \in R
  <2>1. (line.name = "proxy-connection") \in BOOLEAN /\ KeepAliveFirst(line) \in BOOLEAN
    BY DEF KeepAliveFirst
  <2>2. QED  BY <2>1 DEF Read
<1> HIDE DEF R
<1>4. b \in R
  BY DEF R
<1>5. AnalyseRequestLine(b, line, Transparent) \in R
  BY <1>1, <1>2, <1>3, <1>4 DEF AnalyseRequestLine
<1>6. QED
  BY <1>5 DEF R

\* Whatever the request says, what is read of it has these types.
LEMMA RequestRead ==
  ASSUME NEW q, q.lines \in Seq(HeaderLine), NEW Transparent
  PROVE  \E hosts, paths : AnalyseRequest(q, Transparent) \in Read(q.method, hosts, paths)
<1> DEFINE lines == q.lines
           n == Len(lines)
           first == AnalyseFirstRequestLine(q, Transparent)
           read[i \in 0..Len(q.lines)] ==
             IF i = 0 THEN AnalyseFirstRequestLine(q, Transparent)
             ELSE AnalyseRequestLine(read[i - 1], q.lines[i], Transparent)
<1>1. PICK someHosts, paths : first \in Read(q.method, someHosts, paths)
  BY FirstLineRead
<1> DEFINE hosts == someHosts \cup {HostIn(lines[i].words) : i \in 1..n}
           R == Read(q.method, hosts, paths)
           step == [i \in 1..n |-> [b \in R |-> AnalyseRequestLine(b, lines[i], Transparent)]]
<1>2. n \in Nat /\ \A i \in 1..n : lines[i] \in HeaderLine
  OBVIOUS
<1>3. first \in R
  <2>1. someHosts \subseteq hosts
    OBVIOUS
  <2> HIDE DEF hosts, first
  <2>2. QED  BY <1>1, <2>1 DEF Read
<1>4. ASSUME NEW i \in 1..n, NEW b \in R
      PROVE  AnalyseRequestLine(b, lines[i], Transparent) \in R
  <2>1. HostIn(lines[i].words) \in hosts /\ lines[i] \in HeaderLine
    BY <1>2
  <2> HIDE DEF hosts, lines
  <2>2. QED  BY <2>1, LineRead
<1>5. step \in [1..n -> [R -> R]]
  <2> HIDE DEF R, lines, n
  <2>1. QED  BY <1>4
<1>6. PICK f : Steps(f, R, first, n, step)
  <2> HIDE DEF step, n, first, R
  <2>1. QED  BY <1>2, <1>3, <1>5, StepByStep
<1>7. f \in [0..n -> R] /\ f[0] = first
      /\ \A i \in 1..n : f[i] = AnalyseRequestLine(f[i - 1], lines[i], Transparent)
  <2>1. f \in [0..n -> R] /\ f[0] = first /\ \A i \in 1..n : f[i] = step[i][f[i - 1]]
    <3> HIDE DEF step, n, first, R
    <3>1. QED  BY <1>6 DEF Steps
  <2>2. \A i \in 1..n : i - 1 \in 0..n
    BY <1>2
  <2> HIDE DEF n, first, R, lines
  <2>3. QED  BY <2>1, <2>2
<1>8. f = [i \in 0..n |-> IF i = 0 THEN first
                          ELSE AnalyseRequestLine(f[i - 1], lines[i], Transparent)]
  <2> HIDE DEF n, first, R, lines
  <2> DEFINE g == [i \in 0..n |-> IF i = 0 THEN first
                          ELSE AnalyseRequestLine(f[i - 1], lines[i], Transparent)]
  <2>1. ASSUME NEW i \in 0..n PROVE f[i] = g[i]
    <3>1. CASE i = 0
      BY <1>7, <3>1
    <3>2. CASE i # 0
      <4>1. i \in 1..n
        BY <1>2, <3>2
      <4>2. QED  BY <1>7, <3>2, <4>1
    <3>3. QED  BY <3>1, <3>2
  <2>2. f = g
    <3> HIDE DEF g
    <3>1. g = [i \in 0..n |-> g[i]]
      BY DEF g
    <3>2. QED  BY <1>7, <2>1, <3>1
  <2>3. QED  BY <2>2
<1>9. read = [i \in 0..n |-> IF i = 0 THEN first
                             ELSE AnalyseRequestLine(read[i - 1], lines[i], Transparent)]
  BY <1>8
<1>10. AnalyseRequest(q, Transparent) = read[n]
  BY DEF AnalyseRequest
<1> HIDE DEF read, first, R, lines, n
<1> DEFINE T == {k \in Nat : k <= n => read[k] \in R}
<1>11. 0 \in T
  BY <1>2, <1>3, <1>9
<1>12. ASSUME NEW k \in Nat, k \in T PROVE k + 1 \in T
  <2>1. SUFFICES ASSUME k + 1 <= n PROVE read[k + 1] \in R
    OBVIOUS
  <2>2. k + 1 \in 0..n /\ k + 1 # 0 /\ (k + 1) - 1 = k /\ k + 1 \in 1..n /\ read[k] \in R
    BY <1>2, <1>12, <2>1
  <2>3. read[k + 1] = AnalyseRequestLine(read[k], lines[k + 1], Transparent)
    BY <1>9, <2>2
  <2>4. QED  BY <1>4, <2>2, <2>3
<1>13. n \in T
  <2> HIDE DEF T
  <2>1. QED  BY <1>2, <1>11, <1>12, AllNumbers
<1>14. QED
  BY <1>2, <1>10, <1>13 DEF R

-----------------------------------------------------------------------------
(* The line about the connection.                                          *)

LEMMA HeaderSent ==
  ASSUME NEW X, NEW header \in Seq(X), NEW ProxyConnection, NEW ConnectionClose,
         NEW sent, sent = SendHeader(header, ProxyConnection, ConnectionClose)
  PROVE  /\ sent # <<>> /\ Len(sent) = Len(header) + 1 /\ DOMAIN sent = 1..(Len(header) + 1)
         /\ \A i \in 1..Len(header) : sent[i] = header[i]
         /\ Front(sent) = header
         /\ Last(sent).name = IF ProxyConnection THEN "proxy-connection" ELSE "connection"
         /\ Last(sent).words = IF ConnectionClose THEN <<"close">> ELSE <<"keep-alive">>
         /\ sent[Len(header) + 1] = Last(sent)
<1> DEFINE line == Line(IF ProxyConnection THEN "proxy-connection" ELSE "connection",
                        IF ConnectionClose THEN <<"close">> ELSE <<"keep-alive">>)
           Y == X \cup {line}
<1>1. sent = Append(header, line)
  BY DEF SendHeader
<1>2. header \in Seq(Y) /\ line \in Y
  OBVIOUS
<1>3. /\ line.name = (IF ProxyConnection THEN "proxy-connection" ELSE "connection")
      /\ line.words = (IF ConnectionClose THEN <<"close">> ELSE <<"keep-alive">>)
  BY DEF Line
<1> HIDE DEF Y, line
<1>4. /\ sent \in Seq(Y) /\ sent # <<>> /\ Len(sent) = Len(header) + 1
      /\ Len(header) \in Nat
      /\ \A i \in 1..Len(header) : sent[i] = header[i]
      /\ sent[Len(header) + 1] = line
  BY <1>1, <1>2
<1>5. Front(sent) = header
  BY <1>2, <1>4 DEF Front
<1>6. Last(sent) = line
  BY <1>4 DEF Last
<1>7. QED
  BY <1>3, <1>4, <1>5, <1>6
=============================================================================
