------------------------------- MODULE Headers ------------------------------
(***************************************************************************)
(* HTTP headers as the proxy reads and rewrites them: AnalyseHeader() of   *)
(* httphandler.cpp with the lines connectiontobrowser.cpp understands of a *)
(* request and connectiontohttp.cpp of an answer, and what is passed on.   *)
(*                                                                         *)
(* A line is its name in small letters (names are compared without regard  *)
(* to case), the words of its value, and their number, -1 if they are no   *)
(* number of at most 18 digits.  Lines have the one space after the colon  *)
(* that AnalyseHeader() gives them.  A URL is a text; "http://" and        *)
(* "ftp://" are one token.                                                 *)
(***************************************************************************)
EXTENDS Text, Integers

CONSTANTS
    PortNumbers,   \* the tokens that name a port, 1 to 65535
    MAXHOST,       \* 256 in the code
    MAXURL         \* 4096 in the code

ASSUME HeadersAssumption == MAXHOST \in Nat /\ MAXURL \in Nat

METHODS == {"GET", "POST", "HEAD", "CONNECT", "PUT", "TRACE", "PURGE", "OPTIONS", "DELETE"}

Line(name, words) == [name |-> name, words |-> words, num |-> -1]
ContentLength(n) == [name |-> "content-length", words |-> <<>>, num |-> n]

HeaderLine == [name : STRING, words : Seq(STRING), num : Int]

\* Which of the names in question begin with which: MatchBegin is about letters.
Own == {"keep-alive", "connection", "proxy-connection"}
ASSUME NamesAssumption ==
    /\ \A name \in Own \cup {"proxy-authorization", "transfer-encoding", "host"} :
           MatchBegin(name, name)
    /\ \A name \in {"proxy-connection", "proxy-authorization"} : MatchBegin(name, "proxy")
    /\ ~ MatchBegin("proxy-connection", "proxy-authorization")
    /\ \A own \in Own \cup {"transfer-encoding"} : ~ MatchBegin("content-length", own)

\* The lines that are in S, in their order.
Only(lines, S) ==
    LET only[i \in 0..Len(lines)] ==
            IF i = 0 THEN <<>>
            ELSE IF lines[i] \in S THEN Append(only[i - 1], lines[i]) ELSE only[i - 1]
    IN  only[Len(lines)]

OnLines(names, lines) == Only(lines, {line \in Range(lines) : line.name \in names})
KeepAliveFirst(line) == line.words # <<>> /\ line.words[1] = "keep-alive"

-----------------------------------------------------------------------------
(* Requests                                                                *)

\* ClearVars(), with the return value of AnalyseHeader().
ClearedRequest ==
    [ret |-> 0, RequestType |-> "", RequestProtocol |-> "", Host |-> <<>>, Port |-> "",
     Request |-> <<>>, ContentLength |-> -1, IsKeepAlive |-> FALSE, ProxyConnection |-> FALSE]

Failed(b, code) == [b EXCEPT !.ret = code]

\* A host with the port that follows the colon, if there is one.
WithPort(b, text, colon, default) ==
    LET host == IF colon = 0 THEN text ELSE SubSeq(text, 1, colon - 1)
        port == IF colon = 0 THEN <<default>> ELSE SubSeq(text, colon + 1, Len(text))
    IN  IF port \notin {<<p>> : p \in PortNumbers} THEN Failed(b, -212)
        ELSE [b EXCEPT !.Host = host, !.Port = port[1]]

\* Only a host with a port is too long here.
GetHostAndPortOfHostLine(b, words) ==
    LET colon == SelectInSubSeq(words, 2, Len(words), LAMBDA t : t = ":")
    IN  IF colon # 0 /\ Size(SubSeq(words, 1, colon - 1)) > MAXHOST THEN Failed(b, -210)
        ELSE WithPort(b, words, colon, "80")

\* Everything before the first slash is the authority, a "?" too, and the
\* login ends at its last "@".
GetHostAndPortOfUrl(b, url) ==
    LET rest == Tail(url)
        first == SelectInSeq(rest, LAMBDA t : t = "/")
        authority == IF first = 0 THEN rest ELSE SubSeq(rest, 1, first - 1)
        domain == After("@", authority)
        named == WithPort([b EXCEPT
                     !.RequestProtocol = IF url[1] = "http://" THEN "http" ELSE "ftp",
                     !.Request = IF first = 0 THEN <<"/">> ELSE SubSeq(rest, first, Len(rest))],
                   domain, LastOf(":", domain), IF url[1] = "http://" THEN "80" ELSE "21")
    IN  IF rest = <<>> \/ (domain = <<>> /\ authority # <<>>) THEN Failed(b, -201)
        ELSE IF named.ret = 0 /\ Size(named.Host) > MAXHOST THEN Failed(named, -210)
        ELSE named

GetHostAndPortOfRequest(b, q, Transparent) ==
    LET end == Len(q.method) + 1 + Size(q.url)
        begins == q.url # <<>> /\ q.url[1] \in IF Transparent THEN {"/"} ELSE {"http://", "ftp://"}
        alive == [b EXCEPT !.IsKeepAlive = (q.version = "1.1")]
    IN  IF ~ begins \/ end > MAXURL THEN Failed(b, -201)
        ELSE IF Transparent THEN [alive EXCEPT !.RequestProtocol = "http", !.Request = q.url]
        ELSE GetHostAndPortOfUrl(alive, q.url)

AnalyseFirstRequestLine(q, Transparent) ==
    LET b == [ClearedRequest EXCEPT !.RequestType = q.method]
    IN  IF q.method \notin METHODS THEN Failed(ClearedRequest, -202)
        ELSE GetHostAndPortOfRequest(b, q, Transparent)

\* A number that is none is passed over.  After the first Proxy-Connection no
\* line says anything of the connection any more.
AnalyseRequestLine(b, line, Transparent) ==
    CASE b.ret < 0 -> b
      [] b.ret = 0 /\ line.name = "content-length" ->
           IF line.num = -1 THEN b ELSE [b EXCEPT !.ContentLength = line.num]
      [] b.ret = 0 /\ line.name \in {"connection", "proxy-connection"} ->
           IF b.ProxyConnection THEN b
           ELSE [b EXCEPT !.ProxyConnection = (line.name = "proxy-connection"),
                          !.IsKeepAlive = KeepAliveFirst(line)]
      [] b.ret = 0 /\ line.name = "host" ->
           IF Transparent THEN GetHostAndPortOfHostLine(b, line.words) ELSE b
      [] OTHER -> b

AnalyseRequest(q, Transparent) ==
    LET read[i \in 0..Len(q.lines)] ==
            IF i = 0 THEN AnalyseFirstRequestLine(q, Transparent)
            ELSE AnalyseRequestLine(read[i - 1], q.lines[i], Transparent)
    IN  read[Len(q.lines)]

\* The lines a server is sent: those about the connection are the proxy's
\* own, and the host is what the URL says, without its port.
PrepareHeaderForServer(lines, Host, UseParentProxy) ==
    LET dropped(name) ==
            \/ /\ MatchBegin(name, "proxy")
               /\ ~ (UseParentProxy /\ MatchBegin(name, "proxy-authorization"))
            \/ \E own \in {"keep-alive", "via", "connection", "x-forward"} : MatchBegin(name, own)
        passed == Only(lines, {line \in Range(lines) : ~ dropped(line.name)})
        renamed(line) == IF MatchBegin(line.name, "host") THEN Line("host", Host) ELSE line
    IN  Append([i \in DOMAIN passed |-> renamed(passed[i])], Line("via", <<"PROXY">>))

\* HTTPHandler::SendHeader()
SendHeader(header, ProxyConnection, ConnectionClose) ==
    Append(header, Line(IF ProxyConnection THEN "proxy-connection" ELSE "connection",
                        IF ConnectionClose THEN <<"close">> ELSE <<"keep-alive">>))

-----------------------------------------------------------------------------
(* Answers                                                                 *)

\* The lines before the first that is an error.
LinesRead(lines) ==
    LET error == SelectInSeq(lines, LAMBDA line :
                     line.name = "transfer-encoding" /\ line.words[1] # "chunked")
    IN  IF error = 0 THEN lines ELSE SubSeq(lines, 1, error - 1)

\* What the lines say together.  The last length that is a number counts;
\* keep-alive may be in any line whose name ends in "connection".
Understood(lines) ==
    LET lengths == {i \in DOMAIN lines : lines[i].name = "content-length" /\ lines[i].num # -1}
        says(names) == {line \in Range(lines) : line.name \in names}
    IN  [ContentLength |-> IF lengths = {} THEN -1 ELSE lines[Max(lengths)].num,
         IsKeepAlive |-> \E line \in says({"connection", "proxy-connection"}) : KeepAliveFirst(line),
         IsChunked |-> says({"transfer-encoding"}) # {},
         tokens |-> lines]

\* A status line in which there is no number is an error, and the end of it.
AnalyseAnswer(status, lines) ==
    Understood(IF status = "unreadable" THEN <<>> ELSE LinesRead(lines))

\* HTMLResponse is not among what ClearVars() clears.
ResponseOf(status, old) == IF status = "unreadable" THEN old ELSE status

\* Variant (mutant): only lines that begin with "connection".
PrepareHeaderForBrowser_Connection(h) ==
    Only(h.tokens, {line \in Range(h.tokens) : ~ MatchBegin(line.name, "connection")})

PrepareHeaderForBrowser(h) ==
    LET dropped(line) ==
            \/ \E own \in Own \cup {"transfer-encoding"} : MatchBegin(line.name, own)
            \/ line.name = "content-length" /\ h.ContentLength = -1
    IN  Only(h.tokens, {line \in Range(h.tokens) : ~ dropped(line)})
=============================================================================
