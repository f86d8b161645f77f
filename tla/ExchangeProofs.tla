--------------------------- MODULE ExchangeProofs ---------------------------
(***************************************************************************)
(* What a worker passes on, for every configuration and whatever browsers  *)
(* and origins say.                                                        *)
(***************************************************************************)
EXTENDS Exchange, HeaderProofs, SequenceTheorems

Working == {"connect", "send", "answer"}

\* What the request is, and what has been read of it.
RequestInv ==
    /\ world \in Worlds /\ IsWorld(world)
    /\ pc \in Places /\ count \in 0..world.max
    /\ DropBrowser \in BOOLEAN /\ DropServer \in BOOLEAN /\ ServerConnected \in BOOLEAN
    /\ retried \in BOOLEAN /\ hit \in BOOLEAN /\ resuming \in BOOLEAN
    /\ DOMAIN browser = DOMAIN ClearedRequest
    /\ req \in world.Requests \cup {NoRequest}
    /\ browser.ContentLength \in Int /\ browser.ProxyConnection \in BOOLEAN
    /\ pc \in Working =>
          /\ req \in world.Requests
          /\ browser.ret = 0 /\ browser.Host # <<>> /\ browser.Port \in PortNumbers
          /\ browser.RequestType = "GET" => req.method = "GET"
          /\ browser.RequestType = "GET" \/ DropBrowser

\* The connection is that to the origin of the request; what was told to close is
\* closed with the browser's, and so is what has a body on it that is not a GET's.
\* The one of a retry is new, and the downloader's is used for the request it was
\* made for.
Address == IF world.UseParentProxy THEN <<Parent, "3128">> ELSE connected
ConnectionInv ==
    /\ DOMAIN sock = DOMAIN NoSocket
    /\ sock.stray \in Nat
    /\ sock.garbage \in BOOLEAN /\ sock.closing \in BOOLEAN /\ sock.told \in BOOLEAN
    /\ (IsOpen /\ pc \notin {"dead", "looping"}) => sock.at = Address
    /\ pc \in {"send", "answer"} => connected = <<browser.Host, browser.Port>>
    /\ sock.told => pc = "answer" /\ DropBrowser
    /\ sock.garbage => \/ pc = "answer" /\ DropBrowser
                       \/ \E q \in world.Requests : q.method = "GET" /\ q.body > 0
    /\ sock.stray > 0 => \E a \in world.Answers : a.late > 0
    /\ pc = "idle" => ~ retried
    /\ (retried /\ pc = "connect") => ~ ServerConnected
    /\ (retried /\ pc \in {"send", "answer"}) => (ToOrigin => IsOpen) /\ ~ sock.closing
    /\ DOMAIN downloader = DOMAIN NoDownloader
    /\ (pc = "send" /\ downloader.at # <<>>) => downloader.at = Origin

\* What is taken for a hit has a file, complete or not, and while it is given to the
\* browser it has a row.
DiskInv ==
    /\ object.kind \in {"none", "plugin", "general", "rewrite"}
    /\ pc \in {"send", "answer"} =>
          /\ hit => IF resuming THEN IsTorn(object) ELSE IsHit(object)
          /\ resuming => hit
    /\ \A row \in DOMAIN rows : rows[row] \in Nat
    /\ \A path \in DOMAIN stored : stored[path].size \in Nat

\* What was said to the origin and to the browser.
Ours(lines) ==
    lines # <<>> => /\ Last(lines).name \in Connections
                    /\ NamesOn(Front(lines)) \cap (Connections \cup {"keep-alive"}) = {}
AskedInv ==
    /\ Ours(asked)
    /\ "proxy-connection" \notin NamesOn(asked)
    /\ \A i \in DOMAIN asked : asked[i].name = "host" => asked[i].words = browser.Host
    /\ ~ world.UseParentProxy => "proxy-authorization" \notin NamesOn(asked)
OutInv == Ours(out.lines) /\ FramingAgrees /\ ToldIsDone
SaidInv ==
    /\ partial \in Int
    /\ out.kind \in {"nothing", "message", "answer"}
    /\ pc = "idle" => asked = <<>>
    /\ pc \in Working \cup {"idle"} => out = Nothing
    /\ AskedInv /\ OutInv

IInv == RequestInv /\ ConnectionInv /\ DiskInv /\ SaidInv

-----------------------------------------------------------------------------
(* Facts about what the steps are made of.                                 *)

LEMMA Found ==
  ASSUME NEW host, NEW request, NEW mem, NEW o \in Lookup(host, request, mem)
  PROVE  o.kind \in {"none", "plugin", "general", "rewrite", "dies", "loops"}
<1> DEFINE Kinds == {"none", "plugin", "general", "rewrite", "dies", "loops"}
           object_(site, r) ==
             CASE site = Thrown \/ r.file = Thrown -> Ends("dies")
               [] site # Thrown /\ r.file = Endless -> Ends("loops")
               [] r.match ->
                    IF ConvertChar(r.file) = Thrown THEN Ends("dies")
                    ELSE IF r.domain = <<"rewrite">>
                    THEN [NotKept EXCEPT !.kind = "rewrite", !.path = r.file]
                    ELSE Quoted(Object("plugin", r.domain, r.file))
               [] OTHER -> Quoted(General(request, site))
<1>1. NotKept.kind \in Kinds /\ Ends("dies").kind \in Kinds /\ Ends("loops").kind \in Kinds
      /\ \A file : [NotKept EXCEPT !.kind = "rewrite", !.path = file].kind \in Kinds
  BY DEF NotKept, Ends
<1>2. \A domainOf, name : Object("plugin", domainOf, name).kind \in Kinds
                       /\ Object("general", domainOf, name).kind \in Kinds
  BY DEF Object
<1>3. \A site : General(request, site).kind \in Kinds
  BY <1>1, <1>2 DEF General
<1> HIDE DEF Kinds
<1>4. \A one : one.kind \in Kinds => Quoted(one).kind \in Kinds
  BY <1>1 DEF Quoted
<1>5. \A site, r : object_(site, r).kind \in Kinds
  <2>1. \A domainOf, name : Quoted(Object("plugin", domainOf, name)).kind \in Kinds
    BY <1>2, <1>4
  <2>2. \A site : Quoted(General(request, site)).kind \in Kinds
    BY <1>3, <1>4
  <2>3. QED  BY <1>1, <2>1, <2>2
<1>6. PICK answer \in Asked(host \o request, mem) : o = object_(answer[1], answer[2])
  BY DEF Lookup
<1> HIDE DEF object_
<1>7. QED
  BY <1>5, <1>6 DEF Kinds

LEMMA Said ==
  ASSUME IsWorld(world)
  PROVE  /\ \A q \in world.Requests : q.lines \in Seq(HeaderLine) /\ q.body \in Nat
         /\ \A a \in world.Answers :
              /\ a.lines \in Seq(HeaderLine) /\ a.sent \in Nat /\ a.late \in Nat
              /\ \A i \in DOMAIN a.lines : a.lines[i].num >= -1
         /\ world.Transparent \in BOOLEAN /\ world.UseParentProxy \in BOOLEAN
  BY DEF IsWorld

\* What is read of a request that is not refused.
LEMMA Taken ==
  ASSUME IsWorld(world), NEW q \in world.Requests,
         NEW b, b = AnalyseRequest(q, world.Transparent)
  PROVE  /\ DOMAIN b = DOMAIN ClearedRequest
         /\ b.ContentLength \in Int
         /\ b.ProxyConnection \in BOOLEAN /\ b.IsKeepAlive \in BOOLEAN
         /\ b.RequestType = "GET" => q.method = "GET"
         /\ ~ Refused(b) => b.ret = 0 /\ b.Host # <<>> /\ b.Port \in PortNumbers
<1>1. PICK hosts, paths : b \in Read(q.method, hosts, paths)
  BY RequestRead, Said
<1>2. DOMAIN b = DOMAIN ClearedRequest
  BY <1>1 DEF Read, ClearedRequest
<1>3. /\ b.ContentLength \in Int /\ b.ProxyConnection \in BOOLEAN /\ b.IsKeepAlive \in BOOLEAN
      /\ b.RequestType \in {"", q.method} /\ b.Port \in Ports /\ b.ret \in Codes
  BY <1>1 DEF Read, Types
<1>4. ~ Refused(b) => b.ret = 0 /\ b.Host # <<>> /\ b.Port \in PortNumbers
  <2>1. b.ret < 0 \/ b.ret = 0
    <3>1. \A code \in Codes : code < 0 \/ code = 0
      BY DEF Codes
    <3>2. QED  BY <1>3, <3>1
  <2>2. b.Port = "" \/ b.Port \in PortNumbers
    BY <1>3 DEF Ports
  <2>3. QED  BY <2>1, <2>2 DEF Refused
<1>5. QED
  BY <1>2, <1>3, <1>4

-----------------------------------------------------------------------------
(* The request.                                                            *)

LEMMA RequestInit == Init => RequestInv
<1>1. SUFFICES ASSUME Init PROVE RequestInv
  OBVIOUS
<1>2. world \in Worlds /\ IsWorld(world) /\ world.max \in Nat
  BY <1>1, ExchangeAssumption DEF Init, IsWorld
<1>3. /\ pc = "idle" /\ count = 0 /\ browser = ClearedRequest /\ req = NoRequest
      /\ DropBrowser \in BOOLEAN /\ DropServer \in BOOLEAN /\ ServerConnected \in BOOLEAN
      /\ retried \in BOOLEAN /\ hit \in BOOLEAN /\ resuming \in BOOLEAN
  BY <1>1 DEF Init
<1>4. ClearedRequest.ContentLength \in Int /\ ClearedRequest.ProxyConnection \in BOOLEAN
  BY DEF ClearedRequest
<1>5. count \in 0..world.max
  BY <1>2, <1>3
<1>6. QED
  BY <1>2, <1>3, <1>4, <1>5 DEF RequestInv, Places, Working

LEMMA PassOnEnds ==
  ASSUME RequestInv, NEW a, NEW said, NEW h, NEW closes, PassOn(a, said, h, closes),
         h.IsKeepAlive \in BOOLEAN
  PROVE  /\ pc' = "over" /\ DropBrowser' \in BOOLEAN /\ DropServer' \in BOOLEAN
         /\ ServerConnected' \in BOOLEAN
         /\ \/ sock' = NoSocket
            \/ sock' = [sock EXCEPT !.stray = a.late, !.closing = closes]
         /\ DropBrowser' => sock' = NoSocket
         /\ DropBrowser => DropBrowser'
<1> DEFINE response == ResponseOf(said, HTMLResponse)
           length == h.ContentLength
           none == NoBody(response, length)
           over == length > 0 /\ a.sent > length
           given == IF none THEN 0 ELSE IF over THEN length ELSE a.sent
           drop == DropBrowser \/ UnknownLength(h) \/ (~ none /\ a.sent = 0)
           short == ~ none /\ given < length
           kept == [sock EXCEPT !.stray = a.late, !.closing = closes]
           server == ~ h.IsKeepAlive \/ over \/ (none /\ a.sent > 0)
           either == drop \/ short
<1>1. ProxyMessage(TRUE) \/ Ended(either, server, kept)
  BY DEF PassOn
<1>2. DropBrowser \in BOOLEAN /\ DropServer \in BOOLEAN /\ retried \in BOOLEAN
      /\ ServerConnected \in BOOLEAN
  BY DEF RequestInv
<1>3. drop \in BOOLEAN /\ short \in BOOLEAN /\ server \in BOOLEAN /\ (DropBrowser => drop)
  BY <1>2 DEF UnknownLength, NoBody
<1> HIDE DEF short, server, kept
<1>4. CASE ProxyMessage(TRUE)
  BY <1>2, <1>4 DEF ProxyMessage
<1>5. CASE Ended(either, server, kept)
  <2>1. either \in BOOLEAN /\ (DropBrowser => either)
    BY <1>3
  <2> HIDE DEF either
  <2>2. /\ pc' = "over" /\ DropBrowser' = either /\ DropServer' \in BOOLEAN
        /\ ServerConnected' \in BOOLEAN
        /\ sock' \in {NoSocket, kept}
        /\ either => sock' = NoSocket
    BY <1>2, <1>3, <1>5, <2>1 DEF Ended
  <2>3. DropBrowser' \in BOOLEAN /\ (DropBrowser => DropBrowser')
    BY <2>1, <2>2
  <2>4. DropBrowser' => sock' = NoSocket
    BY <2>1, <2>2
  <2>5. \/ sock' = NoSocket
        \/ sock' = [sock EXCEPT !.stray = a.late, !.closing = closes]
    BY <2>2 DEF kept
  <2>6. QED  BY <2>2, <2>3, <2>4, <2>5
<1>6. QED
  BY <1>1, <1>4, <1>5

\* The answer that is passed on, and what is understood of it.
LEMMA AnswerPassedOn ==
  ASSUME RequestInv, Answer
  PROVE  \E a, said, h, closes :
           /\ a \in world.Answers /\ PassOn(a, said, h, closes) /\ closes \in BOOLEAN
           /\ a.sent \in Nat /\ a.late \in Nat
           /\ h.tokens \in Seq(HeaderLine)
           /\ h.ContentLength \in Nat \cup {-1}
           /\ h.ContentLength # -1 =>
                \E line \in Range(h.tokens) :
                   line.name = "content-length" /\ line.num = h.ContentLength
           /\ h.IsKeepAlive \in BOOLEAN /\ h.IsChunked \in BOOLEAN
           /\ said = "unreadable" => h.ContentLength = -1
<1>1. PICK a, said, h, closes :
         /\ a \in world.Answers /\ h = AnalyseAnswer(said, a.lines) /\ PassOn(a, said, h, closes)
         /\ closes \in {~ h.IsKeepAlive, TRUE}
  BY DEF Answer
<1>2. /\ a.lines \in Seq(HeaderLine) /\ a.sent \in Nat /\ a.late \in Nat
      /\ \A i \in DOMAIN a.lines : a.lines[i].num >= -1
  BY <1>1, Said DEF RequestInv
<1>3. /\ h.tokens \in Seq(HeaderLine)
      /\ h.ContentLength \in Nat \cup {-1}
      /\ h.ContentLength # -1 =>
           \E line \in Range(h.tokens) :
              line.name = "content-length" /\ line.num = h.ContentLength
      /\ h.IsKeepAlive \in BOOLEAN /\ h.IsChunked \in BOOLEAN
      /\ said = "unreadable" => h.ContentLength = -1
  BY <1>1, <1>2, AnswerUnderstood
<1>4. closes \in BOOLEAN
  BY <1>1, <1>3
<1>5. QED
  BY <1>1, <1>2, <1>3, <1>4

\* Another connection for a GET, or a message.
LEMMA TriedAgain ==
  ASSUME TryAgain
  PROVE  \/ Again /\ UNCHANGED <<DropBrowser, out>>
         \/ ProxyMessage(TRUE) /\ UNCHANGED retried
  BY DEF TryAgain

LEMMA FailedResume ==
  ASSUME ResumeFailed
  PROVE  /\ pc = "answer" /\ resuming
         /\ UNCHANGED <<world, count, browser, req, connected, domain, object, hit, partial,
                        resuming, memory, rows, stored, asked>>
         /\ \E response : downloader' = [downloader EXCEPT !.response = response]
         /\ \/ Again /\ UNCHANGED <<DropBrowser, out>>
            \/ (ProxyMessage(TRUE) \/ ProxyMessage(FALSE)) /\ UNCHANGED retried
<1>1. /\ pc = "answer" /\ resuming
      /\ UNCHANGED <<world, count, browser, req, connected, domain, object, hit, partial,
                     resuming, memory, rows, stored, asked>>
  BY DEF ResumeFailed, cache, disk
<1>2. \E response : downloader' = [downloader EXCEPT !.response = response]
  BY DEF ResumeFailed, Reads
<1>3. \/ Again /\ UNCHANGED <<DropBrowser, out>>
      \/ (ProxyMessage(TRUE) \/ ProxyMessage(FALSE)) /\ UNCHANGED retried
  BY TriedAgain DEF ResumeFailed
<1>4. QED
  BY <1>1, <1>2, <1>3

\* A file that is completed: what it is then, and what of it the browser is given.
Completed(have, over) ==
    LET size == rows[object.row]
        given == IF browser.RequestType = "HEAD" THEN 0 ELSE IF have > size THEN size ELSE have
    IN  /\ stored' = stored
           \/ stored' = With(stored, object.path,
                             [size |-> have, urls |-> stored[object.path].urls \cup {Url}])
        /\ \/ ProxyMessage(TRUE) \/ ProxyMessage(FALSE)
           \/ /\ Given("200", <<ContentLength(size)>>, DropBrowser, 0, given,
                       stored'[object.path].urls)
              /\ Ended(DropBrowser \/ (given < size), over, sock)

LEMMA ResumedCompletes ==
  ASSUME DiskInv, AnswerResumed
  PROVE  /\ pc = "answer" /\ resuming /\ hit /\ IsTorn(object)
         /\ UNCHANGED <<world, count, browser, req, retried, connected, domain, object, hit,
                        partial, resuming, memory, rows, asked>>
         /\ \E response : downloader' = [downloader EXCEPT !.response = response]
         /\ \E have \in Nat, over \in BOOLEAN : Completed(have, over)
<1>1. /\ pc = "answer" /\ resuming
      /\ UNCHANGED <<world, count, browser, req, retried, connected, domain, object, hit,
                     partial, resuming, memory, rows, asked>>
  BY DEF AnswerResumed, cache
<1>2. hit /\ IsTorn(object)
  BY <1>1 DEF DiskInv
<1>3. stored[object.path].size \in Nat
  BY <1>2 DEF DiskInv, IsTorn, Exists
<1>4. \E response : downloader' = [downloader EXCEPT !.response = response]
  BY DEF AnswerResumed, Reads
<1>5. \E have \in Nat, over \in BOOLEAN : Completed(have, over)
  <2>1. PICK come, added, over :
          LET size == rows[object.row]
              have == stored[object.path].size + added
              head == browser.RequestType = "HEAD"
              given == IF head THEN 0 ELSE IF have > size THEN size ELSE have
          IN  /\ added \in 0..come /\ over \in BOOLEAN
              /\ stored' = IF added = 0 THEN stored
                           ELSE With(stored, object.path,
                                     [size |-> have,
                                      urls |-> stored[object.path].urls \cup {Url}])
              /\ \/ ProxyMessage(TRUE) \/ ProxyMessage(FALSE)
                 \/ /\ Given("200", <<ContentLength(size)>>, DropBrowser, 0, given,
                             stored'[object.path].urls)
                    /\ Ended(DropBrowser \/ (given < size), over, sock)
    BY DEF AnswerResumed
  <2> DEFINE have == stored[object.path].size + added
  <2>2. have \in Nat
    BY <1>3, <2>1
  <2>3. Completed(have, over)
    BY <2>1 DEF Completed
  <2> HIDE DEF have
  <2>4. QED  BY <2>1, <2>2, <2>3
<1>6. QED
  BY <1>1, <1>2, <1>4, <1>5

\* A redirect of what was to complete a file, of which h is understood.
Redirected(said, h, none, server) ==
    \/ ProxyMessage(TRUE) \/ ProxyMessage(FALSE)
    \/ /\ Given(said, PrepareHeaderForBrowser(h), DropBrowser \/ UnknownLength(h), 0,
                IF none THEN 0 ELSE LineEnds(h.ContentLength), {Url})
       /\ Ended(DropBrowser \/ UnknownLength(h), server, sock)

LEMMA RedirectedEnds ==
  ASSUME RequestInv, AnswerRedirected
  PROVE  /\ pc = "answer" /\ ~ hit' /\ ~ resuming'
         /\ UNCHANGED <<world, count, browser, req, retried, connected, domain, object,
                        partial, memory, stored, asked>>
         /\ \E response : downloader' = [downloader EXCEPT !.response = response]
         /\ \E said, h, none, server :
              /\ server \in BOOLEAN /\ Announces(h) /\ Redirected(said, h, none, server)
              /\ none = NoBody(ResponseOf(said, HTMLResponse), h.ContentLength)
              /\ h.tokens \in Seq(HeaderLine)
              /\ h.ContentLength \in Nat \cup {-1}
              /\ h.ContentLength # -1 =>
                   /\ said \in {"302", "303"}
                   /\ \E line \in Range(h.tokens) :
                         line.name = "content-length" /\ line.num = h.ContentLength
<1>1. /\ pc = "answer" /\ ~ hit' /\ ~ resuming'
      /\ UNCHANGED <<world, count, browser, req, retried, connected, domain, object,
                     partial, memory, stored, asked>>
  BY DEF AnswerRedirected
<1>2. \E response : downloader' = [downloader EXCEPT !.response = response]
  BY DEF AnswerRedirected, Reads
<1>3. PICK a \in world.Answers :
         LET said == IF IsRead(a) THEN a.status ELSE "unreadable"
         IN  \E h \in {AnalyseAnswer(said, a.lines)} :
             LET length == h.ContentLength
                 none == NoBody(ResponseOf(said, HTMLResponse), length)
                 drop == DropBrowser \/ UnknownLength(h)
             IN  /\ Responded(a) \in {"302", "303"} /\ Announces(h)
                 /\ \/ ProxyMessage(TRUE) \/ ProxyMessage(FALSE)
                    \/ /\ Given(said, PrepareHeaderForBrowser(h), drop, 0,
                                IF none THEN 0 ELSE LineEnds(length), {Url})
                       /\ Ended(drop, ~ h.IsKeepAlive \/ (~ none /\ length % 2 = 1), sock)
  BY DEF AnswerRedirected
<1> DEFINE said == IF IsRead(a) THEN a.status ELSE "unreadable"
           h == AnalyseAnswer(said, a.lines)
           none == NoBody(ResponseOf(said, HTMLResponse), h.ContentLength)
           server == ~ h.IsKeepAlive \/ (~ none /\ h.ContentLength % 2 = 1)
<1>b. Announces(h) /\ Redirected(said, h, none, server) /\ Responded(a) \in {"302", "303"}
  BY <1>3 DEF Redirected
<1>4. /\ a.lines \in Seq(HeaderLine)
      /\ \A i \in DOMAIN a.lines : a.lines[i].num >= -1
  BY <1>3, Said DEF RequestInv
<1>5. /\ h.tokens \in Seq(HeaderLine)
      /\ h.ContentLength \in Nat \cup {-1}
      /\ h.ContentLength # -1 =>
           \E line \in Range(h.tokens) :
              line.name = "content-length" /\ line.num = h.ContentLength
      /\ h.IsKeepAlive \in BOOLEAN
      /\ said = "unreadable" => h.ContentLength = -1
  BY <1>4, AnswerUnderstood
<1>6. server \in BOOLEAN /\ none = NoBody(ResponseOf(said, HTMLResponse), h.ContentLength)
  BY <1>5
<1>7. h.ContentLength # -1 => said \in {"302", "303"}
  BY <1>b, <1>5 DEF Responded
<1> HIDE DEF said, h, none, server
<1>8. QED
  BY <1>1, <1>2, <1>b, <1>5, <1>6, <1>7

\* What an action does to the request, most of all: nothing.
LEMMA RequestStays ==
  ASSUME RequestInv, DiskInv,
         Connect \/ SendUnconnected \/ Send \/ AnswerRewrite \/ AnswerNotModified \/ AnswerHit
           \/ ResumeFailed \/ AnswerResumed \/ AnswerRedirected \/ OriginClosed \/ Answer
  PROVE  /\ pc \in Working /\ UNCHANGED <<world, count, browser, req>>
         /\ DropBrowser' \in BOOLEAN /\ DropServer' \in BOOLEAN /\ ServerConnected' \in BOOLEAN
         /\ retried' \in BOOLEAN /\ hit' \in BOOLEAN /\ resuming' \in BOOLEAN
         /\ pc' \in Places
         /\ pc' \in Working => DropBrowser' = DropBrowser
<1> USE DEF Places, Working, cache
<1>0. /\ DropBrowser \in BOOLEAN /\ DropServer \in BOOLEAN /\ ServerConnected \in BOOLEAN
      /\ retried \in BOOLEAN /\ hit \in BOOLEAN /\ resuming \in BOOLEAN
  BY DEF RequestInv
<1>2. CASE Connect
  <2>1. /\ pc = "connect"
        /\ UNCHANGED <<world, count, browser, req, DropBrowser, DropServer, retried>>
        /\ pc' \in {"dead", "looping", "send"}
    BY <1>2 DEF Connect
  <2>2. ServerConnected' \in BOOLEAN /\ hit' \in BOOLEAN /\ resuming' \in BOOLEAN
    <3>1. PICK o : /\ \/ hit' = hit /\ resuming' = resuming
                      \/ hit' = (IsHit(o) \/ IsTorn(o)) /\ resuming' = IsTorn(o)
                   /\ ServerConnected' = ServerConnected \/ ServerConnected' = TRUE
      BY <1>2 DEF Connect
    <3>2. IsHit(o) \in BOOLEAN /\ IsTorn(o) \in BOOLEAN
      BY DEF IsHit, IsTorn
    <3> HIDE DEF Places, Working, cache
    <3>3. QED  BY <1>0, <3>1, <3>2
  <2>3. QED  BY <1>0, <2>1, <2>2
<1>3. CASE SendUnconnected
  BY <1>0, <1>3 DEF SendUnconnected, Again
<1>4. CASE Send
  <2>1. pc = "send" /\ UNCHANGED <<world, count, browser, req, retried, hit, resuming>>
    BY <1>4 DEF Send
  <2>2. \/ pc' = "over" /\ DropBrowser' = TRUE /\ ServerConnected' = FALSE
           /\ DropServer' = DropServer
        \/ pc' = "answer" /\ UNCHANGED <<DropBrowser, DropServer, ServerConnected>>
    BY <1>4 DEF Send, ProxyMessage
  <2>3. QED  BY <1>0, <2>1, <2>2
<1>5. CASE AnswerRewrite
  BY <1>0, <1>5 DEF AnswerRewrite, Ended
<1>6. CASE AnswerNotModified
  BY <1>0, <1>6 DEF AnswerNotModified, Ended
<1>7. CASE AnswerHit
  <2>1. pc = "answer" /\ UNCHANGED <<world, count, browser, req, retried, hit, resuming>>
    BY <1>7 DEF AnswerHit
  <2>2. \E from \in BOOLEAN : Ended(DropBrowser \/ from, FALSE, sock)
    BY <1>7 DEF AnswerHit
  <2>3. QED  BY <1>0, <2>1, <2>2 DEF Ended
<1>8. CASE OriginClosed
  <2>1. pc = "answer" /\ UNCHANGED <<world, count, browser, req, hit, resuming>>
    BY <1>8 DEF OriginClosed
  <2>2. \/ Again /\ UNCHANGED <<DropBrowser, out>>
        \/ ProxyMessage(TRUE) /\ UNCHANGED retried
    BY <1>8, TriedAgain DEF OriginClosed
  <2>3. QED  BY <1>0, <2>1, <2>2 DEF Again, ProxyMessage
<1>9. CASE Answer
  <2>1. pc = "answer" /\ UNCHANGED <<world, count, browser, req, retried, hit, resuming>>
    BY <1>9 DEF Answer
  <2>2. PICK a, said, h, closes :
           closes \in BOOLEAN /\ PassOn(a, said, h, closes) /\ h.IsKeepAlive \in BOOLEAN
    BY <1>9, AnswerPassedOn
  <2>3. QED  BY <1>0, <2>1, <2>2, PassOnEnds
<1>10. CASE ResumeFailed
  <2>1. pc = "answer" /\ UNCHANGED <<world, count, browser, req, hit, resuming>>
        /\ \/ Again /\ UNCHANGED <<DropBrowser, out>>
           \/ (ProxyMessage(TRUE) \/ ProxyMessage(FALSE)) /\ UNCHANGED retried
    BY <1>10, FailedResume
  <2>2. QED  BY <1>0, <2>1 DEF Again, ProxyMessage
<1>11. CASE AnswerResumed
  <2>1. pc = "answer" /\ UNCHANGED <<world, count, browser, req, retried, hit, resuming>>
    BY <1>11, ResumedCompletes
  <2>2. PICK short, over \in BOOLEAN :
          \/ ProxyMessage(TRUE) \/ ProxyMessage(FALSE)
          \/ Ended(DropBrowser \/ short, over, sock) /\ short \in BOOLEAN
    BY <1>11, ResumedCompletes DEF Completed
  <2>3. QED  BY <1>0, <2>1, <2>2 DEF ProxyMessage, Ended
<1>12. CASE AnswerRedirected
  <2>1. /\ pc = "answer" /\ UNCHANGED <<world, count, browser, req, retried>>
        /\ hit' = FALSE /\ resuming' = FALSE
    BY <1>12 DEF AnswerRedirected
  <2>2. PICK h, server :
          \/ ProxyMessage(TRUE) \/ ProxyMessage(FALSE)
          \/ server \in BOOLEAN /\ Ended(DropBrowser \/ UnknownLength(h), server, sock)
    BY <1>12, RedirectedEnds DEF Redirected
  <2>3. UnknownLength(h) \in BOOLEAN
    BY DEF UnknownLength
  <2> HIDE DEF Places, Working, cache
  <2>4. pc' = "over" /\ DropBrowser' \in BOOLEAN /\ DropServer' \in BOOLEAN
        /\ ServerConnected' \in BOOLEAN
    BY <1>0, <2>2, <2>3 DEF ProxyMessage, Ended
  <2>5. QED  BY <1>0, <2>1, <2>4 DEF Places, Working
<1>13. QED
  BY <1>2, <1>3, <1>4, <1>5, <1>6, <1>7, <1>8, <1>9, <1>10, <1>11, <1>12

LEMMA RequestStep ==
  ASSUME RequestInv, DiskInv, [Next]_vars
  PROVE  RequestInv'
<1>1. CASE Request
  <2>1. PICK q, b :
         /\ q \in world.Requests /\ b = AnalyseRequest(q, world.Transparent)
         /\ req' = q /\ browser' = b
         /\ \/ Refused(b) /\ ProxyMessage(TRUE)
            \/ ~ Refused(b) /\ NoLength(b) /\ ProxyMessage(FALSE)
            \/ /\ ~ Refused(b) /\ ~ NoLength(b)
               /\ pc' = "connect"
               /\ DropBrowser' = (~ b.IsKeepAlive \/ b.RequestType # "GET")
               /\ UNCHANGED <<DropServer, ServerConnected, sock, out>>
    BY <1>1 DEF Request
  <2>2. /\ DOMAIN b = DOMAIN ClearedRequest
        /\ b.ContentLength \in Int
        /\ b.ProxyConnection \in BOOLEAN /\ b.IsKeepAlive \in BOOLEAN
        /\ b.RequestType = "GET" => q.method = "GET"
        /\ ~ Refused(b) => b.ret = 0 /\ b.Host # <<>> /\ b.Port \in PortNumbers
    BY <2>1, Taken DEF RequestInv
  <2>3. /\ world' = world /\ world.max \in Nat /\ count' = count + 1 /\ count < world.max
        /\ retried' = retried /\ hit' = hit /\ resuming' = resuming
    BY <1>1 DEF Request, RequestInv, IsWorld, cache
  <2>4. count' \in 0..world.max
    BY <2>3 DEF RequestInv
  <2>5. /\ pc' \in {"connect", "over"}
        /\ DropBrowser' \in BOOLEAN /\ DropServer' \in BOOLEAN /\ ServerConnected' \in BOOLEAN
        /\ pc' = "connect" => /\ ~ Refused(b)
                              /\ b.RequestType = "GET" \/ DropBrowser'
    <3>1. CASE ProxyMessage(TRUE) \/ ProxyMessage(FALSE)
      BY <3>1 DEF ProxyMessage, RequestInv
    <3>2. CASE ~ (ProxyMessage(TRUE) \/ ProxyMessage(FALSE))
      BY <2>1, <3>2 DEF RequestInv
    <3>3. QED  BY <3>1, <3>2
  <2>6. QED
    BY <2>1, <2>2, <2>3, <2>4, <2>5 DEF RequestInv, Working, Places
<1>2. CASE Connect \/ SendUnconnected \/ Send \/ AnswerRewrite \/ AnswerNotModified
             \/ AnswerHit \/ ResumeFailed \/ AnswerResumed \/ AnswerRedirected
             \/ OriginClosed \/ Answer
  <2>1. /\ pc \in Working /\ UNCHANGED <<world, count, browser, req>>
        /\ DropBrowser' \in BOOLEAN /\ DropServer' \in BOOLEAN /\ ServerConnected' \in BOOLEAN
        /\ retried' \in BOOLEAN /\ hit' \in BOOLEAN /\ resuming' \in BOOLEAN
        /\ pc' \in Places
        /\ pc' \in Working => DropBrowser' = DropBrowser
    BY <1>2, RequestStays
  <2>2. QED  BY <2>1 DEF RequestInv
<1>3. CASE Continue
  <2>1. /\ pc' = "idle" /\ UNCHANGED <<world, count>> /\ browser' = ClearedRequest
        /\ req' = NoRequest /\ hit' = FALSE /\ resuming' = FALSE
        /\ DropServer' = FALSE /\ retried' = FALSE /\ DropBrowser' = FALSE /\ ServerConnected' \in BOOLEAN
    BY <1>3 DEF Continue
  <2>2. ClearedRequest.ContentLength \in Int /\ ClearedRequest.ProxyConnection \in BOOLEAN
    BY DEF ClearedRequest
  <2>3. QED  BY <2>1, <2>2 DEF RequestInv, Places, Working
<1>4. CASE UNCHANGED vars
  BY <1>4 DEF vars, connection, cache, RequestInv
<1>5. QED
  BY <1>1, <1>2, <1>3, <1>4 DEF Next

-----------------------------------------------------------------------------
(* The connection.                                                         *)

LEMMA NoSocketClean ==
  /\ DOMAIN NoSocket = {"at", "stray", "garbage", "closing", "told"}
  /\ NoSocket.at = <<>> /\ NoSocket.stray = 0
  /\ NoSocket.garbage \in BOOLEAN /\ NoSocket.closing \in BOOLEAN /\ NoSocket.told \in BOOLEAN
  /\ ~ NoSocket.garbage /\ ~ NoSocket.closing /\ ~ NoSocket.told
  BY DEF NoSocket

LEMMA OpenClean ==
  ASSUME NEW host, NEW port
  PROVE  /\ DOMAIN Open(host, port) = DOMAIN NoSocket
         /\ Open(host, port).at = <<host, port>> /\ Open(host, port).at # <<>>
         /\ Open(host, port).stray = 0
         /\ Open(host, port).garbage \in BOOLEAN /\ ~ Open(host, port).garbage
         /\ Open(host, port).closing \in BOOLEAN /\ ~ Open(host, port).closing
         /\ Open(host, port).told \in BOOLEAN /\ ~ Open(host, port).told
  BY DEF Open, NoSocket

LEMMA NoDownloaderClean ==
  ASSUME DOMAIN downloader = DOMAIN NoDownloader
  PROVE  /\ \A r : DOMAIN [downloader EXCEPT !.response = r] = DOMAIN NoDownloader
         /\ \A a : /\ DOMAIN [downloader EXCEPT !.at = a] = DOMAIN NoDownloader
                  /\ [downloader EXCEPT !.at = a].at = a
  BY DEF NoDownloader

LEMMA ConnectionInit == Init => ConnectionInv
  BY NoSocketClean DEF Init, ConnectionInv, IsOpen, NoDownloader

\* There is no connection any more, or it is as it was, and the browser's too.
LEMMA ConnectionEnds ==
  ASSUME ConnectionInv, pc \notin {"dead", "looping"},
         pc' = "over" \/ (pc' = "idle" /\ ~ retried'),
         UNCHANGED <<world, connected>>, DOMAIN downloader' = DOMAIN downloader,
         sock' = NoSocket \/ (sock' = sock /\ (pc = "answer" => ~ DropBrowser))
  PROVE  ConnectionInv'
<1>1. CASE sock' = NoSocket
  BY <1>1, NoSocketClean DEF ConnectionInv, IsOpen
<1>2. CASE sock' = sock /\ (pc = "answer" => ~ DropBrowser)
  BY <1>2 DEF ConnectionInv, IsOpen, Address
<1>3. QED
  BY <1>1, <1>2

LEMMA ConnectionConnect ==
  ASSUME RequestInv, ConnectionInv, Connect
  PROVE  ConnectionInv'
<1>1. PICK o : /\ connected' = <<browser.Host, browser.Port>>
               /\ \/ pc' \in {"dead", "looping"} /\ sock' = sock /\ downloader' = downloader
                  \/ /\ pc' = "send" /\ object' = o /\ hit' = (IsHit(o) \/ IsTorn(o))
                     /\ sock' = IF Stays THEN sock ELSE NewSocket(o)
                     /\ downloader' = NewDownloader(o)
  BY DEF Connect
<1>2. pc = "connect" /\ UNCHANGED <<world, browser, DropBrowser, retried>>
  BY DEF Connect
<1>3. CASE pc' \in {"dead", "looping"} /\ sock' = sock /\ downloader' = downloader
  BY <1>2, <1>3 DEF ConnectionInv, IsOpen
<1>a. ASSUME pc' = "send"
      PROVE  /\ DOMAIN downloader' = DOMAIN NoDownloader
             /\ downloader'.at # <<>> => downloader'.at = Origin'
  <2>1. downloader' = [downloader EXCEPT !.at = IF IsTorn(o) /\ ~ Stays THEN Origin ELSE <<>>]
    BY <1>1, <1>a DEF NewDownloader
  <2>2. DOMAIN downloader = DOMAIN NoDownloader
    BY DEF ConnectionInv
  <2>3. DOMAIN downloader' = DOMAIN NoDownloader /\ downloader'.at \in {Origin, <<>>}
    BY <2>1, <2>2, NoDownloaderClean
  <2>4. Origin' = Origin
    BY <1>2 DEF Origin
  <2>5. QED  BY <2>3, <2>4
<1>4. CASE pc' = "send" /\ Stays
  <2>1. sock' = sock /\ Address' = Address
    BY <1>1, <1>2, <1>4 DEF Stays, Address
  <2>2. retried' => FALSE
    BY <1>2, <1>4 DEF Stays, ConnectionInv, RequestInv
  <2>3. QED  BY <1>1, <1>2, <1>4, <1>a, <2>1, <2>2 DEF ConnectionInv, IsOpen
<1>5. CASE pc' = "send" /\ ~ Stays
  <2>1. object' = o /\ hit' = (IsHit(o) \/ IsTorn(o)) /\ sock' = NewSocket(o)
    BY <1>1, <1>5
  <2>2. \/ sock' = NoSocket /\ ~ ToOrigin'
        \/ sock' = Open(Origin[1], Origin[2])
    BY <2>1 DEF NewSocket, ToOrigin
  <2>3. <<Origin[1], Origin[2]>> = Address'
    BY <1>1, <1>2 DEF Origin, Address
  <2>4. CASE sock' = NoSocket /\ ~ ToOrigin'
    BY <1>1, <1>2, <1>5, <1>a, <2>4, NoSocketClean DEF ConnectionInv, IsOpen
  <2>5. CASE sock' = Open(Origin[1], Origin[2])
    BY <1>1, <1>2, <1>5, <1>a, <2>3, <2>5, OpenClean DEF ConnectionInv, IsOpen
  <2>6. QED  BY <2>2, <2>4, <2>5
<1>6. QED
  BY <1>1, <1>3, <1>4, <1>5

LEMMA ConnectionSend ==
  ASSUME RequestInv, ConnectionInv, Send
  PROVE  ConnectionInv'
<1> DEFINE announced == browser.ContentLength
           nowhere == announced > 0 /\ req.body >= announced /\ ~ IsOpen
           bad == announced >= 0 /\ req.body # announced /\ ~ nowhere
<1>1. pc = "send" /\ (ToOrigin => IsOpen)
  BY DEF Send
<1>2. UNCHANGED <<world, browser, connected, retried, object, hit, downloader>>
  BY DEF Send, worker
<1>3. CASE ProxyMessage(nowhere)
  BY <1>1, <1>2, <1>3, ConnectionEnds DEF ProxyMessage
<1>4. CASE /\ ~ bad /\ ~ nowhere /\ pc' = "answer" /\ DropBrowser' = DropBrowser
           /\ sock' = [sock EXCEPT !.garbage = @ \/ (~ ToOrigin /\ announced > 0),
                                   !.told = @ \/ (ToOrigin /\ DropBrowser)]
  <2>1. /\ DOMAIN sock' = DOMAIN sock /\ sock'.at = sock.at /\ sock'.stray = sock.stray
        /\ sock'.closing = sock.closing
        /\ sock'.garbage = (sock.garbage \/ (~ ToOrigin /\ announced > 0))
        /\ sock'.told = (sock.told \/ (ToOrigin /\ DropBrowser))
    BY <1>4, NoSocketClean DEF ConnectionInv
  <2>2. sock'.told => DropBrowser
    BY <1>1, <2>1 DEF ConnectionInv
  <2>3. ASSUME sock'.garbage, ~ DropBrowser
        PROVE  \E q \in world.Requests : q.method = "GET" /\ q.body > 0
    <3>1. CASE sock.garbage
      BY <1>1, <2>3, <3>1 DEF ConnectionInv
    <3>2. CASE ~ sock.garbage
      <4>1. announced > 0
        BY <2>1, <2>3, <3>2
      <4>2. req \in world.Requests /\ req.body \in Nat /\ announced \in Int
        BY <1>1, Said DEF RequestInv, Working
      <4>3. req.body > 0
        BY <1>4, <4>1, <4>2
      <4>4. req.method = "GET"
        BY <1>1, <2>3 DEF RequestInv, Working
      <4>5. QED  BY <4>2, <4>3, <4>4
    <3>3. QED  BY <3>1, <3>2
  <2>4. IsOpen' = IsOpen /\ Address' = Address /\ ToOrigin' = ToOrigin
    BY <1>2, <2>1 DEF IsOpen, Address, ToOrigin
  <2>5. sock'.garbage \in BOOLEAN /\ sock'.told \in BOOLEAN
    BY <2>1
  <2>6. QED
    BY <1>1, <1>2, <1>4, <2>1, <2>2, <2>3, <2>4, <2>5 DEF ConnectionInv
<1>5. QED
  BY <1>3, <1>4 DEF Send

LEMMA ConnectionAnswer ==
  ASSUME RequestInv, ConnectionInv, Answer
  PROVE  ConnectionInv'
<1>1. pc = "answer" /\ UNCHANGED <<world, connected, retried, downloader>>
  BY DEF Answer
<1>2. PICK a, said, h, closes :
         /\ closes \in BOOLEAN /\ a \in world.Answers /\ PassOn(a, said, h, closes)
         /\ h.IsKeepAlive \in BOOLEAN /\ a.late \in Nat
  BY AnswerPassedOn
<1>3. /\ pc' = "over"
      /\ \/ sock' = NoSocket
         \/ sock' = [sock EXCEPT !.stray = a.late, !.closing = closes]
      /\ DropBrowser' => sock' = NoSocket
      /\ DropBrowser => DropBrowser'
  BY <1>2, PassOnEnds
<1>4. CASE sock' = NoSocket
  BY <1>1, <1>3, <1>4, ConnectionEnds
<1>5. CASE sock' # NoSocket
  <2>1. sock' = [sock EXCEPT !.stray = a.late, !.closing = closes] /\ ~ DropBrowser
    BY <1>3, <1>5
  <2>2. /\ DOMAIN sock' = DOMAIN sock /\ sock'.at = sock.at /\ sock'.stray = a.late
        /\ sock'.closing = closes
        /\ sock'.garbage = sock.garbage /\ sock'.told = sock.told
    BY <2>1, NoSocketClean DEF ConnectionInv
  <2>3. sock'.closing \in BOOLEAN
    BY <1>2, <2>2
  <2>4. Address' = Address /\ IsOpen' = IsOpen
    BY <1>1, <2>2 DEF Address, IsOpen
  <2>5. QED
    BY <1>1, <1>2, <1>3, <2>1, <2>2, <2>3, <2>4 DEF ConnectionInv
<1>6. QED
  BY <1>4, <1>5

LEMMA ConnectionStep ==
  ASSUME RequestInv, ConnectionInv, DiskInv, [Next]_vars
  PROVE  ConnectionInv'
<1>1. CASE Request
  <2>1. pc = "idle" /\ UNCHANGED <<world, connected, retried, downloader>>
    BY <1>1 DEF Request, worker
  <2>2. \/ ProxyMessage(TRUE) \/ ProxyMessage(FALSE)
        \/ pc' = "connect" /\ UNCHANGED <<ServerConnected, sock>>
    BY <1>1 DEF Request
  <2>3. CASE ProxyMessage(TRUE) \/ ProxyMessage(FALSE)
    BY <2>1, <2>3, ConnectionEnds DEF ProxyMessage
  <2>4. CASE pc' = "connect" /\ UNCHANGED <<ServerConnected, sock>>
    BY <2>1, <2>4 DEF ConnectionInv, IsOpen, Address
  <2>5. QED  BY <2>2, <2>3, <2>4
<1>2. CASE Connect
  BY <1>2, ConnectionConnect
<1>3. CASE SendUnconnected
  BY <1>3, NoSocketClean DEF SendUnconnected, Again, worker, ConnectionInv, IsOpen
<1>4. CASE Send
  BY <1>4, ConnectionSend
<1>5. CASE AnswerRewrite
  BY <1>5, ConnectionEnds DEF AnswerRewrite, Ended, worker
<1>6. CASE AnswerNotModified
  <2>1. /\ pc = "answer" /\ UNCHANGED <<world, connected>> /\ Ended(TRUE, TRUE, sock)
        /\ \/ \E response : downloader' = [downloader EXCEPT !.response = response]
           \/ downloader' = downloader
    BY <1>6 DEF AnswerNotModified, Reads
  <2>2. DOMAIN downloader' = DOMAIN downloader
    BY <2>1, NoDownloaderClean DEF ConnectionInv
  <2>3. QED  BY <2>1, <2>2, ConnectionEnds DEF Ended
<1>7. CASE AnswerHit
  <2>1. /\ pc = "answer" /\ UNCHANGED <<world, connected, downloader>>
        /\ \E from \in BOOLEAN : Ended(DropBrowser \/ from, FALSE, sock)
    BY <1>7 DEF AnswerHit, worker
  <2>2. QED  BY <2>1, ConnectionEnds DEF Ended
<1>8. CASE OriginClosed
  <2>1. pc = "answer" /\ UNCHANGED <<world, browser, connected, downloader>>
    BY <1>8 DEF OriginClosed, worker
  <2>2. Again \/ ProxyMessage(TRUE)
    BY <1>8, TriedAgain DEF OriginClosed
  <2>3. CASE Again
    BY <2>1, <2>3, NoSocketClean DEF Again, ConnectionInv, IsOpen
  <2>4. CASE ProxyMessage(TRUE)
    BY <2>1, <2>4, ConnectionEnds DEF ProxyMessage
  <2>5. QED  BY <2>2, <2>3, <2>4
<1>9. CASE Answer
  BY <1>9, ConnectionAnswer
<1>10. CASE ResumeFailed
  <2>1. /\ pc = "answer" /\ UNCHANGED <<world, browser, connected>>
        /\ \E response : downloader' = [downloader EXCEPT !.response = response]
        /\ Again \/ ProxyMessage(TRUE) \/ ProxyMessage(FALSE)
    BY <1>10, FailedResume
  <2>2. DOMAIN downloader' = DOMAIN downloader
    BY <2>1, NoDownloaderClean DEF ConnectionInv
  <2>3. CASE Again
    BY <2>1, <2>2, <2>3, NoSocketClean DEF Again, ConnectionInv, IsOpen
  <2>4. CASE ProxyMessage(TRUE) \/ ProxyMessage(FALSE)
    BY <2>1, <2>2, <2>4, ConnectionEnds DEF ProxyMessage
  <2>5. QED  BY <2>1, <2>3, <2>4
<1>11. CASE AnswerResumed \/ AnswerRedirected
  <2>1. /\ pc = "answer" /\ UNCHANGED <<world, connected>>
        /\ \E response : downloader' = [downloader EXCEPT !.response = response]
    BY <1>11, ResumedCompletes, RedirectedEnds
  <2>2. DOMAIN downloader' = DOMAIN downloader
    BY <2>1, NoDownloaderClean DEF ConnectionInv
  <2>3. \/ ProxyMessage(TRUE) \/ ProxyMessage(FALSE)
        \/ \E drop, server : Ended(DropBrowser \/ drop, server, sock)
    <3>1. CASE AnswerResumed
      BY <3>1, ResumedCompletes DEF Completed
    <3>2. CASE AnswerRedirected
      BY <3>2, RedirectedEnds DEF Redirected
    <3>3. QED  BY <1>11, <3>1, <3>2
  <2>4. CASE ProxyMessage(TRUE) \/ ProxyMessage(FALSE)
    BY <2>1, <2>2, <2>4, ConnectionEnds DEF ProxyMessage
  <2>5. CASE \E drop, server : Ended(DropBrowser \/ drop, server, sock)
    BY <2>1, <2>2, <2>5, ConnectionEnds DEF Ended
  <2>6. QED  BY <2>3, <2>4, <2>5
<1>12. CASE Continue
  <2>1. /\ pc = "over" /\ pc' = "idle" /\ ~ retried' /\ UNCHANGED <<world, connected>>
        /\ sock' \in {NoSocket, sock}
        /\ \/ downloader' = NoDownloader
           \/ downloader' = [downloader EXCEPT !.at = <<>>]
    BY <1>12 DEF Continue
  <2>2. DOMAIN downloader' = DOMAIN downloader
    BY <2>1, NoDownloaderClean DEF ConnectionInv
  <2>3. QED  BY <2>1, <2>2, ConnectionEnds
<1>13. CASE UNCHANGED vars
  BY <1>13 DEF vars, connection, cache, worker, ConnectionInv, IsOpen, Address, Origin, ToOrigin
<1>14. QED
  BY <1>1, <1>2, <1>3, <1>4, <1>5, <1>6, <1>7, <1>8, <1>9, <1>10, <1>11, <1>12, <1>13 DEF Next

-----------------------------------------------------------------------------
(* The rows and the files.                                                 *)

LEMMA DiskInit == Init => DiskInv
<1>1. NotKept.kind = "none"
  BY DEF NotKept
<1>2. DOMAIN <<>> = {}
  OBVIOUS
<1>3. QED
  BY <1>1, <1>2 DEF Init, DiskInv

LEMMA DiskConnect ==
  ASSUME DiskInv, Connect
  PROVE  DiskInv'
<1>1. PICK o \in Lookup(LookedUp, Looked, memory) :
         \/ pc' \in {"dead", "looping"} /\ UNCHANGED <<object, rows>>
         \/ /\ o.kind \notin {"dies", "loops"}
            /\ object' = o /\ Misses(o)
            /\ hit' = (IsHit(o) \/ IsTorn(o)) /\ resuming' = IsTorn(o)
  BY DEF Connect
<1>2. stored' = stored
  BY DEF Connect
<1>3. CASE pc' \in {"dead", "looping"} /\ UNCHANGED <<object, rows>>
  BY <1>2, <1>3 DEF DiskInv
<1>4. CASE /\ o.kind \notin {"dies", "loops"} /\ object' = o /\ Misses(o)
           /\ hit' = (IsHit(o) \/ IsTorn(o)) /\ resuming' = IsTorn(o)
  <2>1. object'.kind \in {"none", "plugin", "general", "rewrite"}
    BY <1>4, Found
  <2>2. \A row \in DOMAIN rows' : rows'[row] \in Nat
    <3>1. rows' = rows \/ rows' = With(rows, o.row, 0)
      BY <1>4 DEF Misses
    <3>2. QED  BY <3>1 DEF DiskInv, With
  <2>3. ASSUME Exists(o) PROVE rows' = rows
    BY <1>4, <2>3 DEF Misses, Exists
  <2>4. ASSUME hit' PROVE IF resuming' THEN IsTorn(object)' ELSE IsHit(object)'
    <3>1. Exists(o)
      BY <1>4, <2>4 DEF IsHit, IsTorn
    <3>2. rows' = rows /\ stored' = stored /\ object' = o
      BY <1>2, <1>4, <2>3, <3>1
    <3>3. CASE IsTorn(o)
      BY <1>4, <3>2, <3>3 DEF IsTorn, Exists
    <3>4. CASE ~ IsTorn(o)
      BY <1>4, <2>4, <3>2, <3>4 DEF IsHit, Exists
    <3>5. QED  BY <3>3, <3>4
  <2>5. resuming' => hit'
    BY <1>4
  <2>6. QED  BY <1>2, <2>1, <2>2, <2>4, <2>5 DEF DiskInv
<1>5. QED
  BY <1>1, <1>3, <1>4

\* What is announced is a size of a row, and what was received that of a file.
LEMMA DiskAnswer ==
  ASSUME RequestInv, DiskInv, Answer
  PROVE  DiskInv'
<1>1. object' = object
  BY DEF Answer, cache
<1>2. PICK a, said, h, closes :
         /\ closes \in BOOLEAN /\ PassOn(a, said, h, closes) /\ a.sent \in Nat
         /\ h.ContentLength \in Nat \cup {-1} /\ h.IsKeepAlive \in BOOLEAN
  BY AnswerPassedOn
<1>3. pc' = "over"
  BY <1>2, PassOnEnds
<1>4. \A row \in DOMAIN rows' : rows'[row] \in Nat
  <2>1. \/ rows' = rows
        \/ rows' = [rows EXCEPT ![object.row] = h.ContentLength] /\ h.ContentLength \in Nat
    BY <1>2 DEF PassOn, Announces
  <2>2. QED  BY <2>1 DEF DiskInv
<1>5. \A path \in DOMAIN stored' : stored'[path].size \in Nat
  <2> DEFINE written == [size |-> a.sent, urls |-> {Url}]
  <2>1. stored' = stored \/ stored' = With(stored, object.path, written)
    BY <1>2 DEF PassOn, Stores
  <2>2. written.size = a.sent
    OBVIOUS
  <2> HIDE DEF written
  <2>3. QED  BY <1>2, <2>1, <2>2 DEF DiskInv, With
<1>6. QED
  BY <1>1, <1>3, <1>4, <1>5 DEF DiskInv

LEMMA DiskResumed ==
  ASSUME RequestInv, DiskInv, AnswerResumed \/ AnswerRedirected
  PROVE  DiskInv'
<1>1. object' = object
  BY ResumedCompletes, RedirectedEnds
<1>2. CASE AnswerResumed
  <2>1. rows' = rows
    BY <1>2, ResumedCompletes
  <2>2. PICK have \in Nat, over \in BOOLEAN : Completed(have, over)
    BY <1>2, ResumedCompletes
  <2>3. pc' = "over"
    BY <2>2 DEF Completed, ProxyMessage, Ended
  <2> DEFINE written == [size |-> have, urls |-> stored[object.path].urls \cup {Url}]
  <2>4. stored' = stored \/ stored' = With(stored, object.path, written)
    BY <2>2 DEF Completed
  <2>5. written.size = have
    OBVIOUS
  <2> HIDE DEF written
  <2>6. \A path \in DOMAIN stored' : stored'[path].size \in Nat
    BY <2>2, <2>4, <2>5 DEF DiskInv, With
  <2>7. QED  BY <1>1, <2>1, <2>3, <2>6 DEF DiskInv
<1>3. CASE AnswerRedirected
  <2>1. stored' = stored
    BY <1>3, RedirectedEnds
  <2>2. PICK said, h, none, server :
           Announces(h) /\ Redirected(said, h, none, server) /\ h.ContentLength \in Nat \cup {-1}
    BY <1>3, RedirectedEnds
  <2>3. pc' = "over"
    BY <2>2 DEF Redirected, ProxyMessage, Ended
  <2>4. \/ rows' = rows
        \/ rows' = [rows EXCEPT ![object.row] = h.ContentLength] /\ h.ContentLength \in Nat
    BY <2>2 DEF Announces
  <2>5. \A row \in DOMAIN rows' : rows'[row] \in Nat
    BY <2>4 DEF DiskInv
  <2>6. QED  BY <1>1, <2>1, <2>3, <2>5 DEF DiskInv
<1>4. QED
  BY <1>2, <1>3

LEMMA DiskStep ==
  ASSUME RequestInv, DiskInv, [Next]_vars
  PROVE  DiskInv'
<1>1. CASE Connect
  BY <1>1, DiskConnect
<1>2. CASE Answer
  BY <1>2, DiskAnswer
<1>3. CASE AnswerResumed \/ AnswerRedirected
  BY <1>3, DiskResumed
<1>4. CASE Request \/ SendUnconnected \/ Send
  <2>1. UNCHANGED <<object, hit, resuming, rows, stored>>
    BY <1>4 DEF Request, SendUnconnected, Send, cache, worker, disk
  <2>2. pc = "send" \/ pc' \in {"over", "connect"}
    BY <1>4 DEF Request, ProxyMessage, SendUnconnected, Send
  <2>3. QED  BY <2>1, <2>2 DEF DiskInv, IsHit, IsTorn, Exists
<1>5. CASE AnswerRewrite \/ AnswerHit \/ OriginClosed \/ ResumeFailed \/ AnswerNotModified
  <2>1. UNCHANGED <<object, rows, stored>>
    BY <1>5, FailedResume
       DEF AnswerRewrite, AnswerHit, OriginClosed, AnswerNotModified, cache, worker, disk
  <2>2. pc' \in {"over", "connect"}
    <3>1. CASE ResumeFailed
      BY <3>1, FailedResume DEF Again, ProxyMessage
    <3>2. CASE OriginClosed
      BY <3>2, TriedAgain DEF OriginClosed, Again, ProxyMessage
    <3>3. QED  BY <1>5, <3>1, <3>2 DEF AnswerRewrite, AnswerHit, AnswerNotModified, Ended
  <2>3. QED  BY <2>1, <2>2 DEF DiskInv
<1>6. CASE Continue
  <2>1. UNCHANGED <<rows, stored>> /\ pc' = "idle" /\ object' = NotKept
    BY <1>6 DEF Continue, disk
  <2>2. NotKept.kind = "none"
    BY DEF NotKept
  <2>3. QED  BY <2>1, <2>2 DEF DiskInv
<1>7. CASE UNCHANGED vars
  BY <1>7 DEF vars, cache, worker, disk, DiskInv, IsHit, IsTorn, Exists
<1>8. QED
  BY <1>1, <1>2, <1>3, <1>4, <1>5, <1>6, <1>7 DEF Next

-----------------------------------------------------------------------------
(* The header that an origin is sent.                                      *)

LEMMA PassedFine ==
  ASSUME RequestInv, pc \in Working
  PROVE  /\ \E X : Passed \in Seq(X)
         /\ Len(Passed) \in Nat \ {0}
         /\ \A i \in 1..Len(Passed) :
              /\ Passed[i].name \notin Own
              /\ Passed[i].num \in Int
              /\ Passed[i].name = "host" => Passed[i].words = browser.Host
              /\ ~ world.UseParentProxy => Passed[i].name # "proxy-authorization"
<1>1. req.lines \in Seq(HeaderLine) /\ world.UseParentProxy \in BOOLEAN
  BY Said DEF RequestInv
<1>2. QED
  BY <1>1, PreparedForServer DEF Passed

LEMMA StartsAreNumbers ==
  ASSUME RequestInv, pc \in Working
  PROVE  Starts \subseteq Int
<1> DEFINE S == {line \in Range(Passed) : line.name \in {"range"}}
           ranges == Only(Passed, S)
<1>1. PICK X : Passed \in Seq(X)
  BY PassedFine
<1>2. Len(Passed) \in Nat \ {0} /\ \A i \in 1..Len(Passed) : Passed[i].num \in Int
  BY PassedFine
<1>3. ranges \in Seq(X) /\ Range(ranges) \subseteq Range(Passed)
  <2> HIDE DEF S
  <2>1. QED  BY <1>1, OnlyLines
<1>4. Starts = IF ranges = <<>> THEN {0}
               ELSE IF Passed[1].name = "range" \/ ranges[1].num < 0 THEN {ranges[1].num}
               ELSE Digits(ranges[1].num)
  BY DEF Starts, OnLines
<1> HIDE DEF ranges
<1>5. ASSUME ranges # <<>> PROVE ranges[1].num \in Int
  <2>1. ranges[1] \in Range(ranges)
    BY <1>3, <1>5 DEF Range
  <2>2. PICK i \in 1..Len(Passed) : ranges[1] = Passed[i]
    BY <1>1, <1>3, <2>1 DEF Range
  <2>3. QED  BY <1>2, <2>2
<1>6. \A n \in Int : Digits(n) \subseteq Int
  BY DEF Digits
<1>7. QED
  BY <1>4, <1>5, <1>6

LEMMA SentOurs ==
  ASSUME NEW X, NEW header \in Seq(X), \A i \in 1..Len(header) : header[i].name \notin Own,
         NEW ProxyConnection \in BOOLEAN, NEW ConnectionClose \in BOOLEAN,
         NEW sent, sent = SendHeader(header, ProxyConnection, ConnectionClose)
  PROVE  Ours(sent)
<1>1. /\ Front(sent) = header
      /\ Last(sent).name = IF ProxyConnection THEN "proxy-connection" ELSE "connection"
  BY HeaderSent
<1>2. NamesOn(header) \cap Own = {}
  BY DEF NamesOn
<1>3. Own = Connections \cup {"keep-alive"}
  BY DEF Own, Connections
<1>4. Last(sent).name \in Connections
  BY <1>1 DEF Connections
<1>5. QED
  BY <1>1, <1>2, <1>3, <1>4 DEF Ours

\* Lines that may be sent to an origin.
FineLines(header) ==
    /\ \E X : header \in Seq(X)
    /\ \A i \in 1..Len(header) :
          /\ header[i].name \notin Own
          /\ header[i].name = "host" => header[i].words = browser.Host
          /\ ~ world.UseParentProxy => header[i].name # "proxy-authorization"

\* With the line that asks for the rest of a file in the place of the last.
LEMMA ResumeHeaderFine ==
  ASSUME RequestInv, pc \in Working
  PROVE  FineLines(Passed) /\ FineLines(ResumeHeader)
<1>1. PICK X : Passed \in Seq(X)
  BY PassedFine
<1>2. /\ Len(Passed) \in Nat \ {0}
      /\ \A i \in 1..Len(Passed) :
           /\ Passed[i].name \notin Own
           /\ Passed[i].name = "host" => Passed[i].words = browser.Host
           /\ ~ world.UseParentProxy => Passed[i].name # "proxy-authorization"
  BY PassedFine
<1>3. FineLines(Passed)
  BY <1>1, <1>2 DEF FineLines
<1> DEFINE range == Line("range", <<>>)
<1>4. range.name = "range"
  BY DEF Line
<1> HIDE DEF range
<1>5. /\ ResumeHeader \in Seq(X \cup {range}) /\ Len(ResumeHeader) = Len(Passed)
      /\ \A i \in 1..Len(Passed) :
           ResumeHeader[i] = IF i = Len(Passed) THEN range ELSE Passed[i]
  <2>1. ResumeHeader = Append(Front(Passed), range)
    BY DEF ResumeHeader, range
  <2>2. /\ Front(Passed) \in Seq(X) /\ Len(Front(Passed)) = Len(Passed) - 1
        /\ \A i \in 1..(Len(Passed) - 1) : Front(Passed)[i] = Passed[i]
    <3>1. Front(Passed) = SubSeq(Passed, 1, Len(Passed) - 1)
      BY DEF Front
    <3>2. Passed \in Seq(X) /\ 1 \in 1..(Len(Passed) + 1)
          /\ Len(Passed) - 1 \in (1 - 1)..Len(Passed)
      BY <1>1, <1>2
    <3>3. /\ SubSeq(Passed, 1, Len(Passed) - 1) \in Seq(X)
          /\ Len(SubSeq(Passed, 1, Len(Passed) - 1)) = Len(Passed) - 1
          /\ \A i \in 1..(Len(Passed) - 1) : SubSeq(Passed, 1, Len(Passed) - 1)[i] = Passed[i]
      <4> DEFINE n == Len(Passed) - 1
      <4>1. n \in (1 - 1)..Len(Passed) /\ n \in Nat
        BY <1>2, <3>2
      <4> HIDE DEF n
      <4>2. /\ SubSeq(Passed, 1, n) \in Seq(X) /\ Len(SubSeq(Passed, 1, n)) = n - 1 + 1
            /\ \A i \in 1..(n - 1 + 1) : SubSeq(Passed, 1, n)[i] = Passed[1 + i - 1]
        BY <3>2, <4>1, SubSeqProperties
      <4>3. n - 1 + 1 = n /\ \A i \in 1..n : 1 + i - 1 = i
        BY <4>1
      <4>4. /\ SubSeq(Passed, 1, n) \in Seq(X) /\ Len(SubSeq(Passed, 1, n)) = n
            /\ \A i \in 1..n : SubSeq(Passed, 1, n)[i] = Passed[i]
        BY <4>2, <4>3
      <4>5. QED  BY <4>4 DEF n
    <3>4. QED  BY <3>1, <3>3
  <2>3. QED  BY <1>2, <2>1, <2>2
<1>6. \A i \in 1..Len(ResumeHeader) :
        /\ ResumeHeader[i].name \notin Own
        /\ ResumeHeader[i].name = "host" => ResumeHeader[i].words = browser.Host
        /\ ~ world.UseParentProxy => ResumeHeader[i].name # "proxy-authorization"
  BY <1>2, <1>4, <1>5 DEF Own
<1>7. FineLines(ResumeHeader)
  BY <1>5, <1>6 DEF FineLines
<1>8. QED
  BY <1>3, <1>7

LEMMA AskedFine ==
  ASSUME NEW header, FineLines(header), NEW closes \in BOOLEAN,
         asked' = SendHeader(header, FALSE, closes), UNCHANGED <<world, browser>>
  PROVE  AskedInv'
<1> DEFINE sent == SendHeader(header, FALSE, closes)
<1>1. PICK X : header \in Seq(X)
  BY DEF FineLines
<1>2. \A i \in 1..Len(header) :
         /\ header[i].name \notin Own
         /\ header[i].name = "host" => header[i].words = browser.Host
         /\ ~ world.UseParentProxy => header[i].name # "proxy-authorization"
  BY DEF FineLines
<1>3. FALSE \in BOOLEAN
  OBVIOUS
<1>4. Ours(sent)
  BY <1>1, <1>2, <1>3, SentOurs
<1>5. /\ DOMAIN sent = 1..(Len(header) + 1) /\ Len(header) \in Nat
      /\ \A i \in 1..Len(header) : sent[i] = header[i]
      /\ sent[Len(header) + 1].name = "connection"
  <2>1. /\ DOMAIN sent = 1..(Len(header) + 1) /\ Len(header) \in Nat
        /\ \A i \in 1..Len(header) : sent[i] = header[i]
    BY <1>1 DEF SendHeader
  <2>2. sent[Len(header) + 1] = Line("connection", IF closes THEN <<"close">>
                                                   ELSE <<"keep-alive">>)
    BY <1>1 DEF SendHeader
  <2>3. sent[Len(header) + 1].name = "connection"
    <3> HIDE DEF sent
    <3>1. QED  BY <2>2 DEF Line
  <2>4. QED  BY <2>1, <2>3
<1> HIDE DEF sent
<1>6. ASSUME NEW i \in DOMAIN sent
      PROVE  /\ sent[i].name # "proxy-connection"
             /\ sent[i].name = "host" => sent[i].words = browser.Host
             /\ ~ world.UseParentProxy => sent[i].name # "proxy-authorization"
  <2>1. CASE i = Len(header) + 1
    BY <1>5, <2>1
  <2>2. CASE i # Len(header) + 1
    <3>1. i \in 1..Len(header)
      BY <1>5, <2>2
    <3>2. QED  BY <1>2, <1>5, <3>1 DEF Own
  <2>3. QED  BY <2>1, <2>2
<1>7. Ours(asked') /\ asked' = sent /\ world' = world /\ browser' = browser
  BY <1>4 DEF sent
<1>8. QED
  BY <1>6, <1>7 DEF AskedInv, NamesOn, Ours

LEMMA AskedSend ==
  ASSUME RequestInv, AskedInv, Send
  PROVE  AskedInv' /\ partial' \in Int
<1>1. /\ pc \in Working /\ UNCHANGED <<world, browser>>
      /\ asked' = Asking
      /\ partial' \in IF hit /\ ~ resuming THEN Starts ELSE {0}
  BY DEF Send, Working
<1>2. partial' \in Int
  BY <1>1, StartsAreNumbers
<1>3. DropBrowser \in BOOLEAN /\ TRUE \in BOOLEAN
  BY DEF RequestInv
<1>4. \/ asked' = SendHeader(Passed, FALSE, DropBrowser)
      \/ asked' = SendHeader(ResumeHeader, FALSE, TRUE)
      \/ asked' = <<>>
  BY <1>1 DEF Asking
<1>5. CASE asked' = <<>>
  BY <1>2, <1>5 DEF AskedInv, Ours, NamesOn
<1>6. CASE asked' = SendHeader(Passed, FALSE, DropBrowser)
  BY <1>1, <1>2, <1>3, <1>6, ResumeHeaderFine, AskedFine
<1>7. CASE asked' = SendHeader(ResumeHeader, FALSE, TRUE)
  BY <1>1, <1>2, <1>3, <1>7, ResumeHeaderFine, AskedFine
<1>8. QED
  BY <1>4, <1>5, <1>6, <1>7

-----------------------------------------------------------------------------
(* What the browser is given.                                              *)

LEMMA GivenLines ==
  ASSUME NEW X, NEW lines \in Seq(X), \A i \in 1..Len(lines) : lines[i].name \notin Own,
         NEW ProxyConnection \in BOOLEAN, NEW closes \in BOOLEAN,
         NEW sent, sent = SendHeader(lines, ProxyConnection, closes)
  PROVE  /\ Ours(sent) /\ Lengths(sent) = Lengths(lines)
         /\ Says(sent, "close") <=> closes
         /\ Says(sent, "keep-alive") <=> ~ closes
<1>1. /\ DOMAIN sent = 1..(Len(lines) + 1) /\ Len(lines) \in Nat
      /\ \A i \in 1..Len(lines) : sent[i] = lines[i]
      /\ sent[Len(lines) + 1].name # "content-length"
      /\ Last(sent).words = IF closes THEN <<"close">> ELSE <<"keep-alive">>
  BY HeaderSent
<1>2. Ours(sent)
  BY SentOurs
<1>3. {j \in DOMAIN sent : sent[j].name = "content-length"}
        = {j \in DOMAIN lines : lines[j].name = "content-length"}
  BY <1>1
<1>4. Lengths(sent) = Lengths(lines)
  BY <1>1, <1>3 DEF Lengths
<1>5. <<"close">> # <<"keep-alive">>
  OBVIOUS
<1>6. QED
  BY <1>1, <1>2, <1>4, <1>5 DEF Says

LEMMA OneLength ==
  ASSUME NEW lines, NEW k \in DOMAIN lines, lines[k].name = "content-length",
         \A j \in DOMAIN lines : lines[j].name = "content-length" => j = k
  PROVE  Lengths(lines) = {lines[k].num}
  BY DEF Lengths

\* What is given to a browser from the cache: who is kept is told so, and the
\* length is that of the body.
LEMMA OutGiven ==
  ASSUME NEW X, NEW lines \in Seq(X), \A i \in 1..Len(lines) : lines[i].name \notin Own,
         browser.ProxyConnection \in BOOLEAN, NEW closes \in BOOLEAN,
         NEW status, NEW from, NEW to, NEW urls,
         out' = [kind |-> "answer", status |-> status, from |-> from, to |-> to, urls |-> urls,
                 lines |-> SendHeader(lines, browser.ProxyConnection, closes)],
         DropBrowser' \in BOOLEAN, closes => DropBrowser',
         (~ closes /\ DropBrowser') =>
            partial' > 0 \/ \E n \in Lengths(lines) : n > to - from,
         (~ DropBrowser' /\ status \notin {"204", "304"}) =>
            \/ Lengths(lines) = {to - from}
            \/ \E n, m \in Lengths(lines) : n # m
            \/ partial' < 0 \/ (partial' > 0 /\ to = 0)
            \/ status \in {"302", "303"} /\ \E n \in Lengths(lines) : to > n
  PROVE  OutInv' /\ out'.kind = "answer"
<1> DEFINE sent == SendHeader(lines, browser.ProxyConnection, closes)
<1>1. /\ out'.kind = "answer" /\ out'.status = status /\ out'.from = from /\ out'.to = to
      /\ out'.lines = sent
  OBVIOUS
<1>2. /\ Ours(sent) /\ Lengths(sent) = Lengths(lines)
      /\ Says(sent, "close") <=> closes
      /\ Says(sent, "keep-alive") <=> ~ closes
  BY GivenLines
<1> HIDE DEF sent
<1>3. Ours(out'.lines) /\ Lengths(out'.lines) = Lengths(lines)
      /\ (Says(out'.lines, "close") <=> closes)
      /\ (Says(out'.lines, "keep-alive") <=> ~ closes)
  BY <1>1, <1>2
<1>4. FramingAgrees'
  BY <1>1, <1>3 DEF FramingAgrees, Answered
<1>5. ToldIsDone'
  BY <1>1, <1>3 DEF ToldIsDone, Answered
<1>6. QED
  BY <1>1, <1>3, <1>4, <1>5 DEF OutInv

\* Without an answer there is nothing to agree with.
LEMMA OutNotGiven ==
  ASSUME OutInv, out' = Nothing \/ out' = [Nothing EXCEPT !.kind = "message"] \/
                 (out' = out /\ out.kind # "answer")
  PROVE  OutInv'
<1>1. /\ Nothing.kind # "answer" /\ Nothing.lines = <<>>
      /\ [Nothing EXCEPT !.kind = "message"].kind # "answer"
      /\ [Nothing EXCEPT !.kind = "message"].lines = <<>>
  BY DEF Nothing
<1>2. out'.kind # "answer"
  BY <1>1
<1>3. Ours(out'.lines)
  <2>1. out'.lines = <<>> \/ out' = out
    BY <1>1
  <2>2. QED  BY <2>1 DEF OutInv, Ours
<1>4. QED
  BY <1>2, <1>3 DEF OutInv, FramingAgrees, ToldIsDone, Answered

LEMMA OutRewrite ==
  ASSUME RequestInv, AnswerRewrite
  PROVE  OutInv' /\ out'.kind = "answer"
<1> DEFINE lines == <<Line("location", object.path), ContentLength(0)>>
<1>1. /\ DOMAIN lines = 1..2 /\ Len(lines) = 2 /\ lines[2].num = 0
      /\ lines[1].name = "location" /\ lines[2].name = "content-length"
  BY DEF Line, ContentLength
<1>2. lines \in Seq({Line("location", object.path), ContentLength(0)})
  OBVIOUS
<1>3. Given("302", lines, DropBrowser, 0, 0, {Url}) /\ DropBrowser' = DropBrowser
  BY DEF AnswerRewrite, Ended
<1>4. browser.ProxyConnection \in BOOLEAN /\ DropBrowser \in BOOLEAN
  BY DEF RequestInv
<1> HIDE DEF lines
<1>5. \A i \in 1..Len(lines) : lines[i].name \notin Own
  BY <1>1 DEF Own
<1>6. Lengths(lines) = {0 - 0}
  BY <1>1, OneLength
<1>7. QED
  BY <1>2, <1>3, <1>4, <1>5, <1>6, OutGiven DEF Given

LEMMA OutNotModified ==
  ASSUME RequestInv, AnswerNotModified
  PROVE  OutInv' /\ out'.kind = "answer"
<1>1. Given("304", <<>>, TRUE, 0, 0, stored[object.path].urls) /\ DropBrowser' = TRUE
  BY DEF AnswerNotModified, Ended
<1>2. browser.ProxyConnection \in BOOLEAN
  BY DEF RequestInv
<1> DEFINE lines == <<>>
           urls == stored[object.path].urls
<1>3. lines \in Seq({}) /\ \A i \in 1..Len(lines) : lines[i].name \notin Own
  OBVIOUS
<1>4. out' = [kind |-> "answer", status |-> "304", from |-> 0, to |-> 0, urls |-> urls,
              lines |-> SendHeader(lines, browser.ProxyConnection, TRUE)]
  BY <1>1 DEF Given
<1>5. DropBrowser' = TRUE /\ DropBrowser' \in BOOLEAN
  BY <1>1
<1> HIDE DEF lines, urls
<1>6. QED
  BY <1>2, <1>3, <1>4, <1>5, OutGiven

\* From the cache.
LEMMA OutHit ==
  ASSUME RequestInv, DiskInv, partial \in Int, AnswerHit
  PROVE  OutInv' /\ out'.kind = "answer"
<1> DEFINE size == stored[object.path].size
           from == IF partial < 0 THEN 0 ELSE IF partial > size THEN size ELSE partial
           head == browser.RequestType = "HEAD"
           to == IF head THEN from ELSE size
           length == ContentLength(size - partial)
           part == [Line("content-range", <<>>) EXCEPT !.num = partial]
           lines == IF partial > 0 THEN <<length, part>> ELSE <<length>>
           status == IF partial = 0 THEN "200" ELSE "206"
           closes == DropBrowser \/ (from = size /\ size > 0)
           drops == DropBrowser \/ from > 0
           urls == stored[object.path].urls
<1>1. /\ hit /\ ~ resuming /\ pc = "answer" /\ partial' = partial
      /\ Given(status, lines, closes, from, to, urls)
      /\ Ended(drops, FALSE, sock)
  BY DEF AnswerHit, cache
<1>2. size \in Nat
  BY <1>1 DEF DiskInv, IsHit, Exists
<1>3. DropBrowser \in BOOLEAN /\ browser.ProxyConnection \in BOOLEAN
      /\ (DropBrowser \/ ~ head)
  BY <1>1 DEF RequestInv, Working
<1>4. DropBrowser' = drops
  BY <1>1 DEF Ended
<1>5. /\ \E X : lines \in Seq(X)
      /\ \A i \in 1..Len(lines) : lines[i].name \notin Own
      /\ partial = 0 => Lengths(lines) = {size}
  <2>1. length.name = "content-length" /\ length.num = size - partial
        /\ part.name = "content-range"
    BY DEF ContentLength, Line
  <2> HIDE DEF length, part, size
  <2>2. CASE partial > 0
    <3>1. lines = <<length, part>>
      BY <2>2
    <3> HIDE DEF lines
    <3>2. lines \in Seq({length, part}) /\ Len(lines) = 2
      BY <3>1
    <3>3. \A i \in 1..Len(lines) : lines[i].name \notin Own
      BY <2>1, <3>1, <3>2 DEF Own
    <3>4. QED  BY <2>2, <3>2, <3>3
  <2>3. CASE ~ (partial > 0)
    <3>1. lines = <<length>>
      BY <2>3
    <3> HIDE DEF lines
    <3>2. lines \in Seq({length}) /\ Len(lines) = 1 /\ DOMAIN lines = {1}
      BY <3>1
    <3>3. \A i \in 1..Len(lines) : lines[i].name \notin Own
      BY <2>1, <3>1, <3>2 DEF Own
    <3>4. Lengths(lines) = {size - partial}
      BY <2>1, <3>1, <3>2 DEF Lengths
    <3>5. partial = 0 => size - partial = size
      BY <1>2
    <3>6. QED  BY <3>2, <3>3, <3>4, <3>5
  <2>4. QED  BY <2>2, <2>3
<1> HIDE DEF lines, urls
<1>6. out' = [kind |-> "answer", status |-> status, from |-> from, to |-> to, urls |-> urls,
              lines |-> SendHeader(lines, browser.ProxyConnection, closes)]
  BY <1>1 DEF Given
<1>7. DropBrowser' \in BOOLEAN /\ closes \in BOOLEAN /\ (closes => DropBrowser')
  BY <1>2, <1>3, <1>4
<1>8. ASSUME ~ closes /\ DropBrowser'
      PROVE  partial' > 0 \/ \E n \in Lengths(lines) : n > to - from
  BY <1>1, <1>2, <1>3, <1>4, <1>8
<1>9. ASSUME ~ DropBrowser'
      PROVE  \/ Lengths(lines) = {to - from}
             \/ partial' < 0 \/ (partial' > 0 /\ to = 0)
  <2>1. ~ head /\ ~ (from > 0)
    BY <1>3, <1>4, <1>9
  <2>2. from = 0 /\ to = size
    <3> HIDE DEF size, head
    <3>1. QED  BY <1>2, <2>1
  <2> HIDE DEF size, to
  <2>3. CASE partial = 0
    BY <1>2, <1>5, <2>2, <2>3
  <2>4. CASE partial > 0
    BY <1>1, <1>2, <2>2, <2>4
  <2>5. QED  BY <1>1, <2>3, <2>4
<1>10. PICK X : lines \in Seq(X)
  BY <1>5
<1> HIDE DEF closes, from, to, status
<1>11. QED
  BY <1>3, <1>5, <1>6, <1>7, <1>8, <1>9, <1>10, OutGiven

\* From the origin.
LEMMA OutAnswer ==
  ASSUME RequestInv, OutInv, out = Nothing, Answer
  PROVE  OutInv' /\ out'.kind \in {"message", "answer"}
<1>1. PICK a, said, h, closes :
           /\ PassOn(a, said, h, closes)
           /\ a.sent \in Nat
           /\ h.tokens \in Seq(HeaderLine)
           /\ h.ContentLength \in Nat \cup {-1}
           /\ h.ContentLength # -1 =>
                \E line \in Range(h.tokens) :
                   line.name = "content-length" /\ line.num = h.ContentLength
           /\ said = "unreadable" => h.ContentLength = -1
  BY AnswerPassedOn
<1>2. pc = "answer"
  BY DEF Answer
<1> DEFINE response == ResponseOf(said, HTMLResponse)
           length == h.ContentLength
           none == NoBody(response, length)
           over == length > 0 /\ a.sent > length
           given == IF none THEN 0 ELSE IF over THEN length ELSE a.sent
           drop == DropBrowser \/ UnknownLength(h) \/ (~ none /\ a.sent = 0)
           short == ~ none /\ given < length
           kept == [sock EXCEPT !.stray = a.late, !.closing = closes]
           server == ~ h.IsKeepAlive \/ over \/ (none /\ a.sent > 0)
           lines == PrepareHeaderForBrowser(h)
           urls == IF sock.stray = 0 THEN {Url} ELSE {}
<1>3. \/ ProxyMessage(TRUE)
      \/ Given(said, lines, drop, 0, given, urls) /\ Ended(drop \/ short, server, kept)
  BY <1>1 DEF PassOn
<1>4. CASE ProxyMessage(TRUE)
  <2>1. out' = [Nothing EXCEPT !.kind = "message"]
    BY <1>4 DEF ProxyMessage
  <2>2. out'.kind = "message"
    BY <2>1 DEF Nothing
  <2>3. QED  BY <2>1, <2>2, OutNotGiven
<1>5. CASE Given(said, lines, drop, 0, given, urls) /\ Ended(drop \/ short, server, kept)
  <2>1. DropBrowser \in BOOLEAN /\ browser.ProxyConnection \in BOOLEAN
        /\ (DropBrowser \/ browser.RequestType # "HEAD")
    BY <1>2 DEF RequestInv, Working
  <2>2. DropBrowser' = (drop \/ short)
    BY <1>5 DEF Ended
  <2>3. drop \in BOOLEAN /\ short \in BOOLEAN
    BY <2>1 DEF UnknownLength, NoBody
  <2>4. given \in Nat \/ given = length
    BY <1>1
  <2>5. /\ lines \in Seq(HeaderLine)
        /\ \A line \in Range(lines) : line.name \notin Own
        /\ length # -1 => \E line \in Range(lines) :
                             line.name = "content-length" /\ line.num = length
    BY <1>1, PreparedForBrowser
  <2> HIDE DEF lines, urls
  <2>6. \A i \in 1..Len(lines) : lines[i].name \notin Own
    BY <2>5 DEF Range
  <2>7. length # -1 => length \in Lengths(lines)
    BY <2>5 DEF Range, Lengths
  <2>8. ASSUME ~ drop, DropBrowser' PROVE \E n \in Lengths(lines) : n > given - 0
    <3>1. length # -1 /\ given < length /\ length \in Nat
      BY <1>1, <2>2, <2>8 DEF UnknownLength
    <3>2. given - 0 = given
      BY <1>1, <2>4, <3>1
    <3>3. QED  BY <1>1, <2>4, <2>7, <3>1, <3>2
  <2>9. ASSUME ~ DropBrowser', said \notin {"204", "304"}
        PROVE  Lengths(lines) = {given - 0} \/ \E n, m \in Lengths(lines) : n # m
    <3>1. ~ drop /\ ~ short /\ length # -1 /\ length \in Nat
      BY <1>1, <2>2, <2>9 DEF UnknownLength
    <3>2. response = said
      BY <1>1, <3>1 DEF ResponseOf
    <3>3. none <=> length = 0
      BY <2>1, <2>9, <3>1, <3>2 DEF NoBody
    <3>4. given - 0 = length
      BY <1>1, <3>1, <3>3
    <3>5. QED  BY <2>7, <3>1, <3>4
  <2>10. out' = [kind |-> "answer", status |-> said, from |-> 0, to |-> given, urls |-> urls,
                 lines |-> SendHeader(lines, browser.ProxyConnection, drop)]
    BY <1>5 DEF Given
  <2>11. drop => DropBrowser'
    BY <2>2
  <2>12. DropBrowser' \in BOOLEAN
    BY <2>2, <2>3
  <2> HIDE DEF drop, given
  <2>13. QED
    BY <2>1, <2>3, <2>5, <2>6, <2>8, <2>9, <2>10, <2>11, <2>12, OutGiven
<1>6. QED
  BY <1>3, <1>4, <1>5

\* From a file that is completed.
LEMMA OutResumed ==
  ASSUME RequestInv, DiskInv, OutInv, out = Nothing, AnswerResumed
  PROVE  OutInv' /\ out'.kind \in {"nothing", "message", "answer"}
<1> DEFINE size == rows[object.row]
           lines == <<ContentLength(size)>>
<1>1. pc = "answer" /\ IsTorn(object) /\ partial' = partial
  BY ResumedCompletes
<1>2. PICK have \in Nat, over \in BOOLEAN : Completed(have, over)
  BY ResumedCompletes
<1> DEFINE given == IF browser.RequestType = "HEAD" THEN 0 ELSE IF have > size THEN size ELSE have
           urls == stored'[object.path].urls
<1>3. \/ ProxyMessage(TRUE) \/ ProxyMessage(FALSE)
      \/ Given("200", lines, DropBrowser, 0, given, urls)
         /\ Ended(DropBrowser \/ (given < size), over, sock)
  BY <1>2 DEF Completed
<1>4. size \in Nat
  BY <1>1 DEF DiskInv, IsTorn, Exists
<1>5. /\ lines \in Seq({ContentLength(size)})
      /\ \A i \in 1..Len(lines) : lines[i].name \notin Own
      /\ Lengths(lines) = {size}
  <2>1. ContentLength(size).name = "content-length" /\ ContentLength(size).num = size
    BY DEF ContentLength, Line
  <2> HIDE DEF size
  <2>2. DOMAIN lines = {1} /\ Len(lines) = 1 /\ lines[1] = ContentLength(size)
    OBVIOUS
  <2> HIDE DEF lines
  <2>3. Lengths(lines) = {size} /\ \A i \in 1..Len(lines) : lines[i].name \notin Own
    BY <2>1, <2>2 DEF Lengths, Own
  <2>4. QED  BY <2>3 DEF lines
<1>6. CASE ProxyMessage(TRUE) \/ ProxyMessage(FALSE)
  <2>1. out' = Nothing \/ out' = [Nothing EXCEPT !.kind = "message"]
    BY <1>6 DEF ProxyMessage
  <2>2. Nothing.kind = "nothing" /\ [Nothing EXCEPT !.kind = "message"].kind = "message"
    BY DEF Nothing
  <2>3. out'.kind \in {"nothing", "message"}
    BY <2>1, <2>2
  <2>4. QED  BY <2>1, <2>3, OutNotGiven
<1>7. CASE /\ Given("200", lines, DropBrowser, 0, given, urls)
           /\ Ended(DropBrowser \/ (given < size), over, sock)
  <2>1. DropBrowser \in BOOLEAN /\ browser.ProxyConnection \in BOOLEAN
        /\ (DropBrowser \/ browser.RequestType # "HEAD")
    BY <1>1 DEF RequestInv, Working
  <2>2. DropBrowser' = (DropBrowser \/ (given < size))
    BY <1>7 DEF Ended
  <2>3. out' = [kind |-> "answer", status |-> "200", from |-> 0, to |-> given, urls |-> urls,
                lines |-> SendHeader(lines, browser.ProxyConnection, DropBrowser)]
    BY <1>7 DEF Given
  <2>4. given \in Nat
    BY <1>4
  <2>5. ASSUME ~ DropBrowser, DropBrowser' PROVE \E n \in Lengths(lines) : n > given - 0
    <3>1. given < size /\ size \in Lengths(lines)
      BY <1>5, <2>2, <2>5
    <3> HIDE DEF lines, given, size
    <3>2. size > given - 0
      BY <1>4, <2>4, <3>1
    <3>3. QED  BY <3>1, <3>2
  <2>6. ASSUME ~ DropBrowser' PROVE Lengths(lines) = {given - 0}
    <3>1. ~ (given < size) /\ browser.RequestType # "HEAD"
      BY <2>1, <2>2, <2>6
    <3>2. given = size
      BY <1>4, <3>1
    <3>3. QED  BY <1>4, <1>5, <3>2
  <2>7. DropBrowser' \in BOOLEAN /\ (DropBrowser => DropBrowser')
    BY <2>1, <2>2
  <2> HIDE DEF lines, given, urls
  <2>8. QED
    BY <1>5, <2>1, <2>3, <2>5, <2>6, <2>7, OutGiven
<1>8. QED
  BY <1>3, <1>6, <1>7

\* Line ends are as many as were announced or more.
LEMMA EnoughLineEnds ==
  ASSUME NEW n \in Nat, n > 0
  PROVE  LineEnds(n) \in Nat /\ LineEnds(n) >= n
<1> DEFINE parts == (n + 1) \div 2
<1>1. parts \in Nat /\ parts > 0
  OBVIOUS
<1> HIDE DEF parts
<1>2. parts * (parts - 1) \in Nat
  <2>1. parts - 1 \in Nat
    BY <1>1
  <2>2. \A i, j \in Nat : i * j \in Nat
    OBVIOUS
  <2>3. QED  BY <1>1, <2>1, <2>2
<1>3. LineEnds(n) = n + parts * (parts - 1)
  BY DEF LineEnds, parts
<1>4. QED
  BY <1>2, <1>3

\* From an origin that redirects what was to complete a file.
LEMMA OutRedirected ==
  ASSUME RequestInv, OutInv, out = Nothing, AnswerRedirected
  PROVE  OutInv' /\ out'.kind \in {"nothing", "message", "answer"}
<1>1. pc = "answer" /\ partial' = partial
  BY RedirectedEnds
<1>2. PICK said, h, none, server :
         /\ server \in BOOLEAN /\ Redirected(said, h, none, server)
         /\ none = NoBody(ResponseOf(said, HTMLResponse), h.ContentLength)
         /\ h.tokens \in Seq(HeaderLine)
         /\ h.ContentLength \in Nat \cup {-1}
         /\ h.ContentLength # -1 =>
              /\ said \in {"302", "303"}
              /\ \E line \in Range(h.tokens) :
                    line.name = "content-length" /\ line.num = h.ContentLength
  BY RedirectedEnds
<1> DEFINE length == h.ContentLength
           drop == DropBrowser \/ UnknownLength(h)
           given == IF none THEN 0 ELSE LineEnds(length)
           lines == PrepareHeaderForBrowser(h)
           urls == {Url}
<1>3. \/ ProxyMessage(TRUE) \/ ProxyMessage(FALSE)
      \/ Given(said, lines, drop, 0, given, urls) /\ Ended(drop, server, sock)
  BY <1>2 DEF Redirected
<1>4. CASE ProxyMessage(TRUE) \/ ProxyMessage(FALSE)
  <2>1. out' = Nothing \/ out' = [Nothing EXCEPT !.kind = "message"]
    BY <1>4 DEF ProxyMessage
  <2>2. Nothing.kind = "nothing" /\ [Nothing EXCEPT !.kind = "message"].kind = "message"
    BY DEF Nothing
  <2>3. out'.kind \in {"nothing", "message"}
    BY <2>1, <2>2
  <2>4. QED  BY <2>1, <2>3, OutNotGiven
<1>5. CASE Given(said, lines, drop, 0, given, urls) /\ Ended(drop, server, sock)
  <2>1. DropBrowser \in BOOLEAN /\ browser.ProxyConnection \in BOOLEAN
        /\ (DropBrowser \/ browser.RequestType # "HEAD")
    BY <1>1 DEF RequestInv, Working
  <2>2. drop \in BOOLEAN
    BY <2>1 DEF UnknownLength
  <2>3. DropBrowser' = drop
    BY <1>5 DEF Ended
  <2>4. /\ lines \in Seq(HeaderLine)
        /\ \A line \in Range(lines) : line.name \notin Own
        /\ length # -1 => \E line \in Range(lines) :
                             line.name = "content-length" /\ line.num = length
    BY <1>2, PreparedForBrowser
  <2> HIDE DEF lines, urls
  <2>5. \A i \in 1..Len(lines) : lines[i].name \notin Own
    BY <2>4 DEF Range
  <2>6. length # -1 => length \in Lengths(lines)
    BY <2>4 DEF Range, Lengths
  <2>7. ASSUME ~ DropBrowser'
        PROVE  \/ Lengths(lines) = {given - 0} \/ \E n, m \in Lengths(lines) : n # m
               \/ said \in {"302", "303"} /\ \E n \in Lengths(lines) : given > n
    <3>1. /\ length # -1 /\ length \in Nat /\ said \in {"302", "303"}
          /\ length \in Lengths(lines) /\ browser.RequestType # "HEAD"
      BY <1>2, <2>1, <2>3, <2>6, <2>7 DEF UnknownLength
    <3>2. none <=> length = 0
      BY <1>2, <3>1 DEF NoBody, ResponseOf
    <3>3. given \in Nat /\ (given = length \/ given > length)
      BY <3>1, <3>2, EnoughLineEnds
    <3> HIDE DEF given
    <3>4. given - 0 = given
      BY <3>3
    <3>5. QED  BY <3>1, <3>3, <3>4
  <2>8. out' = [kind |-> "answer", status |-> said, from |-> 0, to |-> given, urls |-> urls,
                lines |-> SendHeader(lines, browser.ProxyConnection, drop)]
    BY <1>5 DEF Given
  <2> HIDE DEF drop, given
  <2>9. QED
    BY <2>1, <2>2, <2>3, <2>4, <2>5, <2>7, <2>8, OutGiven
<1>6. QED
  BY <1>3, <1>4, <1>5

-----------------------------------------------------------------------------
(* What was said, in every step.                                           *)

LEMMA SaidInit == Init => SaidInv
<1>1. SUFFICES ASSUME Init PROVE SaidInv
  OBVIOUS
<1>2. pc = "idle" /\ asked = <<>> /\ out = Nothing /\ partial = 0
  BY <1>1 DEF Init
<1>3. Nothing.kind = "nothing" /\ Nothing.lines = <<>>
  BY DEF Nothing
<1>4. OutInv
  BY <1>2, <1>3 DEF OutInv, Ours, FramingAgrees, ToldIsDone, Answered
<1>5. AskedInv
  BY <1>2 DEF AskedInv, Ours, NamesOn
<1>6. QED
  BY <1>2, <1>3, <1>4, <1>5 DEF SaidInv

\* What was said to the origin stays said.
LEMMA AskedStays ==
  ASSUME AskedInv, UNCHANGED <<world, browser, asked>> \/ asked' = <<>>
  PROVE  AskedInv'
<1>1. CASE UNCHANGED <<world, browser, asked>>
  BY <1>1 DEF AskedInv, Ours, NamesOn
<1>2. CASE asked' = <<>>
  BY <1>2 DEF AskedInv, Ours, NamesOn
<1>3. QED
  BY <1>1, <1>2

LEMMA SaidStep ==
  ASSUME RequestInv, DiskInv, SaidInv, [Next]_vars
  PROVE  SaidInv'
<1> USE DEF Working
<1>0. /\ Nothing.kind = "nothing"
      /\ [Nothing EXCEPT !.kind = "message"].kind = "message"
  BY DEF Nothing
<1>1. CASE Request
  <2>1. /\ pc = "idle" /\ pc' \in {"connect", "over"}
        /\ UNCHANGED <<world, partial, asked>>
        /\ \/ out' = out
           \/ pc' = "over" /\ out' = [Nothing EXCEPT !.kind = "message"]
    BY <1>1 DEF Request, ProxyMessage, cache
  <2>2. asked' = <<>> /\ out = Nothing
    BY <2>1 DEF SaidInv
  <2>3. AskedInv'
    BY <2>2, AskedStays DEF SaidInv
  <2>4. OutInv'
    BY <1>0, <2>1, <2>2, OutNotGiven DEF SaidInv
  <2>5. QED  BY <1>0, <2>1, <2>2, <2>3, <2>4 DEF SaidInv
<1>2. CASE Connect \/ SendUnconnected
  <2>1. /\ pc \in Working /\ pc' # "idle"
        /\ UNCHANGED <<world, browser, partial, asked, out>>
    BY <1>2 DEF Connect, SendUnconnected, Again, cache
  <2>2. out' = Nothing
    BY <2>1 DEF SaidInv
  <2>3. AskedInv' /\ OutInv'
    BY <2>1, <2>2, AskedStays, OutNotGiven DEF SaidInv
  <2>4. QED  BY <1>0, <2>1, <2>2, <2>3 DEF SaidInv
<1>3. CASE Send
  <2>1. /\ pc = "send" /\ pc' \in {"over", "answer"}
        /\ \/ out' = out
           \/ pc' = "over" /\ out' = [Nothing EXCEPT !.kind = "message"]
    BY <1>3 DEF Send, ProxyMessage
  <2>2. out = Nothing
    BY <2>1 DEF SaidInv
  <2>3. AskedInv' /\ partial' \in Int
    BY <1>3, AskedSend DEF SaidInv
  <2>4. OutInv'
    BY <1>0, <2>1, <2>2, OutNotGiven DEF SaidInv
  <2>5. QED  BY <1>0, <2>1, <2>2, <2>3, <2>4 DEF SaidInv
<1>4. CASE \/ AnswerRewrite \/ AnswerNotModified \/ AnswerHit \/ AnswerResumed
           \/ AnswerRedirected \/ Answer
  <2>1. /\ pc = "answer" /\ pc' = "over"
        /\ UNCHANGED <<world, browser, partial, asked>>
    <3>1. CASE AnswerRewrite
      BY <3>1 DEF AnswerRewrite, Ended, cache
    <3>2. CASE AnswerNotModified
      BY <3>2 DEF AnswerNotModified, Ended
    <3>3. CASE AnswerHit
      BY <3>3 DEF AnswerHit, Ended, cache
    <3>4. CASE Answer
      <4>1. pc = "answer" /\ UNCHANGED <<world, browser, partial, asked>>
        BY <3>4 DEF Answer, cache
      <4>2. \E a, said, h : \E closes \in BOOLEAN :
               PassOn(a, said, h, closes) /\ h.IsKeepAlive \in BOOLEAN
        BY <3>4, AnswerPassedOn
      <4>3. QED  BY <4>1, <4>2, PassOnEnds
    <3>5. CASE AnswerResumed
      BY <3>5, ResumedCompletes DEF Completed, ProxyMessage, Ended
    <3>6. CASE AnswerRedirected
      BY <3>6, RedirectedEnds DEF Redirected, ProxyMessage, Ended
    <3>7. QED  BY <1>4, <3>1, <3>2, <3>3, <3>4, <3>5, <3>6
  <2>2. out = Nothing
    BY <2>1 DEF SaidInv
  <2>3. OutInv' /\ out'.kind \in {"nothing", "message", "answer"}
    BY <1>4, <2>2, OutRewrite, OutNotModified, OutHit, OutAnswer, OutResumed, OutRedirected
       DEF SaidInv
  <2>4. AskedInv'
    BY <2>1, AskedStays DEF SaidInv
  <2>5. QED  BY <2>1, <2>3, <2>4 DEF SaidInv
<1>5. CASE OriginClosed \/ ResumeFailed
  <2>1. /\ pc = "answer" /\ UNCHANGED <<world, browser, partial, asked>>
        /\ \/ pc' = "connect" /\ out' = out
           \/ pc' = "over" /\ out' \in {out, [Nothing EXCEPT !.kind = "message"]}
    <3>1. CASE OriginClosed
      BY <3>1, TriedAgain DEF OriginClosed, Again, ProxyMessage, cache
    <3>2. CASE ResumeFailed
      BY <3>2, FailedResume DEF Again, ProxyMessage
    <3>3. QED  BY <1>5, <3>1, <3>2
  <2>2. out = Nothing
    BY <2>1 DEF SaidInv
  <2>3. AskedInv' /\ OutInv'
    BY <1>0, <2>1, <2>2, AskedStays, OutNotGiven DEF SaidInv
  <2>4. QED  BY <1>0, <2>1, <2>2, <2>3 DEF SaidInv
<1>6. CASE Continue
  <2>1. asked' = <<>> /\ out' = Nothing /\ partial' = 0
    BY <1>6 DEF Continue
  <2>2. AskedInv' /\ OutInv'
    BY <2>1, AskedStays, OutNotGiven DEF SaidInv
  <2>3. QED  BY <1>0, <2>1, <2>2 DEF SaidInv
<1>7. CASE UNCHANGED vars
  <2>1. UNCHANGED <<world, pc, browser, DropBrowser, partial, asked, out>>
    BY <1>7 DEF vars, cache, connection
  <2>2. AskedInv'
    BY <2>1, AskedStays DEF SaidInv
  <2>3. OutInv'
    BY <2>1 DEF SaidInv, OutInv, Ours, FramingAgrees, ToldIsDone, Answered
  <2>4. QED  BY <2>1, <2>2, <2>3 DEF SaidInv
<1>8. QED
  BY <1>1, <1>2, <1>3, <1>4, <1>5, <1>6, <1>7 DEF Next

-----------------------------------------------------------------------------
(* The theorems.                                                           *)

LEMMA Inductive == Spec => []IInv
<1>1. Init => IInv
  BY RequestInit, ConnectionInit, DiskInit, SaidInit DEF IInv
<1>2. IInv /\ [Next]_vars => IInv'
  BY RequestStep, ConnectionStep, DiskStep, SaidStep DEF IInv
<1>3. QED
  BY <1>1, <1>2, PTL DEF Spec

\* The state of a worker is what the code takes it for: a request that is being
\* worked on was read without an error and names a host and a port, and nothing
\* that is counted is ever below zero.
THEOREM TypeCorrect == Spec => []TypeOK
<1>1. IInv => TypeOK
  <2>1. SUFFICES ASSUME IInv PROVE TypeOK
    OBVIOUS
  <2>2. RequestInv => /\ world \in Worlds /\ pc \in Places /\ count \in 0..world.max
                      /\ {DropBrowser, DropServer, ServerConnected, retried, hit, resuming}
                           \subseteq BOOLEAN
                      /\ req \in world.Requests \cup {NoRequest}
                      /\ DOMAIN browser = DOMAIN ClearedRequest
                      /\ pc \in {"connect", "send", "answer"} =>
                            /\ browser.ret = 0 /\ browser.Host # <<>>
                            /\ browser.Port \in PortNumbers
    BY DEF RequestInv, Working
  <2>3. ConnectionInv => /\ sock.stray \in Nat
                         /\ {sock.garbage, sock.closing, sock.told} \subseteq BOOLEAN
    BY DEF ConnectionInv
  <2>4. QED  BY <2>1, <2>2, <2>3 DEF IInv, DiskInv, SaidInv, TypeOK
<1>2. QED
  BY <1>1, Inductive, PTL

\* The length a browser is told is that of the body it is sent, so what it is sent
\* next is taken for the next answer: SendHeader() and the loops that pass on what
\* a file or an origin has.
THEOREM LengthsAgree == Spec => []FramingAgrees
<1>1. IInv => FramingAgrees
  BY DEF IInv, SaidInv, OutInv
<1>2. QED
  BY <1>1, Inductive, PTL

\* The Connection line that a browser is sent says what Proxy() then does to its
\* connection.
THEOREM DoneAsTold == Spec => []ToldIsDone
<1>1. IInv => ToldIsDone
  BY DEF IInv, SaidInv, OutInv
<1>2. QED
  BY <1>1, Inductive, PTL

\* Whatever lines a request or an answer has, in whatever order, those about the
\* connection do not pass the proxy: PrepareHeaderForServer() and
\* PrepareHeaderForBrowser().
THEOREM ConnectionsAreOurs == Spec => []HeaderIsOurs
<1>1. IInv => HeaderIsOurs
  BY DEF IInv, SaidInv, AskedInv, OutInv, Ours, HeaderIsOurs
<1>2. QED
  BY <1>1, Inductive, PTL

\* SendHeader() never writes to the connection of another host, to one that was
\* told to close, or into what is left of another request.
THEOREM AskedAtTheOrigin == Spec => AskedWhereItBelongs
<1> DEFINE Belongs == IF resuming THEN downloader.at = Origin ELSE OverCleanConnection
<1>1. IInv /\ [Next]_vars => [asked' \notin {asked, <<>>} => Belongs]_vars
  <2>1. SUFFICES ASSUME IInv, Next, asked' # asked, asked' # <<>> PROVE Belongs
    OBVIOUS
  <2>2. Send
    BY <2>1, FailedResume, ResumedCompletes, RedirectedEnds
       DEF Next, Request, Connect, SendUnconnected, AnswerRewrite, AnswerNotModified, AnswerHit,
           OriginClosed, Answer, Continue, IInv
  <2>3. pc = "send" /\ (ToOrigin => IsOpen) /\ asked' = Asking
    BY <2>1, <2>2 DEF Send
  <2>4. CASE ToOrigin
    <3>1. ~ resuming
      BY <2>1, <2>3, <2>4 DEF IInv, DiskInv, ToOrigin
    <3>2. sock.at = Origin
      BY <2>1, <2>3, <2>4 DEF IInv, ConnectionInv, Address, Origin
    <3>3. QED  BY <2>1, <2>3, <2>4, <3>1, <3>2 DEF IInv, ConnectionInv, OverCleanConnection
  <2>5. CASE ~ ToOrigin
    <3>1. resuming /\ downloader.at # <<>>
      BY <2>1, <2>3, <2>5 DEF Asking
    <3>2. QED  BY <2>1, <2>3, <3>1 DEF IInv, ConnectionInv
  <2>6. QED  BY <2>4, <2>5
<1>2. QED
  BY <1>1, Inductive, PTL DEF Spec, AskedWhereItBelongs

\* The retry of CommunicationHTTP() ends: after one the worker has a connection that is
\* new, so it is not found closed; only what completes a file is asked for again.
THEOREM NoThirdTry == Spec => TriedAgainOnce
<1>1. IInv /\ [Next]_vars
        => [(pc \in {"send", "answer"} /\ pc' = "connect") => ~ retried \/ resuming]_vars
  <2>1. SUFFICES ASSUME IInv, Next, pc \in {"send", "answer"}, pc' = "connect"
                 PROVE  ~ retried \/ resuming
    OBVIOUS
  <2>2. SendUnconnected \/ OriginClosed \/ ResumeFailed
    <3>1. CASE Answer
      BY <2>1, <3>1, AnswerPassedOn, PassOnEnds DEF IInv
    <3>2. CASE AnswerHit
      BY <2>1, <3>2 DEF AnswerHit, Ended
    <3>3. CASE AnswerResumed
      BY <2>1, <3>3, ResumedCompletes DEF IInv, Completed, ProxyMessage, Ended
    <3>4. CASE AnswerRedirected
      BY <2>1, <3>4, RedirectedEnds DEF IInv, Redirected, ProxyMessage, Ended
    <3>5. QED
      BY <2>1, <3>1, <3>2, <3>3, <3>4 DEF Next, Request, Connect, Send, ProxyMessage,
                                          AnswerRewrite, AnswerNotModified, Ended, Continue
  <2>3. CASE SendUnconnected
    BY <2>1, <2>3 DEF SendUnconnected, IInv, ConnectionInv
  <2>4. CASE OriginClosed
    BY <2>1, <2>4 DEF OriginClosed, IInv, ConnectionInv
  <2>5. CASE ResumeFailed
    BY <2>5, FailedResume
  <2>6. QED  BY <2>2, <2>3, <2>4, <2>5
<1>2. QED
  BY <1>1, Inductive, PTL DEF Spec, TriedAgainOnce

-----------------------------------------------------------------------------
(* What is found in the cache, for any number of the requests of a world   *)
(* and in any order: nobody is given more than the keys give away.         *)

Tells(M) == \A w \in Worlds : KeysTell(w, M[w])

Kept == {"plugin", "general"}
Mine(b, mems) == Finds(world, b, mems)

\* Someone asked for the URL, and its object is kept in this file.
WasKept(path, url, mems) ==
    \E a \in Accepted(world) :
        UrlOf(a) = url /\ \E o \in Mine(a, mems) : o.kind \in Kept /\ o.path = path

\* What is looked up is the host of the request, also over a connection that was
\* kept, so what is found is one of the objects that its keys have.
FoundInv(M) ==
    /\ memory \in M[world]
    /\ ServerConnected => domain = IF world.UseParentProxy THEN Parent ELSE connected[1]
    /\ pc = "idle" => object.kind = "none"
    /\ pc \in Working \cup {"dead", "looping"} => browser \in Accepted(world)
    /\ object.kind # "none" => browser \in Accepted(world) /\ object \in Mine(browser, M[world])
    /\ pc \in {"dead", "looping"} =>
          \E o \in Mine(browser, M[world]) : o.kind \in {"dies", "loops"}
    /\ \A path \in DOMAIN stored : \A url \in stored[path].urls : WasKept(path, url, M[world])
    /\ AnswerIsRequested

LEMMA FoundInit ==
  ASSUME NEW M, Tells(M), Init
  PROVE  FoundInv(M)
<1>1. /\ world \in Worlds /\ memory = Fresh /\ pc = "idle" /\ ~ ServerConnected
      /\ object = NotKept /\ DOMAIN stored = {}
  BY DEF Init
<1>2. Fresh \in M[world]
  BY <1>1 DEF Tells, KeysTell, Remembers
<1>3. NotKept.kind = "none"
  BY DEF NotKept
<1>4. AnswerIsRequested
  BY <1>1 DEF AnswerIsRequested, Answered
<1>5. QED
  BY <1>1, <1>2, <1>3, <1>4 DEF FoundInv, Working

\* The key of a request is its own.
LEMMA KeyIsMine ==
  ASSUME NEW M, FoundInv(M), pc = "connect"
  PROVE  /\ LookedUp = IF world.UseParentProxy THEN Parent ELSE browser.Host
         /\ <<LookedUp, Looked>> \in KeysOf(world, browser)
<1>1. Origin[1] = IF world.UseParentProxy THEN Parent ELSE browser.Host
  BY DEF Origin
<1>2. Stays => domain = IF world.UseParentProxy THEN Parent ELSE browser.Host
  BY DEF Stays, FoundInv
<1>3. LookedUp = IF world.UseParentProxy THEN Parent ELSE browser.Host
  BY <1>1, <1>2 DEF LookedUp
<1>4. \/ Looked = browser.Request
      \/ world.UseParentProxy /\ Looked = <<>>
  BY DEF Looked
<1>5. QED
  BY <1>3, <1>4 DEF KeysOf

LEMMA FoundConnect ==
  ASSUME NEW M, Tells(M), world \in Worlds, FoundInv(M), Connect
  PROVE  FoundInv(M)'
<1>1. pc = "connect" /\ UNCHANGED <<world, browser, stored, out>>
  BY DEF Connect
<1>2. /\ LookedUp = IF world.UseParentProxy THEN Parent ELSE browser.Host
      /\ <<LookedUp, Looked>> \in KeysOf(world, browser)
  BY <1>1, KeyIsMine
<1>3. PICK o \in Lookup(LookedUp, Looked, memory) :
         /\ memory' = Remember(getdomain(LookedUp \o Looked), LookedUp \o Looked, memory)
         /\ domain' = LookedUp
         /\ connected' = <<browser.Host, browser.Port>>
         /\ \/ /\ o.kind \in {"dies", "loops"}
               /\ pc' = IF o.kind = "dies" THEN "dead" ELSE "looping"
               /\ object' = object
            \/ o.kind \notin {"dies", "loops"} /\ pc' = "send" /\ object' = o
  BY DEF Connect
<1>4. browser \in Accepted(world) /\ memory \in M[world]
  BY <1>1 DEF FoundInv, Working
<1>5. o \in Mine(browser, M[world])
  <2> DEFINE key == <<LookedUp, Looked>>
  <2>1. key \in KeysOf(world, browser) /\ o \in Lookup(key[1], key[2], memory)
    BY <1>2, <1>3
  <2> HIDE DEF key
  <2>2. QED  BY <1>4, <2>1 DEF Mine, Finds
<1>6. memory' \in M[world]
  <2> DEFINE key == <<LookedUp, Looked>>
  <2>1. key \in KeysOf(world, browser)
        /\ memory' = Remember(getdomain(key[1] \o key[2]), key[1] \o key[2], memory)
    BY <1>2, <1>3
  <2>2. Remembers(world, M[world])
    BY DEF Tells, KeysTell
  <2> HIDE DEF key
  <2>3. QED  BY <1>4, <2>1, <2>2 DEF Remembers
<1>7. domain' = IF world.UseParentProxy THEN Parent ELSE connected'[1]
  BY <1>2, <1>3
<1>8. object'.kind # "none" => object' \in Mine(browser, M[world])
  BY <1>3, <1>5 DEF FoundInv
<1>9. pc' \in {"dead", "looping"} => o.kind \in {"dies", "loops"}
  BY <1>3
<1>10. pc' \in {"dead", "looping", "send"}
  BY <1>3
<1>11. AnswerIsRequested'
  BY <1>10 DEF AnswerIsRequested, Answered
<1>12. Mine(browser, M[world])' = Mine(browser, M[world])
       /\ \A path, url : WasKept(path, url, M[world])' <=> WasKept(path, url, M[world])
  BY <1>1 DEF Mine, WasKept
<1>13. QED
  BY <1>1, <1>4, <1>5, <1>6, <1>7, <1>8, <1>9, <1>10, <1>11, <1>12 DEF FoundInv

\* A file is given to those whose object it is.
LEMMA FileIsAskedFor ==
  ASSUME NEW M, Tells(M), world \in Worlds, FoundInv(M), Exists(object),
         NEW url \in stored[object.path].urls
  PROVE  IsAskedFor(world, browser, object.kind, url)
<1>1. object.kind \in Kept /\ object.path \in DOMAIN stored
  BY DEF Exists, Kept
<1>2. browser \in Accepted(world) /\ object \in Mine(browser, M[world])
  BY <1>1 DEF FoundInv, Kept
<1>3. PICK a \in Accepted(world) :
         /\ UrlOf(a) = url
         /\ \E o \in Mine(a, M[world]) : o.kind \in Kept /\ o.path = object.path
  BY <1>1 DEF FoundInv, WasKept
<1>4. FilesTell(world, M[world])
  BY DEF Tells, KeysTell
<1>5. PICK o \in Mine(a, M[world]) : o.kind \in Kept /\ o.path = object.path
  BY <1>3
<1>6. {o.kind, object.kind} \subseteq {"plugin", "general"}
  BY <1>1, <1>5 DEF Kept
<1>7. QED
  BY <1>2, <1>3, <1>4, <1>5, <1>6 DEF FilesTell, Mine

\* What the file of the request's own object becomes is still made of what was asked
\* for under its key.
LEMMA FileIsKept ==
  ASSUME NEW M, FoundInv(M), object.kind \in Kept, NEW written,
         stored' = With(stored, object.path, written),
         written.urls \subseteq {Url} \/
            (object.path \in DOMAIN stored
             /\ written.urls \subseteq stored[object.path].urls \cup {Url})
  PROVE  \A path \in DOMAIN stored' : \A url \in stored'[path].urls :
            WasKept(path, url, M[world])
<1>1. WasKept(object.path, Url, M[world])
  <2>1. browser \in Accepted(world) /\ object \in Mine(browser, M[world])
    BY DEF FoundInv, Kept
  <2>2. Url = UrlOf(browser)
    BY DEF Url
  <2>3. QED  BY <2>1, <2>2 DEF WasKept
<1>2. \A path \in DOMAIN stored : \A url \in stored[path].urls : WasKept(path, url, M[world])
  BY DEF FoundInv
<1>3. SUFFICES ASSUME NEW path \in DOMAIN stored', NEW url \in stored'[path].urls
               PROVE  WasKept(path, url, M[world])
  OBVIOUS
<1>4. \/ path \in DOMAIN stored /\ stored'[path] = stored[path]
      \/ path = object.path /\ stored'[path] = written
  BY DEF With
<1>5. CASE path \in DOMAIN stored /\ stored'[path] = stored[path]
  BY <1>2, <1>3, <1>5
<1>6. CASE path = object.path /\ stored'[path] = written
  <2>1. url = Url \/ (object.path \in DOMAIN stored /\ url \in stored[object.path].urls)
    BY <1>3, <1>6
  <2>2. QED  BY <1>1, <1>2, <1>6, <2>1
<1>7. QED
  BY <1>4, <1>5, <1>6

LEMMA FoundAnswer ==
  ASSUME NEW M, RequestInv, FoundInv(M), Answer
  PROVE  FoundInv(M)'
<1>1. pc = "answer" /\ UNCHANGED <<world, browser, connected, domain, object, memory>>
  BY DEF Answer, cache
<1>2. PICK a, said, h, closes :
         closes \in BOOLEAN /\ PassOn(a, said, h, closes) /\ h.IsKeepAlive \in BOOLEAN
  BY AnswerPassedOn
<1>3. pc' = "over"
  BY <1>2, PassOnEnds
<1>4. ServerConnected' => ServerConnected
  BY <1>2 DEF PassOn, ProxyMessage, Ended
<1>5. AnswerIsRequested'
  <2>1. \/ out' = [Nothing EXCEPT !.kind = "message"]
        \/ \E status, from, to, lines, urls :
              /\ urls \subseteq {Url}
              /\ out' = [kind |-> "answer", status |-> status, from |-> from, to |-> to,
                         urls |-> urls, lines |-> lines]
    BY <1>2 DEF PassOn, ProxyMessage, Given
  <2>2. [Nothing EXCEPT !.kind = "message"].kind # "answer"
    BY DEF Nothing
  <2>3. ASSUME NEW status, NEW from, NEW to, NEW lines, NEW urls,
               out' = [kind |-> "answer", status |-> status, from |-> from, to |-> to,
                       urls |-> urls, lines |-> lines]
        PROVE  out'.urls = urls
    BY <2>3
  <2>4. out'.kind = "answer" => out'.urls \subseteq {Url}
    BY <2>1, <2>2, <2>3
  <2>5. QED  BY <1>1, <2>4 DEF AnswerIsRequested, Answered, IsAskedFor, Url
<1>6. \A path \in DOMAIN stored' : \A url \in stored'[path].urls : WasKept(path, url, M[world])
  <2> DEFINE goes == GoesToFile(ResponseOf(said, HTMLResponse), h)
             written == [size |-> a.sent, urls |-> {Url}]
  <2>1. stored' = IF goes THEN With(stored, object.path, written) ELSE stored
    BY <1>2 DEF PassOn, Stores
  <2>2. written.urls = {Url}
    OBVIOUS
  <2>3. goes => object.kind \in Kept
    BY DEF GoesToFile, IsKept, Kept
  <2> HIDE DEF goes, written
  <2>4. CASE goes
    BY <2>1, <2>2, <2>3, <2>4, FileIsKept
  <2>5. CASE ~ goes
    BY <2>1, <2>5 DEF FoundInv
  <2>6. QED  BY <2>4, <2>5
<1>7. Mine(browser, M[world])' = Mine(browser, M[world])
      /\ \A path, url : WasKept(path, url, M[world])' <=> WasKept(path, url, M[world])
  BY <1>1 DEF Mine, WasKept
<1>8. (M[world])' = M[world]
  BY <1>1
<1>9. (\A path \in DOMAIN stored : \A url \in stored[path].urls : WasKept(path, url, M[world]))'
  BY <1>1, <1>6 DEF WasKept, Mine
<1>10. QED
  BY <1>1, <1>3, <1>4, <1>5, <1>7, <1>8, <1>9 DEF FoundInv, Working

\* A file that is completed is made of what was asked for before and now.
LEMMA FoundResumed ==
  ASSUME NEW M, Tells(M), RequestInv, DiskInv, SaidInv, FoundInv(M), AnswerResumed
  PROVE  FoundInv(M)'
<1>1. /\ pc = "answer" /\ IsTorn(object)
      /\ UNCHANGED <<world, browser, connected, domain, object, memory>>
  BY ResumedCompletes
<1>2. PICK have \in Nat, over \in BOOLEAN : Completed(have, over)
  BY ResumedCompletes
<1>3. pc' = "over" /\ (ServerConnected' => ServerConnected)
  BY <1>2 DEF Completed, ProxyMessage, Ended
<1> DEFINE file == stored[object.path]
           written == [size |-> have, urls |-> file.urls \cup {Url}]
<1>4. stored' = stored \/ stored' = With(stored, object.path, written)
  BY <1>2 DEF Completed
<1>5. written.urls = file.urls \cup {Url}
  OBVIOUS
<1> HIDE DEF written
<1>6. Exists(object) /\ object.kind \in Kept /\ object.path \in DOMAIN stored
  BY <1>1 DEF IsTorn, Exists, Kept
<1>7. \A path \in DOMAIN stored' : \A url \in stored'[path].urls : WasKept(path, url, M[world])
  <2>1. CASE stored' = stored
    BY <2>1 DEF FoundInv
  <2>2. CASE stored' = With(stored, object.path, written)
    BY <1>5, <1>6, <2>2, FileIsKept
  <2>3. QED  BY <1>4, <2>1, <2>2
<1>8. AnswerIsRequested'
  <2>1. stored'[object.path].urls \subseteq file.urls \cup {Url}
    BY <1>4, <1>5, <1>6 DEF With
  <2>2. ASSUME NEW url \in stored'[object.path].urls
        PROVE  IsAskedFor(world, browser, object.kind, url)
    <3>1. CASE url = Url
      BY <3>1 DEF IsAskedFor, Url
    <3>2. CASE url \in file.urls
      BY <1>6, <3>2, FileIsAskedFor DEF RequestInv
    <3>3. QED  BY <2>1, <2>2, <3>1, <3>2
  <2>3. \/ out' = Nothing \/ out' = [Nothing EXCEPT !.kind = "message"]
        \/ out'.urls = stored'[object.path].urls
    <3>1. out = Nothing
      BY <1>1 DEF SaidInv, Working
    <3>2. \/ ProxyMessage(TRUE) \/ ProxyMessage(FALSE)
          \/ \E lines, given : Given("200", lines, DropBrowser, 0, given, stored'[object.path].urls)
      BY <1>2 DEF Completed
    <3>3. CASE ProxyMessage(TRUE) \/ ProxyMessage(FALSE)
      BY <3>1, <3>3 DEF ProxyMessage
    <3>4. ASSUME NEW lines, NEW given,
                 Given("200", lines, DropBrowser, 0, given, stored'[object.path].urls)
          PROVE  out'.urls = stored'[object.path].urls
      BY <3>4 DEF Given
    <3>5. QED  BY <3>2, <3>3, <3>4
  <2>4. Nothing.kind # "answer" /\ [Nothing EXCEPT !.kind = "message"].kind # "answer"
    BY DEF Nothing
  <2>5. out'.kind = "answer" => \A url \in out'.urls : IsAskedFor(world, browser, object.kind, url)
    BY <2>2, <2>3, <2>4
  <2>6. QED  BY <1>1, <2>5 DEF AnswerIsRequested, Answered
<1>9. Mine(browser, M[world])' = Mine(browser, M[world])
      /\ \A path, url : WasKept(path, url, M[world])' <=> WasKept(path, url, M[world])
  BY <1>1 DEF Mine, WasKept
<1>10. (M[world])' = M[world]
  BY <1>1
<1>11. (\A path \in DOMAIN stored : \A url \in stored[path].urls : WasKept(path, url, M[world]))'
  BY <1>1, <1>7 DEF WasKept, Mine
<1>12. QED
  BY <1>1, <1>3, <1>8, <1>9, <1>10, <1>11 DEF FoundInv, Working

\* Where nothing is looked up or stored it is enough to look at what is said.
LEMMA FoundStays ==
  ASSUME NEW M, FoundInv(M), UNCHANGED <<world, browser, connected, domain, object, memory, stored>>,
         pc \in Working, pc' \in Working \cup {"over"},
         ServerConnected' => ServerConnected,
         AnswerIsRequested'
  PROVE  FoundInv(M)'
<1>1. Mine(browser, M[world])' = Mine(browser, M[world])
      /\ \A path, url : WasKept(path, url, M[world])' <=> WasKept(path, url, M[world])
  BY DEF Mine, WasKept
<1>2. pc' \notin {"idle", "dead", "looping"}
  BY DEF Working
<1>3. QED
  BY <1>1, <1>2 DEF FoundInv

LEMMA FoundRequest ==
  ASSUME NEW M, RequestInv, SaidInv, FoundInv(M), Request
  PROVE  FoundInv(M)'
<1>1. pc = "idle" /\ UNCHANGED <<world, connected, domain, object, memory, stored>>
  BY DEF Request, cache, worker, disk
<1>2. PICK q, b :
         /\ q \in world.Requests /\ b = AnalyseRequest(q, world.Transparent)
         /\ browser' = b
         /\ \/ ProxyMessage(TRUE) \/ ProxyMessage(FALSE)
            \/ ~ Refused(b) /\ pc' = "connect" /\ UNCHANGED <<ServerConnected, out>>
  BY DEF Request
<1>3. ~ Refused(b) => b.ret = 0 /\ b.Host # <<>>
  BY <1>2, Taken DEF RequestInv
<1>4. pc' = "connect" => browser' \in Accepted(world)
  BY <1>2, <1>3 DEF Accepted, ProxyMessage
<1>5. pc' \in {"over", "connect"} /\ (ServerConnected' => ServerConnected)
  BY <1>2 DEF ProxyMessage
<1>6. out'.kind # "answer"
  <2>1. Nothing.kind # "answer" /\ [Nothing EXCEPT !.kind = "message"].kind # "answer"
    BY DEF Nothing
  <2>2. out = Nothing
    BY <1>1 DEF SaidInv
  <2>3. out' \in {out, [Nothing EXCEPT !.kind = "message"]}
    BY <1>2 DEF ProxyMessage
  <2>4. QED  BY <2>1, <2>2, <2>3
<1>7. AnswerIsRequested'
  BY <1>6 DEF AnswerIsRequested, Answered
<1>8. object'.kind = "none"
  BY <1>1 DEF FoundInv
<1>9. \A path, url : WasKept(path, url, M[world])' <=> WasKept(path, url, M[world])
  BY <1>1 DEF Mine, WasKept
<1>10. QED
  BY <1>1, <1>4, <1>5, <1>7, <1>8, <1>9 DEF FoundInv, Working

LEMMA FoundSaid ==
  ASSUME NEW M, Tells(M), RequestInv, DiskInv, SaidInv, FoundInv(M),
         SendUnconnected \/ Send \/ AnswerRewrite \/ AnswerNotModified \/ AnswerHit
           \/ ResumeFailed \/ AnswerRedirected \/ OriginClosed
  PROVE  FoundInv(M)'
<1> USE DEF Working
<1>1. pc \in Working /\ UNCHANGED <<world, browser, connected, domain, object, memory, stored>>
  BY FailedResume, RedirectedEnds
     DEF SendUnconnected, Send, AnswerRewrite, AnswerNotModified, AnswerHit, OriginClosed,
         cache, worker, disk
<1>2. out = Nothing /\ Nothing.kind # "answer"
      /\ [Nothing EXCEPT !.kind = "message"].kind # "answer"
  BY <1>1 DEF SaidInv, Nothing
<1>3. ASSUME out' \in {out, [Nothing EXCEPT !.kind = "message"]} PROVE AnswerIsRequested'
  BY <1>2, <1>3 DEF AnswerIsRequested, Answered
<1>4. world \in Worlds
  BY DEF RequestInv
<1>5. CASE SendUnconnected
  BY <1>1, <1>3, <1>5, FoundStays DEF SendUnconnected, Again
<1>6. CASE Send
  <2>1. \/ ProxyMessage(TRUE) \/ ProxyMessage(FALSE)
        \/ pc' = "answer" /\ UNCHANGED <<ServerConnected, out>>
    BY <1>6 DEF Send
  <2>2. QED  BY <1>1, <1>3, <2>1, FoundStays DEF ProxyMessage
<1>7. CASE OriginClosed
  <2>1. \/ Again /\ UNCHANGED out
        \/ ProxyMessage(TRUE)
    BY <1>7, TriedAgain DEF OriginClosed
  <2>2. QED  BY <1>1, <1>3, <2>1, FoundStays DEF Again, ProxyMessage
<1>8. CASE AnswerRewrite
  <2>1. out'.urls = {UrlOf(browser')}
    BY <1>1, <1>8 DEF AnswerRewrite, Given, Url
  <2>2. AnswerIsRequested'
    BY <2>1 DEF AnswerIsRequested, IsAskedFor
  <2>3. pc' = "over" /\ (ServerConnected' => ServerConnected)
    BY <1>8 DEF AnswerRewrite, Ended
  <2>4. QED  BY <1>1, <2>2, <2>3, FoundStays
<1>9. CASE AnswerNotModified \/ AnswerHit
  <2>1. out'.urls = stored[object.path].urls /\ hit /\ pc = "answer"
    <3>1. CASE AnswerNotModified
      BY <3>1 DEF AnswerNotModified, Given
    <3>2. CASE AnswerHit
      BY <3>2 DEF AnswerHit, Given
    <3>3. QED  BY <1>9, <3>1, <3>2
  <2>2. Exists(object)
    BY <2>1 DEF DiskInv, IsHit, IsTorn
  <2>3. \A url \in out'.urls : IsAskedFor(world', browser', object'.kind, url)
    BY <1>1, <1>4, <2>1, <2>2, FileIsAskedFor
  <2>4. AnswerIsRequested'
    BY <2>3 DEF AnswerIsRequested
  <2>5. pc' = "over" /\ (ServerConnected' => ServerConnected)
    BY <1>9 DEF AnswerNotModified, AnswerHit, Ended
  <2>6. QED  BY <1>1, <2>4, <2>5, FoundStays
<1>10. CASE ResumeFailed
  <2>1. \/ Again /\ UNCHANGED out
        \/ ProxyMessage(TRUE) \/ ProxyMessage(FALSE)
    BY <1>10, FailedResume
  <2>2. QED  BY <1>1, <1>3, <2>1, FoundStays DEF Again, ProxyMessage
<1>11. CASE AnswerRedirected
  <2>1. PICK said, h, none, server : Redirected(said, h, none, server)
    BY <1>11, RedirectedEnds
  <2>2. pc' = "over" /\ (ServerConnected' => ServerConnected)
    BY <2>1 DEF Redirected, ProxyMessage, Ended
  <2>3. CASE ProxyMessage(TRUE) \/ ProxyMessage(FALSE)
    BY <1>1, <1>3, <2>2, <2>3, FoundStays DEF ProxyMessage
  <2>4. CASE \E lines, drop, to : Given(said, lines, drop, 0, to, {Url})
    <3>1. out'.urls = {UrlOf(browser')}
      BY <1>1, <2>4 DEF Given, Url
    <3>2. AnswerIsRequested'
      BY <3>1 DEF AnswerIsRequested, IsAskedFor
    <3>3. QED  BY <1>1, <2>2, <3>2, FoundStays
  <2>5. QED  BY <2>1, <2>3, <2>4 DEF Redirected
<1>12. QED
  BY <1>5, <1>6, <1>7, <1>8, <1>9, <1>10, <1>11

LEMMA FoundStep ==
  ASSUME NEW M, Tells(M), RequestInv, DiskInv, SaidInv, FoundInv(M), [Next]_vars
  PROVE  FoundInv(M)'
<1>1. CASE Connect
  BY <1>1, FoundConnect DEF RequestInv
<1>2. CASE Continue
  <2>1. /\ pc' = "idle" /\ object' = NotKept /\ UNCHANGED <<world, connected, domain, stored>>
        /\ ServerConnected' => ServerConnected
        /\ memory' \in {Fresh, memory}
    BY <1>2 DEF Continue, disk
  <2>a. memory' \in M[world]
    <3>1. Remembers(world, M[world])
      BY DEF Tells, KeysTell, RequestInv
    <3>2. QED  BY <2>1, <3>1 DEF Remembers, FoundInv
  <2>2. NotKept.kind = "none"
    BY DEF NotKept
  <2>3. AnswerIsRequested'
    BY <2>1 DEF AnswerIsRequested, Answered
  <2>4. \A path, url : WasKept(path, url, M[world])' <=> WasKept(path, url, M[world])
    BY <2>1 DEF Mine, WasKept
  <2>5. QED  BY <2>1, <2>a, <2>2, <2>3, <2>4 DEF FoundInv, Working
<1>3. CASE UNCHANGED vars
  <2>1. UNCHANGED <<world, pc, browser, ServerConnected, connected, domain, object, memory,
                    stored, out>>
    BY <1>3 DEF vars, connection, cache, worker, disk
  <2>2. AnswerIsRequested'
    BY <2>1 DEF FoundInv, AnswerIsRequested, Answered
  <2>3. Mine(browser, M[world])' = Mine(browser, M[world])
        /\ \A path, url : WasKept(path, url, M[world])' <=> WasKept(path, url, M[world])
    BY <2>1 DEF Mine, WasKept
  <2>4. QED  BY <2>1, <2>2, <2>3 DEF FoundInv
<1>4. QED
  BY <1>1, <1>2, <1>3, FoundRequest, FoundSaid, FoundAnswer, FoundResumed DEF Next

LEMMA FoundHolds ==
  ASSUME NEW M, Tells(M)
  PROVE  Spec => []FoundInv(M)
<1>1. Init => FoundInv(M)
  BY FoundInit
<1>2. IInv /\ FoundInv(M) /\ [Next]_vars => FoundInv(M)'
  BY FoundStep DEF IInv
<1>3. QED
  BY <1>1, <1>2, Inductive, PTL DEF Spec

\* If no two requests have a file in common that they should not, none is ever given
\* the answer to another: Cache() looks up the host that the worker is connected to,
\* and over a connection that is kept, after a retry or behind a parent it is still
\* that of the request (connectiontohttp2.cpp:196).
THEOREM GivenWhatWasAsked ==
  ASSUME NEW M, \A w \in Worlds : KeysTell(w, M[w])
  PROVE  Spec => []AnswerIsRequested
<1>1. Tells(M)
  BY DEF Tells
<1>2. FoundInv(M) => AnswerIsRequested
  BY DEF FoundInv
<1>3. QED
  BY <1>1, <1>2, FoundHolds, PTL

\* If no address to which a key redirects is redirected again, nobody is sent on and on:
\* a redirection is answered for the URL that was asked for (connectiontohttp2.cpp:299).
THEOREM RedirectsAreOver ==
  ASSUME NEW M, \A w \in Worlds : KeysTell(w, M[w])
  PROVE  Spec => []RedirectsEnd
<1>1. Tells(M)
  BY DEF Tells
<1>2. IInv /\ FoundInv(M) => RedirectsEnd
  <2>1. SUFFICES ASSUME world \in Worlds, FoundInv(M), object.kind = "rewrite"
                 PROVE  ~ Redirects(object.path, memory) \/ object.path = Url
    BY DEF IInv, RequestInv, RedirectsEnd
  <2>2. /\ browser \in Accepted(world) /\ object \in Finds(world, browser, M[world])
        /\ memory \in M[world]
    BY <2>1 DEF FoundInv, Mine
  <2>3. RedirectsTell(world, M[world])
    BY <1>1, <2>1 DEF Tells, KeysTell
  <2>4. QED  BY <2>1, <2>2, <2>3 DEF RedirectsTell, Url
<1>3. QED
  BY <1>1, <1>2, Inductive, FoundHolds, PTL

\* If no key of an ordinary address ends the worker, no number of them does, whatever
\* the plugins have in memory by then.
THEOREM WorkerSurvives ==
  ASSUME NEW M, \A w \in Worlds : KeysTell(w, M[w])
  PROVE  Spec => []Survives
<1>1. Tells(M)
  BY DEF Tells
<1>2. IInv /\ FoundInv(M) => Survives
  <2>1. SUFFICES ASSUME world \in Worlds, FoundInv(M), pc \in {"dead", "looping"}
                 PROVE  ~ Ordinary(Url)
    BY DEF IInv, RequestInv, Survives
  <2>2. browser \in Accepted(world)
        /\ \E o \in Finds(world, browser, M[world]) : o.kind \in {"dies", "loops"}
    BY <2>1 DEF FoundInv, Mine
  <2>3. EndsTell(world, M[world])
    BY <1>1, <2>1 DEF Tells, KeysTell
  <2>4. QED  BY <2>2, <2>3 DEF EndsTell, Url
<1>3. QED
  BY <1>1, <1>2, Inductive, FoundHolds, PTL
=============================================================================
