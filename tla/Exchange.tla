------------------------------ MODULE Exchange ------------------------------
(***************************************************************************)
(* Requests and answers as one worker passes them on: what it reads in a   *)
(* header, which object of the cache it takes a request for, what it sends *)
(* to the origin and to the browser, and what is left over on the two      *)
(* connections for the next request.  ProxySession is the same loop seen   *)
(* from the network, with failing addresses and retries; here every host   *)
(* can be reached, and what counts is the data.                            *)
(*                                                                         *)
(* One browser is served at a time, and more than ten seconds pass between *)
(* two requests, so that no file looks as if it were just being written:   *)
(* CacheEntry has workers that meet at a file.  An answer that breaks off  *)
(* is in ProxySession; here it ends early.                                 *)
(***************************************************************************)
EXTENDS Keys, Headers

CONSTANTS
    Worlds,   \* configurations and what browsers and origins say, see World
    Parent,   \* PARENTPROXY
    NORESUME, \* the plugin domains whose _NORESUME is TRUE
    HeaderSize \* bytes of the header of an answer

\* max: bound, requests of one browser after another.  A request is [method, url, version,
\* lines, body], with body the bytes that follow the header (none if none are
\* announced, which would be the next request); an answer is
\* [status, lines, sent, late], with the bytes of the body that are there when
\* they are looked for, and those that come afterwards.
IsWorld(w) ==
    /\ DOMAIN w = {"Transparent", "UseParentProxy", "Requests", "Answers", "max"}
    /\ {w.Transparent, w.UseParentProxy} \subseteq BOOLEAN /\ w.max \in Nat
    /\ w.Requests \subseteq [method : STRING, url : Seq(STRING), version : STRING,
                              lines : Seq(HeaderLine), body : Nat]
    /\ w.Answers \subseteq [status : STRING, lines : Seq(HeaderLine), sent : Nat, late : Nat]
    /\ \A a \in w.Answers : \A i \in DOMAIN a.lines : a.lines[i].num >= -1

ASSUME ExchangeAssumption == (\A w \in Worlds : IsWorld(w)) /\ HeaderSize \in Nat

VARIABLES
    world,          \* never changes
    pc, count,
    browser,        \* the request as it was read
    req,            \* and as it was sent
    DropBrowser, DropServer, ServerConnected, retried,
    connected,      \* ConnectedHost and ConnectedPort
    domain,         \* the host that Cache() looks up
    sock,           \* the connection to an origin
    object,         \* what Cache() found
    hit, partial,
    resuming,       \* a hit whose file is not complete
    downloader,     \* the connection over which it is completed
    HTMLResponse, memory,
    rows,           \* the sizes in the database
    stored,         \* the sizes of the files; history: the URLs that they are made of
    directories,
    asked,          \* history: the header that the origin was sent
    out             \* history: what the browser was given

connection == <<DropBrowser, DropServer, ServerConnected, retried, connected, domain>>
cache == <<object, hit, partial, resuming>>
disk == <<rows, stored, directories>>
worker == <<downloader, HTMLResponse, memory, disk>>
vars == <<world, pc, count, browser, req, connection, sock, cache, worker, asked, out>>

\* at: host and port; stray: bytes of an earlier answer that were not read;
\* garbage: bytes were sent that belong to no request; closing: the origin
\* closes it, at once or some time before the next request; told: and was told to.
NoSocket == [at |-> <<>>, stray |-> 0, garbage |-> FALSE, closing |-> FALSE, told |-> FALSE]
Open(host, port) == [NoSocket EXCEPT !.at = <<host, port>>]
IsOpen == sock.at # <<>>

\* The response that the downloader read stays when its connection is closed.
NoDownloader == [at |-> <<>>, response |-> "0"]

NoRequest == [method |-> "", url |-> <<>>, version |-> "", lines |-> <<>>, body |-> 0]
Nothing == [kind |-> "nothing", status |-> "", lines |-> <<>>, from |-> 0, to |-> 0, urls |-> {}]

UrlOf(b) == b.Host \o b.Request
Url == UrlOf(browser)

Places == {"idle", "connect", "send", "answer", "over", "dead", "looping"}

TypeOK ==
    /\ world \in Worlds /\ pc \in Places /\ count \in 0..world.max
    /\ {DropBrowser, DropServer, ServerConnected, retried, hit, resuming} \subseteq BOOLEAN
    /\ req \in world.Requests \cup {NoRequest}
    /\ DOMAIN browser = DOMAIN ClearedRequest
    /\ pc \in {"connect", "send", "answer"} =>
          browser.ret = 0 /\ browser.Host # <<>> /\ browser.Port \in PortNumbers
    /\ sock.stray \in Nat /\ {sock.garbage, sock.closing, sock.told} \subseteq BOOLEAN
    /\ object.kind \in {"none", "plugin", "general", "rewrite"}
    /\ partial \in Int
    /\ out.kind \in {"nothing", "message", "answer"}
    /\ \A row \in DOMAIN rows : rows[row] \in Nat
    /\ \A path \in DOMAIN stored : stored[path].size \in Nat

Init ==
    /\ world \in Worlds /\ pc = "idle" /\ count = 0
    /\ browser = ClearedRequest /\ req = NoRequest
    /\ DropBrowser = FALSE /\ DropServer = FALSE /\ ServerConnected = FALSE /\ retried = FALSE
    /\ connected = <<>> /\ domain = <<>> /\ sock = NoSocket
    /\ object = NotKept /\ hit = FALSE /\ partial = 0
    /\ resuming = FALSE /\ downloader = NoDownloader
    /\ HTMLResponse = "0" /\ memory = Fresh
    /\ rows = <<>> /\ stored = <<>> /\ directories = {}
    /\ asked = <<>> /\ out = Nothing

-----------------------------------------------------------------------------
(* The end of a request: Proxy() after CommunicationHTTP().                *)

\* Variant (mutant): a clean retry forgets those of the browser too.
Ended_CleanRetry(dropBrowser, dropServer, keptSock) ==
    /\ pc' = "over" /\ DropBrowser' = (dropBrowser /\ ~ retried)
    /\ DropServer' = (dropServer /\ ~ retried)
    /\ UNCHANGED ServerConnected /\ sock' = keptSock

\* Nothing is owed to the browser any more.  Connections are closed for the
\* reasons there are now; a retry that was clean forgets those of the server.
Ended(dropBrowser, dropServer, keptSock) ==
    LET drops == dropBrowser \/ (dropServer /\ ~ retried)
    IN  /\ pc' = "over"
        /\ DropBrowser' = dropBrowser
        /\ DropServer' = (dropServer /\ ~ retried)
        /\ ServerConnected' = (ServerConnected /\ ~ drops)
        /\ sock' = IF drops THEN NoSocket ELSE keptSock

\* An answer of its own, and both connections are closed.
ProxyMessage(said) ==
    /\ pc' = "over" /\ DropBrowser' = TRUE
    /\ ServerConnected' = FALSE /\ sock' = NoSocket /\ UNCHANGED DropServer
    /\ out' = IF said THEN [Nothing EXCEPT !.kind = "message"] ELSE out

-----------------------------------------------------------------------------
(* The request                                                             *)

\* Variant (mutant): without a look at the host.
Refused_NoHostNeeded(b) == b.ret < 0 \/ (b.RequestProtocol = "ftp" /\ ~ world.UseParentProxy)

\* What Proxy() refuses before it connects to anyone.
Refused(b) ==
    \/ b.ret < 0 \/ b.Host = <<>> \/ b.Port = ""
    \/ b.RequestProtocol = "ftp" /\ ~ world.UseParentProxy

NoLength(b) == b.RequestType = "POST" /\ b.ContentLength = -1

\* The loop begins again.
Request ==
    /\ pc = "idle" /\ count < world.max
    /\ count' = count + 1
    /\ \E q \in world.Requests : \E b \in {AnalyseRequest(q, world.Transparent)} :
         /\ req' = q /\ browser' = b
         /\ \/ Refused(b) /\ ProxyMessage(TRUE)
            \/ ~ Refused(b) /\ NoLength(b) /\ ProxyMessage(FALSE)
            \/ /\ ~ Refused(b) /\ ~ NoLength(b)
               /\ pc' = "connect"
               /\ DropBrowser' = (~ b.IsKeepAlive \/ b.RequestType # "GET")
               /\ UNCHANGED <<DropServer, ServerConnected, sock, out>>
    /\ UNCHANGED <<world, retried, connected, domain, cache, worker, asked>>

-----------------------------------------------------------------------------
(* The connection and the cache                                            *)

\* Where the origin is: a parent does not change with the host.
Origin == IF world.UseParentProxy THEN <<Parent, "3128">> ELSE <<browser.Host, browser.Port>>
\* Variant (mutant): the port is not compared.
Stays_AnyPort == ServerConnected /\ (world.UseParentProxy \/ connected[1] = browser.Host)

Stays == ServerConnected /\ (world.UseParentProxy \/ connected = <<browser.Host, browser.Port>>)

\* Variant (mutant): the host of the first request over a connection stays.
LookedUp_First == IF ServerConnected THEN domain ELSE Origin[1]

\* Cache() looks up the host it was connected to; the first request over a
\* parent is looked up without its path.
LookedUp == IF Stays THEN domain ELSE Origin[1]

\* Variant (mutant): all of the request line.
Looked_Url == browser.Host \o browser.Request

\* Variant (mutant): whoever is connected to.
Looked_NoPath == IF ~ Stays THEN <<>> ELSE browser.Request

Looked == IF world.UseParentProxy /\ ~ Stays THEN <<>> ELSE browser.Request

\* A file that has a row.
Exists(o) ==
    o.kind \in {"plugin", "general"} /\ o.path \in DOMAIN stored /\ o.row \in DOMAIN rows

\* A file with the size of its row.
IsHit(o) == Exists(o) /\ rows[o.row] = stored[o.path].size

\* A file with another size than its row's, which will be completed.
IsTorn(o) ==
    /\ Exists(o) /\ rows[o.row] > 0 /\ rows[o.row] # stored[o.path].size
    /\ o.kind = "general" \/ o.row[1] \in NORESUME

\* There is no directory below a file.
IsBelowFile(path) == \E file \in DOMAIN stored : IsStrictPrefix(file, path)

\* f, with v at x.
With(f, x, v) == [y \in DOMAIN f \cup {x} |-> IF y = x THEN v ELSE f[y]]

\* What a miss leaves: a row, unless there is one, and the directories of the
\* file.
Misses(o) ==
    IF o.kind \notin {"plugin", "general"} THEN UNCHANGED <<rows, directories>>
    ELSE /\ rows' = IF o.row \in DOMAIN rows THEN rows ELSE With(rows, o.row, 0)
         /\ directories' = IF o.path \in DOMAIN stored \/ IsBelowFile(o.path) THEN directories
                           ELSE directories \cup {Front(o.path)}

NewSocket(o) ==
    IF IsHit(o) \/ IsTorn(o) \/ o.kind = "rewrite" THEN NoSocket
    ELSE Open(Origin[1], Origin[2])

\* Over a connection that is kept nobody calls ConnectToServer(), so the
\* downloader is not connected.
NewDownloader(o) ==
    [downloader EXCEPT !.at = IF IsTorn(o) /\ ~ Stays THEN Origin ELSE <<>>]

\* SetDomainAndPort(), ConnectToServer() and the Cache() that SendHeader()
\* calls for another request over the same connection.
Connect ==
    /\ pc = "connect"
    /\ \E o \in Lookup(LookedUp, Looked, memory) :
       /\ memory' = Remember(getdomain(LookedUp \o Looked), LookedUp \o Looked, memory)
       /\ domain' = LookedUp
       /\ connected' = <<browser.Host, browser.Port>>
       /\ \/ /\ o.kind \in {"dies", "loops"}
             /\ pc' = IF o.kind = "dies" THEN "dead" ELSE "looping"
             /\ UNCHANGED <<ServerConnected, sock, object, hit, resuming, downloader, rows,
                            directories>>
          \/ /\ o.kind \notin {"dies", "loops"}
             /\ pc' = "send" /\ object' = o
             /\ hit' = (IsHit(o) \/ IsTorn(o)) /\ resuming' = IsTorn(o)
             /\ Misses(o)
             /\ downloader' = NewDownloader(o)
             /\ ServerConnected' = TRUE
             /\ sock' = IF Stays THEN sock ELSE NewSocket(o)
    /\ UNCHANGED <<world, count, browser, req, DropBrowser, DropServer, retried,
                   partial, HTMLResponse, stored, asked, out>>

-----------------------------------------------------------------------------
(* To the origin                                                           *)

Passed == PrepareHeaderForServer(req.lines, browser.Host, world.UseParentProxy)

\* Variant (mutant): the connection is taken for one that is there.
Again_StillConnected ==
    pc' = "connect" /\ retried' = TRUE /\ DropServer' = TRUE
        /\ UNCHANGED ServerConnected /\ sock' = NoSocket

\* CommunicationHTTP() again, after a connection that was not there: closed
\* by the origin, or never opened because the request before was a hit.
Again ==
    /\ pc' = "connect" /\ retried' = TRUE
    /\ DropServer' = TRUE /\ ServerConnected' = FALSE /\ sock' = NoSocket

ToOrigin == ~ hit /\ object.kind # "rewrite"

SendUnconnected ==
    /\ pc = "send" /\ ToOrigin /\ ~ IsOpen
    /\ Again
    /\ UNCHANGED <<world, count, browser, req, DropBrowser, connected, domain, cache, worker,
                   asked, out>>

\* Where a Range asks to begin.  How many of its digits are read depends on
\* the length of the first line of the header, if that is another one.
Digits(n) == {n, n \div 10, n \div 100, 0}
Starts ==
    LET ranges == OnLines({"range"}, Passed)
    IN  IF ranges = <<>> THEN {0}
        ELSE IF Passed[1].name = "range" \/ ranges[1].num < 0 THEN {ranges[1].num}
        ELSE Digits(ranges[1].num)

\* To complete a file: the last line is replaced.
ResumeHeader == Append(Front(Passed), Line("range", <<>>))
Asking ==
    IF ToOrigin THEN SendHeader(Passed, FALSE, DropBrowser)
    ELSE IF resuming /\ downloader.at # <<>> THEN SendHeader(ResumeHeader, FALSE, TRUE)
    ELSE <<>>

\* The header, and the body of the request as long as it was announced.  A
\* body that belongs to a request for which there is no connection goes where
\* the socket is.
Send ==
    /\ pc = "send" /\ (ToOrigin => IsOpen)
    /\ LET announced == browser.ContentLength
           nowhere == announced > 0 /\ req.body >= announced /\ ~ IsOpen
           bad == announced >= 0 /\ req.body # announced /\ ~ nowhere
       IN  /\ asked' = Asking
           /\ partial' \in IF hit /\ ~ resuming THEN Starts ELSE {0}
           /\ \/ /\ bad \/ nowhere
                 /\ ProxyMessage(nowhere)
              \/ /\ ~ bad /\ ~ nowhere
                 /\ pc' = "answer"
                 /\ sock' = [sock EXCEPT !.garbage = @ \/ (~ ToOrigin /\ announced > 0),
                                         !.told = @ \/ (ToOrigin /\ DropBrowser)]
                 /\ UNCHANGED <<DropBrowser, DropServer, ServerConnected, out>>
    /\ UNCHANGED <<world, count, browser, req, retried, connected, domain, object, hit, resuming,
                   worker>>

-----------------------------------------------------------------------------
(* From the cache to the browser                                           *)

Given(status, lines, closes, from, to, urls) ==
    out' = [kind |-> "answer", status |-> status, from |-> from, to |-> to, urls |-> urls,
            lines |-> SendHeader(lines, browser.ProxyConnection, closes)]

\* A redirection: the browser stays.
AnswerRewrite ==
    /\ pc = "answer" /\ object.kind = "rewrite"
    /\ HTMLResponse' = "302"
    /\ Given("302", <<Line("location", object.path), ContentLength(0)>>, DropBrowser, 0, 0, {Url})
    /\ Ended(DropBrowser, TRUE, sock)
    /\ UNCHANGED <<world, count, browser, req, retried, connected, domain, cache, downloader,
                   memory, disk, asked>>

IsConditional == OnLines({"if-none-match"}, Passed) # <<>>

\* What the downloader reads when the origin answers with a: a header is read
\* only while no response ever was, and only over a connection.
IsRead(a) ==
    downloader.response = "0" /\ downloader.at # <<>> /\ a.status # "unreadable"
Responded(a) == IF IsRead(a) THEN a.status ELSE downloader.response
Reads(a) == downloader' = [downloader EXCEPT !.response = Responded(a)]

\* A condition is not looked at: what is stored has not been modified.
AnswerNotModified ==
    /\ pc = "answer" /\ hit /\ IsConditional
    /\ IF resuming THEN \E a \in world.Answers : Responded(a) = "206" /\ Reads(a)
       ELSE UNCHANGED downloader
    /\ HTMLResponse' = "304" /\ hit' = FALSE
    /\ Given("304", <<>>, TRUE, 0, 0, stored[object.path].urls)
    /\ Ended(TRUE, TRUE, sock)
    /\ UNCHANGED <<world, count, browser, req, retried, connected, domain, object, partial,
                   resuming, memory, disk, asked>>

\* From where a Range begins to the end of the object.  The file is complete
\* when as many bytes were read as it has, so after a part nothing is kept.
AnswerHit ==
    /\ pc = "answer" /\ hit /\ ~ resuming /\ ~ IsConditional
    /\ LET size == stored[object.path].size
           from == IF partial < 0 THEN 0 ELSE IF partial > size THEN size ELSE partial
           head == browser.RequestType = "HEAD"
           length == ContentLength(size - partial)
           part == [Line("content-range", <<>>) EXCEPT !.num = partial]
       IN  /\ Given(IF partial = 0 THEN "200" ELSE "206",
                    IF partial > 0 THEN <<length, part>> ELSE <<length>>,
                    DropBrowser \/ (from = size /\ size > 0), from, IF head THEN from ELSE size,
                    stored[object.path].urls)
           /\ Ended(DropBrowser \/ from > 0, FALSE, sock)
    /\ UNCHANGED <<world, count, browser, req, retried, connected, domain, cache, worker, asked>>

-----------------------------------------------------------------------------
(* From the origin and the cache to the browser                            *)

\* CommunicationHTTP() has not read a header: a GET is tried again, and may be
\* until the addresses of the origin, which are not counted here, are used up.
TryAgain ==
    \/ browser.RequestType = "GET" /\ Again /\ UNCHANGED <<DropBrowser, out>>
    \/ (browser.RequestType = "GET" => retried) /\ ProxyMessage(TRUE) /\ UNCHANGED retried

\* No 206 for what is missing.  Without a connection the worker may end, here and
\* below, where FD_SET() looks at its argument.
ResumeFailed ==
    /\ pc = "answer" /\ resuming
    /\ \E a \in world.Answers :
         Responded(a) \notin {"206", "302", "303"} /\ Reads(a)
    /\ \/ TryAgain
       \/ downloader.at = <<>> /\ ProxyMessage(FALSE) /\ UNCHANGED retried
    /\ UNCHANGED <<world, count, browser, req, connected, domain, cache, HTMLResponse, memory,
                   disk, asked>>

\* What comes from the origin is added to the file, piece by piece, and with it
\* what was left unread of its header, while the browser is given the file, as
\* much as the row says.  A file that stays shorter ends in an error message.
AnswerResumed ==
    /\ pc = "answer" /\ resuming /\ ~ IsConditional
    /\ \E a \in world.Answers :
         LET size == rows[object.row]
             file == stored[object.path]
             come == CASE downloader.at = <<>> -> 0
                       [] downloader.at # <<>> ->
                            IF IsRead(a) THEN a.sent ELSE HeaderSize + a.sent
             head == browser.RequestType = "HEAD"
         IN  /\ Responded(a) = "206" /\ Reads(a)
             /\ \E added \in 0..come, over \in BOOLEAN :
                  LET have == file.size + added
                      given == IF head THEN 0 ELSE IF have > size THEN size ELSE have
                  IN  /\ IF head THEN added = 0 ELSE added = come \/ have >= size
                      /\ over => have > size
                      /\ stored' = IF added = 0 THEN stored
                                   ELSE With(stored, object.path,
                                             [size |-> have, urls |-> file.urls \cup {Url}])
                      /\ \/ have = 0 /\ ~ head /\ ProxyMessage(TRUE)
                         \/ downloader.at = <<>> /\ ~ head /\ ProxyMessage(FALSE)
                         \/ /\ have > 0 \/ head
                            /\ Given("200", <<ContentLength(size)>>, DropBrowser, 0, given,
                                     stored'[object.path].urls)
                            /\ Ended(DropBrowser \/ (given < size), over, sock)
    /\ UNCHANGED <<world, count, browser, req, retried, connected, domain, cache, HTMLResponse,
                   memory, rows, directories, asked>>

\* A connection that was closed before the answer: another one for a GET.
OriginClosed ==
    /\ pc = "answer" /\ ToOrigin /\ sock.closing
    /\ TryAgain
    /\ UNCHANGED <<world, count, browser, req, connected, domain, cache, worker, asked>>

\* Variant (mutant): the browser stays.
UnknownLength_Ignored(h) == FALSE

\* No browser could tell where such an answer ends, so it is closed.
UnknownLength(h) == h.ContentLength = -1

NoBody(response, length) ==
    response \in {"304", "204"} \/ length = 0 \/ browser.RequestType = "HEAD"

IsKept(length) == object.kind \in {"plugin", "general"} /\ length # -1

\* Only the body of an object is kept, in a file that can be opened.
GoesToFile(response, h) ==
    /\ IsKept(h.ContentLength) /\ ~ h.IsChunked
    /\ response = "200" /\ ~ NoBody(response, h.ContentLength)
    /\ ~ IsBelowFile(object.path)
    /\ \A dir \in directories : ~ IsPrefix(object.path, dir)

\* Whatever is announced is the size of the row: that of an error too.
Announces(h) ==
    rows' = IF IsKept(h.ContentLength) /\ h.ContentLength > 0
            THEN [rows EXCEPT ![object.row] = h.ContentLength]
            ELSE rows

\* Everything that was received goes to the file, also what is too much, and if
\* it is nothing an older file is emptied; one that cannot be opened is not missed.
Stores(response, h, sent) ==
    stored' = IF GoesToFile(response, h)
              THEN With(stored, object.path, [size |-> sent, urls |-> {Url}])
              ELSE stored

\* The answer a, whose status line was read as said and all of it as h, over a
\* connection that the origin then closes or not.
PassOn(a, said, h, closes) ==
    LET response == ResponseOf(said, HTMLResponse)
        length == h.ContentLength
        none == NoBody(response, length)
        over == length > 0 /\ a.sent > length
        given == IF none THEN 0 ELSE IF over THEN length ELSE a.sent
        drop == DropBrowser \/ UnknownLength(h) \/ (~ none /\ a.sent = 0)
        short == ~ none /\ given < length
        kept == [sock EXCEPT !.stray = a.late, !.closing = closes]
    IN  /\ HTMLResponse' = response
        /\ Announces(h) /\ Stores(response, h, a.sent)
        /\ \/ /\ length # -1 /\ h.IsChunked
              /\ ProxyMessage(TRUE)
           \/ /\ ~ (length # -1 /\ h.IsChunked)
              /\ Given(said, PrepareHeaderForBrowser(h), drop, 0, given,
                       IF sock.stray = 0 THEN {Url} ELSE {})
              /\ Ended(drop \/ short, ~ h.IsKeepAlive \/ over \/ (none /\ a.sent > 0), kept)

\* AnalyseHeader() is a bool in ConnectionToHTTP2: an error is no error, but the
\* lines after it are lost.  A header that begins with what was left of the
\* answer before may be read right or not at all.
Answer ==
    /\ pc = "answer" /\ ToOrigin /\ ~ sock.closing
    /\ \E a \in world.Answers, right \in IF sock.stray = 0 THEN {TRUE} ELSE BOOLEAN :
         LET said == IF right THEN a.status ELSE "unreadable"
         IN  \E h \in {AnalyseAnswer(said, a.lines)} :
             \E closes \in {~ h.IsKeepAlive, TRUE} : PassOn(a, said, h, closes)
    /\ UNCHANGED <<world, count, browser, req, retried, connected, domain, cache, downloader,
                   memory, directories, asked>>

\* Line ends instead of a body, two more in every part, until as many parts are
\* counted as were announced, two bytes each.
LineEnds(n) == LET parts == (n + 1) \div 2 IN n + parts * (parts - 1)

\* The origin of a file that is to be completed redirects: its header is passed
\* on, if it was read now.  Without a length the line ends do not stop before the
\* browser leaves.
AnswerRedirected ==
    /\ pc = "answer" /\ resuming
    /\ \E a \in world.Answers :
         LET said == IF IsRead(a) THEN a.status ELSE "unreadable"
         IN  \E h \in {AnalyseAnswer(said, a.lines)} :
             LET length == h.ContentLength
                 none == NoBody(ResponseOf(said, HTMLResponse), length)
                 drop == DropBrowser \/ UnknownLength(h)
             IN  /\ Responded(a) \in {"302", "303"} /\ Reads(a)
                 /\ HTMLResponse' = ResponseOf(said, HTMLResponse)
                 /\ Announces(h)
                 /\ \/ length # -1 /\ h.IsChunked /\ ProxyMessage(TRUE)
                    \/ length = -1 /\ ~ none /\ ProxyMessage(FALSE)
                    \/ /\ length # -1 => ~ h.IsChunked
                       /\ length = -1 => none
                       /\ Given(said, PrepareHeaderForBrowser(h), drop, 0,
                                IF none THEN 0 ELSE LineEnds(length), {Url})
                       /\ Ended(drop, ~ h.IsKeepAlive \/ (~ none /\ length % 2 = 1), sock)
    /\ hit' = FALSE /\ resuming' = FALSE
    /\ UNCHANGED <<world, count, browser, req, retried, connected, domain, object, partial,
                   memory, stored, directories, asked>>

\* The next round of the loop.  A worker serves nobody after the browser that it
\* dropped: the next one has a new worker.
Continue ==
    /\ pc = "over" /\ pc' = "idle"
    /\ browser' = ClearedRequest /\ req' = NoRequest
    /\ object' = NotKept /\ hit' = FALSE /\ partial' = 0 /\ resuming' = FALSE
    /\ DropServer' = FALSE /\ retried' = FALSE /\ DropBrowser' = FALSE
    /\ ServerConnected' = (ServerConnected /\ ~ DropBrowser)
    /\ sock' = IF DropBrowser THEN NoSocket ELSE sock
    /\ downloader' = IF DropBrowser THEN NoDownloader ELSE [downloader EXCEPT !.at = <<>>]
    /\ HTMLResponse' = IF DropBrowser THEN "0" ELSE HTMLResponse
    /\ memory' = IF DropBrowser THEN Fresh ELSE memory
    /\ asked' = <<>> /\ out' = Nothing
    /\ UNCHANGED <<world, count, connected, domain, disk>>

Next ==
    \/ Request \/ Connect \/ SendUnconnected \/ Send
    \/ AnswerRewrite \/ AnswerNotModified \/ AnswerHit
    \/ ResumeFailed \/ AnswerResumed \/ AnswerRedirected
    \/ OriginClosed \/ Answer \/ Continue

Spec == Init /\ [][Next]_vars

-----------------------------------------------------------------------------
(* Properties.                                                             *)

Answered == pc = "over" /\ out.kind = "answer"
Lengths(lines) == {lines[i].num : i \in {j \in DOMAIN lines : lines[j].name = "content-length"}}
Connections == {"connection", "proxy-connection"}
Says(lines, word) == Last(lines).words = <<word>>

\* A browser that is kept can tell where the answer ends: one length is
\* announced, and it is that of the body.  Not so if the origin announced two,
\* for a Range that counts from the end or begins behind the end of an empty
\* file (connectiontohttp2.cpp:336), or if the rest of a file is redirected, for
\* then its line ends are more than are counted (connectiontohttp2.cpp:432).
FramingAgrees ==
    (Answered /\ ~ DropBrowser /\ out.status \notin {"204", "304"})
        => \/ Lengths(out.lines) = {out.to - out.from}
           \/ \E n, m \in Lengths(out.lines) : n # m
           \/ partial < 0 \/ (partial > 0 /\ out.to = 0)
           \/ out.status \in {"302", "303"} /\ \E n \in Lengths(out.lines) : out.to > n

\* A browser that was told that its connection closes does not wait for it; one
\* that was told that it stays loses it only in a body that is incomplete, and
\* after a part of an object.
ToldIsDone ==
    Answered => /\ Says(out.lines, "close") => DropBrowser
                /\ (Says(out.lines, "keep-alive") /\ DropBrowser)
                      => \/ partial > 0
                         \/ \E n \in Lengths(out.lines) : n > out.to - out.from

\* In what is passed on there is one line about the connection, the proxy's own,
\* at the end; the host an origin is sent is that of the URL, and nothing is meant
\* for proxies (connectiontobrowser.cpp:137, connectiontohttp.cpp:10).
NamesOn(lines) == {lines[i].name : i \in DOMAIN lines}
HeaderIsOurs ==
    /\ \A lines \in {asked, out.lines} :
          lines # <<>> => /\ Last(lines).name \in Connections
                          /\ NamesOn(Front(lines)) \cap (Connections \cup {"keep-alive"}) = {}
    /\ "proxy-connection" \notin NamesOn(asked)
    /\ \A i \in DOMAIN asked : asked[i].name = "host" => asked[i].words = browser.Host
    /\ ~ world.UseParentProxy => "proxy-authorization" \notin NamesOn(asked)

\* A header goes to the origin of its URL, over a connection that was not told
\* to close and on which nothing is left of another request: the downloader's, which
\* is used once, or the worker's own, unless an origin sent more than it announced,
\* and late, or a GET with a body was answered from the cache, for its body is sent
\* to whom the connection is (proxyhandler.cpp:281).
OverCleanConnection ==
    /\ sock.at = Origin /\ ~ sock.told
    /\ sock.garbage => \E q \in world.Requests : q.method = "GET" /\ q.body > 0
    /\ sock.stray > 0 => \E a \in world.Answers : a.late > 0
AskedWhereItBelongs ==
    [][asked' \notin {asked, <<>>} =>
          IF resuming THEN downloader.at = Origin ELSE OverCleanConnection]_vars

\* What browsers mean by a site; two groups of sites are one to their plugins.
SiteOf(host) ==
    LET labels == IF Last(host) = "br" THEN 5 ELSE 3
        site == SubSeq(host, Max({1, Len(host) - labels + 1}), Len(host))
    IN  IF site \in AvSites THEN Site("avgate", "net")
        ELSE IF site = Site("windowsupdate", "com") THEN Site("microsoft", "com")
        ELSE site
HostOf(url) == SubSeq(url, 1, SelectInSeq(url, LAMBDA t : t = "/") - 1)
PartsOf(url) == Range(Tail(stringexplode(url, {"/", "?", "&", "="}, <<>>)))
IsAddress(host) == IsNumber(Last(host))

\* What the browser gets was asked for.  An object of GENERAL may be one of the
\* same site whose path has the same parts, the object of a plugin one of the same
\* site that has a part in common.  The site does not count behind a parent, under
\* whose name all are kept, nor for numbers (10.0.0.1 is kept as 0.0.1).
IsAskedFor(w, b, kind, url) ==
    \/ url = UrlOf(b)
    \/ /\ \/ SiteOf(HostOf(url)) = SiteOf(b.Host)
          \/ w.UseParentProxy \/ IsAddress(b.Host)
       /\ IF kind = "general" THEN PartsOf(url) = PartsOf(UrlOf(b))
          ELSE PartsOf(url) \cap PartsOf(UrlOf(b)) # {}
AnswerIsRequested ==
    Answered => \A url \in out.urls : IsAskedFor(world, browser, object.kind, url)

\* Who is redirected, and asks there, is not redirected again, except by live.com
\* if there is no search.
Redirects(url, mem) ==
    \E o \in Lookup(HostOf(url), SubSeq(url, Len(HostOf(url)) + 1, Len(url)), mem) :
        o.kind = "rewrite"
RedirectsEnd ==
    object.kind = "rewrite" => ~ Redirects(object.path, memory) \/ object.path = Url

\* What Survives leaves out, because such addresses do end or hold the worker:
\* hosts and paths with few parts, and parameters without name or value, of which
\* getdomain() and the plugins take parts that are not there (utils.cpp:112);
\* quotes and semicolons, and parts of the partner name of the proxy's owner, that
\* SearchReplace() puts in where it found them (utils.cpp:40); and names that
\* begin with two zeros, whose sum ConvertChar() may have too few digits of
\* (utils.cpp:279).
Ordinary(url) ==
    LET parts == stringexplode(url, {"/", "?"}, <<>>)
    IN  /\ Len(parts) >= 5 /\ Len(HostOf(url)) >= 5
        /\ \A i \in 1..(Len(url) - 1) : url[i] \in {"?", "&", "=", "/"} =>
              url[i + 1] \notin {"?", "&", "=", "/", ";"}
        /\ Last(url) \notin {"?", "&", "=", "/"}
        /\ \A i \in DOMAIN url : url[i] \in {"?", "&"} => i + 2 <= Len(url) /\ url[i + 2] = "="
        /\ ({"'", ";", "\""} \cup Range(meu_partner)) \cap Range(url) = {}
        /\ \A i \in DOMAIN url : Len(url[i]) >= 2 => SubSeq(url[i], 1, 2) # "00"

\* No other address ends the worker, by an exception that nothing catches, or keeps
\* it for ever.
Survives == pc \in {"dead", "looping"} => ~ Ordinary(Url)

\* No request is tried a third time: a connection that is not there, and one that
\* was kept and is closed by the origin, is replaced by one that is there.  Only to
\* complete a file the origin is asked as often as it has addresses, though it may
\* refuse each time what has no end (connectiontohttp2.cpp:293).
TriedAgainOnce ==
    [][(pc \in {"send", "answer"} /\ pc' = "connect") => ~ retried \/ resuming]_vars

-----------------------------------------------------------------------------
(* What these properties ask of the keys alone, for any number of requests  *)
(* in any order.                                                            *)

\* The requests of a world that are understood, the host and the path that Cache()
\* looks up for one, and what it may find.
Accepted(w) ==
    {b \in {AnalyseRequest(q, w.Transparent) : q \in w.Requests} : b.ret = 0 /\ b.Host # <<>>}
KeysOf(w, b) ==
    IF w.UseParentProxy THEN {<<Parent, <<>>>>, <<Parent, b.Request>>}
    ELSE {<<b.Host, b.Request>>}
Finds(w, b, mems) == UNION {Lookup(key[1], key[2], m) : key \in KeysOf(w, b), m \in mems}

\* No request leaves more in the memory of the plugins than mems.
Remembers(w, mems) ==
    /\ Fresh \in mems
    /\ \A b \in Accepted(w), m \in mems : \A key \in KeysOf(w, b) :
          Remember(getdomain(key[1] \o key[2]), key[1] \o key[2], m) \in mems

\* Whose object is kept in the same file as mine asks for what I may be given.
FilesTell(w, mems) ==
    \A a, b \in Accepted(w) : \A o \in Finds(w, a, mems), p \in Finds(w, b, mems) :
        ({o.kind, p.kind} \subseteq {"plugin", "general"} /\ o.path = p.path)
            => IsAskedFor(w, b, p.kind, UrlOf(a))

RedirectsTell(w, mems) ==
    \A b \in Accepted(w) : \A o \in Finds(w, b, mems), m \in mems :
        o.kind = "rewrite" => ~ Redirects(o.path, m) \/ o.path = UrlOf(b)

EndsTell(w, mems) ==
    \A b \in Accepted(w) : \A o \in Finds(w, b, mems) :
        o.kind \in {"dies", "loops"} => ~ Ordinary(UrlOf(b))

KeysTell(w, mems) ==
    Remembers(w, mems) /\ FilesTell(w, mems) /\ RedirectsTell(w, mems) /\ EndsTell(w, mems)
=============================================================================
