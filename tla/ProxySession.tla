---------------------------- MODULE ProxySession ----------------------------
(***************************************************************************)
(* One browser connection as a worker serves it (proxyhandler.cpp): the    *)
(* loop of Proxy(), CommunicationHTTP() with its retries, the connection   *)
(* to the origin that is kept between requests, and the two resolvers of   *)
(* sockethandler.cpp, of the origin connection and of the downloader, that *)
(* share the one result gethostbyname() stores.                            *)
(*                                                                         *)
(* What Cache() decides is a choice here (CacheEntry is its model), and so *)
(* is everything browser and origin do.  A host is a name with its port.   *)
(***************************************************************************)
EXTENDS Integers, FiniteSets

CONSTANTS
    Hosts,     \* the hosts that browsers ask for
    Literals,  \* those given as an IP address
    Parent,    \* PARENTPROXY
    Worlds,    \* configurations and surroundings to choose from, see Init
    MAXIPS,    \* addresses of one host that are used (16 in the code)
    MAXALIVE,  \* requests of one browser connection (99 in the code)
    MaxParts,  \* bound: parts of an answer after the first
    None

Names == Hosts \cup {Parent}

\* NumIPs: the addresses gethostbyname() finds, as far as they are used;
\* resumes: there are partial files to resume.
World == [NumIPs : [Names -> 1..MAXIPS], resumes : BOOLEAN, UseParentProxy : BOOLEAN]

ASSUME SessionAssumption ==
    /\ Literals \subseteq Hosts /\ None \notin Names
    /\ Worlds \subseteq World
    /\ MAXALIVE \in Nat /\ MaxParts \in Nat /\ MAXIPS \in Nat \ {0}

VARIABLES
    world,            \* never changes
    pc,
    req,              \* the request of the browser
    DropBrowser, BrowserDropped, DropServer, ServerConnected,
    ConnectedHost,
    alivecount,       \* saturates above MAXALIVE
    answer,           \* CommunicationAnswer
    retries,
    domain,           \* the host that Cache() looks up
    mode,             \* what Cache() decided
    to,               \* resolver and socket of the origin connection
    dl,               \* resolver and socket of the downloader
    hostent,          \* the host whose addresses gethostbyname() holds
    length,           \* what the header of the answer says of its length
    parts,            \* parts sent after the first
    given,            \* history: what the browser was given for the request
    tried,            \* history: addresses the request tried to connect to
    uploads           \* history: times the body of the request was read

session == <<DropBrowser, DropServer, ServerConnected, ConnectedHost, alivecount>>
network == <<to, dl, hostent>>
history == <<given, tried, uploads>>
lookup == <<domain, mode>>
counts == <<retries, length, parts>>
vars == <<world, pc, req, session, BrowserDropped, answer, lookup, network, counts, history>>

Address == Names \X Nat
AddressesOf(h) ==
    {<<h, i>> : i \in 0..(IF h \in Literals THEN 0 ELSE world.NumIPs[h] - 1)}

Places == {"idle", "begin", "resolve", "connect", "cache", "send", "upload",
           "response", "header", "body", "transfer", "answered"}
Kinds == {"GET", "POST", "HEAD"}

\* "rewrite" is a redirect that a plugin makes, "redirect" one that the origin
\* answers when the rest of a partial file is asked for.
Modes == {"miss", "hit", "resume", "rewrite", "redirect"}
Lengths == {"none", "known", "unknown"}
Answers == {0, -10, -50, -51, -60, -61, -74, -75, -76, -80, -233}

Socket == [
    LastHost : Names \cup {None},
    ips : 0..MAXIPS,
    ip_count : 0..(MAXIPS - 1),
    addr : Address \cup {None},  \* my_s_addr
    peer : Address \cup {None} ] \* where sock_fd is connected, None if it is -1

NoSocket == [LastHost |-> None, ips |-> 0, ip_count |-> 0, addr |-> None, peer |-> None]
Shut(s) == [s EXCEPT !.peer = None]

TypeOK ==
    /\ world \in World
    /\ pc \in Places
    /\ req \in [host : Hosts, kind : Kinds, body : BOOLEAN]
    /\ DropBrowser \in BOOLEAN /\ BrowserDropped \in BOOLEAN
    /\ DropServer \in BOOLEAN /\ ServerConnected \in BOOLEAN
    /\ ConnectedHost \in Names \cup {None}
    /\ alivecount \in 0..(MAXALIVE + 1)
    /\ answer \in Answers
    /\ retries \in 0..MAXIPS
    /\ domain \in Names \cup {None}
    /\ mode \in Modes
    /\ to \in Socket /\ dl \in Socket
    /\ hostent \in Names \cup {None}
    /\ length \in Lengths
    /\ parts \in 0..MaxParts
    /\ given \in {"nothing", "part", "whole", "swollen", "message", "garbled"}
    /\ tried \subseteq Address
    /\ uploads \in Nat

Init ==
    /\ world \in Worlds
    /\ pc = "idle" /\ req \in [host : Hosts, kind : {"GET"}, body : {FALSE}]
    /\ DropBrowser = FALSE /\ BrowserDropped = FALSE
    /\ DropServer = FALSE /\ ServerConnected = FALSE
    /\ ConnectedHost = None /\ alivecount = 0
    /\ answer = 0 /\ retries = 0
    /\ domain = None /\ mode = "miss"
    /\ to = NoSocket /\ dl = NoSocket /\ hostent = None
    /\ length = "known" /\ parts = 0
    /\ given = "nothing" /\ tried = {} /\ uploads = 0

\* The process ends; another one waits for the next browser.
NewProcess ==
    /\ pc' = "idle"
    /\ DropBrowser' = FALSE /\ BrowserDropped' = FALSE
    /\ DropServer' = FALSE /\ ServerConnected' = FALSE
    /\ ConnectedHost' = None /\ alivecount' = 0
    /\ answer' = 0 /\ retries' = 0
    /\ domain' = None /\ mode' = "miss"
    /\ to' = NoSocket /\ dl' = NoSocket /\ hostent' = None
    /\ length' = "known" /\ parts' = 0
    /\ given' = "nothing" /\ tried' = {} /\ uploads' = 0
    /\ UNCHANGED <<world, req>>

ServerName == IF world.UseParentProxy THEN Parent ELSE req.host

-----------------------------------------------------------------------------
(* SocketHandler::SetDomainAndPort.                                        *)

\* "Same host as last time, use next IP": of the list gethostbyname() holds,
\* whoever called it last.  Past the end of that list the process dies.
NextIP(s) ==
    LET i == IF s.ip_count + 1 = s.ips THEN 0 ELSE s.ip_count + 1
    IN  [result |-> IF i < world.NumIPs[hostent] THEN "ok" ELSE "dies",
         sock |-> [s EXCEPT !.ip_count = i, !.addr = <<hostent, i>>],
         hostent |-> hostent]

\* The outcomes of resolving h on the socket s.
SetDomainAndPort(s, h) ==
    IF h \in Literals
    THEN {[result |-> "ok", hostent |-> hostent,
           sock |-> [s EXCEPT !.LastHost = None, !.addr = <<h, 0>>]]}
    ELSE IF s.LastHost = h
    THEN {IF s.ips = 1 THEN [result |-> "ok", sock |-> s, hostent |-> hostent]
          ELSE NextIP(s)}
    ELSE {[result |-> "ok", hostent |-> h,
           sock |-> [s EXCEPT !.LastHost = h, !.ips = world.NumIPs[h],
                              !.ip_count = 0, !.addr = <<h, 0>>]],
          [result |-> "fail", hostent |-> hostent, sock |-> [s EXCEPT !.LastHost = None]]}

Decisions == {"miss", "hit", "rewrite"} \cup (IF world.resumes THEN {"resume"} ELSE {})

\* Cache() of host h: a resumed file needs the address of the downloader,
\* and whether it was found is not asked.
CacheResolves(m, d, h) ==
    IF m = "resume" THEN SetDomainAndPort(d, h)
    ELSE {[result |-> "ok", sock |-> d, hostent |-> hostent]}

-----------------------------------------------------------------------------
(* Proxy(): the head of the loop.                                          *)

\* A request, of any method with a Content-Length or not; the flags of the last
\* one are cleared.
ReadRequest(h, k, body, keepalive) ==
    /\ pc = "idle" /\ ~DropBrowser /\ ~BrowserDropped
    /\ pc' = "begin"
    /\ req' = [host |-> h, kind |-> k, body |-> body]
    /\ alivecount' = IF alivecount > MAXALIVE THEN alivecount ELSE alivecount + 1
    /\ \E more \in BOOLEAN :  \* the browser has already sent its next request
          DropBrowser' = (~keepalive \/ k # "GET" \/ (alivecount' > MAXALIVE /\ ~more))
    /\ DropServer' = FALSE /\ answer' = 0 /\ retries' = 0 /\ parts' = 0
    /\ given' = "nothing" /\ tried' = {} /\ uploads' = 0
    /\ UNCHANGED <<world, BrowserDropped, ServerConnected, ConnectedHost, lookup,
                   network, length>>

\* The browser is to be dropped, or sends nothing for ten seconds, or no
\* request that can be served (-110, -2xx).
EndSession ==
    /\ pc = "idle" /\ alivecount > 0
    /\ NewProcess

-----------------------------------------------------------------------------
(* CommunicationHTTP().                                                    *)

Return(a) == pc' = "answered" /\ answer' = a

\* Variant (mutant): only the port would close a kept connection.
HostChanges_Never == FALSE
HostChanges == ~world.UseParentProxy /\ req.host # ConnectedHost

Begin ==
    /\ pc = "begin"
    /\ \/ /\ req.kind = "POST" /\ ~req.body
          /\ Return(-10) /\ BrowserDropped' = TRUE
          /\ UNCHANGED <<ServerConnected, to, dl>>
       \/ /\ req.kind = "POST" => req.body
          /\ IF ServerConnected /\ ~HostChanges
                THEN pc' = "cache" /\ UNCHANGED <<ServerConnected, to, dl>>
                ELSE /\ pc' = "resolve" /\ ServerConnected' = FALSE
                     /\ to' = Shut(to) /\ dl' = Shut(dl)
          /\ UNCHANGED <<answer, BrowserDropped>>
    /\ UNCHANGED <<world, req, DropBrowser, DropServer, ConnectedHost, alivecount,
                   lookup, hostent, counts, history>>

\* ConnectionToHTTP2::SetDomainAndPort: Cache(), and unless it is a hit the address.
Resolve ==
    /\ pc = "resolve"
    /\ \E m \in Decisions :
          \/ /\ m \in {"hit", "resume"}
             /\ \E o \in CacheResolves(m, dl, ServerName) :
                   IF o.result = "dies" THEN NewProcess
                   ELSE /\ pc' = "connect" /\ domain' = ServerName /\ mode' = m
                        /\ dl' = o.sock /\ hostent' = o.hostent
                        /\ UNCHANGED <<to, answer, world, req, session,
                                       BrowserDropped, counts, history>>
          \/ /\ m \in {"miss", "rewrite"}
             /\ \E o \in SetDomainAndPort(to, ServerName) :
                   IF o.result = "dies" THEN NewProcess
                   ELSE /\ IF o.result = "ok"
                              THEN pc' = "connect" /\ UNCHANGED answer
                              ELSE Return(IF world.UseParentProxy THEN -51 ELSE -50)
                        /\ domain' = ServerName /\ mode' = m
                        /\ to' = o.sock /\ hostent' = o.hostent
                        /\ UNCHANGED <<dl, world, req, session, BrowserDropped,
                                       counts, history>>

Connected ==
    /\ pc' = "send" /\ ServerConnected' = TRUE
    /\ ConnectedHost' = IF world.UseParentProxy THEN ConnectedHost ELSE req.host
    /\ UNCHANGED answer

\* ConnectionToHTTP2::ConnectToServer: a downloader that cannot connect closes
\* everything and the connection counts as made.
ConnectToServer ==
    /\ pc = "connect"
    /\ \/ mode \in {"hit", "rewrite"} /\ Connected /\ UNCHANGED <<to, dl, tried>>
       \/ /\ mode = "resume" /\ Connected
          /\ \/ dl' = [dl EXCEPT !.peer = dl.addr] /\ UNCHANGED to
             \/ dl' = Shut(dl) /\ to' = Shut(to)
          /\ UNCHANGED tried
       \/ /\ mode = "miss" /\ Connected
          /\ to' = [to EXCEPT !.peer = to.addr] /\ tried' = tried \cup {to.addr}
          /\ UNCHANGED dl
       \/ /\ mode = "miss"
          /\ Return(IF world.UseParentProxy THEN -61 ELSE -60)
          /\ tried' = tried \cup {to.addr}
          /\ UNCHANGED <<to, dl, ServerConnected, ConnectedHost>>
    /\ UNCHANGED <<world, req, DropBrowser, BrowserDropped, DropServer, alivecount,
                   lookup, hostent, counts, given, uploads>>

\* SendHeader on a kept connection closes the downloader and calls Cache()
\* again, for the host of the last SetDomainAndPort.
CacheAgain ==
    /\ pc = "cache"
    /\ \E m \in Decisions : \E o \in CacheResolves(m, Shut(dl), domain) :
          IF o.result = "dies" THEN NewProcess
          ELSE /\ pc' = "send" /\ mode' = m
               /\ dl' = o.sock /\ hostent' = o.hostent
               /\ UNCHANGED <<world, req, session, BrowserDropped, answer, domain, to,
                              counts, history>>

HeaderSent == pc' = (IF req.body THEN "upload" ELSE "response")

SendHeader ==
    /\ pc = "send"
    /\ \/ /\ mode # "miss" \/ to.peer # None
          /\ HeaderSent /\ UNCHANGED <<answer, DropServer>>
       \/ mode = "miss" /\ Return(-60) /\ DropServer' = TRUE
    /\ UNCHANGED <<world, req, DropBrowser, BrowserDropped, ServerConnected,
                   ConnectedHost, alivecount, lookup, network, counts, history>>

\* The body of the request, from the browser to the origin, also where there is
\* no connection because the object is a hit: then only an empty one passes.
Upload ==
    /\ pc = "upload"
    /\ uploads' = uploads + 1
    /\ \/ Return(-10) /\ BrowserDropped' = TRUE /\ UNCHANGED DropServer
       \/ Return(-76) /\ DropServer' = TRUE /\ UNCHANGED BrowserDropped
       \/ pc' = "response" /\ UNCHANGED <<answer, BrowserDropped, DropServer>>
    /\ UNCHANGED <<world, req, DropBrowser, ServerConnected, ConnectedHost, alivecount,
                   lookup, network, counts, given, tried>>

\* The header of the answer could not be read, or is not that of a part of the
\* partial file, ...
ReadHeaderFails ==
    /\ pc = "response" /\ mode \in {"miss", "resume"}
    /\ Return(-80) /\ DropServer' = TRUE
    /\ UNCHANGED <<world, req, DropBrowser, BrowserDropped, ServerConnected,
                   ConnectedHost, alivecount, lookup, network, counts, history>>

\* What a header says: the length of the body, which may be 0 or (also when it is
\* chunked) not known, whether the origin closes after it, and whether a body
\* follows, which it does not after a 204 or 304.  A hit has a length and is kept
\* open, or is the 304 that answers an If-None-Match.
Announcements(m) ==
    {n \in [length : Lengths, close : BOOLEAN, body : BOOLEAN] :
        /\ n.length = "none" => ~n.body
        /\ m \in {"hit", "resume"} =>
              n.close = (n.length = "unknown") /\ n.body = (n.length = "known")
        /\ m = "rewrite" => n.length = "none" /\ n.close
        /\ m = "redirect" => n.body = (n.length # "none")}

\* ... or says what follows.  A length with chunks is an error, any other
\* nonsense passes.
ReadHeader ==
    /\ pc = "response"
    /\ \E m \in IF mode = "resume" THEN {"resume", "redirect"} ELSE {mode} :
          /\ mode' = m
          /\ \/ /\ \E n \in Announcements(m) :
                      /\ length' = n.length
                      /\ DropServer' = (DropServer \/ n.close)
                      /\ DropBrowser' = (DropBrowser \/ n.length = "unknown")
                      /\ pc' = IF n.body /\ req.kind # "HEAD" THEN "body" ELSE "header"
                /\ UNCHANGED answer
             \/ /\ m \in {"miss", "redirect"} /\ Return(-233) /\ DropServer' = TRUE
                /\ UNCHANGED <<length, DropBrowser>>
    /\ UNCHANGED <<world, req, BrowserDropped, ServerConnected, ConnectedHost, alivecount,
                   domain, network, retries, parts, history>>

\* "No body expected? Not much to be done then."
NoBody ==
    /\ pc = "header"
    /\ \E drop \in BOOLEAN :  \* a body that was not expected
          DropServer' = (DropServer \/ (mode \notin {"hit", "resume"} /\ drop))
    /\ \/ Return(0) /\ given' = "whole" /\ UNCHANGED BrowserDropped
       \/ Return(-10) /\ BrowserDropped' = TRUE /\ UNCHANGED given
    /\ UNCHANGED <<world, req, DropBrowser, ServerConnected, ConnectedHost, alivecount,
                   lookup, network, counts, tried, uploads>>

\* The first part of the body, and with it the header to the browser.  The body of
\* a redirect is not read: line ends stand for it.
FirstPart ==
    /\ pc = "body"
    /\ \/ /\ mode # "redirect" /\ Return(-74) /\ DropServer' = TRUE
          /\ UNCHANGED <<DropBrowser, BrowserDropped, given>>
       \/ /\ mode # "redirect" /\ DropBrowser' = TRUE  \* nothing received
          /\ \/ Return(0) /\ given' = "part" /\ UNCHANGED BrowserDropped
             \/ Return(-10) /\ BrowserDropped' = TRUE /\ UNCHANGED given
          /\ UNCHANGED DropServer
       \/ /\ \/ /\ pc' = "transfer" /\ given' = "part"
                /\ UNCHANGED <<answer, BrowserDropped>>
             \/ Return(-10) /\ BrowserDropped' = TRUE /\ UNCHANGED given
          /\ UNCHANGED <<DropBrowser, DropServer>>
    /\ parts' = 0
    /\ UNCHANGED <<world, req, ServerConnected, ConnectedHost, alivecount, lookup,
                   network, retries, length, tried, uploads>>

\* Variant (mutant): an answer that ends early is an answer.
ShortDrops_Never == FALSE

\* The origin ends before the announced length: close all connections.
ShortDrops == length = "known"

\* The line ends for a redirect without a length never end.
Endless == pc = "transfer" /\ mode = "redirect" /\ length = "unknown"

\* The announced length has been counted.  The line ends are appended to what was
\* sent before, and all of it is sent again: from the second part on the browser is
\* sent more than was announced.
Complete == IF mode = "redirect" /\ parts > 0 THEN "swollen" ELSE "whole"

\* Server Body Transfer Loop: send what was read, then read more.
Transfer ==
    /\ pc = "transfer" /\ ~Endless
    /\ \/ /\ Return(-10) /\ BrowserDropped' = TRUE
          /\ UNCHANGED <<DropBrowser, DropServer, parts, given>>
       \/ /\ length = "known" /\ Return(0) /\ given' = Complete
          /\ \E over \in BOOLEAN :  \* more than Content-Length came
                DropServer' = (DropServer \/ over)
          /\ UNCHANGED <<DropBrowser, BrowserDropped, parts>>
       \/ /\ mode # "redirect" /\ Return(-75) /\ DropServer' = TRUE
          /\ UNCHANGED <<DropBrowser, BrowserDropped, parts, given>>
       \/ /\ mode # "redirect" /\ Return(0)
          /\ DropBrowser' = (DropBrowser \/ ShortDrops)
          /\ given' = IF length = "known" THEN "part" ELSE "whole"
          /\ UNCHANGED <<DropServer, BrowserDropped, parts>>
       \/ /\ parts < MaxParts /\ parts' = parts + 1
          /\ UNCHANGED <<pc, answer, DropBrowser, DropServer, BrowserDropped, given>>
    /\ UNCHANGED <<world, req, ServerConnected, ConnectedHost, alivecount, lookup,
                   network, retries, length, tried, uploads>>

\* The browser leaves an answer that does not end.
BrowserLeaves ==
    /\ Endless
    /\ Return(-10) /\ BrowserDropped' = TRUE
    /\ UNCHANGED <<world, req, session, lookup, network, counts, history>>

-----------------------------------------------------------------------------
(* Proxy(): retries, and the end of the loop.                              *)

\* Variant (mutant): a failed POST is sent once more, too.
Retriable_AnyMethod == answer \in {-80, -60, -61}
Retriable == (answer = -80 /\ req.kind = "GET") \/ answer \in {-60, -61}

\* Variant (mutant): the count is compared before it is raised.
MayRetry_OneMore == retries <= to.ips

\* Variant (mutant): the last address is left out.
MayRetry_OneLess == retries = 0 \/ retries + 1 < to.ips

\* One retry, and more while there are addresses left: ++retries >= IPCount().
MayRetry == retries = 0 \/ retries < to.ips

\* Variant (mutant): nobody counts.
Counted_Not == retries
Counted == retries + 1

Retry ==
    /\ pc = "answered" /\ Retriable /\ MayRetry
    /\ pc' = "begin" /\ retries' = Counted
    /\ ServerConnected' = FALSE /\ to' = Shut(to) /\ dl' = Shut(dl)
    /\ UNCHANGED <<world, req, DropBrowser, BrowserDropped, DropServer, ConnectedHost,
                   alivecount, answer, lookup, hostent, length, parts, history>>

\* ProxyMessage: HeaderSend is never set, so an error page follows whatever
\* the browser has been sent.
Reported ==
    IF answer = 0 \/ BrowserDropped THEN given
    ELSE IF given = "nothing" THEN "message" ELSE "garbled"

EndRequest ==
    /\ pc = "answered" /\ ~(Retriable /\ MayRetry)
    /\ pc' = "idle"
    /\ LET drop == (DropServer /\ ~(retries > 0 /\ answer = 0))
                   \/ DropBrowser \/ BrowserDropped
       IN  /\ ServerConnected' = (ServerConnected /\ ~drop)
           /\ to' = IF drop THEN Shut(to) ELSE to
           /\ dl' = IF drop THEN Shut(dl) ELSE dl
    /\ given' = Reported
    /\ DropBrowser' = (DropBrowser \/ answer # 0)
    /\ UNCHANGED <<world, req, BrowserDropped, DropServer, ConnectedHost, alivecount,
                   answer, lookup, hostent, counts, tried, uploads>>

Step ==
    \/ Begin \/ Resolve \/ ConnectToServer \/ CacheAgain \/ SendHeader \/ Upload
    \/ ReadHeaderFails \/ NoBody \/ ReadHeader \/ FirstPart \/ Transfer
    \/ Retry \/ EndRequest

Next ==
    \/ \E h \in Hosts, k \in Kinds, body, keepalive \in BOOLEAN :
          ReadRequest(h, k, body, keepalive)
    \/ EndSession
    \/ BrowserLeaves
    \/ Step

Spec == Init /\ [][Next]_vars

\* The worker goes on: its sockets have timeouts.  A browser need not leave.
FairSpec == Spec /\ WF_vars(Step)

-----------------------------------------------------------------------------
(* Properties.                                                             *)

Asked == pc \in {"upload", "response", "header", "body", "transfer"}

\* The request for a host goes over a connection to an address of this host,
\* or of the parent proxy, however connections are kept and addresses
\* rotated (proxyhandler.cpp:214, sockethandler.cpp:487).
HeaderReachesHost == Asked /\ mode = "miss" => to.peer \in AddressesOf(ServerName)

\* "Support for multiple IPs in hostnames, all are tried if necessary"
\* (ChangeLog:55): the browser is told that a host is down only when every
\* address has been tried (proxyhandler.cpp:151).
TriesAllAddresses ==
    pc = "answered" /\ answer \in {-60, -61} /\ ~(Retriable /\ MayRetry)
        => AddressesOf(ServerName) \subseteq tried

\* No retry of anything but a GET reads the body of the request from the browser a
\* second time, or sends an origin what it may have acted upon (proxyhandler.cpp:136).
\* A GET with a Content-Length has its body read again by each retry.
UploadsOnce == req.kind # "GET" => uploads <= 1

\* A browser whose connection is kept has been sent one whole answer, and
\* nothing else (proxyhandler.cpp:466), unless it was the redirect of a resumed
\* object with a body of three bytes or more (connectiontohttp2.cpp:432).
KeptInSync ==
    pc = "idle" /\ alivecount > 0 /\ ~DropBrowser /\ ~BrowserDropped =>
        given = "whole" \/ (given = "swollen" /\ mode = "redirect")

\* Without a parent proxy the cache is asked for the object of the host that
\* the browser named, on kept connections too (connectiontohttp2.cpp:236).
KeyIsHost == Asked /\ ~world.UseParentProxy => domain = req.host

\* "Fix possible retry loop and hang" (ChangeLog:15): every request ends, but for
\* the redirect of a resumed object that has no length, which goes on while the
\* browser stays (connectiontohttp2.cpp:432).
RequestsEnd == pc # "idle" ~> pc = "idle" \/ Endless
=============================================================================
