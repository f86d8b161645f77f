------------------------- MODULE ProxySessionProofs -------------------------
(***************************************************************************)
(* What holds of a session for every set of hosts, number of addresses and *)
(* configuration.  Each property has an invariant of its own, which says   *)
(* what the places before and after a retry have in common.                *)
(***************************************************************************)
EXTENDS ProxySession, TLAPS

-----------------------------------------------------------------------------
(* The variables keep their types.  What carries the proof is where the    *)
(* two resolvers may stand: the index into the list of addresses, and the  *)
(* host that is looked up when the header of a request is sent.            *)

\* A resolver that holds a name: its index is below the count of a list that
\* gethostbyname() has found, and it has an address.
Holds(s, found) ==
    s.LastHost # None =>
        found # None /\ s.ips \in 1..MAXIPS /\ s.ip_count < s.ips /\ s.addr \in Address

Resolver(s) == Holds(s, hostent)

ResolverInv ==
    /\ Resolver(to) /\ Resolver(dl)
    /\ pc = "connect" /\ mode \in {"miss", "rewrite"} => to.addr \in Address
    /\ pc = "connect" \/ pc = "cache" \/ ServerConnected => domain \in Names

TypeInv == TypeOK /\ ResolverInv

\* The types of what is not about addresses.
Flags ==
    /\ DropBrowser \in BOOLEAN /\ BrowserDropped \in BOOLEAN
    /\ DropServer \in BOOLEAN /\ ServerConnected \in BOOLEAN

Values ==
    /\ pc \in Places
    /\ req \in [host : Hosts, kind : Kinds, body : BOOLEAN]
    /\ alivecount \in 0..(MAXALIVE + 1)
    /\ answer \in Answers
    /\ retries \in 0..MAXIPS
    /\ length \in Lengths
    /\ parts \in 0..MaxParts
    /\ given \in {"nothing", "part", "whole", "swollen", "message", "garbled"}
    /\ uploads \in Nat

Addresses ==
    /\ world \in World
    /\ ConnectedHost \in Names \cup {None}
    /\ domain \in Names \cup {None}
    /\ mode \in Modes
    /\ to \in Socket /\ dl \in Socket
    /\ hostent \in Names \cup {None}
    /\ tried \subseteq Address

LEMMA MAXIPSInt == MAXIPS \in Nat /\ MAXIPS >= 1
  BY SessionAssumption

\* What SetDomainAndPort() returns, on either socket.
LEMMA ResolvesTo ==
  ASSUME TypeOK, NEW s \in Socket, Resolver(s), NEW h \in Names,
         NEW o \in SetDomainAndPort(s, h), o.result # "dies"
  PROVE  /\ o.sock \in Socket /\ o.hostent \in Names \cup {None}
         /\ hostent # None => o.hostent # None
         /\ Holds(o.sock, o.hostent)
         /\ o.result = "ok" => o.sock.addr \in Address
<1> USE MAXIPSInt, SessionAssumption DEF Holds
<1>1. world.NumIPs \in [Names -> 1..MAXIPS]
  BY DEF TypeOK, World
<1>2. CASE h \in Literals
  <2>1. o = [result |-> "ok", hostent |-> hostent,
             sock |-> [s EXCEPT !.LastHost = None, !.addr = <<h, 0>>]]
    BY <1>2 DEF SetDomainAndPort
  <2>2. <<h, 0>> \in Address
    BY DEF Address
  <2>3. QED
    BY <2>1, <2>2 DEF Socket, TypeOK
<1>3. CASE h \notin Literals /\ s.LastHost = h /\ s.ips = 1
  <2>1. o = [result |-> "ok", sock |-> s, hostent |-> hostent]
    BY <1>3 DEF SetDomainAndPort
  <2>2. s.LastHost # None /\ o.sock = s /\ o.hostent = hostent
    BY <1>3, <2>1
  <2>3. QED
    BY <2>2 DEF TypeOK, Resolver
<1>4. CASE h \notin Literals /\ s.LastHost = h /\ s.ips # 1
  <2> DEFINE i == IF s.ip_count + 1 = s.ips THEN 0 ELSE s.ip_count + 1
  <2>1. o = NextIP(s)
    BY <1>4 DEF SetDomainAndPort
  <2>2. h # None /\ hostent \in Names /\ s.ips \in 1..MAXIPS /\ s.ip_count < s.ips
    BY <1>4 DEF Resolver, TypeOK
  <2>3. s.ip_count \in 0..(MAXIPS - 1)
    BY DEF Socket
  <2>4. i \in 0..(MAXIPS - 1) /\ i < s.ips
    BY <2>2, <2>3
  <2>5. <<hostent, i>> \in Address
    BY <2>2, <2>4 DEF Address
  <2> HIDE DEF i
  <2>6. /\ o.hostent = hostent
        /\ o.sock = [s EXCEPT !.ip_count = i, !.addr = <<hostent, i>>]
    BY <2>1 DEF NextIP, i
  <2>7. QED
    BY <2>2, <2>4, <2>5, <2>6 DEF Socket
<1>5. CASE h \notin Literals /\ s.LastHost # h
  <2>1. \/ o = [result |-> "ok", hostent |-> h,
               sock |-> [s EXCEPT !.LastHost = h, !.ips = world.NumIPs[h],
                                  !.ip_count = 0, !.addr = <<h, 0>>]]
        \/ o = [result |-> "fail", hostent |-> hostent, sock |-> [s EXCEPT !.LastHost = None]]
    BY <1>5 DEF SetDomainAndPort
  <2>2. <<h, 0>> \in Address /\ world.NumIPs[h] \in 1..MAXIPS
    BY <1>1 DEF Address
  <2>3. CASE o = [result |-> "fail", hostent |-> hostent, sock |-> [s EXCEPT !.LastHost = None]]
    BY <2>3 DEF Socket, TypeOK
  <2>4. ASSUME NEW n \in 1..MAXIPS, NEW a \in Address,
               o = [result |-> "ok", hostent |-> h,
                    sock |-> [s EXCEPT !.LastHost = h, !.ips = n,
                                       !.ip_count = 0, !.addr = a]]
        PROVE  /\ o.sock \in Socket /\ o.hostent \in Names /\ o.hostent # None
               /\ o.sock.ips \in 1..MAXIPS /\ o.sock.ip_count < o.sock.ips
               /\ o.sock.addr \in Address
    <3>1. o.sock = [s EXCEPT !.LastHost = h, !.ips = n, !.ip_count = 0, !.addr = a]
      BY <2>4
    <3>2. 0 \in 0..(MAXIPS - 1) /\ n \in 0..MAXIPS /\ 0 < n
      OBVIOUS
    <3>3. QED
      BY <2>4, <3>1, <3>2 DEF Socket
  <2>5. QED
    BY <2>1, <2>2, <2>3, <2>4
<1>6. QED
  BY <1>2, <1>3, <1>4, <1>5

\* The downloader is resolved for a resumed file only.
LEMMA CacheResolved ==
  ASSUME TypeInv, NEW m, NEW d \in Socket, Resolver(d), NEW h \in Names,
         NEW o \in CacheResolves(m, d, h), o.result # "dies"
  PROVE  /\ o.sock \in Socket /\ o.hostent \in Names \cup {None}
         /\ hostent # None => o.hostent # None
         /\ Holds(o.sock, o.hostent)
<1>1. CASE m = "resume"
  BY <1>1, ResolvesTo DEF CacheResolves, TypeInv
<1>2. CASE m # "resume"
  BY <1>2 DEF CacheResolves, TypeInv, TypeOK, Resolver
<1>3. QED
  BY <1>1, <1>2

\* A new process has nothing to resolve and nobody to serve.
LEMMA FreshProcess == ASSUME TypeInv, NewProcess PROVE TypeInv'
<1>1. NoSocket \in Socket
  BY MAXIPSInt DEF Socket, NoSocket
<1>2. TypeOK'
  <2>1. /\ DropBrowser' \in BOOLEAN /\ BrowserDropped' \in BOOLEAN
        /\ DropServer' \in BOOLEAN /\ ServerConnected' \in BOOLEAN
    BY Zenon DEF NewProcess
  <2>2. /\ 0 \in 0..(MAXALIVE + 1) /\ 0 \in 0..MAXIPS /\ 0 \in 0..MaxParts
        /\ None \in Names \cup {None} /\ "miss" \in Modes /\ "known" \in Lengths
    BY SessionAssumption DEF Modes, Lengths
  <2>3. QED
    BY <1>1, <2>1, <2>2 DEF NewProcess, TypeInv, TypeOK, Places, Answers
<1>3. ResolverInv'
  BY DEF NewProcess, ResolverInv, Resolver, Holds, NoSocket
<1>4. QED
  BY <1>2, <1>3 DEF TypeInv

\* Closing a socket leaves its resolver alone.
LEMMA ShutSocket ==
  ASSUME NEW s \in Socket
  PROVE  /\ Shut(s) \in Socket
         /\ Shut(s).LastHost = s.LastHost /\ Shut(s).ips = s.ips
         /\ Shut(s).ip_count = s.ip_count /\ Shut(s).addr = s.addr
  BY DEF Shut, Socket

\* Once the header is sent nothing is resolved any more.
LEMMA SameAddresses ==
  ASSUME TypeInv, UNCHANGED <<world, ConnectedHost, domain, network>>, tried' \subseteq tried,
         mode' \in Modes,
         Flags', Values', pc' \notin {"connect", "cache"}, ServerConnected' => ServerConnected
  PROVE  TypeInv'
<1>1. Addresses'
  <2>1. World' = World /\ Socket' = Socket
    BY DEF World, Socket, Address
  <2>2. QED
    BY <2>1 DEF Addresses, TypeInv, TypeOK, lookup, network
<1>2. TypeOK'
  BY <1>1 DEF TypeOK, Flags, Values, Addresses
<1>3. ResolverInv'
  BY DEF TypeInv, ResolverInv, Resolver, Holds, lookup, network
<1>4. QED
  BY <1>2, <1>3 DEF TypeInv

\* The steps of a request after its header is sent.
LEMMA RestOfRequest ==
  ASSUME TypeInv,
         \/ SendHeader \/ Upload \/ ReadHeaderFails \/ NoBody \/ ReadHeader \/ FirstPart
         \/ Transfer \/ BrowserLeaves
  PROVE  TypeInv'
<1>a. Flags /\ Values /\ mode \in Modes
  BY DEF TypeInv, TypeOK, Flags, Values
<1> USE DEF session, network, history, lookup, counts, Return
<1>1. CASE SendHeader
  <2>1. Flags'
    BY <1>a, <1>1, Zenon DEF SendHeader, Flags
  <2>2. Values'
    BY <1>a, <1>1 DEF SendHeader, HeaderSent, Values, Places, Answers
  <2>3. QED
    BY <1>a, <1>1, <2>1, <2>2, SameAddresses DEF SendHeader, HeaderSent
<1>2. CASE Upload
  <2>1. Flags'
    BY <1>a, <1>2, Zenon DEF Upload, Flags
  <2>2. Values'
    BY <1>a, <1>2 DEF Upload, Values, Places, Answers
  <2>3. QED
    BY <1>a, <1>2, <2>1, <2>2, SameAddresses DEF Upload
<1>3. CASE ReadHeaderFails
  <2>1. Flags'
    BY <1>a, <1>3, Zenon DEF ReadHeaderFails, Flags
  <2>2. Values'
    BY <1>a, <1>3 DEF ReadHeaderFails, Values, Places, Answers
  <2>3. QED
    BY <1>a, <1>3, <2>1, <2>2, SameAddresses DEF ReadHeaderFails
<1>4. CASE NoBody
  <2>1. DropServer' \in BOOLEAN
    <3>1. PICK drop \in BOOLEAN :
            DropServer' = (DropServer \/ (mode \notin {"hit", "resume"} /\ drop))
      BY <1>4 DEF NoBody
    <3>2. QED
      BY <3>1, (DropServer \/ (mode \notin {"hit", "resume"} /\ drop)) \in BOOLEAN
  <2>2. Flags'
    BY <1>a, <1>4, <2>1, Zenon DEF NoBody, Flags
  <2>3. Values'
    BY <1>a, <1>4 DEF NoBody, Values, Places, Answers
  <2>4. QED
    BY <1>a, <1>4, <2>2, <2>3, SameAddresses DEF NoBody
<1>5. CASE ReadHeader
  <2>1. PICK m \in IF mode = "resume" THEN {"resume", "redirect"} ELSE {mode} :
          /\ mode' = m
          /\ \/ /\ \E n \in Announcements(m) :
                      /\ length' = n.length
                      /\ DropServer' = (DropServer \/ n.close)
                      /\ DropBrowser' = (DropBrowser \/ n.length = "unknown")
                      /\ pc' = IF n.body /\ req.kind # "HEAD" THEN "body" ELSE "header"
                /\ UNCHANGED answer
             \/ /\ m \in {"miss", "redirect"} /\ Return(-233) /\ DropServer' = TRUE
                /\ UNCHANGED <<length, DropBrowser>>
    BY <1>5, Zenon DEF ReadHeader
  <2>2. mode' \in Modes
    BY <1>a, <2>1 DEF Modes
  <2>3. CASE m \in {"miss", "redirect"} /\ Return(-233) /\ DropServer' = TRUE
             /\ UNCHANGED <<length, DropBrowser>>
    <3>1. Flags'
      BY <1>a, <1>5, <2>3, Zenon DEF ReadHeader, Flags
    <3>2. Values'
      BY <1>a, <1>5, <2>3 DEF ReadHeader, Values, Places, Answers
    <3>3. QED
      BY <1>5, <2>2, <2>3, <3>1, <3>2, SameAddresses DEF ReadHeader
  <2>4. CASE /\ \E n \in Announcements(m) :
                /\ length' = n.length
                /\ DropServer' = (DropServer \/ n.close)
                /\ DropBrowser' = (DropBrowser \/ n.length = "unknown")
                /\ pc' = IF n.body /\ req.kind # "HEAD" THEN "body" ELSE "header"
             /\ UNCHANGED answer
    <3>1. PICK n \in Announcements(m) :
            /\ length' = n.length
            /\ DropServer' = (DropServer \/ n.close)
            /\ DropBrowser' = (DropBrowser \/ n.length = "unknown")
            /\ pc' = IF n.body /\ req.kind # "HEAD" THEN "body" ELSE "header"
      BY <2>4
    <3>2. n.length \in Lengths /\ pc' \in {"header", "body"}
      BY <3>1 DEF Announcements
    <3>3. DropServer' \in BOOLEAN /\ DropBrowser' \in BOOLEAN
      <4>1. (DropServer \/ n.close) \in BOOLEAN /\ (DropBrowser \/ n.length = "unknown") \in BOOLEAN
        OBVIOUS
      <4>2. QED
        BY <3>1, <4>1
    <3>4. Flags'
      BY <1>a, <1>5, <3>3, Zenon DEF ReadHeader, Flags
    <3>5. Values'
      BY <1>a, <1>5, <2>4, <3>1, <3>2 DEF ReadHeader, Values, Places
    <3>6. QED
      BY <1>5, <2>2, <3>2, <3>4, <3>5, SameAddresses DEF ReadHeader
  <2>5. QED
    BY <2>1, <2>3, <2>4
<1>6. CASE FirstPart
  <2>1. Flags'
    BY <1>a, <1>6, Zenon DEF FirstPart, Flags
  <2>2. Values'
    <3>1. pc' \in Places /\ answer' \in Answers
      BY <1>a, <1>6 DEF FirstPart, Values, Places, Answers
    <3>2. given' \in {"nothing", "part", "whole", "swollen", "message", "garbled"}
      BY <1>a, <1>6 DEF FirstPart, Values
    <3>3. QED
      BY <1>a, <1>6, <3>1, <3>2, SessionAssumption DEF FirstPart, Values
  <2>3. QED
    BY <1>a, <1>6, <2>1, <2>2, SameAddresses DEF FirstPart
<1>7. CASE Transfer
  <2>1. DropServer' \in BOOLEAN
    <3>1. CASE \E over \in BOOLEAN : DropServer' = (DropServer \/ over)
      <4>1. PICK over \in BOOLEAN : DropServer' = (DropServer \/ over)
        BY <3>1
      <4>2. (DropServer \/ over) \in BOOLEAN
        OBVIOUS
      <4>3. QED
        BY <4>1, <4>2
    <3>2. CASE UNCHANGED DropServer \/ DropServer' = TRUE
      BY <1>a, <3>2, Zenon DEF Flags
    <3>3. QED
      BY <1>7, <3>1, <3>2 DEF Transfer
  <2>2. DropBrowser' \in BOOLEAN
    <3>1. CASE DropBrowser' = (DropBrowser \/ ShortDrops)
      BY <3>1, (DropBrowser \/ ShortDrops) \in BOOLEAN
    <3>2. CASE UNCHANGED DropBrowser
      BY <1>a, <3>2, Zenon DEF Flags
    <3>3. QED
      BY <1>7, <3>1, <3>2 DEF Transfer
  <2>3. BrowserDropped' \in BOOLEAN
    BY <1>a, <1>7, Zenon DEF Transfer, Flags
  <2>4. Flags'
    BY <1>a, <1>7, <2>1, <2>2, <2>3, Zenon DEF Transfer, Flags
  <2>5. Values'
    <3>1. pc' \in Places /\ answer' \in Answers
      BY <1>a, <1>7 DEF Transfer, Values, Places, Answers
    <3>2. given' \in {"nothing", "part", "whole", "swollen", "message", "garbled"}
      BY <1>a, <1>7 DEF Transfer, Complete, Values
    <3>3. parts' \in 0..MaxParts
      BY <1>a, <1>7, SessionAssumption DEF Transfer, Values
    <3>4. QED
      BY <1>a, <1>7, <3>1, <3>2, <3>3 DEF Transfer, Values
  <2>6. pc' \notin {"connect", "cache"}
    BY <1>7 DEF Transfer
  <2>7. QED
    BY <1>a, <1>7, <2>4, <2>5, <2>6, SameAddresses DEF Transfer
<1>8. CASE BrowserLeaves
  <2>1. Flags'
    BY <1>a, <1>8, Zenon DEF BrowserLeaves, Flags
  <2>2. Values'
    BY <1>a, <1>8 DEF BrowserLeaves, Values, Places, Answers
  <2>3. QED
    BY <1>a, <1>8, <2>1, <2>2, SameAddresses DEF BrowserLeaves
<1>9. QED
  BY <1>1, <1>2, <1>3, <1>4, <1>5, <1>6, <1>7, <1>8

\* The steps that resolve: whatever they come to, the addresses are of the types.
LEMMA RequestReaches ==
  ASSUME TypeInv, Flags', Values', Addresses', Resolver(to)', Resolver(dl)',
         pc' = "connect" /\ mode' \in {"miss", "rewrite"} => to'.addr \in Address,
         pc' \in {"connect", "cache"} \/ ServerConnected' => domain' \in Names
  PROVE  TypeInv'
<1>1. TypeOK'
  BY DEF TypeOK, Flags, Values, Addresses
<1>2. ResolverInv'
  BY DEF ResolverInv
<1>3. QED
  BY <1>1, <1>2 DEF TypeInv

LEMMA SameTypes == World' = World /\ Socket' = Socket /\ Address' = Address
  BY DEF World, Socket, Address

LEMMA AnsweredTypes ==
  ASSUME TypeInv, Retry \/ EndRequest
  PROVE  TypeInv'
<1>a. Flags /\ Values /\ Addresses /\ Resolver(to) /\ Resolver(dl)
  BY DEF TypeInv, TypeOK, Flags, Values, Addresses, ResolverInv
<1>b. /\ Shut(to) \in Socket /\ Shut(dl) \in Socket
      /\ Resolver(Shut(to)) /\ Resolver(Shut(dl))
  BY <1>a, ShutSocket DEF Resolver, Holds, Addresses
<1> USE DEF session, network, history, lookup, counts
<1>1. CASE Retry
  <2>1. Flags'
    BY <1>a, <1>1, Zenon DEF Retry, Flags
  <2>2. retries' \in 0..MAXIPS
    <3>1. retries' = retries + 1 /\ (retries = 0 \/ retries < to.ips)
      BY <1>1 DEF Retry, Counted, MayRetry
    <3>2. to.ips \in 0..MAXIPS
      BY <1>a DEF Addresses, Socket
    <3>3. QED
      BY <1>a, <3>1, <3>2, MAXIPSInt DEF Values
  <2>3. Values'
    BY <1>a, <1>1, <2>2 DEF Retry, Values, Places
  <2>4. to' = Shut(to) /\ dl' = Shut(dl) /\ UNCHANGED <<world, ConnectedHost, lookup, hostent, tried>>
    BY <1>1 DEF Retry
  <2>5. Addresses'
    BY <1>a, <1>b, <2>4, SameTypes DEF Addresses
  <2>6. Resolver(to)' /\ Resolver(dl)'
    BY <1>b, <2>4 DEF Resolver, Holds
  <2>7. QED
    BY <1>1, <2>1, <2>3, <2>5, <2>6, RequestReaches DEF Retry
<1>2. CASE EndRequest
  <2> DEFINE drop == (DropServer /\ ~(retries > 0 /\ answer = 0)) \/ DropBrowser \/ BrowserDropped
  <2>1. /\ ServerConnected' = (ServerConnected /\ ~drop)
        /\ to' = IF drop THEN Shut(to) ELSE to
        /\ dl' = IF drop THEN Shut(dl) ELSE dl
    BY <1>2 DEF EndRequest
  <2>2. ServerConnected' \in BOOLEAN
    BY <2>1, (ServerConnected /\ ~drop) \in BOOLEAN
  <2>3. DropBrowser' \in BOOLEAN
    BY <1>2, (DropBrowser \/ answer # 0) \in BOOLEAN DEF EndRequest
  <2>4. Flags'
    BY <1>a, <1>2, <2>2, <2>3, Zenon DEF EndRequest, Flags
  <2>5. Values'
    BY <1>a, <1>2 DEF EndRequest, Values, Places, Reported
  <2>6. UNCHANGED <<world, ConnectedHost, lookup, hostent, tried>>
    BY <1>2 DEF EndRequest
  <2> HIDE DEF drop
  <2>7. Addresses'
    BY <1>a, <1>b, <2>1, <2>6, SameTypes DEF Addresses
  <2>8. Resolver(to)' /\ Resolver(dl)'
    BY <1>a, <1>b, <2>1, <2>6 DEF Resolver, Holds
  <2>9. ServerConnected' => ServerConnected
    BY <2>1
  <2>10. QED
    BY <1>2, <2>4, <2>5, <2>6, <2>7, <2>8, <2>9, RequestReaches DEF EndRequest, TypeInv, ResolverInv
<1>3. QED
  BY <1>1, <1>2

\* The steps that look for the host of the request and connect to it.
LEMMA RequestResolves ==
  ASSUME TypeInv, Begin \/ Resolve \/ ConnectToServer \/ CacheAgain
  PROVE  TypeInv'
<1>a. /\ Flags /\ Values /\ Addresses /\ Resolver(to) /\ Resolver(dl)
      /\ ServerName \in Names /\ None \notin Names
  BY SessionAssumption
  DEF TypeInv, TypeOK, Flags, Values, Addresses, ResolverInv, ServerName, Names
<1>b. /\ Shut(to) \in Socket /\ Shut(dl) \in Socket
      /\ Resolver(Shut(to)) /\ Resolver(Shut(dl))
  BY <1>a, ShutSocket DEF Resolver, Holds, Addresses
<1> USE DEF session, network, history, lookup, counts, Return, Holds
<1>1. CASE Begin
  <2>1. Flags'
    BY <1>a, <1>1, Zenon DEF Begin, Flags
  <2>2. Values'
    BY <1>a, <1>1 DEF Begin, Values, Places, Answers
  <2>3. /\ to' = to \/ to' = Shut(to)
        /\ dl' = dl \/ dl' = Shut(dl)
        /\ UNCHANGED <<world, ConnectedHost, lookup, hostent, tried>>
    BY <1>1 DEF Begin
  <2>4. Addresses'
    BY <1>a, <1>b, <2>3, SameTypes DEF Addresses
  <2>5. Resolver(to)' /\ Resolver(dl)'
    BY <1>a, <1>b, <2>3 DEF Resolver
  <2>6. /\ pc' \notin {"connect"}
        /\ pc' = "cache" \/ ServerConnected' => ServerConnected
    BY <1>1 DEF Begin
  <2>7. QED
    BY <2>1, <2>2, <2>3, <2>4, <2>5, <2>6, RequestReaches DEF TypeInv, ResolverInv
<1>2. CASE Resolve
  <2>0. PICK m \in Decisions :
          \/ /\ m \in {"hit", "resume"}
             /\ \E o \in CacheResolves(m, dl, ServerName) :
                   IF o.result = "dies" THEN NewProcess
                   ELSE /\ pc' = "connect" /\ domain' = ServerName /\ mode' = m
                        /\ dl' = o.sock /\ hostent' = o.hostent
                        /\ UNCHANGED <<to, answer, world, req, session,
                                       BrowserDropped, counts, history>>
          \/ /\ m \in {"miss", "rewrite"}
             /\ \E o \in SetDomainAndPort(to, ServerName) :
                   IF o.result = "dies" THEN NewProcess
                   ELSE /\ IF o.result = "ok"
                              THEN pc' = "connect" /\ UNCHANGED answer
                              ELSE Return(IF world.UseParentProxy THEN -51 ELSE -50)
                        /\ domain' = ServerName /\ mode' = m
                        /\ to' = o.sock /\ hostent' = o.hostent
                        /\ UNCHANGED <<dl, world, req, session, BrowserDropped,
                                       counts, history>>
    BY <1>2, Zenon DEF Resolve
  <2>m. m \in Modes
    BY DEF Decisions, Modes
  <2>1. ASSUME NewProcess PROVE TypeInv'
    BY <2>1, FreshProcess
  <2>2. ASSUME NEW o \in CacheResolves(m, dl, ServerName), m \in {"hit", "resume"},
               o.result # "dies",
               /\ pc' = "connect" /\ domain' = ServerName /\ mode' = m
               /\ dl' = o.sock /\ hostent' = o.hostent
               /\ UNCHANGED <<to, answer, world, req, session, BrowserDropped, counts, history>>
        PROVE  TypeInv'
    <3>1. Flags'
      BY <1>a, <2>2, Zenon DEF Flags
    <3>2. Values'
      BY <1>a, <2>2 DEF Values, Places
    <3>3. /\ o.sock \in Socket /\ o.hostent \in Names \cup {None}
          /\ hostent # None => o.hostent # None
          /\ Holds(o.sock, o.hostent)
      BY <1>a, <2>2, CacheResolved DEF Addresses
    <3>4. Addresses'
      BY <1>a, <2>m, <2>2, <3>3, SameTypes DEF Addresses
    <3>5. Resolver(to)' /\ Resolver(dl)'
      BY <1>a, <2>2, <3>3 DEF Resolver
    <3>6. QED
      BY <1>a, <2>2, <3>1, <3>2, <3>4, <3>5, RequestReaches
  <2>3. ASSUME NEW o \in SetDomainAndPort(to, ServerName), m \in {"miss", "rewrite"},
               o.result # "dies",
               /\ IF o.result = "ok"
                     THEN pc' = "connect" /\ UNCHANGED answer
                     ELSE Return(IF world.UseParentProxy THEN -51 ELSE -50)
               /\ domain' = ServerName /\ mode' = m
               /\ to' = o.sock /\ hostent' = o.hostent
               /\ UNCHANGED <<dl, world, req, session, BrowserDropped, counts, history>>
        PROVE  TypeInv'
    <3>1. Flags'
      BY <1>a, <2>3, Zenon DEF Flags
    <3>2. Values'
      BY <1>a, <2>3 DEF Values, Places, Answers
    <3>3. /\ o.sock \in Socket /\ o.hostent \in Names \cup {None}
          /\ hostent # None => o.hostent # None
          /\ Holds(o.sock, o.hostent)
      BY <1>a, <2>3, ResolvesTo DEF Addresses, TypeInv
    <3>4. Addresses'
      BY <1>a, <2>m, <2>3, <3>3, SameTypes DEF Addresses
    <3>5. Resolver(to)' /\ Resolver(dl)'
      BY <1>a, <2>3, <3>3 DEF Resolver
    <3>6. pc' = "connect" => to'.addr \in Address
      <4>1. o.result = "ok" => o.sock.addr \in Address
        BY <1>a, <2>3, ResolvesTo DEF Addresses, TypeInv
      <4>2. QED
        BY <2>3, <4>1 DEF Return
    <3>7. QED
      BY <1>a, <2>3, <3>1, <3>2, <3>4, <3>5, <3>6, RequestReaches
  <2>4. QED
    BY <2>0, <2>1, <2>2, <2>3
<1>3. CASE ConnectToServer
  <2>1. pc = "connect"
    BY <1>3 DEF ConnectToServer
  <2>2. Flags'
    BY <1>a, <1>3, Zenon DEF ConnectToServer, Connected, Flags
  <2>3. Values'
    BY <1>a, <1>3 DEF ConnectToServer, Connected, Values, Places, Answers
  <2>4. /\ to' = to \/ to' = Shut(to) \/ (mode = "miss" /\ to' = [to EXCEPT !.peer = to.addr])
        /\ dl' = dl \/ dl' = Shut(dl) \/ dl' = [dl EXCEPT !.peer = dl.addr]
        /\ tried' = tried \/ (mode = "miss" /\ tried' = tried \cup {to.addr})
        /\ ConnectedHost' = ConnectedHost \/ ConnectedHost' = req.host
        /\ UNCHANGED <<world, lookup, hostent>>
    <3>1. to' = to \/ to' = Shut(to) \/ (mode = "miss" /\ to' = [to EXCEPT !.peer = to.addr])
      BY <1>3 DEF ConnectToServer
    <3>2. dl' = dl \/ dl' = Shut(dl) \/ dl' = [dl EXCEPT !.peer = dl.addr]
      BY <1>3 DEF ConnectToServer
    <3>3. tried' = tried \/ (mode = "miss" /\ tried' = tried \cup {to.addr})
      BY <1>3 DEF ConnectToServer
    <3>4. ConnectedHost' = ConnectedHost \/ ConnectedHost' = req.host
      BY <1>3 DEF ConnectToServer, Connected
    <3>5. UNCHANGED <<world, lookup, hostent>>
      BY <1>3 DEF ConnectToServer
    <3>6. QED
      BY <3>1, <3>2, <3>3, <3>4, <3>5
  <2>5. [to EXCEPT !.peer = to.addr] \in Socket /\ [dl EXCEPT !.peer = dl.addr] \in Socket
    BY <1>a DEF Addresses, Socket
  <2>6. Addresses'
    <3>1. to' \in Socket /\ dl' \in Socket
      BY <1>a, <1>b, <2>4, <2>5 DEF Addresses
    <3>2. tried' \subseteq Address
      BY <1>a, <2>1, <2>4 DEF Addresses, TypeInv, ResolverInv
    <3>3. ConnectedHost' \in Names \cup {None}
      BY <1>a, <2>4 DEF Addresses, Values, Names
    <3>4. QED
      BY <1>a, <2>4, <3>1, <3>2, <3>3, SameTypes DEF Addresses
  <2>7. Resolver(to)' /\ Resolver(dl)'
    BY <1>a, <1>b, <2>4 DEF Resolver, Addresses, Socket
  <2>8. pc' \notin {"connect", "cache"} /\ domain' \in Names
    BY <1>3, <2>1 DEF ConnectToServer, Connected, TypeInv, ResolverInv
  <2>9. QED
    BY <2>2, <2>3, <2>6, <2>7, <2>8, RequestReaches
<1>4. CASE CacheAgain
  <2>p. PICK m \in Decisions : \E o \in CacheResolves(m, Shut(dl), domain) :
          IF o.result = "dies" THEN NewProcess
          ELSE /\ pc' = "send" /\ mode' = m
               /\ dl' = o.sock /\ hostent' = o.hostent
               /\ UNCHANGED <<world, req, session, BrowserDropped, answer, domain, to,
                              counts, history>>
    BY <1>4, Zenon DEF CacheAgain
  <2>0. PICK o \in CacheResolves(m, Shut(dl), domain) :
          IF o.result = "dies" THEN NewProcess
          ELSE /\ pc' = "send" /\ mode' = m
               /\ dl' = o.sock /\ hostent' = o.hostent
               /\ UNCHANGED <<world, req, session, BrowserDropped, answer, domain, to,
                              counts, history>>
    BY <2>p, Zenon
  <2>m. m \in Modes /\ domain \in Names
    BY <1>4 DEF Decisions, Modes, CacheAgain, TypeInv, ResolverInv
  <2>1. CASE o.result = "dies"
    BY <2>0, <2>1, FreshProcess
  <2>2. CASE o.result # "dies"
    <3>0. /\ pc' = "send" /\ mode' = m
          /\ dl' = o.sock /\ hostent' = o.hostent
          /\ UNCHANGED <<world, req, session, BrowserDropped, answer, domain, to,
                         counts, history>>
      BY <2>0, <2>2
    <3>1. Flags'
      BY <1>a, <3>0, Zenon DEF Flags
    <3>2. Values'
      BY <1>a, <3>0 DEF Values, Places
    <3>3. /\ o.sock \in Socket /\ o.hostent \in Names \cup {None}
          /\ hostent # None => o.hostent # None
          /\ Holds(o.sock, o.hostent)
      BY <1>b, <2>m, <2>2, CacheResolved
    <3>4. Addresses'
      BY <1>a, <2>m, <3>0, <3>3, SameTypes DEF Addresses
    <3>5. Resolver(to)' /\ Resolver(dl)'
      BY <1>a, <3>0, <3>3 DEF Resolver
    <3>6. QED
      BY <2>m, <3>0, <3>1, <3>2, <3>4, <3>5, RequestReaches
  <2>3. QED
    BY <2>1, <2>2
<1>5. QED
  BY <1>1, <1>2, <1>3, <1>4

\* The types together with where the resolvers stand are inductive.
LEMMA TypesHold == Spec => []TypeInv
<1>1. Init => TypeInv
  <2> SUFFICES ASSUME Init PROVE TypeInv
    OBVIOUS
  <2>1. NoSocket \in Socket
    BY MAXIPSInt DEF Socket, NoSocket
  <2>2. TypeOK
    <3>1. /\ DropBrowser \in BOOLEAN /\ BrowserDropped \in BOOLEAN
          /\ DropServer \in BOOLEAN /\ ServerConnected \in BOOLEAN
      BY Zenon DEF Init
    <3>2. /\ 0 \in 0..(MAXALIVE + 1) /\ 0 \in 0..MAXIPS /\ 0 \in 0..MaxParts
          /\ None \in Names \cup {None} /\ world \in World
          /\ "miss" \in Modes /\ "known" \in Lengths /\ "GET" \in Kinds
      BY SessionAssumption DEF Init, Modes, Lengths, Kinds
    <3>3. req \in [host : Hosts, kind : Kinds, body : BOOLEAN]
      BY DEF Init, Kinds
    <3>4. QED
      BY <2>1, <3>1, <3>2, <3>3 DEF Init, TypeOK, Places, Answers
  <2>3. ResolverInv
    BY DEF Init, ResolverInv, Resolver, Holds, NoSocket
  <2>4. QED
    BY <2>2, <2>3 DEF TypeInv
<1>2. TypeInv /\ [Next]_vars => TypeInv'
  <2> SUFFICES ASSUME TypeInv, [Next]_vars PROVE TypeInv'
    OBVIOUS
  <2>1. ASSUME NEW h \in Hosts, NEW k \in Kinds, NEW body \in BOOLEAN, NEW keepalive \in BOOLEAN,
               ReadRequest(h, k, body, keepalive)
        PROVE  TypeInv'
    <3>a. Flags /\ Values
      BY DEF TypeInv, TypeOK, Flags, Values
    <3>1. alivecount' \in 0..(MAXALIVE + 1)
      BY <2>1, <3>a, SessionAssumption DEF ReadRequest, Values
    <3>2. DropBrowser' \in BOOLEAN
      <4>1. PICK more \in BOOLEAN :
              DropBrowser' = (~keepalive \/ k # "GET" \/ (alivecount' > MAXALIVE /\ ~more))
        BY <2>1 DEF ReadRequest
      <4>2. (~keepalive \/ k # "GET" \/ (alivecount' > MAXALIVE /\ ~more)) \in BOOLEAN
        OBVIOUS
      <4>3. QED
        BY <4>1, <4>2
    <3>3. Flags'
      BY <2>1, <3>a, <3>2, Zenon DEF ReadRequest, Flags
    <3>4. Values'
      BY <2>1, <3>a, <3>1, SessionAssumption DEF ReadRequest, Values, Places, Answers
    <3>5. QED
      BY <2>1, <3>3, <3>4, SameAddresses DEF ReadRequest, history, lookup, TypeInv, TypeOK
  <2>2. CASE EndSession
    BY <2>2, FreshProcess DEF EndSession
  <2>3. CASE Begin \/ Resolve \/ ConnectToServer \/ CacheAgain
    BY <2>3, RequestResolves
  <2>4. CASE \/ SendHeader \/ Upload \/ ReadHeaderFails \/ NoBody \/ ReadHeader \/ FirstPart
             \/ Transfer \/ BrowserLeaves
    BY <2>4, RestOfRequest
  <2>5. CASE Retry \/ EndRequest
    BY <2>5, AnsweredTypes
  <2>6. CASE UNCHANGED vars
    <3>1. Flags' /\ Values'
      BY <2>6 DEF vars, Flags, Values, TypeInv, TypeOK, session, counts, history
    <3>2. CASE pc \notin {"connect", "cache"}
      BY <2>6, <3>1, <3>2, SameAddresses DEF vars, session, history, lookup, TypeInv, TypeOK
    <3>3. CASE pc \in {"connect", "cache"}
      BY <2>6, SameTypes
      DEF vars, TypeInv, TypeOK, ResolverInv, Resolver, Holds, session, network, history, lookup, counts
    <3>4. QED
      BY <3>2, <3>3
  <2>7. QED
    BY <2>1, <2>2, <2>3, <2>4, <2>5, <2>6 DEF Next, Step
<1>3. QED
  BY <1>1, <1>2, PTL DEF Spec

\* The variables keep their types for all hosts, addresses and configurations,
\* in particular the index of an address stays below the count of its list.
THEOREM TypeCorrect == Spec => []TypeOK
<1>1. TypeInv => TypeOK
  BY DEF TypeInv
<1>2. QED
  BY <1>1, TypesHold, PTL

-----------------------------------------------------------------------------
(* The properties.                                                         *)

Sent == pc \in {"cache", "send"} \/ Asked

\* A kept connection stands for the host that the cache was asked for last.
KeyInv ==
    /\ pc \in {"resolve", "connect"} => ~ServerConnected
    /\ ServerConnected => domain = ConnectedHost
    /\ pc = "connect" => domain = req.host
    /\ Sent => ServerConnected /\ ConnectedHost = req.host

\* However connections are kept, Cache() is asked for the host of the request.
THEOREM CacheKeyIsHost == Spec => []KeyIsHost
<1> DEFINE Inv == ~world.UseParentProxy => KeyInv
<1>1. Init => Inv
  BY DEF Init, KeyInv, Sent, Asked
<1>2. Inv /\ [Next]_vars => Inv'
  <2> SUFFICES ASSUME Inv, [Next]_vars PROVE Inv'
    OBVIOUS
  <2> USE DEF session, lookup, history, network, counts, Return, KeyInv, Sent, Asked
  <2>1. ASSUME NEW h \in Hosts, NEW k \in Kinds, NEW body \in BOOLEAN, NEW keepalive \in BOOLEAN,
               ReadRequest(h, k, body, keepalive)
        PROVE  Inv'
    BY <2>1 DEF ReadRequest
  <2>2. CASE EndSession
    BY <2>2 DEF EndSession, NewProcess
  <2>3. CASE Begin
    BY <2>3 DEF Begin, HostChanges
  <2>4. CASE Resolve
    BY <2>4 DEF Resolve, NewProcess, ServerName
  <2>5. CASE ConnectToServer
    BY <2>5 DEF ConnectToServer, Connected
  <2>6. CASE CacheAgain
    BY <2>6 DEF CacheAgain, NewProcess
  <2>7. CASE SendHeader
    BY <2>7 DEF SendHeader, HeaderSent
  <2>8. CASE Upload
    BY <2>8 DEF Upload
  <2>9. CASE ReadHeaderFails
    BY <2>9 DEF ReadHeaderFails
  <2>10. CASE NoBody
    BY <2>10 DEF NoBody
  <2>11. CASE ReadHeader
    BY <2>11 DEF ReadHeader
  <2>12. CASE FirstPart
    BY <2>12 DEF FirstPart
  <2>13. CASE Transfer
    BY <2>13 DEF Transfer
  <2>14. CASE Retry
    BY <2>14 DEF Retry
  <2>15. CASE EndRequest
    BY <2>15 DEF EndRequest
  <2>16. CASE UNCHANGED vars
    BY <2>16 DEF vars
  <2>17. CASE BrowserLeaves
    BY <2>17 DEF BrowserLeaves, Endless
  <2>18. QED
    BY <2>1, <2>2, <2>3, <2>4, <2>5, <2>6, <2>7, <2>8, <2>9, <2>10, <2>11, <2>12, <2>13,
       <2>14, <2>15, <2>16, <2>17 DEF Next, Step
<1>3. Inv => KeyIsHost
  BY DEF KeyInv, Sent, Asked, KeyIsHost
<1>4. QED
  BY <1>1, <1>2, <1>3, PTL DEF Spec

\* Whatever is tried again has not got to its body yet, unless it is a GET.
UploadInv ==
    /\ uploads \in Nat
    /\ req.kind # "GET" =>
          /\ pc \in {"begin", "resolve", "connect", "cache", "send", "upload"} => uploads = 0
          /\ pc = "answered" /\ answer \in {-60, -61} => uploads = 0
          /\ uploads <= 1

\* However often a request is tried, its body is read from the browser at most once,
\* unless it is a GET.
THEOREM PostsOnce == Spec => []UploadsOnce
<1>1. Init => UploadInv
  BY DEF Init, UploadInv
<1>2. UploadInv /\ [Next]_vars => UploadInv'
  <2> SUFFICES ASSUME UploadInv, [Next]_vars PROVE UploadInv'
    OBVIOUS
  <2> USE DEF session, lookup, history, network, counts, Return, UploadInv
  <2>1. ASSUME NEW h \in Hosts, NEW k \in Kinds, NEW body \in BOOLEAN, NEW keepalive \in BOOLEAN,
               ReadRequest(h, k, body, keepalive)
        PROVE  UploadInv'
    BY <2>1 DEF ReadRequest
  <2>2. CASE EndSession
    BY <2>2 DEF EndSession, NewProcess
  <2>3. CASE Begin
    BY <2>3 DEF Begin
  <2>4. CASE Resolve
    BY <2>4 DEF Resolve, NewProcess
  <2>5. CASE ConnectToServer
    BY <2>5 DEF ConnectToServer, Connected
  <2>6. CASE CacheAgain
    BY <2>6 DEF CacheAgain, NewProcess
  <2>7. CASE SendHeader
    BY <2>7 DEF SendHeader, HeaderSent
  <2>8. CASE Upload
    BY <2>8 DEF Upload
  <2>9. CASE ReadHeaderFails
    BY <2>9 DEF ReadHeaderFails
  <2>10. CASE NoBody
    BY <2>10 DEF NoBody
  <2>11. CASE ReadHeader
    BY <2>11 DEF ReadHeader
  <2>12. CASE FirstPart
    BY <2>12 DEF FirstPart
  <2>13. CASE Transfer
    BY <2>13 DEF Transfer
  <2>14. CASE Retry
    BY <2>14 DEF Retry, Retriable
  <2>15. CASE EndRequest
    BY <2>15 DEF EndRequest
  <2>16. CASE UNCHANGED vars
    BY <2>16 DEF vars
  <2>17. CASE BrowserLeaves
    BY <2>17 DEF BrowserLeaves, Endless
  <2>18. QED
    BY <2>1, <2>2, <2>3, <2>4, <2>5, <2>6, <2>7, <2>8, <2>9, <2>10, <2>11, <2>12, <2>13,
       <2>14, <2>15, <2>16, <2>17 DEF Next, Step
<1>3. UploadInv => UploadsOnce
  BY DEF UploadInv, UploadsOnce
<1>4. QED
  BY <1>1, <1>2, <1>3, PTL DEF Spec

\* An answer without a length ends with the connection, and so does one that was
\* cut short; any other error drops the browser in the end.
SyncInv ==
    /\ pc \in {"body", "transfer"} /\ length = "unknown" => DropBrowser
    /\ pc = "answered" /\ answer = 0 =>
          \/ DropBrowser \/ BrowserDropped
          \/ given = "whole" \/ (given = "swollen" /\ mode = "redirect")
    /\ KeptInSync

\* A connection to a browser is kept only when it was given one whole answer.
THEOREM SyncKept == Spec => []KeptInSync
<1>1. Init => SyncInv
  BY DEF Init, SyncInv, KeptInSync
<1>2. SyncInv /\ [Next]_vars => SyncInv'
  <2> SUFFICES ASSUME SyncInv, [Next]_vars PROVE SyncInv'
    OBVIOUS
  <2> USE DEF session, lookup, history, network, counts, Return, SyncInv, KeptInSync
  <2>1. ASSUME NEW h \in Hosts, NEW k \in Kinds, NEW body \in BOOLEAN, NEW keepalive \in BOOLEAN,
               ReadRequest(h, k, body, keepalive)
        PROVE  SyncInv'
    BY <2>1 DEF ReadRequest
  <2>2. CASE EndSession
    BY <2>2 DEF EndSession, NewProcess
  <2>3. CASE Begin
    BY <2>3 DEF Begin
  <2>4. CASE Resolve
    BY <2>4 DEF Resolve, NewProcess
  <2>5. CASE ConnectToServer
    BY <2>5 DEF ConnectToServer, Connected
  <2>6. CASE CacheAgain
    BY <2>6 DEF CacheAgain, NewProcess
  <2>7. CASE SendHeader
    BY <2>7 DEF SendHeader, HeaderSent
  <2>8. CASE Upload
    BY <2>8 DEF Upload
  <2>9. CASE ReadHeaderFails
    BY <2>9 DEF ReadHeaderFails
  <2>10. CASE NoBody
    BY <2>10 DEF NoBody
  <2>11. CASE ReadHeader
    <3>1. CASE Return(-233)
      BY <2>11, <3>1 DEF ReadHeader
    <3>2. ASSUME NEW n, length' = n.length, DropBrowser' = (DropBrowser \/ n.length = "unknown")
          PROVE  length' = "unknown" => DropBrowser'
      BY <3>2, Zenon
    <3>3. pc' \in {"header", "body"} => (length' = "unknown" => DropBrowser')
      BY <2>11, <3>2 DEF ReadHeader
    <3>4. pc' \in {"header", "body"} \/ Return(-233)
      BY <2>11 DEF ReadHeader
    <3>5. QED
      BY <2>11, <3>1, <3>3, <3>4 DEF ReadHeader
  <2>12. CASE FirstPart
    <3>1. pc' = "transfer" \/ pc' = "answered"
      BY <2>12 DEF FirstPart
    <3>2. length' = length /\ (DropBrowser => DropBrowser')
      BY <2>12 DEF FirstPart
    <3>3. pc' = "answered" /\ answer' = 0 => DropBrowser'
      BY <2>12 DEF FirstPart
    <3>4. QED
      BY <2>12, <3>1, <3>2, <3>3 DEF FirstPart
  <2>13. CASE Transfer
    <3>1. pc = "transfer" /\ pc' \in {"answered", "transfer"}
      BY <2>13 DEF Transfer
    <3>2. length' = length /\ (DropBrowser => DropBrowser')
      <4>1. /\ length' = length
            /\ DropBrowser' = DropBrowser \/ DropBrowser' = (DropBrowser \/ ShortDrops)
        BY <2>13 DEF Transfer
      <4>2. CASE DropBrowser' = DropBrowser
        BY <4>1, <4>2
      <4>3. CASE DropBrowser' = (DropBrowser \/ ShortDrops)
        BY <4>1, <4>3
      <4>4. QED
        BY <4>1, <4>2, <4>3
    <3>3. pc' = "answered" /\ answer' = 0 =>
            \/ DropBrowser' \/ given' = "whole"
            \/ given' = "swollen" /\ mode' = "redirect"
      <4>1. DropBrowser' = (DropBrowser \/ length = "known") /\ length = "known" => DropBrowser'
        BY Zenon
      <4>2. QED
        BY <2>13, <4>1 DEF Transfer, ShortDrops, Complete
    <3>4. QED
      BY <3>1, <3>2, <3>3
  <2>14. CASE Retry
    BY <2>14 DEF Retry, Retriable
  <2>15. CASE EndRequest
    BY <2>15 DEF EndRequest, Retriable, Reported
  <2>16. CASE UNCHANGED vars
    BY <2>16 DEF vars
  <2>17. CASE BrowserLeaves
    BY <2>17 DEF BrowserLeaves, Endless
  <2>18. QED
    BY <2>1, <2>2, <2>3, <2>4, <2>5, <2>6, <2>7, <2>8, <2>9, <2>10, <2>11, <2>12, <2>13,
       <2>14, <2>15, <2>16, <2>17 DEF Next, Step
<1>3. SyncInv => KeptInSync
  BY DEF SyncInv
<1>4. QED
  BY <1>1, <1>2, <1>3, PTL DEF Spec

\* The host that the connection to the origin is kept for.
Target == IF world.UseParentProxy THEN Parent ELSE ConnectedHost

\* With one caller of gethostbyname() the list it holds is that of the name the
\* resolver remembers.
OwnList(s, found) ==
    s.LastHost # None =>
        /\ found = s.LastHost /\ found \notin Literals
        /\ s.ips = world.NumIPs[found]
        /\ s.addr \in AddressesOf(found)

ReachInv ==
    /\ mode \in {"miss", "hit", "rewrite"}
    /\ OwnList(to, hostent)
    /\ pc \in {"resolve", "connect"} => to.peer = None
    /\ pc = "connect" /\ mode = "miss" => to.addr \in AddressesOf(ServerName)
    /\ to.peer # None => to.peer \in AddressesOf(Target)
    /\ Sent => ServerName = Target
    /\ Asked /\ mode = "miss" => to.peer # None

\* The address that such a resolver returns is one of the host it was asked for.
LEMMA ResolvesToOwn ==
  ASSUME TypeInv, OwnList(to, hostent), NEW h \in Names, NEW o \in SetDomainAndPort(to, h)
  PROVE  /\ OwnList(o.sock, o.hostent)
         /\ o.result = "ok" => o.sock.addr \in AddressesOf(h)
         /\ o.sock.peer = to.peer
<1> USE MAXIPSInt, SessionAssumption
<1>1. /\ world.NumIPs \in [Names -> 1..MAXIPS] /\ to \in Socket
      /\ Holds(to, hostent)
  BY DEF TypeInv, TypeOK, World, ResolverInv, Resolver
<1>2. CASE h \in Literals
  <2>1. o = [result |-> "ok", hostent |-> hostent,
             sock |-> [to EXCEPT !.LastHost = None, !.addr = <<h, 0>>]]
    BY <1>2 DEF SetDomainAndPort
  <2>2. <<h, 0>> \in AddressesOf(h)
    BY <1>2 DEF AddressesOf
  <2>3. QED
    BY <1>1, <2>1, <2>2 DEF Socket, OwnList
<1>3. CASE h \notin Literals /\ to.LastHost = h /\ to.ips = 1
  <2>1. o = [result |-> "ok", sock |-> to, hostent |-> hostent]
    BY <1>3 DEF SetDomainAndPort
  <2>2. h # None
    OBVIOUS
  <2>3. to.addr \in AddressesOf(h)
    BY <1>3, <2>2 DEF OwnList
  <2>4. QED
    BY <2>1, <2>3
<1>4. CASE h \notin Literals /\ to.LastHost = h /\ to.ips # 1
  <2> DEFINE i == IF to.ip_count + 1 = to.ips THEN 0 ELSE to.ip_count + 1
  <2>1. o = NextIP(to)
    BY <1>4 DEF SetDomainAndPort
  <2>2. h # None /\ hostent = h /\ to.ips = world.NumIPs[h] /\ to.ip_count < to.ips
    BY <1>1, <1>4 DEF OwnList, Holds
  <2>3. to.ip_count \in 0..(MAXIPS - 1) /\ to.ips \in 1..MAXIPS
    BY <1>1, <2>2 DEF Socket
  <2>4. i \in 0..(world.NumIPs[h] - 1)
    BY <2>2, <2>3
  <2>5. <<h, i>> \in AddressesOf(h)
    BY <1>4, <2>4 DEF AddressesOf
  <2> HIDE DEF i
  <2>6. /\ o.hostent = h
        /\ o.sock = [to EXCEPT !.ip_count = i, !.addr = <<h, i>>]
    BY <2>1, <2>2 DEF NextIP, i
  <2>7. QED
    BY <1>1, <1>4, <2>2, <2>5, <2>6 DEF Socket, OwnList
<1>5. CASE h \notin Literals /\ to.LastHost # h
  <2>1. \/ o = [result |-> "ok", hostent |-> h,
               sock |-> [to EXCEPT !.LastHost = h, !.ips = world.NumIPs[h],
                                   !.ip_count = 0, !.addr = <<h, 0>>]]
        \/ o = [result |-> "fail", hostent |-> hostent, sock |-> [to EXCEPT !.LastHost = None]]
    BY <1>5 DEF SetDomainAndPort
  <2>2. <<h, 0>> \in AddressesOf(h)
    BY <1>1, <1>5 DEF AddressesOf
  <2>3. CASE o = [result |-> "fail", hostent |-> hostent, sock |-> [to EXCEPT !.LastHost = None]]
    BY <1>1, <2>3 DEF Socket, OwnList
  <2>4. ASSUME NEW n, n = world.NumIPs[h], NEW a, a = <<h, 0>>,
               o = [result |-> "ok", hostent |-> h,
                    sock |-> [to EXCEPT !.LastHost = h, !.ips = n, !.ip_count = 0, !.addr = a]]
        PROVE  /\ OwnList(o.sock, o.hostent)
               /\ o.sock.addr \in AddressesOf(h)
               /\ o.sock.peer = to.peer
    <3>1. o.sock = [to EXCEPT !.LastHost = h, !.ips = n, !.ip_count = 0, !.addr = a]
      BY <2>4
    <3>2. /\ o.sock.LastHost = h /\ o.sock.ips = n /\ o.sock.addr = a
          /\ o.sock.peer = to.peer /\ o.hostent = h
      BY <1>1, <2>4, <3>1 DEF Socket
    <3>3. QED
      BY <1>5, <2>2, <2>4, <3>2 DEF OwnList
  <2>5. QED
    BY <2>1, <2>3, <2>4
<1>6. QED
  BY <1>2, <1>3, <1>4, <1>5

LEMMA ReachHolds == Spec => [](~world.resumes => ReachInv)
<1> DEFINE Inv == ~world.resumes => ReachInv
<1>1. Init => Inv
  BY DEF Init, ReachInv, OwnList, NoSocket, Sent, Asked
<1>2. Inv /\ TypeInv /\ [Next]_vars => Inv'
  <2> SUFFICES ASSUME Inv, TypeInv, [Next]_vars, ~world'.resumes PROVE ReachInv'
    OBVIOUS
  <2> USE DEF session, lookup, history, network, counts, Return
  <2>a. ASSUME world' = world PROVE ReachInv
    BY <2>a
  <2>n. ASSUME NewProcess PROVE ReachInv'
    BY <2>n DEF NewProcess, ReachInv, OwnList, NoSocket, Sent, Asked
  <2>s. to \in Socket
    BY DEF TypeInv, TypeOK
  <2>t. Shut(to).peer = None /\ (OwnList(to, hostent) => OwnList(Shut(to), hostent))
    BY <2>s DEF Shut, Socket, OwnList
  <2>u. ASSUME ReachInv, UNCHANGED <<world, req, ConnectedHost, hostent>>, mode' \in {"miss", "hit", "rewrite"},
               to' = to \/ to' = Shut(to), pc' \in {"idle", "answered", "begin", "resolve"},
               pc' = "resolve" => to' = Shut(to)
        PROVE  ReachInv'
    <3>1. OwnList(to, hostent)' /\ (to'.peer # None => to'.peer = to.peer)
      BY <2>t, <2>u DEF ReachInv, OwnList, AddressesOf
    <3>2. QED
      BY <2>t, <2>u, <3>1 DEF ReachInv, Target, AddressesOf, Sent, Asked
  <2>v. ASSUME ReachInv, UNCHANGED <<world, req, ConnectedHost, hostent, to, mode>>,
               pc' \notin {"connect", "resolve"},
               Sent' => Sent, Asked' => Asked \/ (pc = "send" /\ (mode = "miss" => to.peer # None))
        PROVE  ReachInv'
    BY <2>v DEF ReachInv, OwnList, Target, ServerName, AddressesOf
  <2>1. ASSUME NEW h \in Hosts, NEW k \in Kinds, NEW body \in BOOLEAN, NEW keepalive \in BOOLEAN,
               ReadRequest(h, k, body, keepalive)
        PROVE  ReachInv'
    BY <2>1, <2>a DEF ReadRequest, ReachInv, OwnList, Target, AddressesOf, Sent, Asked
  <2>2. CASE EndSession
    BY <2>2, <2>n DEF EndSession
  <2>3. CASE Begin
    <3>1. ReachInv /\ UNCHANGED <<world, req, ConnectedHost, hostent, mode>>
      BY <2>3, <2>a DEF Begin
    <3>2. CASE pc' = "cache"
      BY <2>3, <3>1, <3>2
      DEF Begin, HostChanges, ReachInv, OwnList, Target, ServerName, AddressesOf, Sent, Asked
    <3>3. CASE pc' # "cache"
      BY <2>3, <2>u, <3>1, <3>3 DEF Begin, ReachInv
    <3>4. QED
      BY <3>2, <3>3
  <2>4. CASE Resolve
    <3>1. pc = "resolve"
      BY <2>4 DEF Resolve
    <3>2. PICK m \in Decisions :
            \/ m \in {"hit", "resume"} /\ \E o \in CacheResolves(m, dl, ServerName) :
                  \/ NewProcess
                  \/ /\ pc' = "connect" /\ mode' = m /\ hostent' = o.hostent
                     /\ UNCHANGED <<to, world, req, ConnectedHost>>
            \/ m \in {"miss", "rewrite"} /\ \E o \in SetDomainAndPort(to, ServerName) :
                  \/ NewProcess
                  \/ /\ \/ pc' = "connect" /\ o.result = "ok"
                        \/ pc' = "answered"
                     /\ mode' = m /\ to' = o.sock /\ hostent' = o.hostent
                     /\ UNCHANGED <<world, req, ConnectedHost>>
      BY <2>4 DEF Resolve
    <3>3. CASE NewProcess
      BY <2>n, <3>3
    <3>4. ASSUME NEW o \in CacheResolves(m, dl, ServerName), m \in {"hit", "resume"},
                 pc' = "connect" /\ mode' = m /\ hostent' = o.hostent,
                 UNCHANGED <<to, world, req, ConnectedHost>>
          PROVE  ReachInv'
      <4>1. ReachInv /\ m = "hit"
        BY <2>a, <3>4 DEF Decisions
      <4>2. hostent' = hostent
        BY <3>4, <4>1 DEF CacheResolves
      <4>3. QED
        BY <3>1, <3>4, <4>1, <4>2
        DEF ReachInv, OwnList, Target, ServerName, AddressesOf, Sent, Asked
    <3>5. ASSUME NEW o \in SetDomainAndPort(to, ServerName), m \in {"miss", "rewrite"},
                 \/ pc' = "connect" /\ o.result = "ok"
                 \/ pc' = "answered",
                 mode' = m /\ to' = o.sock /\ hostent' = o.hostent,
                 UNCHANGED <<world, req, ConnectedHost>>
          PROVE  ReachInv'
      <4>1. ReachInv /\ ServerName \in Names
        BY <2>a, <3>5 DEF TypeInv, TypeOK, ServerName, Names
      <4>2. /\ OwnList(o.sock, o.hostent)
            /\ o.result = "ok" => o.sock.addr \in AddressesOf(ServerName)
            /\ o.sock.peer = to.peer
        BY <3>5, <4>1, ResolvesToOwn DEF ReachInv
      <4>3. OwnList(to, hostent)' /\ to'.peer = None
        BY <3>1, <3>5, <4>1, <4>2 DEF ReachInv, OwnList, AddressesOf
      <4>4. pc' = "connect" => to'.addr \in AddressesOf(ServerName)'
        BY <3>5, <4>2 DEF ServerName, AddressesOf
      <4>5. QED
        BY <3>5, <4>3, <4>4 DEF ReachInv, Sent, Asked
    <3>6. QED
      BY <3>2, <3>3, <3>4, <3>5
  <2>5. CASE ConnectToServer
    <3>1. /\ ReachInv /\ pc = "connect"
          /\ UNCHANGED <<world, req, mode, hostent>>
      BY <2>5, <2>a DEF ConnectToServer
    <3>2. mode \in {"miss", "hit", "rewrite"}
      BY <3>1 DEF ReachInv
    <3>3. CASE Connected /\ UNCHANGED to /\ mode \in {"hit", "rewrite"}
      BY <3>1, <3>3 DEF Connected, ReachInv, OwnList, Target, ServerName, AddressesOf, Sent, Asked
    <3>4. CASE Connected /\ to' = [to EXCEPT !.peer = to.addr] /\ mode = "miss"
      <4>1. /\ to'.peer = to.addr /\ to'.LastHost = to.LastHost /\ to'.ips = to.ips
            /\ to'.addr = to.addr
        BY <2>s, <3>4 DEF Socket
      <4>2. to.addr \in AddressesOf(ServerName) /\ ServerName = Target'
        BY <3>1, <3>4 DEF Connected, ReachInv, ServerName, Target
      <4>3. OwnList(to, hostent)'
        BY <3>1, <4>1 DEF ReachInv, OwnList, AddressesOf
      <4>4. /\ pc' = "send" /\ ServerName' = Target'
            /\ to'.peer \in AddressesOf(Target)'
        BY <3>1, <3>4, <4>1, <4>2 DEF Connected, ServerName, AddressesOf
      <4>5. QED
        BY <3>1, <3>2, <4>3, <4>4 DEF ReachInv, Sent, Asked
    <3>5. CASE pc' = "answered" /\ UNCHANGED <<to, ConnectedHost>>
      BY <2>v, <3>1, <3>5 DEF Sent, Asked
    <3>6. QED
      BY <2>5, <3>2, <3>3, <3>4, <3>5 DEF ConnectToServer
  <2>6. CASE CacheAgain
    <3>1. PICK m \in Decisions : \E o \in CacheResolves(m, Shut(dl), domain) :
            \/ NewProcess
            \/ /\ pc' = "send" /\ mode' = m /\ hostent' = o.hostent
               /\ UNCHANGED <<world, req, ConnectedHost, to>>
      BY <2>6 DEF CacheAgain
    <3>2. CASE NewProcess
      BY <2>n, <3>2
    <3>3. CASE /\ pc' = "send" /\ mode' = m /\ UNCHANGED <<hostent, world, req, ConnectedHost, to>>
      <4>1. m \in {"miss", "hit", "rewrite"} /\ ReachInv /\ pc = "cache"
        BY <2>6, <2>a, <3>3 DEF Decisions, CacheAgain
      <4>2. QED
        BY <3>3, <4>1 DEF ReachInv, OwnList, Target, ServerName, AddressesOf, Sent, Asked
    <3>4. QED
      BY <3>1, <3>2, <3>3 DEF CacheResolves, Decisions
  <2>7. CASE SendHeader
    BY <2>7, <2>a, <2>v DEF SendHeader, HeaderSent, Sent, Asked
  <2>8. CASE Upload
    BY <2>8, <2>a, <2>v DEF Upload, Sent, Asked
  <2>9. CASE ReadHeaderFails
    BY <2>9, <2>a, <2>v DEF ReadHeaderFails, Sent, Asked
  <2>10. CASE NoBody
    BY <2>10, <2>a, <2>v DEF NoBody, Sent, Asked
  <2>11. CASE ReadHeader
    <3>1. /\ ReachInv /\ mode' = mode /\ pc = "response" /\ pc' \in {"header", "body", "answered"}
          /\ UNCHANGED <<world, req, ConnectedHost, hostent, to>>
      BY <2>11, <2>a DEF ReadHeader, ReachInv
    <3>2. QED
      BY <2>v, <3>1 DEF Sent, Asked
  <2>12. CASE FirstPart
    BY <2>12, <2>a, <2>v DEF FirstPart, Sent, Asked
  <2>13. CASE Transfer
    BY <2>13, <2>a, <2>v DEF Transfer, Sent, Asked
  <2>14. CASE Retry
    BY <2>14, <2>a, <2>u DEF Retry, ReachInv
  <2>15. CASE EndRequest
    BY <2>15, <2>a, <2>u DEF EndRequest, ReachInv
  <2>16. CASE UNCHANGED vars
    BY <2>16, <2>a DEF vars, ReachInv, OwnList, Target, ServerName, AddressesOf, Sent, Asked
  <2>17. CASE BrowserLeaves
    BY <2>17, <2>a, <2>v DEF BrowserLeaves, Endless, Sent, Asked
  <2>18. QED
    BY <2>1, <2>2, <2>3, <2>4, <2>5, <2>6, <2>7, <2>8, <2>9, <2>10, <2>11, <2>12, <2>13,
       <2>14, <2>15, <2>16, <2>17 DEF Next, Step
<1>3. QED
  BY <1>1, <1>2, TypesHold, PTL DEF Spec

\* While there are no partial files to resume, however often connections are kept
\* and addresses rotated, a request goes to an address of its host.
THEOREM RequestsReachTheirHosts == Spec => [](~world.resumes => HeaderReachesHost)
<1>1. (~world.resumes => ReachInv) => (~world.resumes => HeaderReachesHost)
  BY DEF ReachInv, HeaderReachesHost, Sent, Asked
<1>2. QED
  BY <1>1, ReachHolds, PTL

-----------------------------------------------------------------------------
(* All addresses are tried.                                                *)

Attempted ==
    pc \in {"send", "upload", "response"} \/ (pc = "answered" /\ answer \in {-60, -61, -80})

\* How many addresses of its host the resolver has passed since the i-th.
Back(s, i) == IF i <= s.ip_count THEN s.ip_count - i ELSE s.ip_count + s.ips - i

\* The addresses of h that the resolver took up first..last resolutions ago have
\* been tried.
Covered(s, h, first, last) ==
    IF h \in Literals THEN first = 0 /\ last >= 0 => <<h, 0>> \in tried
    ELSE /\ s.LastHost = h
         /\ \A i \in 0..(s.ips - 1) : Back(s, i) \in first..last => <<h, i>> \in tried

Current(s, h) == s.addr = IF h \in Literals THEN <<h, 0>> ELSE <<h, s.ip_count>>

\* Each attempt after the first has tried one more address.
TriedInv ==
    /\ pc = "begin" /\ retries > 0 => ~ServerConnected
    /\ pc = "cache" => retries = 0
    /\ pc \in {"begin", "resolve"} /\ retries > 1 => Covered(to, ServerName, 0, retries - 2)
    /\ pc = "connect" /\ mode = "miss" =>
          Current(to, ServerName) /\ Covered(to, ServerName, 1, retries - 1)
    /\ Attempted /\ mode = "miss" /\ retries > 0 => Covered(to, ServerName, 0, retries - 1)
    /\ pc = "answered" /\ answer \in {-60, -61, -80} => mode = "miss"

\* The resolver moves on to an address of the host, and every one it has passed
\* is one resolution further back.
LEMMA MovesOn ==
  ASSUME TypeInv, OwnList(to, hostent), NEW h \in Names,
         retries > 1 => Covered(to, h, 0, retries - 2),
         NEW o \in SetDomainAndPort(to, h), o.result = "ok"
  PROVE  Current(o.sock, h) /\ Covered(o.sock, h, 1, retries - 1)
<1> USE MAXIPSInt, SessionAssumption
<1>1. /\ world.NumIPs \in [Names -> 1..MAXIPS] /\ to \in Socket /\ retries \in Nat
      /\ Holds(to, hostent)
  BY DEF TypeInv, TypeOK, World, ResolverInv, Resolver
<1>2. CASE h \in Literals
  <2>1. o.sock = [to EXCEPT !.LastHost = None, !.addr = <<h, 0>>]
    BY <1>2 DEF SetDomainAndPort
  <2>2. QED
    BY <1>1, <1>2, <2>1 DEF Socket, Current, Covered
<1>3. CASE h \notin Literals /\ to.LastHost = h
  <2>1. h # None /\ hostent = h /\ to.ips = world.NumIPs[h] /\ to.ip_count < to.ips
        /\ to.addr \in AddressesOf(h)
    BY <1>1, <1>3 DEF OwnList, Holds
  <2>2. to.ip_count \in 0..(MAXIPS - 1) /\ to.ips \in 1..MAXIPS
    BY <1>1, <2>1 DEF Socket
  <2>3. CASE to.ips = 1
    <3>1. o.sock = to
      BY <1>3, <2>3 DEF SetDomainAndPort
    <3>2. to.ip_count = 0 /\ to.addr = <<h, 0>>
      BY <1>3, <2>1, <2>2, <2>3 DEF AddressesOf
    <3>3. \A i \in 0..(to.ips - 1) : Back(to, i) = 0
      BY <2>3, <3>2 DEF Back
    <3>4. QED
      BY <1>1, <1>3, <3>1, <3>2, <3>3 DEF Current, Covered
  <2>4. CASE to.ips # 1
    <3> DEFINE c == IF to.ip_count + 1 = to.ips THEN 0 ELSE to.ip_count + 1
    <3>1. o = NextIP(to)
      BY <1>3, <2>4 DEF SetDomainAndPort
    <3>2. o.sock = [to EXCEPT !.ip_count = c, !.addr = <<h, c>>]
      BY <2>1, <3>1 DEF NextIP
    <3>3. /\ o.sock.ip_count = c /\ o.sock.addr = <<h, c>> /\ o.sock.ips = to.ips
          /\ o.sock.LastHost = h
      <4> HIDE DEF c
      <4>1. QED  BY <1>1, <1>3, <3>2 DEF Socket
    <3>4. ASSUME NEW i \in 0..(o.sock.ips - 1), Back(o.sock, i) \in 1..(retries - 1)
          PROVE  <<h, i>> \in tried
      <4>1. Back(to, i) = Back(o.sock, i) - 1
        BY <2>1, <2>2, <3>3, <3>4 DEF Back
      <4>2. retries > 1 /\ Back(to, i) \in 0..(retries - 2)
        BY <1>1, <3>4, <4>1
      <4>3. QED
        BY <1>3, <3>3, <4>2 DEF Covered
    <3>5. QED
      <4> HIDE DEF c
      <4>1. QED  BY <1>3, <3>3, <3>4 DEF Current, Covered
  <2>5. QED
    BY <2>3, <2>4
<1>4. CASE h \notin Literals /\ to.LastHost # h
  <2>1. ~(retries > 1)
    BY <1>4 DEF Covered
  <2>2. ASSUME NEW n, n = world.NumIPs[h], NEW a, a = <<h, 0>>,
               o.sock = [to EXCEPT !.LastHost = h, !.ips = n, !.ip_count = 0, !.addr = a]
        PROVE  Current(o.sock, h) /\ Covered(o.sock, h, 1, retries - 1)
    <3>1. o.sock.LastHost = h /\ o.sock.ip_count = 0 /\ o.sock.addr = a
      BY <1>1, <2>2 DEF Socket
    <3>2. 1..(retries - 1) = {}
      BY <1>1, <2>1
    <3>3. QED
      BY <1>4, <2>2, <3>1, <3>2 DEF Current, Covered
  <2>3. o.sock = [to EXCEPT !.LastHost = h, !.ips = world.NumIPs[h],
                            !.ip_count = 0, !.addr = <<h, 0>>]
    BY <1>4 DEF SetDomainAndPort
  <2>4. QED
    BY <2>2, <2>3
<1>5. QED
  BY <1>2, <1>3, <1>4
\* With the connection closed and opened again the resolver stays where it was.
LEMMA CoveredStays ==
  ASSUME NEW s \in Socket, NEW r \in Socket, r.LastHost = s.LastHost, r.ips = s.ips,
         r.ip_count = s.ip_count, NEW h, NEW first, NEW last
  PROVE  Covered(s, h, first, last) => Covered(r, h, first, last)
  BY DEF Covered, Back

LEMMA TriesHold == Spec => [](~world.resumes => TriedInv)
<1> DEFINE Inv == ~world.resumes => TriedInv
           Reach == ~world.resumes => ReachInv
<1>1. Init => Inv
  BY DEF Init, TriedInv, Attempted
<1>2. Inv /\ Reach /\ TypeInv /\ [Next]_vars => Inv'
  <2> SUFFICES ASSUME Inv, Reach, TypeInv, [Next]_vars, ~world'.resumes PROVE TriedInv'
    OBVIOUS
  <2> USE DEF session, lookup, history, network, counts, Return
  <2>a. ASSUME world' = world PROVE TriedInv /\ ReachInv
    BY <2>a
  <2>n. ASSUME NewProcess PROVE TriedInv'
    BY <2>n DEF NewProcess, TriedInv, Attempted
  <2>t. /\ to \in Socket /\ retries \in Nat /\ ServerName \in Names
        /\ mode \in Modes /\ pc \in Places
    BY DEF TypeInv, TypeOK, ServerName, Names
  <2>s. /\ Shut(to) \in Socket
        /\ Shut(to).LastHost = to.LastHost /\ Shut(to).ips = to.ips
        /\ Shut(to).ip_count = to.ip_count /\ Shut(to).addr = to.addr
    BY <2>t, ShutSocket
  <2>q. ASSUME TriedInv, pc' \in {"idle", "header", "body", "transfer"} \/ (pc' = "answered" /\ answer' \notin {-60, -61, -80})
        PROVE  TriedInv'
    BY <2>q DEF TriedInv, Attempted
  <2>u. ASSUME TriedInv, Attempted, pc # "answered",
               UNCHANGED <<world, req, to, mode, retries, tried>>,
               pc' \in {"send", "upload", "response", "answered"},
               pc' = "answered" => mode = "miss"
        PROVE  TriedInv'
    BY <2>u DEF TriedInv, Attempted, Covered, Back, ServerName
  <2>1. ASSUME NEW h \in Hosts, NEW k \in Kinds, NEW body \in BOOLEAN, NEW keepalive \in BOOLEAN,
               ReadRequest(h, k, body, keepalive)
        PROVE  TriedInv'
    BY <2>1 DEF ReadRequest, TriedInv, Attempted
  <2>2. CASE EndSession
    BY <2>2, <2>n DEF EndSession
  <2>3. CASE Begin
    <3>1. TriedInv /\ pc = "begin" /\ UNCHANGED <<world, req, retries, tried>>
      BY <2>3, <2>a DEF Begin
    <3>2. CASE pc' = "answered"
      BY <2>3, <2>q, <3>1, <3>2 DEF Begin
    <3>3. CASE pc' = "cache"
      BY <2>3, <2>t, <3>1, <3>3 DEF Begin, TriedInv, Attempted
    <3>4. CASE pc' = "resolve"
      <4>1. to' = Shut(to)
        BY <2>3, <3>4 DEF Begin
      <4>2. retries > 1 => Covered(Shut(to), ServerName, 0, retries - 2)
        BY <2>s, <2>t, <3>1, CoveredStays DEF TriedInv
      <4>3. (retries > 1 => Covered(to, ServerName, 0, retries - 2))'
        BY <3>1, <4>1, <4>2 DEF Covered, Back, ServerName
      <4>4. QED
        BY <3>4, <4>3 DEF TriedInv, Attempted
    <3>5. QED
      BY <2>3, <3>2, <3>3, <3>4 DEF Begin
  <2>4. CASE Resolve
    <3>1. pc = "resolve"
      BY <2>4 DEF Resolve
    <3>2. PICK m \in Decisions :
            \/ m \in {"hit", "resume"} /\ \E o \in CacheResolves(m, dl, ServerName) :
                  NewProcess \/ (pc' = "connect" /\ mode' = m)
            \/ m \in {"miss", "rewrite"} /\ \E o \in SetDomainAndPort(to, ServerName) :
                  \/ NewProcess
                  \/ /\ \/ pc' = "connect" /\ o.result = "ok"
                        \/ pc' = "answered" /\ answer' \in {-50, -51}
                     /\ to' = o.sock /\ UNCHANGED <<world, req, retries, tried>>
      BY <2>4 DEF Resolve
    <3>3. CASE NewProcess
      BY <2>n, <3>3
    <3>4. CASE pc' = "connect" /\ mode' = m /\ m \in {"hit", "resume"}
      BY <3>4 DEF TriedInv, Attempted
    <3>5. CASE pc' = "answered" /\ answer' \in {-50, -51}
      BY <3>5 DEF TriedInv, Attempted
    <3>6. ASSUME NEW o \in SetDomainAndPort(to, ServerName), o.result = "ok", pc' = "connect",
                 to' = o.sock, UNCHANGED <<world, req, retries, tried>>
          PROVE  TriedInv'
      <4>1. /\ OwnList(to, hostent)
            /\ retries > 1 => Covered(to, ServerName, 0, retries - 2)
        BY <2>a, <3>1, <3>6 DEF TriedInv, ReachInv
      <4>2. Current(o.sock, ServerName) /\ Covered(o.sock, ServerName, 1, retries - 1)
        BY <2>t, <3>6, <4>1, MovesOn
      <4>3. (Current(to, ServerName) /\ Covered(to, ServerName, 1, retries - 1))'
        BY <3>6, <4>2 DEF Current, Covered, Back, ServerName
      <4>4. QED
        BY <3>6, <4>3 DEF TriedInv, Attempted
    <3>7. QED
      BY <3>2, <3>3, <3>4, <3>5, <3>6
  <2>5. CASE ConnectToServer
    <3>1. /\ TriedInv /\ ReachInv /\ pc = "connect"
          /\ UNCHANGED <<world, req, mode, retries>>
      BY <2>5, <2>a DEF ConnectToServer
    <3>2. CASE mode = "miss" /\ tried' = tried \cup {to.addr}
      <4>1. /\ Current(to, ServerName) /\ Covered(to, ServerName, 1, retries - 1)
            /\ OwnList(to, hostent) /\ Holds(to, hostent)
        BY <3>1, <3>2 DEF TriedInv, ReachInv, TypeInv, ResolverInv, Resolver
      <4>2. \/ to' = to
            \/ to' = [to EXCEPT !.peer = to.addr]
        BY <2>5, <3>2 DEF ConnectToServer
      <4>3. to'.LastHost = to.LastHost /\ to'.ips = to.ips /\ to'.ip_count = to.ip_count
        BY <2>t, <4>2 DEF Socket
      <4>4. Covered(to, ServerName, 0, retries - 1)'
        <5>1. ServerName' = ServerName
          BY <3>1 DEF ServerName
        <5>2. CASE ServerName \in Literals
          BY <3>2, <4>1, <5>1, <5>2 DEF Covered, Current
        <5>3. CASE ServerName \notin Literals
          <6>1. to.LastHost = ServerName /\ to.addr = <<ServerName, to.ip_count>>
            BY <4>1, <5>3 DEF Covered, Current
          <6>2. to.ip_count \in Nat /\ to.ips \in Nat /\ to.ip_count < to.ips
            BY <2>t, <4>1, <6>1, SessionAssumption, MAXIPSInt DEF Socket, Holds
          <6>3. ASSUME NEW i \in 0..(to.ips - 1), Back(to, i) \in 0..(retries - 1)
                PROVE  <<ServerName, i>> \in tried'
            <7>1. CASE Back(to, i) = 0
              <8>1. i = to.ip_count  BY <6>2, <7>1 DEF Back
              <8>2. QED  BY <3>2, <6>1, <8>1
            <7>2. CASE Back(to, i) # 0
              <8>1. Back(to, i) \in 1..(retries - 1)  BY <2>t, <6>3, <7>2
              <8>2. QED  BY <3>2, <4>1, <5>3, <8>1 DEF Covered
            <7>3. QED  BY <7>1, <7>2
          <6>4. QED
            BY <3>1, <4>3, <5>1, <5>3, <6>1, <6>3 DEF Covered, Back
        <5>4. QED  BY <5>2, <5>3
      <4>5. pc' \in {"send", "answered"}
        BY <2>5, <3>2 DEF ConnectToServer, Connected
      <4>6. QED
        BY <3>1, <3>2, <4>4, <4>5 DEF TriedInv, Attempted
    <3>3. CASE mode # "miss" /\ Connected
      BY <3>1, <3>3 DEF Connected, TriedInv, Attempted
    <3>4. QED
      BY <2>5, <3>2, <3>3 DEF ConnectToServer
  <2>6. CASE CacheAgain
    <3>1. NewProcess \/ (pc' = "send" /\ retries' = retries)
      BY <2>6 DEF CacheAgain
    <3>2. CASE pc' = "send" /\ retries' = retries /\ world' = world
      <4>1. retries' = 0
        BY <2>6, <2>a, <3>2 DEF CacheAgain, TriedInv
      <4>2. QED
        BY <3>2, <4>1 DEF TriedInv, Attempted
    <3>3. world' = world
      BY <2>6 DEF CacheAgain, NewProcess
    <3>4. QED
      BY <2>n, <3>1, <3>2, <3>3
  <2>7. CASE SendHeader
    BY <2>7, <2>a, <2>u DEF SendHeader, HeaderSent, Attempted
  <2>8. CASE Upload
    <3>1. TriedInv /\ (pc' = "response" \/ (pc' = "answered" /\ answer' \in {-10, -76}))
      BY <2>8, <2>a DEF Upload
    <3>2. CASE pc' = "response"
      BY <2>8, <2>u, <3>1, <3>2 DEF Upload, Attempted
    <3>3. QED
      BY <2>q, <3>1, <3>2
  <2>9. CASE ReadHeaderFails
    <3>1. mode = "miss"
      BY <2>9, <2>a, <2>t DEF ReadHeaderFails, ReachInv
    <3>2. QED
      BY <2>9, <2>a, <2>u, <3>1 DEF ReadHeaderFails, Attempted
  <2>10. CASE NoBody
    BY <2>10, <2>a, <2>q DEF NoBody
  <2>11. CASE ReadHeader
    BY <2>11, <2>a, <2>q DEF ReadHeader
  <2>12. CASE FirstPart
    BY <2>12, <2>a, <2>q DEF FirstPart
  <2>13. CASE Transfer
    BY <2>13, <2>a, <2>q DEF Transfer
  <2>14. CASE Retry
    <3>1. /\ TriedInv /\ pc = "answered" /\ answer \in {-60, -61, -80}
          /\ pc' = "begin" /\ retries' = retries + 1 /\ ~ServerConnected' /\ to' = Shut(to)
          /\ UNCHANGED <<world, req, tried>>
      BY <2>14, <2>a DEF Retry, Retriable, Counted
    <3>2. retries > 0 => Covered(to, ServerName, 0, retries - 1)
      BY <3>1 DEF TriedInv, Attempted
    <3>3. retries > 0 => Covered(Shut(to), ServerName, 0, retries - 1)
      BY <2>s, <2>t, <3>2, CoveredStays
    <3>4. retries' - 2 = retries - 1 /\ (retries' > 1 => retries > 0)
      BY <2>t, <3>1
    <3>5. retries' > 1 => Covered(Shut(to), ServerName, 0, retries' - 2)
      BY <3>3, <3>4
    <3>6. (retries > 1 => Covered(to, ServerName, 0, retries - 2))'
      <4> DEFINE k == retries' - 2
      <4> HIDE DEF k
      <4>1. retries' > 1 => Covered(Shut(to), ServerName, 0, k)  BY <3>5 DEF k
      <4>2. QED  BY <3>1, <4>1 DEF Covered, Back, ServerName, k
    <3>7. QED
      BY <3>1, <3>6 DEF TriedInv, Attempted
  <2>15. CASE EndRequest
    BY <2>15, <2>a, <2>q DEF EndRequest
  <2>16. CASE UNCHANGED vars
    BY <2>16, <2>a DEF vars, TriedInv, Attempted, Covered, Current, Back, ServerName
  <2>17. CASE BrowserLeaves
    BY <2>17, <2>a, <2>q DEF BrowserLeaves
  <2>18. QED
    BY <2>1, <2>2, <2>3, <2>4, <2>5, <2>6, <2>7, <2>8, <2>9, <2>10, <2>11, <2>12, <2>13,
       <2>14, <2>15, <2>16, <2>17 DEF Next, Step
<1>3. QED
  BY <1>1, <1>2, TypesHold, ReachHolds, PTL DEF Spec

\* While there are no partial files to resume, the browser is told that a host is
\* down only when every one of its addresses has been tried (proxyhandler.cpp:151),
\* whichever of them the connection that was kept from earlier requests had used.
THEOREM AllAddressesTried == Spec => [](~world.resumes => TriesAllAddresses)
<1>1. ASSUME TypeInv, ReachInv, TriedInv, pc = "answered", answer \in {-60, -61},
             ~(Retriable /\ MayRetry)
      PROVE  AddressesOf(ServerName) \subseteq tried
  <2>1. /\ mode = "miss" /\ retries # 0 /\ ~(retries < to.ips) /\ retries \in Nat
        /\ to \in Socket /\ ServerName \in Names /\ None \notin Names
        /\ OwnList(to, hostent) /\ Holds(to, hostent)
    BY <1>1, SessionAssumption DEF TriedInv, Retriable, MayRetry, TypeInv, TypeOK, ServerName,
       Names, ReachInv, ResolverInv, Resolver
  <2>2. Covered(to, ServerName, 0, retries - 1)
    BY <1>1, <2>1 DEF TriedInv, Attempted
  <2>3. CASE ServerName \in Literals
    <3>1. <<ServerName, 0>> \in tried
      BY <2>1, <2>2, <2>3 DEF Covered
    <3>2. QED
      BY <2>3, <3>1 DEF AddressesOf
  <2>4. CASE ServerName \notin Literals
    <3>1. to.LastHost = ServerName /\ to.ips = world.NumIPs[ServerName]
      BY <2>1, <2>2, <2>4 DEF Covered, OwnList
    <3>2. to.ip_count \in Nat /\ to.ips \in Nat /\ to.ip_count < to.ips
      BY <2>1, <3>1, MAXIPSInt DEF Socket, Holds
    <3>3. ASSUME NEW i \in 0..(to.ips - 1) PROVE <<ServerName, i>> \in tried
      <4>1. Back(to, i) \in 0..(retries - 1)
        BY <2>1, <3>2 DEF Back
      <4>2. QED
        BY <2>2, <2>4, <4>1 DEF Covered
    <3>4. QED
      BY <2>4, <3>1, <3>3 DEF AddressesOf
  <2>5. QED
    BY <2>3, <2>4
<1>2. /\ TypeInv /\ (~world.resumes => ReachInv) /\ (~world.resumes => TriedInv)
      => (~world.resumes => TriesAllAddresses)
  BY <1>1 DEF TriesAllAddresses
<1>3. QED
  BY <1>2, TypesHold, ReachHolds, TriesHold, PTL

-----------------------------------------------------------------------------
(* The end of a process.                                                   *)

LEMMA IndexWithin ==
  ASSUME TypeInv, OwnList(to, hostent), NEW h \in Names, NEW o \in SetDomainAndPort(to, h)
  PROVE  o.result # "dies"
<1> USE MAXIPSInt, SessionAssumption
<1>1. /\ world.NumIPs \in [Names -> 1..MAXIPS] /\ to \in Socket
      /\ Holds(to, hostent)
  BY DEF TypeInv, TypeOK, World, ResolverInv, Resolver
<1>2. CASE h \in Literals \/ to.LastHost # h \/ to.ips = 1
  BY <1>2 DEF SetDomainAndPort
<1>3. CASE h \notin Literals /\ to.LastHost = h /\ to.ips # 1
  <2> DEFINE i == IF to.ip_count + 1 = to.ips THEN 0 ELSE to.ip_count + 1
  <2>1. o = NextIP(to)
    BY <1>3 DEF SetDomainAndPort
  <2>2. hostent = h /\ to.ips = world.NumIPs[h] /\ to.ip_count < to.ips
        /\ to.ip_count \in 0..(MAXIPS - 1) /\ to.ips \in 1..MAXIPS
    BY <1>1, <1>3 DEF OwnList, Holds, Socket
  <2>3. i < world.NumIPs[hostent]
    BY <2>2
  <2> HIDE DEF i
  <2>4. o.result = "ok"
    BY <2>1, <2>3 DEF NextIP, i
  <2>5. QED
    BY <2>4
<1>4. QED
  BY <1>2, <1>3

\* A lookup leads on, to a connection or to an answer, and never to a new process.
LookupsLeadOn == [][(~world.resumes /\ pc \in {"resolve", "cache"}) => pc' # "idle"]_vars

\* While there are no partial files to resume, no lookup ends the worker: the index that
\* sockethandler.cpp:487 counts on, from request to request, stays below the count of
\* the list that it is used with.
THEOREM NoLookupEndsWorker == Spec => LookupsLeadOn
<1>1. ASSUME TypeInv, ~world.resumes, ReachInv, Next, pc \in {"resolve", "cache"}
      PROVE  pc' # "idle"
  <2>1. Resolve \/ CacheAgain
    BY <1>1 DEF Next, Step, ReadRequest, EndSession, Begin, ConnectToServer, SendHeader,
                Upload, ReadHeaderFails, NoBody, ReadHeader, FirstPart, Transfer, Retry,
                EndRequest, BrowserLeaves, Endless
  <2>2. CASE Resolve
    <3>1. ASSUME NEW o \in SetDomainAndPort(to, ServerName) PROVE o.result # "dies"
      <4>1. OwnList(to, hostent) /\ ServerName \in Names
        BY <1>1 DEF ReachInv, TypeInv, TypeOK, ServerName, Names
      <4>2. QED
        BY <1>1, <3>1, <4>1, IndexWithin
    <3>2. ASSUME NEW m \in Decisions, m \in {"hit", "resume"}, NEW o \in CacheResolves(m, dl, ServerName)
          PROVE  o.result # "dies"
      BY <1>1, <3>2 DEF Decisions, CacheResolves
    <3>3. QED
      BY <2>2, <3>1, <3>2 DEF Resolve, Return
  <2>3. CASE CacheAgain
    <3>1. ASSUME NEW m \in Decisions, NEW o \in CacheResolves(m, Shut(dl), domain)
          PROVE  o.result # "dies"
      BY <1>1, <3>1 DEF Decisions, CacheResolves
    <3>2. QED
      BY <2>3, <3>1 DEF CacheAgain
  <2>4. QED
    BY <2>1, <2>2, <2>3
<1>2. TypeInv /\ (~world.resumes => ReachInv) /\ [Next]_vars
      => [(~world.resumes /\ pc \in {"resolve", "cache"}) => pc' # "idle"]_vars
  BY <1>1
<1>3. QED
  BY <1>2, TypesHold, ReachHolds, PTL DEF Spec, LookupsLeadOn
=============================================================================
