----------------------------- MODULE CacheEntry -----------------------------
(***************************************************************************)
(* One cached object of connectiontohttp2.cpp and the worker processes     *)
(* that request it: the file under CACHEDIR, its row in the database, and  *)
(* what Cache() decides from the two while other workers write, resume and *)
(* read the same file.  Nothing locks the file or the row; what a worker   *)
(* knows of a download in progress is the modification time of the file.   *)
(*                                                                         *)
(* The object has L parts, the pieces one recv() delivers (where the code  *)
(* counts bytes, a part counts as one); data is the file, part by part.    *)
(* Requests are GETs without a Range or an ETag of their own, answers have *)
(* a Content-Length within *_MIN and *_MAX, the disk stays below           *)
(* CACHE_LIMIT, and the database answers queries.                          *)
(***************************************************************************)
EXTENDS Integers, Sequences, FiniteSets

CONSTANTS
    Workers,      \* the worker processes
    L,            \* length of the object, in parts
    RETRIES,      \* retries of a failed request: max(1, IPCount())
    ErrorSize,    \* Content-Length of an error page of the origin
    MaxActive,    \* bound: requests served at the same time
    MaxData,      \* bound: no request once resuming has made the file longer
    Worlds        \* configurations with what may go wrong, see World

FaultKinds == {"break", "error", "redirect", "drop", "crash", "db", "expiry"}

\* left: bounds, how often a connection to the origin breaks or fails, an
\* answer of the origin is an error, the request of a resuming worker is
\* redirected, a browser leaves during the answer, a worker dies, an INSERT
\* fails (its result is not tested), and the object outlives its *_EXP.
World == [
    GENERAL : BOOLEAN,     \* TRUE: static file (*_EXP); FALSE: matched by a plugin
    NODOWN : BOOLEAN,      \* <DOMAIN>_NODOWN, read for plugin domains only
    NORESUME : BOOLEAN,    \* <DOMAIN>_NORESUME, read for plugin domains only
    SmallParts : BOOLEAN,  \* TRUE: a part may stay in the buffer of the fstream
    ResumeOnce : BOOLEAN,  \* TRUE: no browser connection has a file resumed twice
    left : [FaultKinds -> Nat] ]

ASSUME EntryAssumption ==
    /\ L \in Nat \ {0} /\ ErrorSize \in Nat /\ RETRIES \in Nat \ {0}
    /\ IsFiniteSet(Workers) /\ {MaxActive, MaxData} \subseteq Nat
    /\ \A world \in Worlds : world \in World

VARIABLES
    exists,   \* the file exists
    data,     \* its parts
    fresh,    \* it was modified less than ten seconds ago
    row,      \* the row of the table thunder
    wk,       \* the workers
    env       \* configuration, which never changes, and what may still go wrong

vars == <<exists, data, fresh, row, wk, env>>
file == <<exists, data, fresh>>

\* What is not of the object: the hole that seeking past the end leaves, and
\* a header stored as if it were the body.
Junk == 0
Parts == 1..L

Places == {"idle", "exists", "row", "mtime", "decide", "connect", "send",
           "response", "body", "finish", "failed"}
Modes == {"direct", "miss", "hit", "hitdown", "resume", "rewritten"}
GENERAL == env.GENERAL
NODOWN == env.NODOWN
NORESUME == env.NORESUME

Fault(k) == env.left[k] > 0 /\ env' = [env EXCEPT !.left[k] = @ - 1]

Worker == [
    pc : Places,
    mode : Modes,        \* what hit, downloading, resuming, rewrited and r.match say
    connected : BOOLEAN, \* ServerConnected of ProxyHandler
    conn : BOOLEAN,      \* the socket to the origin is open
    dconn : BOOLEAN,     \* the socket of the downloader is open
    db : BOOLEAN,        \* the database connection is open
    dlresp : {0, 206, 302, 416},  \* HTMLResponse of the downloader, never reset
    retries : 0..RETRIES,
    young : BOOLEAN,     \* the modification time Cache() read
    expired : BOOLEAN,   \* the age Cache() read
    filesize : Nat,
    filesended : Nat,
    filedownloaded : Nat,
    next : Nat \ {0},    \* the part the origin sends next
    header : BOOLEAN,    \* the header of the downloader is still unread
    fetch : BOOLEAN,     \* a resuming ReadBodyPart still has to read the origin
    writing : BOOLEAN,   \* cachefile is open for output
    pending : Nat,       \* parts in its buffer
    bad : BOOLEAN,       \* history: a part was not the one the client awaited
    last : {"none", "whole", "other", "wrong", "dropped"} ]  \* history: the last answer

\* A process just forked.  A worker serves one browser connection in its life;
\* another process takes its place.
NewProcess == [
    pc |-> "idle", mode |-> "direct", connected |-> FALSE, conn |-> FALSE,
    dconn |-> FALSE, db |-> FALSE, dlresp |-> 0, retries |-> 0, young |-> FALSE,
    expired |-> FALSE, filesize |-> 0, filesended |-> 0, filedownloaded |-> 0,
    next |-> 1, header |-> FALSE, fetch |-> FALSE, writing |-> FALSE,
    pending |-> 0, bad |-> FALSE, last |-> "none" ]

TypeOK ==
    /\ exists \in BOOLEAN /\ fresh \in BOOLEAN
    /\ data \in Seq(Parts \cup {Junk})
    /\ row \in [there : BOOLEAN, size : Nat, expired : BOOLEAN]
    /\ wk \in [Workers -> Worker]
    /\ env \in World

Init ==
    /\ exists = FALSE /\ data = <<>> /\ fresh = FALSE
    /\ row = [there |-> FALSE, size |-> 0, expired |-> FALSE]
    /\ wk = [w \in Workers |-> NewProcess]
    /\ env \in Worlds

-----------------------------------------------------------------------------
(* The pieces Cache(), Close() and the transfer are made of.               *)

NewRow == [there |-> TRUE, size |-> 0, expired |-> FALSE]

\* INSERT: the unique key refuses a second row; the result is not tested.
InsertRow ==
    \/ row' = (IF row.there THEN row ELSE NewRow) /\ UNCHANGED env
    \/ ~row.there /\ Fault("db") /\ UNCHANGED row

\* Which configurations let Cache() resume a partial file: the static files
\* always, a plugin domain if its _NORESUME is TRUE.
MayResume == GENERAL \/ NORESUME

\* The buffered parts reach the file at the place they were written for; what
\* others truncated before them becomes a hole.
Flush(d, r) ==
    IF r.pending = 0 THEN d
    ELSE [i \in 1..(IF Len(d) > r.filesended THEN Len(d) ELSE r.filesended) |->
             IF r.filesended - r.pending < i /\ i <= r.filesended THEN i
             ELSE IF i <= Len(d) THEN d[i] ELSE Junk]

\* Close() and SendHeader(): file_setmodif(completefilepath, 1) dates an
\* incomplete download back to 1970.
MarksStale(r) == r.filesended < r.filesize /\ r.mode \in {"miss", "resume"}

CloseFiles(r) ==
    /\ data' = Flush(data, r)
    /\ fresh' = ((fresh \/ r.pending > 0) /\ ~MarksStale(r))
    /\ UNCHANGED exists

FilesClosed(r) == [r EXCEPT !.dconn = FALSE, !.writing = FALSE, !.pending = 0]

\* ToServer.Close(), ServerConnected = false.
Closed(r) == [FilesClosed(r) EXCEPT !.connected = FALSE, !.conn = FALSE, !.db = FALSE]

\* Entering Cache(): every flag and count of the last request is reset.
CacheEntered(r) ==
    [r EXCEPT !.pc = "exists", !.mode = "direct", !.filesize = 0,
              !.filesended = 0, !.filedownloaded = 0, !.next = 1,
              !.header = FALSE, !.fetch = FALSE, !.young = FALSE, !.expired = FALSE]

\* Cache() has decided; it returns to SendHeader on a kept connection, to
\* SetDomainAndPort otherwise.
Decided(r, mode) ==
    [r EXCEPT !.mode = mode, !.pc = IF r.connected THEN "send" ELSE "connect"]

\* Browser and server connections end, and with them the worker.
Dropped(w) ==
    /\ CloseFiles(wk[w])
    /\ wk' = [wk EXCEPT ![w] = [NewProcess EXCEPT !.last = "dropped"]]

\* Workers with a request, or with parts of an answered one in their buffer.
Active == {w \in Workers : wk[w].pc # "idle" \/ wk[w].pending > 0}

\* What CacheDecide would resume if w began a request now.
Resumable(w) ==
    LET d == Flush(data, wk[w]) IN
    exists /\ MayResume /\ row.there /\ row.size > 0 /\ row.size # Len(d)

-----------------------------------------------------------------------------
(* A request: CommunicationHTTP up to the decision of Cache().             *)

\* A kept connection goes to SendHeader, which closes the files of the last
\* request and calls Cache(); a new one to SetDomainAndPort, which calls it.
Request(w) ==
    /\ wk[w].pc = "idle"
    /\ Cardinality(Active \ {w}) < MaxActive /\ Len(data) <= MaxData
    /\ ~(env.ResumeOnce /\ wk[w].dlresp # 0 /\ Resumable(w))
    /\ LET r == [wk[w] EXCEPT !.retries = 0, !.bad = FALSE, !.last = "none"]
       IN  IF r.connected
              THEN /\ CloseFiles(r)
                   /\ wk' = [wk EXCEPT ![w] = CacheEntered(FilesClosed(r))]
              ELSE /\ wk' = [wk EXCEPT ![w] = CacheEntered([r EXCEPT !.db = TRUE])]
                   /\ UNCHANGED file
    /\ UNCHANGED <<row, env>>

CacheExists(w) ==
    /\ wk[w].pc = "exists"
    /\ IF exists
          THEN wk' = [wk EXCEPT ![w].pc = "row"] /\ UNCHANGED <<row, env>>
          ELSE /\ wk' = [wk EXCEPT ![w] = Decided(@, "miss")]
               /\ IF wk[w].db THEN InsertRow ELSE UNCHANGED <<row, env>>
    /\ UNCHANGED file

\* SELECT size and age.  With the connection closed the query fails, and the
\* code reads a result it has freed: the worker dies, or goes to the origin.
CacheRow(w) ==
    /\ wk[w].pc = "row"
    /\ \/ /\ wk[w].db /\ row.there
          /\ wk' = [wk EXCEPT ![w].pc = "mtime", ![w].filesize = row.size,
                              ![w].expired = GENERAL /\ row.expired]
          /\ UNCHANGED <<row, env>>
       \/ /\ wk[w].db /\ ~row.there
          /\ wk' = [wk EXCEPT ![w] = Decided(@, "miss")]
          /\ InsertRow
       \/ /\ ~wk[w].db
          /\ \/ wk' = [wk EXCEPT ![w] = Decided(@, "direct")]
             \/ wk' = [wk EXCEPT ![w] = [NewProcess EXCEPT !.last = "dropped"]]
          /\ UNCHANGED <<row, env>>
    /\ UNCHANGED file

\* now() - file_getmodif(completefilepath) < 10 ...
CacheMtime(w) ==
    /\ wk[w].pc = "mtime"
    /\ wk' = [wk EXCEPT ![w].young = fresh, ![w].pc = "decide"]
    /\ UNCHANGED <<file, row, env>>

\* Variant (mutant): a file is complete when it has the size and is left alone.
Complete_Old(r) == r.filesize = Len(data) /\ ~r.young
Complete(r) == r.filesize = Len(data)

\* Variant (mutant): an expired object is fetched, its row is left as it is.
MarkDownloaded_Not(r) == row

\* UPDATE thunder SET downloaded = now(): the expired object is about to be new.
MarkDownloaded(r) == [row EXCEPT !.expired = @ /\ ~r.expired]

\* ... and the sizes, read a moment later.
CacheDecide(w) ==
    /\ wk[w].pc = "decide"
    /\ LET r == wk[w]
           downloading == r.young /\ (r.filesize > Len(data) \/ r.filesize = 0)
       IN  \/ /\ downloading
              /\ wk' = [wk EXCEPT ![w] =
                          Decided(r, IF NODOWN /\ ~GENERAL THEN "direct" ELSE "hitdown")]
              /\ UNCHANGED row
           \/ /\ ~downloading /\ Complete(r)
              /\ wk' = [wk EXCEPT ![w] = Decided(r, IF r.expired THEN "miss" ELSE "hit")]
              /\ row' = MarkDownloaded(r)
           \/ /\ ~downloading /\ ~Complete(r)
              /\ wk' = [wk EXCEPT ![w] =
                          Decided(r, IF MayResume /\ r.filesize > 0 THEN "resume" ELSE "miss")]
              /\ UNCHANGED row
    /\ UNCHANGED <<file, env>>

-----------------------------------------------------------------------------
(* ConnectToServer, SendHeader and the header of the answer.               *)

\* A hit needs no connection; a downloader that cannot connect closes
\* everything and still reports success.
ConnectToServer(w) ==
    /\ wk[w].pc = "connect"
    /\ LET r == [wk[w] EXCEPT !.pc = "send", !.connected = TRUE] IN
       \/ /\ wk[w].mode \in {"hit", "hitdown"}
          /\ wk' = [wk EXCEPT ![w] = r]
          /\ UNCHANGED <<file, env>>
       \/ /\ wk[w].mode \in {"miss", "direct"}
          /\ wk' = [wk EXCEPT ![w] = [r EXCEPT !.conn = TRUE]]
          /\ UNCHANGED <<file, env>>
       \/ /\ wk[w].mode \in {"miss", "direct"} /\ Fault("break")
          /\ \/ wk' = [wk EXCEPT ![w].pc = "failed"] /\ UNCHANGED file
             \/ Dropped(w)  \* the name does not resolve: -50, no retry
       \/ /\ wk[w].mode = "resume"
          /\ wk' = [wk EXCEPT ![w] = [r EXCEPT !.dconn = TRUE]]
          /\ UNCHANGED <<file, env>>
       \/ /\ wk[w].mode = "resume" /\ Fault("break")
          /\ CloseFiles(r)
          /\ wk' = [wk EXCEPT ![w] = [Closed(r) EXCEPT !.connected = TRUE]]
    /\ UNCHANGED row

\* Variant (mutant): the object is asked for from its beginning.
RangeStart_Zero == 1

\* The Range a resuming worker asks for: from the present end of the file ...
RangeStart == Len(data) + 1

\* ... to "<filesize>", which names one part past the end.
RangeEnd(r) == IF r.filesize < L THEN r.filesize + 1 ELSE L

\* The header goes to the origin, to the downloader, or nowhere.
SendRequest(w) ==
    /\ wk[w].pc = "send"
    /\ \/ /\ wk[w].mode \in {"hit", "hitdown"}
          /\ wk' = [wk EXCEPT ![w].pc = IF wk[w].filesize = 0 THEN "finish" ELSE "body"]
          /\ UNCHANGED env
       \/ /\ wk[w].mode \in {"miss", "direct"} /\ wk[w].conn
          /\ wk' = [wk EXCEPT ![w].pc = "response"]
          /\ UNCHANGED env
       \/ /\ wk[w].mode \in {"miss", "direct"}
          /\ IF wk[w].conn THEN Fault("break") ELSE UNCHANGED env
          /\ wk' = [wk EXCEPT ![w].pc = "failed"]
       \/ /\ wk[w].mode = "resume"
          /\ wk' = [wk EXCEPT ![w].pc = "response", ![w].header = wk[w].dconn,
                              ![w].next = RangeStart]
          /\ UNCHANGED env
    /\ UNCHANGED <<file, row>>

\* GetContentLength: UPDATE thunder SET size, before the response code is seen.
SetSize(w, n) ==
    row' = IF wk[w].mode # "direct" /\ row.there /\ wk[w].db /\ n > 0
           THEN [row EXCEPT !.size = n] ELSE row

\* The origin answers with the object, with an error page that is passed on
\* and not stored, or not at all.
Response(w) ==
    /\ wk[w].pc = "response" /\ wk[w].mode \in {"miss", "direct"}
    /\ \/ /\ SetSize(w, L)
          /\ wk' = [wk EXCEPT ![w].pc = "body", ![w].filesize = L]
          /\ UNCHANGED env
       \/ /\ Fault("error")
          /\ SetSize(w, ErrorSize)
          /\ wk' = [wk EXCEPT ![w].pc = "body", ![w].mode = "direct",
                              ![w].filesize = ErrorSize]
       \/ /\ Fault("break")
          /\ wk' = [wk EXCEPT ![w].pc = "failed"]
          /\ UNCHANGED row
    /\ UNCHANGED file

\* The downloader was told to look elsewhere: 302 or 303.  Its header goes to
\* the browser, the length in it to the row (r.match is still TRUE), and the
\* body is line ends: at least as many as were announced, for ReadBodyPart() adds to
\* a buffer that is never cleared, or, without a length, no end.
Rewritten(r, place, n) ==
    [r EXCEPT !.pc = place, !.mode = "rewritten", !.dlresp = 302, !.header = FALSE,
              !.filesize = n]

Redirected(w) ==
    \/ \E n \in {0, ErrorSize} :
          SetSize(w, n) /\ wk' = [wk EXCEPT ![w] = Rewritten(@, "finish", n)]
    \/ wk' = [wk EXCEPT ![w] = Rewritten(@, "body", 0)] /\ UNCHANGED row

\* The downloader reads a header only while its HTMLResponse is still zero.
\* On a closed socket the read fails or, where FD_SET(-1) aborts, the worker dies.
ResumeResponse(w) ==
    /\ wk[w].pc = "response" /\ wk[w].mode = "resume"
    /\ LET r == wk[w]
           body == [r EXCEPT !.pc = "body", !.fetch = TRUE]
       IN  \/ /\ r.dlresp = 0 /\ r.dconn /\ r.next <= RangeEnd(r)
              /\ wk' = [wk EXCEPT ![w] = [body EXCEPT !.dlresp = 206, !.header = FALSE]]
              /\ UNCHANGED <<row, env>>
           \/ /\ r.dlresp = 0 /\ r.dconn
              /\ IF r.next <= RangeEnd(r) THEN Fault("error") ELSE UNCHANGED env
              /\ wk' = [wk EXCEPT ![w].pc = "failed", ![w].dlresp = 416]
              /\ UNCHANGED row
           \/ /\ r.dlresp = 0 /\ r.dconn /\ Fault("redirect")
              /\ Redirected(w)
           \/ /\ r.dlresp = 0 /\ r.dconn /\ Fault("break")
              /\ wk' = [wk EXCEPT ![w].pc = "failed"]
              /\ UNCHANGED row
           \/ /\ r.dlresp = 0 /\ ~r.dconn
              /\ \/ wk' = [wk EXCEPT ![w].pc = "failed"]
                 \/ wk' = [wk EXCEPT ![w] = [NewProcess EXCEPT !.last = "dropped"]]
              /\ UNCHANGED <<row, env>>
           \/ /\ r.dlresp = 206
              /\ wk' = [wk EXCEPT ![w] = body]
              /\ UNCHANGED <<row, env>>
           \/ /\ r.dlresp = 302
              /\ wk' = [wk EXCEPT ![w] = Rewritten(r, "body", 0)]
              /\ UNCHANGED <<row, env>>
           \/ /\ r.dlresp = 416
              /\ wk' = [wk EXCEPT ![w].pc = "failed"]
              /\ UNCHANGED <<row, env>>
    /\ UNCHANGED file

\* Variant (mutant): the count is compared before it is raised.
MayRetry_OneMore(r) == r.retries <= RETRIES
MayRetry(r) == r.retries < RETRIES

\* Answers -60 and -80: close, sleep, and CommunicationHTTP once more.
Retry(w) ==
    /\ wk[w].pc = "failed"
    /\ IF MayRetry(wk[w])
          THEN /\ CloseFiles(wk[w])
               /\ wk' = [wk EXCEPT ![w] =
                    CacheEntered([Closed(wk[w]) EXCEPT !.db = TRUE,
                                        !.retries = wk[w].retries + 1])]
          ELSE Dropped(w)
    /\ UNCHANGED <<row, env>>

-----------------------------------------------------------------------------
(* ReadBodyPart and the transfer loop.                                     *)

\* r with one more part given to the browser.
Delivered(r, b) ==
    [r EXCEPT !.filesended = @ + 1, !.fetch = r.mode = "resume",
              !.bad = @ \/ b # r.filesended + 1,
              !.pc = IF r.filesended + 1 = r.filesize THEN "finish" ELSE "body"]

\* Straight from the origin; nothing is stored.
RelayBody(w) ==
    /\ wk[w].pc = "body" /\ wk[w].mode = "direct"
    /\ wk' = [wk EXCEPT ![w].pc = "finish"]
    /\ UNCHANGED <<file, row, env>>

\* A miss: the first part truncates the file.  A write makes the file fresh,
\* unless more than a second has passed since the last: then it is followed by
\* file_setmodif(completefilepath), which sets the time to zero.
WritePart(w) ==
    /\ wk[w].pc = "body" /\ wk[w].mode = "miss"
    /\ LET opened == IF wk[w].writing THEN data ELSE <<>>
           r == [Delivered(wk[w], wk[w].next) EXCEPT
                    !.next = @ + 1, !.writing = TRUE, !.pending = @ + 1]
       IN  \/ /\ data' = Flush(opened, r)
              /\ fresh' \in BOOLEAN
              /\ wk' = [wk EXCEPT ![w] = [r EXCEPT !.pending = 0]]
           \/ /\ env.SmallParts
              /\ data' = opened
              /\ fresh' = (fresh \/ ~wk[w].writing)
              /\ wk' = [wk EXCEPT ![w] = r]
    /\ exists' = TRUE
    /\ UNCHANGED <<row, env>>

\* The origin breaks off.  A miss has truncated the file even if not one part
\* came, and Close() dates it back.
BreakOff(w) ==
    /\ wk[w].pc = "body" /\ wk[w].mode \in {"miss", "direct"}
    /\ Fault("break")
    /\ IF wk[w].mode = "miss" /\ ~wk[w].writing
          THEN /\ exists' = TRUE /\ data' = <<>> /\ fresh' = FALSE
               /\ wk' = [wk EXCEPT ![w] = [NewProcess EXCEPT !.last = "dropped"]]
          ELSE Dropped(w)
    /\ UNCHANGED row

\* A hit reads on; the end of the file before filesize closes both connections.
ReadHit(w) ==
    /\ wk[w].pc = "body" /\ wk[w].mode = "hit"
    /\ LET p == wk[w].filesended + 1 IN
       IF p <= Len(data)
          THEN \/ wk' = [wk EXCEPT ![w] = Delivered(@, data[p])] /\ UNCHANGED file
               \/ p = Len(data) /\ p < wk[w].filesize /\ Dropped(w)
          ELSE Dropped(w)
    /\ UNCHANGED <<row, env>>

\* The place of an origin that has nothing more to send.
Ended(r) == RangeEnd(r) + 1

\* What a resuming ReadBodyPart does first: a piece of the downloader goes to
\* the end of the file; a header nobody read comes first.  Whether the origin is
\* done, breaks off or did so before, the worker goes on with what the file has;
\* only FD_SET(-1), where the downloader has no socket, may end it.
ResumePart(w) ==
    /\ wk[w].pc = "body" /\ wk[w].fetch
    /\ LET r == wk[w]
           piece == IF r.header THEN Junk ELSE r.next
           more == r.header \/ r.next <= RangeEnd(r)
           done == [r EXCEPT !.fetch = FALSE]
       IN  \/ /\ r.dconn /\ more
              /\ data' = Append(data, piece) /\ fresh' \in BOOLEAN
              /\ wk' = [wk EXCEPT ![w] = [done EXCEPT
                           !.header = FALSE, !.next = IF r.header THEN @ ELSE @ + 1]]
              /\ UNCHANGED <<exists, env>>
           \/ /\ r.dconn /\ more /\ Fault("break")
              /\ wk' = [wk EXCEPT ![w] = [done EXCEPT !.header = FALSE, !.next = Ended(r)]]
              /\ UNCHANGED file
           \/ /\ ~r.dconn \/ ~more
              /\ wk' = [wk EXCEPT ![w] = done]
              /\ UNCHANGED <<file, env>>
           \/ /\ ~r.dconn
              /\ wk' = [wk EXCEPT ![w] = [NewProcess EXCEPT !.last = "dropped"]]
              /\ UNCHANGED <<file, env>>
    /\ UNCHANGED row

Following(w) ==
    wk[w].pc = "body" /\ wk[w].mode \in {"hitdown", "resume"} /\ ~wk[w].fetch

\* Once a second: filedownloaded = file_size(completefilepath).
Refresh(w) ==
    /\ Following(w)
    /\ wk[w].filedownloaded # Len(data)
    /\ wk' = [wk EXCEPT ![w].filedownloaded = Len(data)]
    /\ UNCHANGED <<file, row, env>>

ReadDown(w) ==
    /\ Following(w)
    /\ wk[w].filesended < wk[w].filedownloaded
    /\ LET p == wk[w].filesended + 1 IN
       IF p <= Len(data)
          THEN wk' = [wk EXCEPT ![w] = Delivered(@, data[p])] /\ UNCHANGED file
          ELSE Dropped(w)
    /\ UNCHANGED <<row, env>>

\* Variant (mutant): the time of the last part is renewed while waiting.
GivesUp_Never(r) == FALSE

\* No new part for five seconds; the size is looked at every second.
GivesUp(r) == r.filesended >= Len(data)

Timeout(w) ==
    /\ Following(w)
    /\ GivesUp(wk[w])
    /\ Dropped(w)
    /\ UNCHANGED <<row, env>>

\* The length announced has been sent.  A length that is not the object's comes
\* from an error page or a redirect that GetContentLength put into the row.
Answer(r) ==
    CASE r.mode = "direct" -> "whole"
      [] r.mode # "direct" /\ r.bad -> "wrong"
      [] r.mode # "direct" /\ ~r.bad ->
            IF r.mode # "rewritten" /\ r.filesended = L THEN "whole"
            ELSE IF r.filesize = L THEN "wrong" ELSE "other"

Answered(r) ==
    [r EXCEPT !.pc = "idle", !.last = Answer(r), !.filedownloaded = 0, !.next = 1,
              !.header = FALSE, !.fetch = FALSE, !.young = FALSE, !.expired = FALSE]

\* Both connections are kept, the server's is closed, or both are.
Finish(w) ==
    /\ wk[w].pc = "finish"
    /\ LET r == Answered(wk[w]) IN
       \/ wk' = [wk EXCEPT ![w] = r] /\ UNCHANGED file
       \/ wk' = [wk EXCEPT ![w] = Closed(r)] /\ CloseFiles(wk[w])
       \/ /\ wk' = [wk EXCEPT ![w] = [NewProcess EXCEPT !.last = r.last]]
          /\ CloseFiles(wk[w])
    /\ UNCHANGED <<row, env>>

-----------------------------------------------------------------------------
(* What happens to a worker and to the file from outside.                  *)

\* The browser of a kept connection asks for nothing for ten seconds.
KeepAliveTimeout(w) ==
    /\ wk[w].pc = "idle" /\ (wk[w].connected \/ wk[w].dlresp # 0)
    /\ CloseFiles(wk[w])
    /\ wk' = [wk EXCEPT ![w] = [NewProcess EXCEPT !.last = wk[w].last]]
    /\ UNCHANGED <<row, env>>

BrowserDrop(w) ==
    /\ wk[w].pc \in {"body", "finish"} /\ Fault("drop")
    /\ Dropped(w)
    /\ UNCHANGED row

\* A worker that dies writes nothing more: what its buffer held is lost.
Crash(w) ==
    /\ wk[w].pc # "idle" \/ wk[w].pending > 0
    /\ Fault("crash")
    /\ wk' = [wk EXCEPT ![w] = [NewProcess EXCEPT !.last = "dropped"]]
    /\ UNCHANGED <<file, row>>

\* Ten seconds pass without a write.
Age ==
    /\ fresh /\ fresh' = FALSE
    /\ UNCHANGED <<exists, data, row, wk, env>>

Expire ==
    /\ GENERAL /\ row.there /\ ~row.expired /\ Fault("expiry")
    /\ row' = [row EXCEPT !.expired = TRUE]
    /\ UNCHANGED <<file, wk>>

Step(w) ==
    \/ CacheExists(w) \/ CacheRow(w) \/ CacheMtime(w) \/ CacheDecide(w)
    \/ ConnectToServer(w) \/ SendRequest(w) \/ Response(w) \/ ResumeResponse(w)
    \/ Retry(w) \/ RelayBody(w) \/ WritePart(w) \/ BreakOff(w) \/ ReadHit(w)
    \/ ResumePart(w) \/ Refresh(w) \/ ReadDown(w) \/ Timeout(w) \/ Finish(w)

Environment(w) ==
    Request(w) \/ KeepAliveTimeout(w) \/ BrowserDrop(w) \/ Crash(w)

Next == (\E w \in Workers : Step(w) \/ Environment(w)) \/ Age \/ Expire

Spec == Init /\ [][Next]_vars

\* Every worker goes on: recv(), send() and the wait for a browser have timeouts,
\* select() returns.
FairSpec ==
    /\ Spec
    /\ \A w \in Workers : WF_vars(Step(w)) /\ WF_vars(KeepAliveTimeout(w))

\* Besides, the browsers keep asking and time passes.
BusySpec == FairSpec /\ WF_vars(Age) /\ \A w \in Workers : WF_vars(Request(w))

-----------------------------------------------------------------------------
(* Properties.                                                             *)

\* Every part a browser is given is the part of the object that comes next, and
\* an answer that announces the object's length is the whole object, whether it
\* comes from the origin, from the file, or from a file that is resumed on the
\* way (connectiontohttp2.cpp:430).  What may be announced instead is the length
\* of an error page or a redirect, which GetContentLength puts into the row
\* before it sees the code (:374): such an answer is the object cut short.
Integrity == \A w \in Workers : ~wk[w].bad /\ wk[w].last # "wrong"

\* w has decided, or is about to decide, to write.
MayWrite(r) ==
    \/ r.pending > 0
    \/ r.pc \in {"mtime", "decide"} /\ (r.filesize # L \/ r.expired)
    \/ r.pc \in {"connect", "send", "response", "body"} /\ r.mode \in {"miss", "resume"}

\* The file and its row agree on a whole object and nobody is writing.
Settled ==
    /\ exists /\ data = [i \in Parts |-> i]
    /\ row.there /\ row.size = L /\ ~row.expired
    /\ \A w \in Workers : ~MayWrite(wk[w])

\* A settled object stays settled until it expires: whatever workers read of
\* the file, its time and its row, in whatever order, none is led to download
\* it again (connectiontohttp2.cpp:92 and :159).
StaysSettled == [][Settled => Settled' \/ row'.expired]_vars

\* Only a file that was downloaded in part is resumed: the comment of
\* connectiontohttp2.cpp:98 and :171, "o arquivo foi baixado parcialmente".  It
\* is the beginning of the object, and not the whole unless its row has the
\* length of something else.
ResumesPartialFile ==
    [][\A w \in Workers :
          wk[w].pc = "decide" /\ wk'[w].mode = "resume" /\ wk'[w].pc # "decide"
             => /\ Len(data) <= L /\ \A i \in 1..Len(data) : data[i] = i
                /\ Len(data) = L => wk[w].filesize # L]_vars

\* w is about to replace the file, of which the row may say already that it is new.
Replaces(r) ==
    /\ r.mode = "miss"
    /\ r.pc \in {"connect", "send", "response"} \/ (r.pc = "body" /\ ~r.writing)

\* What the store is to the outside: a file that is as long as its row says, and is not to
\* be replaced, is a good one; a client that is being served waits.
Known ==
    /\ row.there /\ row.size = L /\ ~row.expired
    /\ \A w \in Workers : ~Replaces(wk[w])

AsSeen(r) == IF r.pc = "idle" THEN r.last ELSE "asking"
Seen == [w \in Workers |-> AsSeen(wk[w])]

S == INSTANCE Store WITH Clients <- Workers, copy <- data, good <- Known, client <- Seen

\* Served one at a time, requests see a store that keeps the beginning of the object
\* and never throws away a whole copy it knows to be good: no look at the file, its time
\* and its row by one worker, and no break, error, redirect, failed INSERT or death on
\* the way, makes the next one write where the copy does not end, or be given less than
\* the whole while it is there (connectiontohttp2.cpp:76 and :430).
ImplementsStore == S!Spec

\* A resumed download was redirected without a length: line ends for as long as the
\* browser takes them (connectiontohttp2.cpp:432).
Endless(r) == r.pc = "body" /\ r.mode = "rewritten"

\* Every other request comes to an end, with an answer or without: a reader that
\* follows a download whose writer has died gives up, and retries are bounded
\* (connectiontohttp2.cpp:493, proxyhandler.cpp:151).
RequestsEnd == \A w \in Workers : wk[w].pc # "idle" ~> wk[w].pc = "idle" \/ Endless(wk[w])

\* The row has the length of an error page or a redirect.
Mislabelled == exists /\ row.there /\ row.size \notin {0, L}

\* If browsers keep asking, the object ends up in the cache for good (:430), unless
\* an error page or a redirect has left its length in the row for good (:374), or a
\* worker sends line ends for ever.
EventuallySettled ==
    <>[]Settled \/ <>[]Mislabelled \/ <>[](\E w \in Workers : Endless(wk[w]))

\* Concurrent downloads disabled by the configuration (thunder.conf:96): with
\* _NODOWN a request that finds the object being downloaded is passed to the
\* origin; it does not start to write the file a second time.
NoSecondDownload ==
    [][NODOWN => \A v, w \in Workers :
          v # w /\ wk[v].writing /\ wk[v].pc = "body" /\ wk[w].pc = "decide"
             => wk'[w].mode # "miss"]_vars
=============================================================================
