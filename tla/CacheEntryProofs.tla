-------------------------- MODULE CacheEntryProofs --------------------------
(***************************************************************************)
(* What holds of the cache entry for every number of workers, length of    *)
(* the object, number of retries and world.                                *)
(***************************************************************************)
EXTENDS CacheEntry, TLAPS

Early == {"exists", "row", "mtime", "decide", "connect", "send", "response"}

\* What the places of a worker say of its counts: only a miss has parts in its
\* buffer, and these are parts of the object.
Sound(r) ==
    /\ r.pc \in Early => r.filesended = 0
    /\ r.pc \in Early \cup {"failed"} => r.pending = 0
    /\ r.pc \in {"send", "response", "body", "finish"} => r.connected
    /\ r.pc \in {"body", "finish"} /\ r.mode = "miss" =>
          r.filesize = L /\ r.filesended <= L
    /\ r.pc = "body" /\ r.mode = "miss" => r.filesended < L
    /\ r.pending > 0 => r.connected /\ r.mode = "miss" /\ r.filesended <= L
    /\ r.fetch => r.pc \in {"body", "finish"} /\ r.mode = "resume"

Good(r) == r \in Worker /\ Sound(r)

Content == Seq(Parts \cup {Junk})

IInv == TypeOK /\ \A w \in Workers : Sound(wk[w])

-----------------------------------------------------------------------------
(* Records of a worker.                                                    *)

\* A worker stays a worker when one of its fields changes.
LEMMA WithFlag ==
  ASSUME NEW r \in Worker, NEW v \in BOOLEAN
  PROVE
    /\ [r EXCEPT !.connected = v] \in Worker
    /\ [r EXCEPT !.conn = v] \in Worker
    /\ [r EXCEPT !.dconn = v] \in Worker
    /\ [r EXCEPT !.db = v] \in Worker
    /\ [r EXCEPT !.young = v] \in Worker
    /\ [r EXCEPT !.expired = v] \in Worker
    /\ [r EXCEPT !.header = v] \in Worker
    /\ [r EXCEPT !.fetch = v] \in Worker
    /\ [r EXCEPT !.writing = v] \in Worker
    /\ [r EXCEPT !.bad = v] \in Worker
<1>1. [r EXCEPT !.connected = v] \in Worker  BY DEF Worker
<1>2. [r EXCEPT !.conn = v] \in Worker  BY DEF Worker
<1>3. [r EXCEPT !.dconn = v] \in Worker  BY DEF Worker
<1>4. [r EXCEPT !.db = v] \in Worker  BY DEF Worker
<1>5. [r EXCEPT !.young = v] \in Worker  BY DEF Worker
<1>6. [r EXCEPT !.expired = v] \in Worker  BY DEF Worker
<1>7. [r EXCEPT !.header = v] \in Worker  BY DEF Worker
<1>8. [r EXCEPT !.fetch = v] \in Worker  BY DEF Worker
<1>9. [r EXCEPT !.writing = v] \in Worker  BY DEF Worker
<1>10. [r EXCEPT !.bad = v] \in Worker  BY DEF Worker
<1>11. QED  BY <1>1, <1>2, <1>3, <1>4, <1>5, <1>6, <1>7, <1>8, <1>9, <1>10

LEMMA WithCount ==
  ASSUME NEW r \in Worker, NEW v \in Nat
  PROVE
    /\ [r EXCEPT !.filesize = v] \in Worker
    /\ [r EXCEPT !.filesended = v] \in Worker
    /\ [r EXCEPT !.filedownloaded = v] \in Worker
    /\ [r EXCEPT !.pending = v] \in Worker
<1>1. [r EXCEPT !.filesize = v] \in Worker  BY DEF Worker
<1>2. [r EXCEPT !.filesended = v] \in Worker  BY DEF Worker
<1>3. [r EXCEPT !.filedownloaded = v] \in Worker  BY DEF Worker
<1>4. [r EXCEPT !.pending = v] \in Worker  BY DEF Worker
<1>5. QED  BY <1>1, <1>2, <1>3, <1>4

LEMMA WithNext ==
  ASSUME NEW r \in Worker, NEW v \in Nat, v # 0
  PROVE  [r EXCEPT !.next = v] \in Worker
  BY DEF Worker

LEMMA WithPlace ==
  ASSUME NEW r \in Worker, NEW v \in Places
  PROVE  [r EXCEPT !.pc = v] \in Worker
  BY DEF Worker

LEMMA WithMode ==
  ASSUME NEW r \in Worker, NEW v \in Modes
  PROVE  [r EXCEPT !.mode = v] \in Worker
  BY DEF Worker

LEMMA WithResponse ==
  ASSUME NEW r \in Worker
  PROVE
    /\ [r EXCEPT !.dlresp = 206] \in Worker
    /\ [r EXCEPT !.dlresp = 302] \in Worker
    /\ [r EXCEPT !.dlresp = 416] \in Worker
<1>1. [r EXCEPT !.dlresp = 206] \in Worker  BY DEF Worker
<1>2. [r EXCEPT !.dlresp = 302] \in Worker  BY DEF Worker
<1>3. [r EXCEPT !.dlresp = 416] \in Worker  BY DEF Worker
<1>4. QED  BY <1>1, <1>2, <1>3

LEMMA WithRetries ==
  ASSUME NEW r \in Worker, NEW v \in 0..RETRIES
  PROVE  [r EXCEPT !.retries = v] \in Worker
  BY DEF Worker

LEMMA WithLast ==
  ASSUME NEW r \in Worker, NEW v \in {"none", "whole", "other", "wrong", "dropped"}
  PROVE  [r EXCEPT !.last = v] \in Worker
  BY DEF Worker

LEMMA NewIsGood ==
  ASSUME NEW x \in {"none", "whole", "other", "wrong", "dropped"}
  PROVE  Good([NewProcess EXCEPT !.last = x])
<1>1. NewProcess \in Worker
  BY EntryAssumption DEF NewProcess, Worker, Places, Modes
<1>2. [NewProcess EXCEPT !.last = x] \in Worker
  BY <1>1, WithLast
<1>3. Sound([NewProcess EXCEPT !.last = x])
  BY DEF NewProcess, Sound, Early
<1>4. QED
  BY <1>2, <1>3 DEF Good

LEMMA FilesClosedGood ==
  ASSUME NEW r, Good(r)
  PROVE  Good(FilesClosed(r)) /\ FilesClosed(r).pending = 0
<1>1. FilesClosed(r) \in Worker
  BY WithCount, WithFlag DEF Good, FilesClosed
<1>2. Sound(FilesClosed(r)) /\ FilesClosed(r).pending = 0
  BY DEF Good, Sound, FilesClosed, Worker, Early
<1>3. QED
  BY <1>1, <1>2 DEF Good

LEMMA ClosedGood ==
  ASSUME NEW r, Good(r), r.pc \in {"idle", "failed"}
  PROVE  Good(Closed(r)) /\ Closed(r).pending = 0
<1>1. FilesClosed(r) \in Worker
  BY FilesClosedGood DEF Good
<1>2. Closed(r) \in Worker
  BY <1>1, WithFlag DEF Closed
<1>3. Sound(Closed(r)) /\ Closed(r).pending = 0
  BY DEF Good, Sound, Closed, FilesClosed, Worker, Early
<1>4. QED
  BY <1>2, <1>3 DEF Good

LEMMA EnteredGood ==
  ASSUME NEW r, Good(r), r.pending = 0
  PROVE  Good(CacheEntered(r))
<1> DEFINE a == [r EXCEPT !.pc = "exists", !.mode = "direct"]
           b == [a EXCEPT !.filesize = 0, !.filesended = 0, !.filedownloaded = 0]
           c == [b EXCEPT !.next = 1]
           d == [c EXCEPT !.header = FALSE, !.fetch = FALSE, !.young = FALSE, !.expired = FALSE]
<1>1. a \in Worker
  BY WithPlace, WithMode DEF Good, Places, Modes
<1>2. b \in Worker
  <2> HIDE DEF a
  <2>1. QED  BY <1>1, WithCount
<1>3. c \in Worker
  <2> HIDE DEF b
  <2>1. QED  BY <1>2, WithNext
<1>4. d \in Worker
  <2> HIDE DEF c
  <2>1. QED  BY <1>3, WithFlag
<1>5. CacheEntered(r) = d
  BY DEF CacheEntered
<1>6. d.pc = "exists" /\ d.mode = "direct" /\ d.filesended = 0 /\ d.fetch = FALSE /\ d.pending = 0
  BY DEF Good, Worker
<1>7. Sound(d)
  <2> HIDE DEF d
  <2>1. QED  BY <1>4, <1>6 DEF Sound, Early
<1>8. QED
  BY <1>4, <1>5, <1>7 DEF Good

LEMMA DecidedGood ==
  ASSUME NEW r, Good(r), r.pc \in {"exists", "row", "decide"}, NEW mode \in Modes
  PROVE  Good(Decided(r, mode))
<1>1. Decided(r, mode) \in Worker
  BY WithPlace, WithMode DEF Good, Decided, Places
<1>2. Sound(Decided(r, mode))
  BY DEF Good, Sound, Decided, Worker, Early
<1>3. QED
  BY <1>1, <1>2 DEF Good

LEMMA FlushType ==
  ASSUME NEW r, Good(r), NEW d \in Content
  PROVE  Flush(d, r) \in Content
<1> DEFINE n == IF Len(d) > r.filesended THEN Len(d) ELSE r.filesended
<1>1. n \in Nat
  BY DEF Good, Worker, Content
<1>2. CASE r.pending = 0
  BY <1>2 DEF Flush
<1>3. CASE r.pending # 0
  <2>1. r.filesended <= L /\ r.filesended \in Nat /\ r.pending \in Nat
    BY <1>3 DEF Good, Sound, Worker
  <2>2. \A i \in 1..n :
          (IF r.filesended - r.pending < i /\ i <= r.filesended THEN i
           ELSE IF i <= Len(d) THEN d[i] ELSE Junk) \in Parts \cup {Junk}
    BY <1>1, <2>1, EntryAssumption DEF Parts, Junk, Content
  <2>3. QED
    BY <1>1, <1>3, <2>2 DEF Flush, Content
<1>4. QED
  BY <1>2, <1>3
-----------------------------------------------------------------------------
(* Types of what the workers share.                                        *)

Row == [there : BOOLEAN, size : Nat, expired : BOOLEAN]

FileOK == exists \in BOOLEAN /\ fresh \in BOOLEAN /\ data \in Content
RowOK == row \in Row
EnvOK == env \in World

\* One worker's record was exchanged for a good one.
Exchanged(w) == \E r : Good(r) /\ wk' = [wk EXCEPT ![w] = r]

LEMMA OthersStayGood ==
  ASSUME IInv, NEW w \in Workers, Exchanged(w), FileOK', RowOK', EnvOK'
  PROVE  IInv'
<1>1. PICK r : Good(r) /\ wk' = [wk EXCEPT ![w] = r]
  BY DEF Exchanged
<1>2. wk' \in [Workers -> Worker]
  BY <1>1 DEF IInv, TypeOK, Good
<1>3. ASSUME NEW v \in Workers PROVE Sound(wk[v]')
  <2>1. CASE v = w
    BY <1>1, <2>1 DEF IInv, TypeOK, Good
  <2>2. CASE v # w
    BY <1>1, <2>2 DEF IInv, TypeOK
  <2>3. QED  BY <2>1, <2>2
<1>4. QED
  BY <1>2, <1>3 DEF IInv, TypeOK, FileOK, RowOK, EnvOK, Row, Content

LEMMA Shared ==
  ASSUME IInv
  PROVE  FileOK /\ RowOK /\ EnvOK /\ \A w \in Workers : Good(wk[w])
  BY DEF IInv, TypeOK, FileOK, RowOK, EnvOK, Row, Content, Good

LEMMA FaultType ==
  ASSUME EnvOK, NEW k \in FaultKinds, Fault(k)
  PROVE  EnvOK'
  BY DEF EnvOK, Fault, World

LEMMA CloseFilesType ==
  ASSUME FileOK, NEW r, Good(r), CloseFiles(r)
  PROVE  FileOK'
<1>1. data' \in Content
  BY FlushType DEF CloseFiles, FileOK
<1>2. ((fresh \/ r.pending > 0) /\ ~MarksStale(r)) \in BOOLEAN
  OBVIOUS
<1>3. QED
  BY <1>1, <1>2 DEF CloseFiles, FileOK

LEMMA DroppedGood ==
  ASSUME FileOK, NEW w \in Workers, Good(wk[w]), Dropped(w)
  PROVE  Exchanged(w) /\ FileOK'
  BY NewIsGood, CloseFilesType DEF Dropped, Exchanged

LEMMA InsertType ==
  ASSUME RowOK, EnvOK, InsertRow
  PROVE  RowOK' /\ EnvOK'
<1>1. CASE row' = (IF row.there THEN row ELSE NewRow) /\ UNCHANGED env
  BY <1>1 DEF RowOK, EnvOK, Row, NewRow
<1>2. CASE Fault("db") /\ UNCHANGED row
  BY <1>2, FaultType DEF RowOK, FaultKinds
<1>3. QED
  BY <1>1, <1>2 DEF InsertRow
-----------------------------------------------------------------------------
(* Every action of a worker leaves it good.                                *)

LEMMA RequestGood ==
  ASSUME IInv, NEW w \in Workers, Request(w)
  PROVE  Exchanged(w) /\ FileOK' /\ RowOK' /\ EnvOK'
<1> DEFINE r == [wk[w] EXCEPT !.retries = 0, !.bad = FALSE, !.last = "none"]
<1>1. r \in Worker
  <2> DEFINE a == [wk[w] EXCEPT !.retries = 0]
             b == [a EXCEPT !.bad = FALSE]
  <2>1. a \in Worker
    <3>1. 0 \in 0..RETRIES  BY EntryAssumption
    <3>2. QED  BY <3>1, Shared, WithRetries DEF Good
  <2>2. b \in Worker
    <3> HIDE DEF a
    <3>1. QED  BY <2>1, WithFlag
  <2>3. [b EXCEPT !.last = "none"] \in Worker
    <3> HIDE DEF b
    <3>1. QED  BY <2>2, WithLast
  <2>4. QED  BY <2>3
<1>2. /\ r.connected = wk[w].connected /\ r.pending = wk[w].pending
      /\ r.pc = "idle" /\ r.filesended = wk[w].filesended /\ r.fetch = wk[w].fetch
      /\ r.mode = wk[w].mode
  BY Shared DEF Good, Worker, Request
<1>3. Good(r)
  <2> HIDE DEF r
  <2>1. Sound(wk[w])  BY DEF IInv
  <2>2. wk[w].pc = "idle"  BY DEF Request
  <2>3. QED  BY <1>1, <1>2, <2>1, <2>2 DEF Good, Sound, Early
<1>4. RowOK' /\ EnvOK'
  BY Shared DEF Request, RowOK, EnvOK
<1>5. CASE r.connected
  <2>1. CloseFiles(r) /\ wk' = [wk EXCEPT ![w] = CacheEntered(FilesClosed(r))]
    BY <1>5 DEF Request
  <2> HIDE DEF r
  <2>2. Good(CacheEntered(FilesClosed(r)))
    BY <1>3, FilesClosedGood, EnteredGood
  <2>3. QED
    BY <1>3, <1>4, <2>1, <2>2, Shared, CloseFilesType DEF Exchanged
<1>6. CASE ~ r.connected
  <2>1. wk' = [wk EXCEPT ![w] = CacheEntered([r EXCEPT !.db = TRUE])] /\ UNCHANGED file
    BY <1>6 DEF Request
  <2> HIDE DEF r
  <2>2. [r EXCEPT !.db = TRUE] \in Worker
    BY <1>1, WithFlag
  <2>3. Good([r EXCEPT !.db = TRUE]) /\ [r EXCEPT !.db = TRUE].pending = 0
    <3>1. r.pending = 0
      BY <1>3, <1>6 DEF Good, Sound, Worker
    <3>2. QED
      BY <1>3, <2>2, <3>1 DEF Good, Sound, Worker
  <2>4. QED
    BY <1>4, <2>1, <2>3, EnteredGood, Shared DEF Exchanged, FileOK, file
<1>7. QED
  BY <1>5, <1>6

LEMMA CacheExistsGood ==
  ASSUME IInv, NEW w \in Workers, CacheExists(w)
  PROVE  Exchanged(w) /\ FileOK' /\ RowOK' /\ EnvOK'
<1>1. Good(wk[w]) /\ wk[w].pc = "exists" /\ FileOK'
  BY Shared DEF CacheExists, FileOK, file
<1>2. CASE exists
  <2> DEFINE r == [wk[w] EXCEPT !.pc = "row"]
  <2>1. Good(r)
    <3>1. r \in Worker  BY <1>1, WithPlace DEF Good, Places
    <3>2. Sound(r)  BY <1>1 DEF Good, Sound, Worker, Early
    <3>3. QED  BY <3>1, <3>2 DEF Good
  <2>2. QED
    BY <1>1, <1>2, <2>1, Shared DEF CacheExists, Exchanged, RowOK, EnvOK
<1>3. CASE ~ exists
  <2>1. Good(Decided(wk[w], "miss"))
    BY <1>1, DecidedGood DEF Modes
  <2>2. Exchanged(w)
    BY <1>3, <2>1 DEF CacheExists, Exchanged
  <2>3. RowOK' /\ EnvOK'
    BY <1>3, Shared, InsertType DEF CacheExists, RowOK, EnvOK
  <2>4. QED  BY <1>1, <2>2, <2>3
<1>4. QED  BY <1>2, <1>3

LEMMA CacheRowGood ==
  ASSUME IInv, NEW w \in Workers, CacheRow(w)
  PROVE  Exchanged(w) /\ FileOK' /\ RowOK' /\ EnvOK'
<1>1. Good(wk[w]) /\ wk[w].pc = "row" /\ FileOK'
  BY Shared DEF CacheRow, FileOK, file
<1>2. CASE wk[w].db /\ row.there
  <2> DEFINE x == GENERAL /\ row.expired
             r == [wk[w] EXCEPT !.pc = "mtime", !.filesize = row.size, !.expired = x]
  <2>1. row.size \in Nat /\ x \in BOOLEAN
    BY Shared DEF RowOK, Row
  <2>2. r \in Worker
    <3> HIDE DEF x
    <3>1. QED  BY <1>1, <2>1, WithPlace, WithCount, WithFlag DEF Good, Places
  <2>3. Sound(r)
    <3> HIDE DEF x
    <3>1. QED  BY <1>1, <2>2 DEF Good, Sound, Worker, Early
  <2>4. wk' = [wk EXCEPT ![w] = r] /\ UNCHANGED <<row, env>>
    BY <1>2 DEF CacheRow
  <2>5. QED
    BY <1>1, <2>2, <2>3, <2>4, Shared DEF Exchanged, RowOK, EnvOK, Good
<1>3. CASE wk[w].db /\ ~ row.there
  <2>1. wk' = [wk EXCEPT ![w] = Decided(wk[w], "miss")] /\ InsertRow
    BY <1>3 DEF CacheRow
  <2>2. Good(Decided(wk[w], "miss"))
    BY <1>1, DecidedGood DEF Modes
  <2>3. QED
    BY <1>1, <2>1, <2>2, Shared, InsertType DEF Exchanged
<1>4. CASE ~ wk[w].db
  <2>1. \/ wk' = [wk EXCEPT ![w] = Decided(wk[w], "direct")]
        \/ wk' = [wk EXCEPT ![w] = [NewProcess EXCEPT !.last = "dropped"]]
    BY <1>4 DEF CacheRow
  <2>2. Good(Decided(wk[w], "direct"))
    BY <1>1, DecidedGood DEF Modes
  <2>3. UNCHANGED <<row, env>>
    BY <1>4 DEF CacheRow
  <2>4. QED
    BY <1>1, <2>1, <2>2, <2>3, Shared, NewIsGood DEF Exchanged, RowOK, EnvOK
<1>5. QED
  BY <1>2, <1>3, <1>4

LEMMA CacheMtimeGood ==
  ASSUME IInv, NEW w \in Workers, CacheMtime(w)
  PROVE  Exchanged(w) /\ FileOK' /\ RowOK' /\ EnvOK'
<1> DEFINE r == [wk[w] EXCEPT !.young = fresh, !.pc = "decide"]
<1>1. Good(wk[w]) /\ wk[w].pc = "mtime" /\ fresh \in BOOLEAN
  BY Shared DEF CacheMtime, FileOK
<1>2. r \in Worker
  BY <1>1, WithFlag, WithPlace DEF Good, Places
<1>3. Sound(r)
  BY <1>1 DEF Good, Sound, Worker, Early
<1>4. QED
  BY <1>2, <1>3, Shared DEF CacheMtime, Exchanged, Good, FileOK, RowOK, EnvOK, file

LEMMA CacheDecideGood ==
  ASSUME IInv, NEW w \in Workers, CacheDecide(w)
  PROVE  Exchanged(w) /\ FileOK' /\ RowOK' /\ EnvOK'
<1>1. Good(wk[w]) /\ wk[w].pc = "decide"
  BY Shared DEF CacheDecide
<1>2. \E mode \in Modes : wk' = [wk EXCEPT ![w] = Decided(wk[w], mode)]
  BY DEF CacheDecide, Modes
<1>3. FileOK' /\ EnvOK'
  BY Shared DEF CacheDecide, FileOK, EnvOK, file
<1>4. (row.expired /\ ~wk[w].expired) \in BOOLEAN
  OBVIOUS
<1>5. RowOK'
  BY <1>4, Shared DEF CacheDecide, MarkDownloaded, RowOK, Row
<1>6. QED
  BY <1>1, <1>2, <1>3, <1>5, DecidedGood DEF Exchanged
LEMMA ConnectGood ==
  ASSUME IInv, NEW w \in Workers, ConnectToServer(w)
  PROVE  Exchanged(w) /\ FileOK' /\ RowOK' /\ EnvOK'
<1> DEFINE r == [wk[w] EXCEPT !.pc = "send", !.connected = TRUE]
<1>1. Good(wk[w]) /\ wk[w].pc = "connect"
  BY Shared DEF ConnectToServer
<1>2. RowOK'
  BY Shared DEF ConnectToServer, RowOK
<1>3. r \in Worker
  BY <1>1, WithFlag, WithPlace DEF Good, Places
<1>4. Sound(r) /\ r.pc = "send" /\ r.connected
  BY <1>1 DEF Good, Sound, Worker, Early
<1>5. Good(r)
  BY <1>3, <1>4 DEF Good
<1>6. "break" \in FaultKinds
  BY DEF FaultKinds
<1>7. CASE wk' = [wk EXCEPT ![w] = r] /\ UNCHANGED <<file, env>>
  BY <1>2, <1>5, <1>7, Shared DEF Exchanged, FileOK, EnvOK, file
<1>8. CASE wk' = [wk EXCEPT ![w] = [r EXCEPT !.conn = TRUE]] /\ UNCHANGED <<file, env>>
  <2>1. Good([r EXCEPT !.conn = TRUE])
    <3> HIDE DEF r
    <3>1. [r EXCEPT !.conn = TRUE] \in Worker  BY <1>3, WithFlag
    <3>2. QED  BY <1>5, <3>1 DEF Good, Sound, Worker
  <2>2. QED
    BY <1>2, <1>8, <2>1, Shared DEF Exchanged, FileOK, EnvOK, file
<1>9. CASE wk' = [wk EXCEPT ![w].pc = "failed"] /\ Fault("break") /\ UNCHANGED file
  <2>1. [wk[w] EXCEPT !.pc = "failed"] \in Worker
    BY <1>1, WithPlace DEF Good, Places
  <2>2. Sound([wk[w] EXCEPT !.pc = "failed"])
    BY <1>1 DEF Good, Sound, Worker, Early
  <2>3. QED
    BY <1>2, <1>6, <1>9, <2>1, <2>2, Shared, FaultType DEF Exchanged, Good, FileOK, file
<1>10. CASE Dropped(w) /\ Fault("break")
  BY <1>1, <1>2, <1>6, <1>10, Shared, FaultType, DroppedGood
<1>11. CASE wk' = [wk EXCEPT ![w] = [r EXCEPT !.dconn = TRUE]] /\ UNCHANGED <<file, env>>
  <2>1. Good([r EXCEPT !.dconn = TRUE])
    <3> HIDE DEF r
    <3>1. [r EXCEPT !.dconn = TRUE] \in Worker  BY <1>3, WithFlag
    <3>2. QED  BY <1>5, <3>1 DEF Good, Sound, Worker
  <2>2. QED
    BY <1>2, <1>11, <2>1, Shared DEF Exchanged, FileOK, EnvOK, file
<1>12. CASE /\ Fault("break") /\ CloseFiles(r)
            /\ wk' = [wk EXCEPT ![w] = [Closed(r) EXCEPT !.connected = TRUE]]
  <2> HIDE DEF r
  <2> DEFINE c == [Closed(r) EXCEPT !.connected = TRUE]
  <2>1. Closed(r) \in Worker
    <3>1. FilesClosed(r) \in Worker  BY <1>5, FilesClosedGood DEF Good
    <3>2. QED  BY <3>1, WithFlag DEF Closed
  <2>2. c \in Worker
    BY <2>1, WithFlag
  <2>3. Sound(c)
    BY <1>4, <1>5 DEF Good, Sound, Worker, Closed, FilesClosed, Early
  <2>4. QED
    BY <1>2, <1>5, <1>6, <1>12, <2>2, <2>3, Shared, FaultType, CloseFilesType
       DEF Exchanged, Good
<1>13. QED
  <2> HIDE DEF r
  <2>1. QED
    BY <1>7, <1>8, <1>9, <1>10, <1>11, <1>12 DEF ConnectToServer, r

\* Where the header goes: a worker that has something to give begins to, and
\* one that has not is done.
LEMMA SendRequestGood ==
  ASSUME IInv, NEW w \in Workers, SendRequest(w)
  PROVE  Exchanged(w) /\ FileOK' /\ RowOK' /\ EnvOK'
<1>1. Good(wk[w]) /\ wk[w].pc = "send" /\ FileOK' /\ RowOK'
  BY Shared DEF SendRequest, FileOK, RowOK, file
<1>2. ASSUME NEW place \in {"finish", "body", "response", "failed"},
             place \in {"finish", "body"} => wk[w].mode # "miss",
             wk' = [wk EXCEPT ![w].pc = place]
      PROVE  Exchanged(w)
  <2>1. [wk[w] EXCEPT !.pc = place] \in Worker
    BY <1>1, WithPlace DEF Good, Places
  <2>2. Sound([wk[w] EXCEPT !.pc = place])
    BY <1>1, <1>2 DEF Good, Sound, Worker, Early
  <2>3. QED  BY <1>2, <2>1, <2>2 DEF Exchanged, Good
<1>3. CASE wk[w].mode \in {"hit", "hitdown"}
  <2>1. PICK place \in {"finish", "body"} : wk' = [wk EXCEPT ![w].pc = place]
    BY <1>3 DEF SendRequest
  <2>2. EnvOK'
    BY <1>3, Shared DEF SendRequest, EnvOK
  <2>3. QED  BY <1>1, <1>2, <1>3, <2>1, <2>2
<1>4. CASE wk[w].mode \in {"miss", "direct"}
  <2>1. PICK place \in {"response", "failed"} : wk' = [wk EXCEPT ![w].pc = place]
    BY <1>4 DEF SendRequest
  <2>2. env' = env \/ Fault("break")
    BY <1>4 DEF SendRequest
  <2>3. EnvOK'
    BY <2>2, Shared, FaultType DEF FaultKinds, EnvOK
  <2>4. QED  BY <1>1, <1>2, <2>1, <2>3
<1>5. CASE wk[w].mode = "resume"
  <2> DEFINE h == wk[w].dconn
             a == [wk[w] EXCEPT !.pc = "response", !.header = h]
             r == [a EXCEPT !.next = RangeStart]
  <2>1. a \in Worker
    <3>1. h \in BOOLEAN  BY <1>1 DEF Good, Worker
    <3> HIDE DEF h
    <3>2. QED  BY <1>1, <3>1, WithPlace, WithFlag DEF Good, Places
  <2>2. r \in Worker
    <3>1. RangeStart \in Nat /\ RangeStart # 0
      BY Shared DEF RangeStart, FileOK, Content
    <3> HIDE DEF a
    <3>2. QED  BY <2>1, <3>1, WithNext
  <2>3. Sound(r)
    BY <1>1, <1>5 DEF Good, Sound, Worker, Early
  <2>4. wk' = [wk EXCEPT ![w] = r] /\ EnvOK'
    BY <1>5, Shared DEF SendRequest, EnvOK
  <2>5. QED  BY <1>1, <2>2, <2>3, <2>4 DEF Exchanged, Good
<1>6. QED
  BY <1>3, <1>4, <1>5 DEF SendRequest

LEMMA SetSizeType ==
  ASSUME RowOK, NEW w \in Workers, NEW n \in Nat, SetSize(w, n)
  PROVE  RowOK'
  BY DEF SetSize, RowOK, Row

LEMMA ResponseGood ==
  ASSUME IInv, NEW w \in Workers, Response(w)
  PROVE  Exchanged(w) /\ FileOK' /\ RowOK' /\ EnvOK'
<1>1. Good(wk[w]) /\ wk[w].pc = "response" /\ wk[w].mode \in {"miss", "direct"} /\ FileOK'
  BY Shared DEF Response, FileOK, file
<1>2. CASE /\ SetSize(w, L) /\ UNCHANGED env
           /\ wk' = [wk EXCEPT ![w].pc = "body", ![w].filesize = L]
  <2> DEFINE r == [wk[w] EXCEPT !.pc = "body", !.filesize = L]
  <2>1. r \in Worker
    BY <1>1, WithPlace, WithCount, EntryAssumption DEF Good, Places
  <2>2. Sound(r)
    BY <1>1, EntryAssumption DEF Good, Sound, Worker, Early
  <2>3. QED
    BY <1>1, <1>2, <2>1, <2>2, Shared, SetSizeType, EntryAssumption DEF Exchanged, Good, EnvOK
<1>3. CASE /\ Fault("error") /\ SetSize(w, ErrorSize)
           /\ wk' = [wk EXCEPT ![w].pc = "body", ![w].mode = "direct", ![w].filesize = ErrorSize]
  <2> DEFINE a == [wk[w] EXCEPT !.pc = "body", !.mode = "direct"]
             r == [a EXCEPT !.filesize = ErrorSize]
  <2>1. a \in Worker
    BY <1>1, WithPlace, WithMode DEF Good, Places, Modes
  <2>2. r \in Worker
    <3> HIDE DEF a
    <3>1. QED  BY <2>1, WithCount, EntryAssumption
  <2>3. Sound(r)
    BY <1>1 DEF Good, Sound, Worker, Early
  <2>4. wk' = [wk EXCEPT ![w] = r]
    BY <1>3
  <2>5. RowOK' /\ EnvOK'
    BY <1>3, Shared, SetSizeType, FaultType, EntryAssumption DEF FaultKinds
  <2>6. QED
    BY <1>1, <2>2, <2>3, <2>4, <2>5 DEF Exchanged, Good
<1>4. CASE Fault("break") /\ wk' = [wk EXCEPT ![w].pc = "failed"] /\ UNCHANGED row
  <2>1. [wk[w] EXCEPT !.pc = "failed"] \in Worker
    BY <1>1, WithPlace DEF Good, Places
  <2>2. Sound([wk[w] EXCEPT !.pc = "failed"])
    BY <1>1 DEF Good, Sound, Worker, Early
  <2>3. QED
    BY <1>1, <1>4, <2>1, <2>2, Shared, FaultType DEF Exchanged, Good, RowOK, FaultKinds
<1>5. QED
  BY <1>2, <1>3, <1>4 DEF Response

\* A downloader that is redirected, now or earlier on this connection.
LEMMA RewrittenGood ==
  ASSUME NEW r, Good(r), r.pc = "response", NEW n \in Nat, NEW place \in {"body", "finish"}
  PROVE  Good(Rewritten(r, place, n))
<1> DEFINE q == Rewritten(r, place, n)
<1>1. q \in Worker
  <2> DEFINE a == [r EXCEPT !.pc = place, !.mode = "rewritten"]
             b == [a EXCEPT !.dlresp = 302]
             c == [b EXCEPT !.header = FALSE]
             d == [c EXCEPT !.filesize = n]
  <2>1. a \in Worker  BY WithPlace, WithMode DEF Good, Places, Modes
  <2>2. b \in Worker
    <3> HIDE DEF a
    <3>1. QED  BY <2>1 DEF Worker
  <2>3. c \in Worker
    <3> HIDE DEF b
    <3>1. QED  BY <2>2, WithFlag
  <2>4. d \in Worker
    <3> HIDE DEF c
    <3>1. QED  BY <2>3, WithCount
  <2>5. q = d  BY DEF Rewritten
  <2>6. QED  BY <2>4, <2>5
<1>2. /\ q.pc = place /\ q.mode = "rewritten" /\ q.fetch = r.fetch
      /\ q.pending = r.pending /\ q.connected = r.connected
  BY DEF Good, Worker, Rewritten
<1>3. ~r.fetch /\ r.pending = 0 /\ r.connected
  BY DEF Good, Sound, Worker, Early
<1>4. Sound(q)
  <2> HIDE DEF q
  <2>1. QED  BY <1>1, <1>2, <1>3 DEF Sound, Early
<1>5. QED
  BY <1>1, <1>4 DEF Good

LEMMA ResumeResponseGood ==
  ASSUME IInv, NEW w \in Workers, ResumeResponse(w)
  PROVE  Exchanged(w) /\ FileOK' /\ RowOK' /\ EnvOK'
<1> DEFINE a == [wk[w] EXCEPT !.pc = "body", !.fetch = TRUE]
           f == [wk[w] EXCEPT !.pc = "failed"]
<1>1. /\ Good(wk[w]) /\ wk[w].pc = "response" /\ wk[w].mode = "resume" /\ FileOK'
  BY Shared DEF ResumeResponse, FileOK, file
<1>2. a \in Worker /\ f \in Worker
  <2>1. a \in Worker  BY <1>1, WithPlace, WithFlag DEF Good, Places
  <2>2. f \in Worker  BY <1>1, WithPlace DEF Good, Places
  <2>3. QED  BY <2>1, <2>2
<1>3. Good(a) /\ Good(f)
  <2>1. Sound(a)  BY <1>1 DEF Good, Sound, Worker, Early
  <2>2. Sound(f)  BY <1>1 DEF Good, Sound, Worker, Early
  <2>3. QED  BY <1>2, <2>1, <2>2 DEF Good
<1>4. EnvOK'
  <2>1. env' = env \/ Fault("error") \/ Fault("break") \/ Fault("redirect")
    BY DEF ResumeResponse
  <2>2. QED  BY <2>1, Shared, FaultType DEF EnvOK, FaultKinds
<1>5. RowOK'
  <2>1. row' = row \/ \E n \in {0, ErrorSize} : SetSize(w, n)
    BY DEF ResumeResponse, Redirected
  <2>2. \A n \in {0, ErrorSize} : n \in Nat  BY EntryAssumption
  <2>3. QED  BY <2>1, <2>2, Shared, SetSizeType DEF RowOK
<1>6. CASE wk' = [wk EXCEPT ![w] = [a EXCEPT !.dlresp = 206, !.header = FALSE]]
  <2> DEFINE b == [a EXCEPT !.dlresp = 206]
             c == [b EXCEPT !.header = FALSE]
  <2>1. b \in Worker
    <3>1. a \in Worker  BY <1>2
    <3> HIDE DEF a
    <3>2. QED  BY <3>1 DEF Worker
  <2>2. c \in Worker
    <3> HIDE DEF b
    <3>1. QED  BY <2>1, WithFlag
  <2>3. Sound(c)
    <3> HIDE DEF a
    <3>1. QED  BY <1>3 DEF Good, Sound, Worker
  <2>4. QED  BY <1>1, <1>4, <1>5, <1>6, <2>2, <2>3 DEF Exchanged, Good
<1>7. CASE wk' = [wk EXCEPT ![w].pc = "failed", ![w].dlresp = 416]
  <2> DEFINE r == [f EXCEPT !.dlresp = 416]
  <2>1. r \in Worker
    <3> HIDE DEF f
    <3>1. QED  BY <1>2, WithResponse
  <2>2. Sound(r)
    <3> HIDE DEF f
    <3>1. QED  BY <1>3 DEF Good, Sound, Worker
  <2>3. wk' = [wk EXCEPT ![w] = r]  BY <1>7
  <2>4. Good(r)  BY <2>1, <2>2 DEF Good
  <2>5. QED
    <3> HIDE DEF r
    <3>1. QED  BY <1>1, <1>4, <1>5, <2>3, <2>4 DEF Exchanged
<1>8. CASE wk' = [wk EXCEPT ![w] = f]
  BY <1>1, <1>3, <1>4, <1>5, <1>8 DEF Exchanged
<1>9. CASE wk' = [wk EXCEPT ![w] = [NewProcess EXCEPT !.last = "dropped"]]
  BY <1>1, <1>4, <1>5, <1>9, NewIsGood DEF Exchanged
<1>10. CASE wk' = [wk EXCEPT ![w] = a]
  BY <1>1, <1>3, <1>4, <1>5, <1>10 DEF Exchanged
<1>11. CASE Redirected(w) \/ wk' = [wk EXCEPT ![w] = Rewritten(wk[w], "body", 0)]
  <2>1. PICK n \in {0, ErrorSize}, place \in {"body", "finish"} :
               wk' = [wk EXCEPT ![w] = Rewritten(wk[w], place, n)]
    BY <1>11 DEF Redirected
  <2>2. n \in Nat  BY EntryAssumption
  <2>3. Good(Rewritten(wk[w], place, n))
    BY <1>1, <2>2, RewrittenGood
  <2>4. QED  BY <1>1, <1>4, <1>5, <2>1, <2>3 DEF Exchanged
<1>12. QED
  BY <1>6, <1>7, <1>8, <1>9, <1>10, <1>11 DEF ResumeResponse

LEMMA RetryGood ==
  ASSUME IInv, NEW w \in Workers, Retry(w)
  PROVE  Exchanged(w) /\ FileOK' /\ RowOK' /\ EnvOK'
<1>1. Good(wk[w]) /\ wk[w].pc = "failed" /\ RowOK' /\ EnvOK'
  BY Shared DEF Retry, RowOK, EnvOK
<1>2. CASE MayRetry(wk[w])
  <2> DEFINE c == Closed(wk[w])
             a == [c EXCEPT !.db = TRUE]
             n == c.retries + 1
             r == [a EXCEPT !.retries = n]
  <2>1. Good(c) /\ c.pending = 0 /\ c.pc = "failed"
    <3>1. Good(c) /\ c.pending = 0  BY <1>1, ClosedGood
    <3>2. c.pc = "failed"  BY <1>1 DEF Closed, FilesClosed, Good, Worker
    <3>3. QED  BY <3>1, <3>2
  <2>2. n \in 0..RETRIES
    BY <1>1, <1>2, EntryAssumption DEF MayRetry, Closed, FilesClosed, Good, Worker
  <2>3. a \in Worker
    <3> HIDE DEF c
    <3>1. QED  BY <2>1, WithFlag DEF Good
  <2>4. r \in Worker
    <3> HIDE DEF a, n
    <3>1. QED  BY <2>2, <2>3, WithRetries
  <2>5. Sound(r) /\ r.pending = 0
    <3> HIDE DEF c, n
    <3>1. QED  BY <2>1 DEF Good, Sound, Worker
  <2>6. Good(CacheEntered(r))
    <3> HIDE DEF r
    <3>1. QED  BY <2>4, <2>5, EnteredGood DEF Good
  <2>7. CloseFiles(wk[w]) /\ wk' = [wk EXCEPT ![w] = CacheEntered(r)]
    <3>1. c.retries = wk[w].retries
      <4>1. wk[w] \in Worker  BY <1>1 DEF Good
      <4>2. QED  BY <4>1 DEF Closed, FilesClosed, Worker
    <3>2. r = [c EXCEPT !.db = TRUE, !.retries = wk[w].retries + 1]
      <4> HIDE DEF c
      <4>1. QED  BY <3>1
    <3> HIDE DEF r
    <3>3. /\ CloseFiles(wk[w])
          /\ wk' = [wk EXCEPT ![w] = CacheEntered([Closed(wk[w]) EXCEPT
                                !.db = TRUE, !.retries = wk[w].retries + 1])]
      BY <1>2, Zenon DEF Retry
    <3>4. QED  BY <3>2, <3>3, Zenon
  <2>8. QED
    <3> HIDE DEF r
    <3>1. QED  BY <1>1, <2>6, <2>7, Shared, CloseFilesType DEF Exchanged
<1>3. CASE ~ MayRetry(wk[w])
  BY <1>1, <1>3, Shared, DroppedGood DEF Retry
<1>4. QED
  BY <1>2, <1>3

\* A part more for the browser of a worker in the body of its answer.
LEMMA DeliveredGood ==
  ASSUME NEW r, Good(r), r.pc = "body", NEW b
  PROVE  Good(Delivered(r, b))
<1> DEFINE n == r.filesended + 1
           f == r.mode = "resume"
           e == r.bad \/ b # r.filesended + 1
           p == IF n = r.filesize THEN "finish" ELSE "body"
<1>1. n \in Nat /\ f \in BOOLEAN /\ e \in BOOLEAN /\ p \in {"body", "finish"}
  <2>1. n \in Nat  BY DEF Good, Worker
  <2>2. f \in BOOLEAN /\ e \in BOOLEAN  OBVIOUS
  <2>3. QED  BY <2>1, <2>2
<1> DEFINE s == [r EXCEPT !.filesended = n]
           t == [s EXCEPT !.fetch = f, !.bad = e]
           u == [t EXCEPT !.pc = p]
<1>2. s \in Worker
  <2> HIDE DEF n
  <2>1. QED  BY <1>1, WithCount DEF Good
<1>3. t \in Worker
  <2> HIDE DEF s, f, e
  <2>1. QED  BY <1>1, <1>2, WithFlag
<1>4. u \in Worker
  <2> HIDE DEF t, p
  <2>1. QED  BY <1>1, <1>3, WithPlace DEF Places
<1>5. Delivered(r, b) = u
  BY DEF Delivered
<1>6. /\ u.pc = p /\ u.filesended = n /\ u.fetch = f /\ u.mode = r.mode
      /\ u.connected = r.connected /\ u.filesize = r.filesize /\ u.pending = r.pending
  BY DEF Good, Worker
<1>7. Sound(u)
  <2> HIDE DEF u
  <2>1. r.connected /\ (r.mode = "miss" => r.filesize = L /\ n <= L)
    BY EntryAssumption DEF Good, Sound, Worker
  <2>2. QED
    BY <1>1, <1>6, <2>1, EntryAssumption DEF Sound, Good, Early, Worker
<1>8. QED
  BY <1>4, <1>5, <1>7 DEF Good
LEMMA RelayBodyGood ==
  ASSUME IInv, NEW w \in Workers, RelayBody(w)
  PROVE  Exchanged(w) /\ FileOK' /\ RowOK' /\ EnvOK'
<1> DEFINE s == [wk[w] EXCEPT !.pc = "finish"]
<1>1. Good(wk[w]) /\ wk[w].pc = "body" /\ wk[w].mode = "direct"
  BY Shared DEF RelayBody
<1>2. s \in Worker
  BY <1>1, WithPlace DEF Good, Places
<1>3. Sound(s)
  BY <1>1 DEF Good, Sound, Worker, Early
<1>4. QED
  BY <1>2, <1>3, Shared DEF RelayBody, Exchanged, Good, FileOK, RowOK, EnvOK, file

\* What a miss writes are parts of the object, and no more than it has.
LEMMA WritePartGood ==
  ASSUME IInv, NEW w \in Workers, WritePart(w)
  PROVE  Exchanged(w) /\ FileOK' /\ RowOK' /\ EnvOK'
<1> DEFINE d == Delivered(wk[w], wk[w].next)
           n == d.next + 1
           p == d.pending + 1
           a == [d EXCEPT !.next = n]
           s == [a EXCEPT !.writing = TRUE]
           t == [s EXCEPT !.pending = p]
           u == [t EXCEPT !.pending = 0]
           opened == IF wk[w].writing THEN data ELSE <<>>
<1>1. Good(wk[w]) /\ wk[w].pc = "body" /\ wk[w].mode = "miss" /\ FileOK
  BY Shared DEF WritePart
<1>2. Good(d)
  BY <1>1, DeliveredGood
<1>3. d.pc \in {"body", "finish"} /\ d.mode = "miss"
  BY <1>1 DEF Delivered, Good, Worker
<1>4. n \in Nat /\ n # 0 /\ p \in Nat
  <2> HIDE DEF d
  <2>1. QED  BY <1>2 DEF Good, Worker
<1>5. a \in Worker
  <2> HIDE DEF d, n
  <2>1. QED  BY <1>2, <1>4, WithNext DEF Good
<1>6. s \in Worker
  <2> HIDE DEF a
  <2>1. QED  BY <1>5, WithFlag
<1>7. t \in Worker
  <2> HIDE DEF s, p
  <2>1. QED  BY <1>4, <1>6, WithCount
<1>8. Good(t) /\ t.pending = p
  <2> HIDE DEF d, n, p
  <2>1. Sound(t) /\ t.pending = p  BY <1>2, <1>3 DEF Good, Sound, Worker, Early
  <2>2. QED  BY <1>7, <2>1 DEF Good
<1>9. Good(u)
  <2> HIDE DEF t
  <2>1. u \in Worker  BY <1>7, WithCount
  <2>2. Sound(u)  BY <1>8 DEF Good, Sound, Worker, Early
  <2>3. QED  BY <2>1, <2>2 DEF Good
<1>10. opened \in Content
  BY <1>1 DEF FileOK, Content
<1>11. t = [d EXCEPT !.next = @ + 1, !.writing = TRUE, !.pending = @ + 1]
  <2>1. d \in Worker  BY <1>2 DEF Good
  <2> HIDE DEF d
  <2>2. s.pending = d.pending  BY <2>1 DEF Worker
  <2>3. QED  BY <2>2
<1>12. /\ \/ data' = Flush(opened, t) /\ fresh' \in BOOLEAN /\ wk' = [wk EXCEPT ![w] = u]
          \/ data' = opened /\ fresh' = (fresh \/ ~wk[w].writing) /\ wk' = [wk EXCEPT ![w] = t]
       /\ exists' = TRUE /\ UNCHANGED <<row, env>>
  <2> HIDE DEF t
  <2>1. QED  BY <1>11, Zenon DEF WritePart
<1>13. RowOK' /\ EnvOK'
  BY <1>12, Shared DEF RowOK, EnvOK
<1>14. FileOK'
  <2> HIDE DEF t, opened
  <2>1. CASE data' = Flush(opened, t) /\ fresh' \in BOOLEAN
    BY <1>8, <1>10, <1>12, <2>1, FlushType DEF FileOK
  <2>2. CASE data' = opened /\ fresh' = (fresh \/ ~wk[w].writing)
    <3>1. (fresh \/ ~wk[w].writing) \in BOOLEAN  OBVIOUS
    <3>2. QED  BY <1>10, <1>12, <2>2, <3>1 DEF FileOK
  <2>3. QED  BY <1>12, <2>1, <2>2
<1>15. Exchanged(w)
  <2> HIDE DEF t, u
  <2>1. QED  BY <1>8, <1>9, <1>12 DEF Exchanged
<1>16. QED
  BY <1>13, <1>14, <1>15

LEMMA BreakOffGood ==
  ASSUME IInv, NEW w \in Workers, BreakOff(w)
  PROVE  Exchanged(w) /\ FileOK' /\ RowOK' /\ EnvOK'
<1>1. RowOK' /\ EnvOK'
  BY Shared, FaultType DEF BreakOff, RowOK, FaultKinds
<1>2. CASE /\ exists' = TRUE /\ data' = <<>> /\ fresh' = FALSE
           /\ wk' = [wk EXCEPT ![w] = [NewProcess EXCEPT !.last = "dropped"]]
  <2>1. FileOK'
    <3>1. <<>> \in Content  BY DEF Content
    <3>2. QED  BY <1>2, <3>1 DEF FileOK
  <2>2. Exchanged(w)  BY <1>2, NewIsGood DEF Exchanged
  <2>3. QED  BY <1>1, <2>1, <2>2
<1>3. CASE Dropped(w)
  BY <1>1, <1>3, Shared, DroppedGood
<1>4. QED
  BY <1>2, <1>3 DEF BreakOff

LEMMA ReadHitGood ==
  ASSUME IInv, NEW w \in Workers, ReadHit(w)
  PROVE  Exchanged(w) /\ FileOK' /\ RowOK' /\ EnvOK'
<1>1. Good(wk[w]) /\ wk[w].pc = "body" /\ RowOK' /\ EnvOK'
  BY Shared DEF ReadHit, RowOK, EnvOK
<1> DEFINE d == Delivered(wk[w], data[wk[w].filesended + 1])
<1>2. CASE wk' = [wk EXCEPT ![w] = d] /\ UNCHANGED file
  <2>1. Good(d)  BY <1>1, DeliveredGood
  <2> HIDE DEF d
  <2>2. QED  BY <1>1, <1>2, <2>1, Shared DEF Exchanged, FileOK, file
<1>3. CASE Dropped(w)
  BY <1>1, <1>3, Shared, DroppedGood
<1>4. QED
  BY <1>2, <1>3 DEF ReadHit

\* What a resuming worker appends: a part that the Range it sent names, or the
\* header that nobody read.
LEMMA ResumePartGood ==
  ASSUME IInv, NEW w \in Workers, ResumePart(w)
  PROVE  Exchanged(w) /\ FileOK' /\ RowOK' /\ EnvOK'
<1> DEFINE done == [wk[w] EXCEPT !.fetch = FALSE]
           next == IF wk[w].header THEN done.next ELSE done.next + 1
           s(n) == [done EXCEPT !.header = FALSE, !.next = n]
           piece == IF wk[w].header THEN Junk ELSE wk[w].next
           more == wk[w].header \/ wk[w].next <= RangeEnd(wk[w])
<1>1. Good(wk[w]) /\ wk[w].pc = "body" /\ wk[w].fetch /\ wk[w].mode = "resume" /\ FileOK /\ RowOK'
  BY Shared DEF ResumePart, RowOK, Good, Sound
<1>2. done \in Worker
  BY <1>1, WithFlag DEF Good
<1>3. Good(done)
  <2>1. Sound(done)  BY <1>1 DEF Good, Sound, Worker, Early
  <2>2. QED  BY <1>2, <2>1 DEF Good
<1>4. next \in Nat /\ next # 0
  <2> HIDE DEF done
  <2>1. QED  BY <1>2 DEF Worker
<1>5. Ended(wk[w]) \in Nat /\ Ended(wk[w]) # 0
  BY <1>1, EntryAssumption DEF Good, Worker, Ended, RangeEnd
<1>6. ASSUME NEW n \in Nat, n # 0 PROVE Good(s(n))
  <2> DEFINE h == [done EXCEPT !.header = FALSE]
  <2>1. h \in Worker
    <3> HIDE DEF done
    <3>1. QED  BY <1>2, WithFlag
  <2>2. s(n) \in Worker
    <3> HIDE DEF h
    <3>1. [h EXCEPT !.next = n] \in Worker  BY <1>6, <2>1, WithNext
    <3>2. QED  BY <3>1 DEF h
  <2>3. Sound(s(n))
    <3> HIDE DEF done
    <3>1. QED  BY <1>3 DEF Good, Sound, Worker, Early
  <2>4. QED  BY <2>2, <2>3 DEF Good
<1>7. EnvOK'
  <2>1. env' = env \/ Fault("break")  BY DEF ResumePart
  <2>2. QED  BY <2>1, Shared, FaultType DEF EnvOK, FaultKinds
<1>8. CASE /\ more /\ data' = Append(data, piece) /\ fresh' \in BOOLEAN
           /\ wk' = [wk EXCEPT ![w] = s(next)] /\ UNCHANGED exists
  <2>1. piece \in Parts \cup {Junk}
    <3>1. wk[w].next \in Nat \ {0} /\ wk[w].filesize \in Nat  BY <1>1 DEF Good, Worker
    <3>2. QED  BY <1>8, <3>1, EntryAssumption DEF RangeEnd, Parts
  <2>2. FileOK'
    <3> HIDE DEF piece
    <3>1. QED  BY <1>1, <1>8, <2>1 DEF FileOK, Content
  <2>3. Good(s(next))
    <3> HIDE DEF s, next
    <3>1. QED  BY <1>4, <1>6
  <2> HIDE DEF s, next
  <2>4. QED  BY <1>1, <1>7, <1>8, <2>2, <2>3 DEF Exchanged
<1>9. CASE wk' = [wk EXCEPT ![w] = s(Ended(wk[w]))] /\ UNCHANGED file
  <2>1. Good(s(Ended(wk[w])))
    <3> HIDE DEF s
    <3>1. QED  BY <1>5, <1>6
  <2> HIDE DEF s
  <2>2. QED  BY <1>1, <1>7, <1>9, <2>1 DEF Exchanged, FileOK, file
<1>10. CASE wk' = [wk EXCEPT ![w] = done] /\ UNCHANGED file
  <2> HIDE DEF done
  <2>1. QED  BY <1>1, <1>3, <1>7, <1>10 DEF Exchanged, FileOK, file
<1>11. CASE wk' = [wk EXCEPT ![w] = [NewProcess EXCEPT !.last = "dropped"]] /\ UNCHANGED file
  BY <1>1, <1>7, <1>11, NewIsGood DEF Exchanged, FileOK, file
<1>12. s(next) = [done EXCEPT !.header = FALSE, !.next = IF wk[w].header THEN @ ELSE @ + 1]
  <2> HIDE DEF done
  <2>1. [done EXCEPT !.header = FALSE].next = done.next  BY <1>2 DEF Worker
  <2>2. QED  BY <2>1
<1>13. QED
  <2>1. \/ /\ more /\ data' = Append(data, piece) /\ fresh' \in BOOLEAN
           /\ wk' = [wk EXCEPT ![w] = [done EXCEPT
                        !.header = FALSE, !.next = IF wk[w].header THEN @ ELSE @ + 1]]
           /\ UNCHANGED exists
        \/ wk' = [wk EXCEPT ![w] = s(Ended(wk[w]))] /\ UNCHANGED file
        \/ wk' = [wk EXCEPT ![w] = done] /\ UNCHANGED file
        \/ wk' = [wk EXCEPT ![w] = [NewProcess EXCEPT !.last = "dropped"]] /\ UNCHANGED file
    BY DEF ResumePart
  <2> HIDE DEF s, more, piece, done, next
  <2>2. QED  BY <1>8, <1>9, <1>10, <1>11, <1>12, <2>1
\* A reader that follows a download.
LEMMA RefreshGood ==
  ASSUME IInv, NEW w \in Workers, Refresh(w)
  PROVE  Exchanged(w) /\ FileOK' /\ RowOK' /\ EnvOK'
<1> DEFINE n == Len(data)
           s == [wk[w] EXCEPT !.filedownloaded = n]
<1>1. Good(wk[w]) /\ n \in Nat
  BY Shared DEF FileOK, Content
<1>2. s \in Worker
  <2> HIDE DEF n
  <2>1. QED  BY <1>1, WithCount DEF Good
<1>3. Sound(s)
  <2> HIDE DEF n
  <2>1. QED  BY <1>1 DEF Good, Sound, Worker, Early
<1>4. wk' = [wk EXCEPT ![w] = s]
  BY DEF Refresh
<1> HIDE DEF s
<1>5. QED
  BY <1>2, <1>3, <1>4, Shared DEF Refresh, Exchanged, Good, FileOK, RowOK, EnvOK, file

LEMMA ReadDownGood ==
  ASSUME IInv, NEW w \in Workers, ReadDown(w)
  PROVE  Exchanged(w) /\ FileOK' /\ RowOK' /\ EnvOK'
<1>1. Good(wk[w]) /\ wk[w].pc = "body" /\ RowOK' /\ EnvOK'
  BY Shared DEF ReadDown, Following, RowOK, EnvOK
<1> DEFINE d == Delivered(wk[w], data[wk[w].filesended + 1])
<1>2. CASE wk' = [wk EXCEPT ![w] = d] /\ UNCHANGED file
  <2>1. Good(d)  BY <1>1, DeliveredGood
  <2> HIDE DEF d
  <2>2. QED  BY <1>1, <1>2, <2>1, Shared DEF Exchanged, FileOK, file
<1>3. CASE Dropped(w)
  BY <1>1, <1>3, Shared, DroppedGood
<1>4. QED
  BY <1>2, <1>3 DEF ReadDown

LEMMA TimeoutGood ==
  ASSUME IInv, NEW w \in Workers, Timeout(w)
  PROVE  Exchanged(w) /\ FileOK' /\ RowOK' /\ EnvOK'
  BY Shared, DroppedGood DEF Timeout, RowOK, EnvOK

LEMMA AnsweredGood ==
  ASSUME NEW r, Good(r), r.pc = "finish"
  PROVE  Good(Answered(r)) /\ Answered(r).pc = "idle"
<1> DEFINE x == Answer(r)
           a == [r EXCEPT !.pc = "idle"]
           b == [a EXCEPT !.last = x]
           c == [b EXCEPT !.filedownloaded = 0]
           d == [c EXCEPT !.next = 1]
           e == [d EXCEPT !.header = FALSE, !.fetch = FALSE, !.young = FALSE, !.expired = FALSE]
<1>1. a \in Worker
  BY WithPlace DEF Good, Places
<1>2. b \in Worker
  <2>1. x \in {"none", "whole", "other", "wrong", "dropped"}  BY DEF Answer
  <2> HIDE DEF a, x
  <2>2. QED  BY <1>1, <2>1, WithLast
<1>3. c \in Worker
  <2> HIDE DEF b
  <2>1. QED  BY <1>2, WithCount
<1>4. d \in Worker
  <2> HIDE DEF c
  <2>1. QED  BY <1>3, WithNext
<1>5. e \in Worker
  <2> HIDE DEF d
  <2>1. QED  BY <1>4, WithFlag
<1>6. Answered(r) = e
  BY DEF Answered
<1>7. /\ e.pc = "idle" /\ e.fetch = FALSE /\ e.pending = r.pending /\ e.mode = r.mode
      /\ e.filesended = r.filesended /\ e.connected = r.connected
  BY DEF Good, Worker
<1>8. Sound(e)
  <2> HIDE DEF e
  <2>1. QED  BY <1>7 DEF Good, Sound, Early
<1>9. QED
  BY <1>5, <1>6, <1>7, <1>8 DEF Good

LEMMA FinishGood ==
  ASSUME IInv, NEW w \in Workers, Finish(w)
  PROVE  Exchanged(w) /\ FileOK' /\ RowOK' /\ EnvOK'
<1> DEFINE a == Answered(wk[w])
<1>1. Good(wk[w]) /\ wk[w].pc = "finish" /\ RowOK' /\ EnvOK'
  BY Shared DEF Finish, RowOK, EnvOK
<1>2. Good(a) /\ a.pc = "idle"
  BY <1>1, AnsweredGood
<1>3. CASE wk' = [wk EXCEPT ![w] = a] /\ UNCHANGED file
  <2> HIDE DEF a
  <2>1. QED  BY <1>1, <1>2, <1>3, Shared DEF Exchanged, FileOK, file
<1>4. CASE wk' = [wk EXCEPT ![w] = Closed(a)] /\ CloseFiles(wk[w])
  <2>1. Good(Closed(a))  BY <1>2, ClosedGood
  <2> HIDE DEF a
  <2>2. QED  BY <1>1, <1>4, <2>1, Shared, CloseFilesType DEF Exchanged
<1>5. CASE wk' = [wk EXCEPT ![w] = [NewProcess EXCEPT !.last = a.last]] /\ CloseFiles(wk[w])
  <2>1. a.last \in {"none", "whole", "other", "wrong", "dropped"}
    <3> HIDE DEF a
    <3>1. QED  BY <1>2 DEF Good, Worker
  <2> HIDE DEF a
  <2>2. QED  BY <1>1, <1>5, <2>1, Shared, CloseFilesType, NewIsGood DEF Exchanged
<1>6. QED
  BY <1>3, <1>4, <1>5 DEF Finish

LEMMA EnvironmentGood ==
  ASSUME IInv, NEW w \in Workers, KeepAliveTimeout(w) \/ BrowserDrop(w) \/ Crash(w)
  PROVE  Exchanged(w) /\ FileOK' /\ RowOK' /\ EnvOK'
<1>1. Good(wk[w]) /\ RowOK'
  BY Shared DEF KeepAliveTimeout, BrowserDrop, Crash, RowOK
<1>2. CASE KeepAliveTimeout(w)
  <2>1. wk[w].last \in {"none", "whole", "other", "wrong", "dropped"}
    BY <1>1 DEF Good, Worker
  <2>2. CloseFiles(wk[w]) /\ wk' = [wk EXCEPT ![w] = [NewProcess EXCEPT !.last = wk[w].last]]
    BY <1>2 DEF KeepAliveTimeout
  <2>3. EnvOK'
    BY <1>2, Shared DEF KeepAliveTimeout, EnvOK
  <2>4. QED
    BY <1>1, <2>1, <2>2, <2>3, Shared, CloseFilesType, NewIsGood DEF Exchanged
<1>3. CASE BrowserDrop(w)
  BY <1>1, <1>3, Shared, FaultType, DroppedGood DEF BrowserDrop, FaultKinds
<1>4. CASE Crash(w)
  <2>1. Exchanged(w)
    BY <1>4, NewIsGood DEF Crash, Exchanged
  <2>2. FileOK' /\ EnvOK'
    BY <1>4, Shared, FaultType DEF Crash, FaultKinds, FileOK, file
  <2>3. QED  BY <1>1, <2>1, <2>2
<1>5. QED
  BY <1>2, <1>3, <1>4
-----------------------------------------------------------------------------
(* The type of every variable.                                             *)

LEMMA InitGood ==
  ASSUME Init
  PROVE  IInv
<1>1. Good([NewProcess EXCEPT !.last = "none"])
  BY NewIsGood
<1>2. [NewProcess EXCEPT !.last = "none"] = NewProcess
  BY DEF NewProcess
<1>3. Good(NewProcess)
  BY <1>1, <1>2
<1>4. wk \in [Workers -> Worker] /\ \A w \in Workers : Sound(wk[w])
  BY <1>3 DEF Init, Good
<1>5. env \in World
  BY EntryAssumption DEF Init
<1>6. data \in Seq(Parts \cup {Junk})
  BY DEF Init
<1>7. row \in Row /\ exists \in BOOLEAN /\ fresh \in BOOLEAN
  BY DEF Init, Row
<1>8. QED
  BY <1>4, <1>5, <1>6, <1>7 DEF IInv, TypeOK, Row

\* A worker changes no record but its own.
LEMMA StepExchanges ==
  ASSUME IInv, NEW w \in Workers, Step(w) \/ Environment(w)
  PROVE  Exchanged(w) /\ FileOK' /\ RowOK' /\ EnvOK'
  BY RequestGood, CacheExistsGood, CacheRowGood, CacheMtimeGood,
     CacheDecideGood, ConnectGood, SendRequestGood, ResponseGood,
     ResumeResponseGood, RetryGood, RelayBodyGood, WritePartGood, BreakOffGood,
     ReadHitGood, ResumePartGood, RefreshGood, ReadDownGood, TimeoutGood,
     FinishGood, EnvironmentGood DEF Step, Environment

LEMMA StepGood ==
  ASSUME IInv, Next
  PROVE  IInv'
<1>1. ASSUME NEW w \in Workers, Step(w) \/ Environment(w)
      PROVE  IInv'
  BY <1>1, StepExchanges, OthersStayGood
<1>2. CASE Age
  BY <1>2 DEF Age, IInv, TypeOK
<1>3. CASE Expire
  <2>1. RowOK'
    BY <1>3, Shared DEF Expire, RowOK, Row
  <2>2. EnvOK'
    BY <1>3, Shared, FaultType DEF Expire, FaultKinds
  <2>3. QED
    BY <1>3, <2>1, <2>2 DEF Expire, IInv, TypeOK, RowOK, EnvOK, Row, file
<1>4. QED
  BY <1>1, <1>2, <1>3 DEF Next

LEMMA InvariantHolds == Spec => []IInv
<1>1. IInv /\ UNCHANGED vars => IInv'
  BY DEF IInv, TypeOK, vars
<1>2. IInv /\ [Next]_vars => IInv'
  BY <1>1, StepGood
<1>3. QED
  BY <1>2, InitGood, PTL DEF Spec

\* Every variable keeps its type: no part of the file is ever anything but a
\* part of the object, a hole or a header, and the retries of a request never
\* exceed IPCount() (connectiontohttp2.cpp:510, proxyhandler.cpp:151).
THEOREM TypeCorrect == Spec => []TypeOK
<1>1. IInv => TypeOK
  BY DEF IInv
<1>2. QED
  BY <1>1, InvariantHolds, PTL

-----------------------------------------------------------------------------
(* A whole object stays whole.                                             *)

\* One worker went on, none began to write, and file and row are as they were.
Calm(w) ==
    /\ \E r : ~MayWrite(r) /\ wk' = [wk EXCEPT ![w] = r]
    /\ UNCHANGED <<exists, data, row>>

LEMMA CalmStaysSettled ==
  ASSUME IInv, Settled, NEW w \in Workers, Calm(w)
  PROVE  Settled'
<1>1. PICK r : ~MayWrite(r) /\ wk' = [wk EXCEPT ![w] = r]
  BY DEF Calm
<1>2. ASSUME NEW v \in Workers PROVE ~MayWrite(wk'[v])
  <2>1. CASE v = w
    BY <1>1, <2>1 DEF IInv, TypeOK
  <2>2. CASE v # w
    BY <1>1, <2>2 DEF IInv, TypeOK, Settled
  <2>3. QED  BY <2>1, <2>2
<1>3. (\A v \in Workers : ~MayWrite(wk[v]))'
  BY <1>2 DEF MayWrite
<1>4. QED
  BY <1>3 DEF Calm, Settled

\* What a worker among settled ones knows.
LEMMA Quiet ==
  ASSUME IInv, Settled, NEW w \in Workers
  PROVE  /\ Good(wk[w]) /\ wk[w] \in Worker /\ ~MayWrite(wk[w]) /\ wk[w].pending = 0
         /\ exists /\ Len(data) = L /\ Flush(data, wk[w]) = data
         /\ row \in Row /\ row.there /\ row.size = L /\ row.expired = FALSE
<1>1. Good(wk[w]) /\ wk[w] \in Worker /\ ~MayWrite(wk[w])
  BY Shared DEF Settled, Good
<1>2. wk[w].pending = 0
  BY <1>1 DEF MayWrite, Worker
<1>3. Len(data) = L
  BY Shared, EntryAssumption DEF Settled, Parts, FileOK, Content
<1>4. QED
  BY <1>1, <1>2, <1>3, Shared DEF Flush, Settled, RowOK, Row

LEMMA NewIsCalm ==
  ASSUME NEW x
  PROVE  ~MayWrite([NewProcess EXCEPT !.last = x])
  BY DEF MayWrite, NewProcess

LEMMA DroppedCalm ==
  ASSUME IInv, Settled, NEW w \in Workers, Dropped(w), UNCHANGED row
  PROVE  Calm(w)
  BY Quiet, NewIsCalm DEF Dropped, CloseFiles, Calm

LEMMA DeliveredCalm ==
  ASSUME NEW r \in Worker, r.pending = 0, r.pc = "body",
         r.mode \notin {"miss", "resume"}, NEW b
  PROVE  ~MayWrite(Delivered(r, b))
<1>1. Delivered(r, b).pending = 0 /\ Delivered(r, b).mode = r.mode
  BY DEF Delivered, Worker
<1>2. Delivered(r, b).pc \in {"body", "finish"}
  BY DEF Delivered, Worker
<1>3. QED
  BY <1>1, <1>2 DEF MayWrite

\* The places before the decision.
LEMMA DecisionCalm ==
  ASSUME IInv, Settled, NEW w \in Workers,
         CacheExists(w) \/ CacheRow(w) \/ CacheMtime(w) \/ CacheDecide(w)
  PROVE  Calm(w)
<1>0. wk[w] \in Worker /\ wk[w].pending = 0 /\ ~MayWrite(wk[w])
  BY Quiet
<1>1. CASE CacheExists(w)
  <2>1. ~MayWrite([wk[w] EXCEPT !.pc = "row"])
    BY <1>0 DEF MayWrite, Worker
  <2>2. QED  BY <1>1, <2>1, Quiet DEF CacheExists, Calm, file
<1>2. CASE CacheRow(w)
  <2>1. CASE wk[w].db
    <3> DEFINE x == GENERAL /\ row.expired
               r == [wk[w] EXCEPT !.pc = "mtime", !.filesize = row.size, !.expired = x]
    <3>1. x = FALSE /\ row.size = L  BY Quiet
    <3>2. ~MayWrite(r)
      <4> HIDE DEF x
      <4>1. QED  BY <1>0, <3>1 DEF MayWrite, Worker
    <3>3. wk' = [wk EXCEPT ![w] = r]  BY <1>2, <2>1, Quiet DEF CacheRow
    <3>4. UNCHANGED <<exists, data, row>>
      BY <1>2, <2>1, Quiet DEF CacheRow, file
    <3> HIDE DEF r
    <3>5. QED  BY <3>2, <3>3, <3>4 DEF Calm
  <2>2. CASE ~ wk[w].db
    <3>1. ~MayWrite(Decided(wk[w], "direct"))
      BY <1>0 DEF MayWrite, Decided, Worker
    <3>2. \/ wk' = [wk EXCEPT ![w] = Decided(wk[w], "direct")]
          \/ wk' = [wk EXCEPT ![w] = [NewProcess EXCEPT !.last = "dropped"]]
      BY <1>2, <2>2 DEF CacheRow
    <3>3. UNCHANGED <<exists, data, row>>
      BY <1>2, <2>2 DEF CacheRow, file
    <3>4. QED  BY <3>1, <3>2, <3>3, NewIsCalm DEF Calm
  <2>3. QED  BY <2>1, <2>2
<1>3. CASE CacheMtime(w)
  <2> DEFINE r == [wk[w] EXCEPT !.young = fresh, !.pc = "decide"]
  <2>1. ~MayWrite(r)
    BY <1>0, <1>3 DEF CacheMtime, MayWrite, Worker
  <2>2. QED  BY <1>3, <2>1 DEF CacheMtime, Calm, file
<1>4. CASE CacheDecide(w)
  <2>1. wk[w].pc = "decide" /\ wk[w].filesize = L /\ wk[w].expired = FALSE
    BY <1>0, <1>4 DEF CacheDecide, MayWrite, Worker
  <2>2. /\ wk' = [wk EXCEPT ![w] = Decided(wk[w], "hit")]
        /\ row' = MarkDownloaded(wk[w])
    <3>1. Len(data) = L /\ L # 0  BY Quiet, EntryAssumption
    <3>2. ~(wk[w].filesize > Len(data) \/ wk[w].filesize = 0) /\ Complete(wk[w])
      BY <2>1, <3>1, EntryAssumption DEF Complete
    <3>3. QED  BY <1>4, <2>1, <3>2 DEF CacheDecide
  <2>3. row' = row
    <3>1. (row.expired /\ ~wk[w].expired) = row.expired  BY Quiet, <2>1
    <3>2. MarkDownloaded(wk[w]) = [row EXCEPT !.expired = row.expired]
      BY <3>1 DEF MarkDownloaded
    <3>3. QED  BY <2>2, <3>2, Quiet DEF Row
  <2>4. ~MayWrite(Decided(wk[w], "hit"))
    BY <1>0 DEF MayWrite, Decided, Worker
  <2>5. QED  BY <1>4, <2>2, <2>3, <2>4 DEF CacheDecide, Calm, file
<1>5. QED
  BY <1>1, <1>2, <1>3, <1>4
\* From the connection to the header of the answer.
LEMMA HeaderCalm ==
  ASSUME IInv, Settled, NEW w \in Workers,
         ConnectToServer(w) \/ SendRequest(w) \/ Response(w) \/ ResumeResponse(w)
  PROVE  Calm(w)
<1>1. wk[w] \in Worker /\ wk[w].pending = 0 /\ ~MayWrite(wk[w])
  BY Quiet
<1>2. wk[w].pc \in {"connect", "send", "response"} /\ wk[w].mode \notin {"miss", "resume"}
  BY <1>1 DEF ConnectToServer, SendRequest, Response, ResumeResponse, MayWrite
<1>3. CASE ConnectToServer(w)
  <2> DEFINE r == [wk[w] EXCEPT !.pc = "send", !.connected = TRUE]
             s == [r EXCEPT !.conn = TRUE]
             f == [wk[w] EXCEPT !.pc = "failed"]
  <2>1. \/ /\ wk' = [wk EXCEPT ![w] = r] \/ wk' = [wk EXCEPT ![w] = s] \/ wk' = [wk EXCEPT ![w] = f]
           /\ UNCHANGED file
        \/ Dropped(w)
    BY <1>2, <1>3 DEF ConnectToServer
  <2>2. ~MayWrite(r) /\ ~MayWrite(s) /\ ~MayWrite(f)
    BY <1>1, <1>2 DEF MayWrite, Worker
  <2>3. UNCHANGED row
    BY <1>3 DEF ConnectToServer
  <2> HIDE DEF r, s, f
  <2>4. QED  BY <2>1, <2>2, <2>3, DroppedCalm DEF Calm, file
<1>4. CASE SendRequest(w)
  <2>1. PICK place \in {"finish", "body", "response", "failed"} :
               wk' = [wk EXCEPT ![w].pc = place]
    BY <1>2, <1>4 DEF SendRequest
  <2>2. ~MayWrite([wk[w] EXCEPT !.pc = place])
    BY <1>1, <1>2 DEF MayWrite, Worker
  <2>3. QED  BY <1>4, <2>1, <2>2 DEF SendRequest, Calm, file
<1>5. CASE Response(w)
  <2> DEFINE r == [wk[w] EXCEPT !.pc = "body", !.filesize = L]
             s == [wk[w] EXCEPT !.pc = "body", !.mode = "direct", !.filesize = ErrorSize]
             f == [wk[w] EXCEPT !.pc = "failed"]
  <2>1. wk' = [wk EXCEPT ![w] = r] \/ wk' = [wk EXCEPT ![w] = s] \/ wk' = [wk EXCEPT ![w] = f]
    BY <1>5 DEF Response
  <2>2. ~MayWrite(r) /\ ~MayWrite(s) /\ ~MayWrite(f)
    BY <1>1, <1>2 DEF MayWrite, Worker
  <2>3. UNCHANGED <<exists, data, row>>
    BY <1>2, <1>5 DEF Response, SetSize, file
  <2> HIDE DEF r, s, f
  <2>4. QED  BY <2>1, <2>2, <2>3 DEF Calm
<1>6. CASE ResumeResponse(w)
  BY <1>2, <1>6 DEF ResumeResponse
<1>7. QED
  BY <1>3, <1>4, <1>5, <1>6

\* The body, and what comes after it.
LEMMA BodyCalm ==
  ASSUME IInv, Settled, NEW w \in Workers,
         \/ Retry(w) \/ RelayBody(w) \/ WritePart(w) \/ BreakOff(w) \/ ReadHit(w)
         \/ ResumePart(w) \/ Refresh(w) \/ ReadDown(w) \/ Timeout(w)
  PROVE  Calm(w)
<1>1. wk[w] \in Worker /\ wk[w].pending = 0 /\ ~MayWrite(wk[w]) /\ Sound(wk[w])
  BY Quiet DEF Good
<1>2. wk[w].pc = "body" => wk[w].mode \notin {"miss", "resume"} /\ ~wk[w].fetch
  BY <1>1 DEF MayWrite, Sound
<1>3. CASE Retry(w)
  <2> DEFINE c == Closed(wk[w])
             a == [c EXCEPT !.db = TRUE, !.retries = wk[w].retries + 1]
             r == CacheEntered(a)
  <2>1. c \in Worker /\ c.pending = 0
    <3>1. wk[w].pc = "failed"  BY <1>3 DEF Retry
    <3>2. QED  BY <1>1, <3>1, ClosedGood DEF Good
  <2>2. r.pc = "exists" /\ r.pending = 0
    <3> HIDE DEF c
    <3>1. QED  BY <2>1 DEF CacheEntered, Worker
  <2>3. ~MayWrite(r)
    <3> HIDE DEF r
    <3>1. QED  BY <2>2 DEF MayWrite
  <2>4. \/ CloseFiles(wk[w]) /\ wk' = [wk EXCEPT ![w] = r]
        \/ Dropped(w)
    BY <1>3, Zenon DEF Retry
  <2>5. UNCHANGED row  BY <1>3 DEF Retry
  <2> HIDE DEF r
  <2>6. QED  BY <2>3, <2>4, <2>5, Quiet, DroppedCalm DEF Calm, CloseFiles
<1>4. CASE RelayBody(w)
  <2>1. ~MayWrite([wk[w] EXCEPT !.pc = "finish"])
    BY <1>1, <1>2 DEF MayWrite, Worker
  <2>2. QED  BY <1>4, <2>1 DEF RelayBody, Calm, file
<1>5. CASE WritePart(w)
  BY <1>2, <1>5 DEF WritePart
<1>6. CASE BreakOff(w)
  BY <1>2, <1>6, DroppedCalm DEF BreakOff
<1>7. CASE ReadHit(w) \/ ReadDown(w)
  <2>1. wk[w].pc = "body" /\ UNCHANGED row
    BY <1>7 DEF ReadHit, ReadDown, Following
  <2> DEFINE d == Delivered(wk[w], data[wk[w].filesended + 1])
  <2>2. (wk' = [wk EXCEPT ![w] = d] /\ UNCHANGED file) \/ Dropped(w)
    BY <1>7 DEF ReadHit, ReadDown
  <2>3. ~MayWrite(d)
    BY <1>1, <1>2, <2>1, DeliveredCalm
  <2> HIDE DEF d
  <2>4. QED  BY <2>1, <2>2, <2>3, DroppedCalm DEF Calm, file
<1>8. CASE ResumePart(w)
  BY <1>2, <1>8 DEF ResumePart
<1>9. CASE Refresh(w)
  <2> DEFINE r == [wk[w] EXCEPT !.filedownloaded = Len(data)]
  <2>1. wk[w].pc = "body" /\ wk' = [wk EXCEPT ![w] = r]
    BY <1>9 DEF Refresh, Following
  <2>2. ~MayWrite(r)
    BY <1>1, <1>2, <2>1 DEF MayWrite, Worker
  <2> HIDE DEF r
  <2>3. QED  BY <1>9, <2>1, <2>2 DEF Refresh, Calm, file
<1>10. CASE Timeout(w)
  BY <1>10, DroppedCalm DEF Timeout
<1>11. QED
  BY <1>3, <1>4, <1>5, <1>6, <1>7, <1>8, <1>9, <1>10

\* The ends of a request, and the next one.
LEMMA EndCalm ==
  ASSUME IInv, Settled, NEW w \in Workers, Finish(w) \/ Environment(w)
  PROVE  Calm(w)
<1>1. Good(wk[w]) /\ wk[w] \in Worker /\ wk[w].pending = 0 /\ ~MayWrite(wk[w])
  BY Quiet
<1>2. CASE Finish(w)
  <2> DEFINE a == Answered(wk[w])
  <2>1. wk[w].pc = "finish" /\ UNCHANGED row
    BY <1>2 DEF Finish
  <2>2. Good(a) /\ a.pc = "idle"
    BY <1>1, <2>1, AnsweredGood
  <2>3. a.pending = 0
    BY <1>1 DEF Answered, Worker
  <2>4. ~MayWrite(a)
    <3> HIDE DEF a
    <3>1. QED  BY <2>2, <2>3 DEF MayWrite
  <2>5. ~MayWrite(Closed(a))
    <3> HIDE DEF a
    <3>1. Closed(a).pc = "idle"  BY <2>2 DEF Closed, FilesClosed, Good, Worker
    <3>2. Closed(a).pending = 0  BY <2>2, ClosedGood
    <3>3. QED  BY <3>1, <3>2 DEF MayWrite
  <2>6. \/ wk' = [wk EXCEPT ![w] = a] /\ UNCHANGED file
        \/ wk' = [wk EXCEPT ![w] = Closed(a)] /\ CloseFiles(wk[w])
        \/ wk' = [wk EXCEPT ![w] = [NewProcess EXCEPT !.last = a.last]] /\ CloseFiles(wk[w])
    BY <1>2 DEF Finish
  <2> HIDE DEF a
  <2>7. QED
    BY <2>1, <2>4, <2>5, <2>6, Quiet, NewIsCalm DEF Calm, CloseFiles, file
<1>3. CASE Request(w)
  <2> DEFINE r == [wk[w] EXCEPT !.retries = 0, !.bad = FALSE, !.last = "none"]
             a == CacheEntered(FilesClosed(r))
             b == CacheEntered([r EXCEPT !.db = TRUE])
  <2>1. r.pending = 0
    BY <1>1 DEF Worker
  <2>2. Flush(data, r) = data
    <3> HIDE DEF r
    <3>1. QED  BY <2>1 DEF Flush
  <2>3. a.pc = "exists" /\ a.pending = 0 /\ b.pc = "exists" /\ b.pending = 0
    BY <1>1 DEF CacheEntered, FilesClosed, Worker
  <2>4. ~MayWrite(a) /\ ~MayWrite(b)
    <3> HIDE DEF a, b
    <3>1. QED  BY <2>3 DEF MayWrite
  <2>5. \/ CloseFiles(r) /\ wk' = [wk EXCEPT ![w] = a]
        \/ UNCHANGED file /\ wk' = [wk EXCEPT ![w] = b]
    BY <1>3 DEF Request
  <2>6. UNCHANGED row
    BY <1>3 DEF Request
  <2> HIDE DEF a, b, r
  <2>7. QED  BY <2>2, <2>4, <2>5, <2>6 DEF Calm, CloseFiles, file
<1>4. CASE KeepAliveTimeout(w)
  BY <1>4, Quiet, NewIsCalm DEF KeepAliveTimeout, CloseFiles, Calm
<1>5. CASE BrowserDrop(w)
  BY <1>5, DroppedCalm DEF BrowserDrop
<1>6. CASE Crash(w)
  BY <1>6, NewIsCalm DEF Crash, Calm, file
<1>7. QED
  BY <1>2, <1>3, <1>4, <1>5, <1>6 DEF Environment

\* A whole object that nobody is writing is downloaded again only once it has
\* expired, however the workers' looks at the file, at its time and at its row
\* are interleaved with their reads, their ends and their deaths
\* (connectiontohttp2.cpp:92 and :159).
THEOREM WholeStaysWhole == Spec => StaysSettled
<1>1. ASSUME IInv, Next, Settled
      PROVE  Settled' \/ row'.expired
  <2>1. ASSUME NEW w \in Workers, Step(w) \/ Environment(w)
        PROVE  Settled'
    <3>1. Calm(w)
      BY <1>1, <2>1, DecisionCalm, HeaderCalm, BodyCalm, EndCalm DEF Step
    <3>2. QED  BY <1>1, <3>1, CalmStaysSettled
  <2>2. CASE Age
    BY <1>1, <2>2 DEF Age, Settled, MayWrite
  <2>3. CASE Expire
    <3>1. row \in Row  BY <1>1 DEF IInv, TypeOK, Row
    <3>2. QED  BY <2>3, <3>1 DEF Expire, Row
  <2>4. QED  BY <1>1, <2>1, <2>2, <2>3 DEF Next
<1>2. IInv /\ [Next]_vars => [Settled => Settled' \/ row'.expired]_vars
  BY <1>1
<1>3. QED
  BY <1>2, InvariantHolds, PTL DEF Spec, StaysSettled
=============================================================================
