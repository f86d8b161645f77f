--------------------------- MODULE CacheIntegrity ---------------------------
(***************************************************************************)
(* Requests that are served one at a time: whatever breaks, fails or is    *)
(* redirected, and whoever leaves or dies, the file holds the first parts  *)
(* of the object in their order, an answer that announces the object's     *)
(* length is the object, and a whole copy that is known to be good stays.  *)
(***************************************************************************)
EXTENDS CacheEntryProofs, FiniteSetTheorems

\* The instances these theorems are about: one request at a time, no file that is
\* resumed twice over one browser connection (run cache_sticky shows what then
\* happens), and an error page that can be told from the object by its length.
\* Everything else goes wrong as often as it likes: connections break, origins answer
\* with errors or redirects, browsers leave, workers die, INSERTs fail, parts stay in
\* the buffers of streams and objects expire.
OneAtATime ==
    /\ MaxActive = 1 /\ ErrorSize # L
    /\ \A world \in Worlds : world.ResumeOnce

\* The parts of the file are the first of the object.
FileInOrder(file_, parts) ==
    /\ Len(parts) <= L /\ \A i \in 1..Len(parts) : parts[i] = i
    /\ ~file_ => parts = <<>>

\* What CacheDecide resumes, if the configuration lets it.
Torn(file_, parts, entry, may) ==
    file_ /\ may /\ entry.there /\ entry.size > 0 /\ entry.size # Len(parts)

\* What a worker at each place knows of the file and its row, if nobody else is
\* at work: the file ends where its buffered parts go, a resumed request goes on
\* where the file ends, what was read of the row still stands there, and whoever
\* had a header of a downloader on this connection resumes nothing again.
InOrder(r, file_, parts, entry, may) ==
    /\ ~r.bad /\ r.last # "wrong"
    /\ r.pending > 0 => file_ /\ Len(parts) = r.filesended - r.pending
    /\ r.pc \in Early \/ (r.pc = "idle" /\ ~r.connected) => ~r.writing
    /\ r.pc \in Early \cup {"failed"} =>
          r.dlresp \in {0, 416} \/ ~Torn(file_, parts, entry, may)
    /\ r.pc \in {"exists", "row", "mtime", "decide"} => r.next = 1
    /\ r.pc \in {"row", "mtime", "decide"} => file_
    /\ r.pc \in {"mtime", "decide"} =>
          entry.there /\ r.filesize = entry.size /\ (r.expired => entry.expired)
    /\ r.pc \in {"connect", "send", "response"} =>
          /\ r.mode = "miss" => r.next = 1
          /\ r.mode \in {"hit", "hitdown", "resume"} => r.filesize = entry.size
          /\ r.mode = "resume" =>
                file_ /\ Len(parts) # entry.size /\ r.dlresp \in {0, 416}
    /\ r.pc = "response" /\ r.mode = "resume" => r.next = Len(parts) + 1
    /\ r.pc \in {"body", "finish"} =>
          /\ r.mode \in {"hit", "hitdown", "resume"} => r.filesize = entry.size
          /\ r.mode = "rewritten" => r.filesize # L /\ ~(Len(parts) = L /\ entry.size = L)
    /\ r.pc = "body" /\ r.mode = "resume" =>
          file_ /\ ~r.header /\ (r.next = Len(parts) + 1 \/ r.next > RangeEnd(r))
    /\ r.pc = "body" /\ r.mode = "miss" =>
          /\ r.next = r.filesended + 1
          /\ IF r.writing THEN file_ /\ Len(parts) = r.filesended - r.pending
             ELSE r.filesended = 0 /\ r.pending = 0
    /\ r.pc = "finish" /\ r.mode \in {"miss", "hit", "hitdown", "resume"} =>
          r.filesended = r.filesize

Busy(r) == r.pc # "idle" \/ r.pending > 0

Alone == \A v, w \in Workers : Busy(wk[v]) /\ Busy(wk[w]) => v = w

OrderInv ==
    /\ env.ResumeOnce /\ Alone /\ FileInOrder(exists, data)
    /\ \A w \in Workers : InOrder(wk[w], exists, data, row, MayResume)

\* What Known says when r is the only worker that may be about to replace the file.
KnownBy(r, entry) == entry.there /\ entry.size = L /\ ~entry.expired /\ ~Replaces(r)

\* A step of the worker w, which becomes r, as the store may see it.
MayBecome(w, r) ==
    LET asks == wk[w].pc # "idle"
        kept == Len(data) = L /\ KnownBy(wk[w], row)
        same == Len(data) <= Len(data') /\ (KnownBy(r, row') <=> KnownBy(wk[w], row))
        changes == asks /\ ~kept /\ (Len(data) <= Len(data') \/ Len(data') <= 1)
    IN  \/ r.pc # "idle" /\ (same \/ changes)
        \/ r.pc = "idle" /\ r.last = "dropped" /\ (same \/ changes)
        \/ r.pc = "idle" /\ asks /\ r.last = "whole" /\ same
        \/ r.pc = "idle" /\ asks /\ r.last = "other" /\ same /\ ~kept
        \/ r.pc = "idle" /\ ~asks /\ r.last = wk[w].last /\ same

\* One worker went on as it should, left the file as it should, and the store saw
\* nothing it does not allow.
Advances(w) ==
    /\ \E r : /\ wk' = [wk EXCEPT ![w] = r]
              /\ InOrder(r, exists', data', row', MayResume)
              /\ MayBecome(w, r)
    /\ FileInOrder(exists', data')

Others(w) == \A v \in Workers \ {w} : ~Busy(wk[v])

LEMMA AdvancesKeepsOrder ==
  ASSUME IInv, OrderInv, NEW w \in Workers, Advances(w), Others(w),
         env'.ResumeOnce, MayResume' <=> MayResume
  PROVE  OrderInv'
<1>1. PICK r : InOrder(r, exists', data', row', MayResume) /\ wk' = [wk EXCEPT ![w] = r]
  BY DEF Advances
<1>2. \A v \in Workers : wk'[v] = IF v = w THEN r ELSE wk[v]
  BY <1>1 DEF IInv, TypeOK
<1>3. \A v \in Workers : Busy(wk[v])' => v = w
  BY <1>2 DEF Others, Busy
<1>4. Alone'
  BY <1>3 DEF Alone
<1>5. ASSUME NEW v \in Workers PROVE InOrder(wk[v], exists, data, row, MayResume)'
  <2>1. CASE v = w
    <3>1. InOrder(wk'[v], exists', data', row', MayResume')
      BY <1>1, <1>2, <2>1 DEF InOrder, Torn
    <3>2. QED  BY <3>1 DEF InOrder, RangeEnd, Torn
  <2>2. CASE v # w
    <3>1. /\ wk[v].pc = "idle" /\ ~(wk[v].pending > 0) /\ wk'[v] = wk[v]
          /\ InOrder(wk[v], exists, data, row, MayResume)
      BY <1>2, <2>2 DEF OrderInv, Others, Busy
    <3>2. QED  BY <3>1 DEF InOrder, Early
  <2>3. QED  BY <2>1, <2>2
<1>6. QED
  BY <1>4, <1>5 DEF Advances, OrderInv, FileInOrder

\* What is known of a worker that goes on.
LEMMA Knows ==
  ASSUME IInv, OrderInv, NEW w \in Workers
  PROVE  /\ wk[w] \in Worker /\ Sound(wk[w]) /\ InOrder(wk[w], exists, data, row, MayResume)
         /\ FileInOrder(exists, data) /\ env \in World /\ env.ResumeOnce
         /\ row \in Row /\ data \in Content /\ exists \in BOOLEAN /\ MayResume \in BOOLEAN
         /\ Len(data) \in Nat /\ Len(data) <= L /\ L \in Nat \ {0} /\ ErrorSize \in Nat
         /\ row.size \in Nat
<1>1. data \in Content /\ FileInOrder(exists, data) /\ row \in Row
  BY Shared DEF OrderInv, FileOK, RowOK
<1>2. Len(data) \in Nat /\ Len(data) <= L /\ row.size \in Nat
  BY <1>1 DEF Content, FileInOrder, Row
<1>3. QED
  BY <1>1, <1>2, Shared, EntryAssumption DEF OrderInv, Good, FileOK, EnvOK, MayResume

\* Whatever has not changed the file and its row, and does not begin to replace a
\* good file, goes on as it should.
LEMMA Onward ==
  ASSUME IInv, OrderInv, NEW w \in Workers, wk[w].pc # "idle",
         NEW r, wk' = [wk EXCEPT ![w] = r], UNCHANGED <<exists, data, row>>,
         InOrder(r, exists, data, row, MayResume), r.pc # "idle",
         Replaces(r) => \/ Replaces(wk[w])
                        \/ ~(row.there /\ row.size = L /\ ~row.expired /\ Len(data) = L)
  PROVE  Advances(w)
<1>1. FileInOrder(exists, data) /\ Len(data) <= Len(data')
  BY Knows
<1>2. MayBecome(w, r)
  BY <1>1 DEF MayBecome, KnownBy
<1>3. InOrder(r, exists', data', row', MayResume) /\ FileInOrder(exists', data')
  BY <1>1
<1>4. QED
  BY <1>2, <1>3 DEF Advances

LEMMA NewInOrder ==
  ASSUME NEW x, x # "wrong", NEW f, NEW d, NEW e, NEW m
  PROVE  /\ InOrder([NewProcess EXCEPT !.last = x], f, d, e, m)
         /\ [NewProcess EXCEPT !.last = x].pc = "idle"
         /\ [NewProcess EXCEPT !.last = x].last = x
         /\ ~Replaces([NewProcess EXCEPT !.last = x])
  BY DEF InOrder, NewProcess, Early, Replaces

\* A process that is gone; perhaps its parts reached the file before.
LEMMA GoneAdvances ==
  ASSUME IInv, OrderInv, NEW w \in Workers, UNCHANGED row,
         FileInOrder(exists', data'), Len(data) <= Len(data'),
         wk' = [wk EXCEPT ![w] = [NewProcess EXCEPT !.last = "dropped"]]
  PROVE  Advances(w)
<1> DEFINE r == [NewProcess EXCEPT !.last = "dropped"]
<1>1. /\ r.pc = "idle" /\ r.last = "dropped" /\ ~Replaces(r)
      /\ InOrder(r, exists', data', row', MayResume)
  BY NewInOrder
<1> HIDE DEF r
<1>2. wk[w].pc = "idle" => ~Replaces(wk[w])
  BY DEF Replaces
<1>3. MayBecome(w, r)
  BY <1>1, <1>2 DEF MayBecome, KnownBy
<1>4. QED
  BY <1>1, <1>3 DEF Advances, r

\* Closing writes the parts that were held back where the file ends.
LEMMA Flushed ==
  ASSUME IInv, OrderInv, NEW w \in Workers, NEW r, CloseFiles(r),
         r.pending = wk[w].pending, r.filesended = wk[w].filesended
  PROVE  /\ data' = Flush(data, wk[w]) /\ exists' = exists
         /\ FileInOrder(exists', data') /\ Len(data) <= Len(data')
         /\ wk[w].pending = 0 => data' = data
<1>1. /\ wk[w] \in Worker /\ Sound(wk[w]) /\ InOrder(wk[w], exists, data, row, MayResume)
      /\ FileInOrder(exists, data) /\ Len(data) \in Nat /\ L \in Nat \ {0}
  BY Knows
<1>2. data' = Flush(data, wk[w]) /\ exists' = exists
  BY DEF CloseFiles, Flush
<1>3. CASE wk[w].pending = 0
  BY <1>1, <1>2, <1>3 DEF Flush
<1>4. CASE wk[w].pending # 0
  <2> DEFINE n == wk[w].filesended
             p == wk[w].pending
  <2>1. /\ n \in Nat /\ p \in Nat /\ p > 0 /\ n <= L /\ Len(data) = n - p /\ exists
        /\ \A i \in 1..Len(data) : data[i] = i
    BY <1>1, <1>4 DEF Worker, Sound, InOrder, FileInOrder
  <2>2. data' = [i \in 1..n |->
                    IF n - p < i /\ i <= n THEN i ELSE IF i <= Len(data) THEN data[i] ELSE Junk]
    BY <1>2, <1>4, <2>1 DEF Flush
  <2> HIDE DEF n, p
  <2>3. \A i \in 1..n : (IF n - p < i /\ i <= n THEN i
                          ELSE IF i <= Len(data) THEN data[i] ELSE Junk) = i
    BY <2>1
  <2>4. data' = [i \in 1..n |-> i]
    BY <2>2, <2>3
  <2>5. Len(data') = n /\ \A i \in 1..n : data'[i] = i
    BY <2>1, <2>4
  <2>6. FileInOrder(exists', data') /\ Len(data) <= Len(data')
    BY <1>2, <2>1, <2>5 DEF FileInOrder
  <2>7. QED  BY <1>2, <1>4, <2>6
<1>5. QED
  BY <1>3, <1>4

LEMMA DroppedAdvances ==
  ASSUME IInv, OrderInv, NEW w \in Workers, Dropped(w), UNCHANGED row
  PROVE  Advances(w)
<1>1. FileInOrder(exists', data') /\ Len(data) <= Len(data')
  BY Flushed DEF Dropped
<1>2. QED
  BY <1>1, GoneAdvances DEF Dropped

-----------------------------------------------------------------------------
(* Every action advances.                                                  *)

LEMMA DecisionAdvances ==
  ASSUME IInv, OrderInv, NEW w \in Workers,
         CacheExists(w) \/ CacheRow(w) \/ CacheMtime(w) \/ CacheDecide(w)
  PROVE  Advances(w)
<1> DEFINE M == MayResume
<1>1. /\ wk[w] \in Worker /\ Sound(wk[w]) /\ InOrder(wk[w], exists, data, row, M)
      /\ FileInOrder(exists, data) /\ row \in Row /\ data \in Content
      /\ Len(data) \in Nat /\ Len(data) <= L /\ L \in Nat \ {0}
  BY Knows
<1>2. /\ wk[w].pc \in {"exists", "row", "mtime", "decide"} /\ wk[w].pending = 0 /\ ~wk[w].writing
      /\ ~wk[w].bad /\ wk[w].last # "wrong" /\ wk[w].next = 1
      /\ wk[w].dlresp \in {0, 416} \/ ~Torn(exists, data, row, M)
      /\ ~Replaces(wk[w])
  BY <1>1 DEF CacheExists, CacheRow, CacheMtime, CacheDecide, InOrder, Sound, Early, Replaces
<1> HIDE DEF M
\* Whatever is decided, the worker's record is made from the one it had.
<1>3. ASSUME NEW mode \in Modes
      PROVE  LET m == Decided(wk[w], mode) IN
             /\ m.pc \in {"connect", "send"} /\ m.mode = mode /\ m.pending = 0 /\ ~m.writing
             /\ ~m.bad /\ m.last # "wrong" /\ m.next = 1 /\ m.dlresp = wk[w].dlresp
             /\ m.filesize = wk[w].filesize /\ m.expired = wk[w].expired
  BY <1>1, <1>2 DEF Decided, Worker
\* A decision to fetch the object, with a row that tells of no torn file.
<1>4. ASSUME NEW e, ~Torn(exists, data, e, M) \/ wk[w].dlresp \in {0, 416}
      PROVE  InOrder(Decided(wk[w], "miss"), exists, data, e, M)
  <2> DEFINE m == Decided(wk[w], "miss")
  <2>1. /\ m.pc \in {"connect", "send"} /\ m.mode = "miss" /\ m.pending = 0 /\ ~m.writing
        /\ ~m.bad /\ m.last # "wrong" /\ m.next = 1 /\ m.dlresp = wk[w].dlresp
    BY <1>3 DEF Modes
  <2> HIDE DEF m
  <2>2. InOrder(m, exists, data, e, M)  BY <1>4, <2>1 DEF InOrder
  <2>3. QED  BY <2>2 DEF m
\* It replaces nothing that is known to be good.
<1>5. ASSUME UNCHANGED <<exists, data>>, wk' = [wk EXCEPT ![w] = Decided(wk[w], "miss")],
             ~Torn(exists, data, row', M) \/ wk[w].dlresp \in {0, 416},
             ~(Len(data) = L /\ row.there /\ row.size = L /\ ~row.expired)
      PROVE  Advances(w)
  <2> DEFINE m == Decided(wk[w], "miss")
  <2>1. m.pc \in {"connect", "send"}  BY <1>3 DEF Modes
  <2>2. InOrder(m, exists, data, row', M)  BY <1>4, <1>5
  <2> HIDE DEF m
  <2>3. MayBecome(w, m)
    <3>1. wk[w].pc # "idle" /\ Len(data) <= Len(data')  BY <1>1, <1>2, <1>5
    <3>2. QED  BY <1>5, <2>1, <3>1 DEF MayBecome, KnownBy
  <2>4. FileInOrder(exists', data') /\ InOrder(m, exists', data', row', M)
    BY <1>1, <1>5, <2>2
  <2>5. wk' = [wk EXCEPT ![w] = m]  BY <1>5 DEF m
  <2>6. QED  BY <2>3, <2>4, <2>5 DEF Advances, M
<1>6. InsertRow => row' = row \/ (~row.there /\ row' = NewRow)
  BY DEF InsertRow
<1>7. CASE CacheExists(w)
  <2>1. CASE exists
    <3> DEFINE a == [wk[w] EXCEPT !.pc = "row"]
    <3>1. /\ a.pc = "row" /\ a.pending = 0 /\ ~a.writing /\ ~a.bad /\ a.last # "wrong"
          /\ a.next = 1 /\ a.dlresp = wk[w].dlresp
      BY <1>1, <1>2 DEF Worker
    <3>2. wk' = [wk EXCEPT ![w] = a] /\ UNCHANGED <<exists, data, row>>
      BY <1>7, <2>1 DEF CacheExists, file
    <3> HIDE DEF a
    <3>3. InOrder(a, exists, data, row, M)
      BY <1>2, <2>1, <3>1 DEF InOrder, Torn
    <3>4. QED  BY <1>2, <3>1, <3>2, <3>3, Onward DEF M, Replaces
  <2>2. CASE ~exists
    <3>1. /\ wk' = [wk EXCEPT ![w] = Decided(wk[w], "miss")] /\ UNCHANGED <<exists, data>>
      BY <1>7, <2>2 DEF CacheExists, file
    <3>2. ~Torn(exists, data, row', M) /\ Len(data) # L
      BY <1>1, <2>2 DEF Torn, FileInOrder
    <3>3. QED  BY <1>5, <3>1, <3>2
  <2>3. QED  BY <2>1, <2>2
<1>8. CASE CacheRow(w)
  <2>1. exists /\ UNCHANGED <<exists, data>> /\ wk[w].pc = "row"
    BY <1>1, <1>8 DEF CacheRow, InOrder, file
  <2>2. CASE wk[w].db /\ row.there
    <3> DEFINE x == GENERAL /\ row.expired
               a == [wk[w] EXCEPT !.pc = "mtime", !.filesize = row.size, !.expired = x]
    <3>1. wk' = [wk EXCEPT ![w] = a] /\ UNCHANGED row
      BY <1>8, <2>2 DEF CacheRow
    <3>2. x => row.expired  OBVIOUS
    <3>3. /\ a.pc = "mtime" /\ a.pending = 0 /\ ~a.writing /\ ~a.bad /\ a.last # "wrong"
          /\ a.next = 1 /\ a.dlresp = wk[w].dlresp /\ a.filesize = row.size /\ a.expired = x
      <4> HIDE DEF x
      <4>1. QED  BY <1>1, <1>2 DEF Worker
    <3> HIDE DEF a, x
    <3>4. InOrder(a, exists, data, row, M)
      BY <1>2, <2>1, <2>2, <3>2, <3>3 DEF InOrder, Torn
    <3>5. QED  BY <1>2, <2>1, <3>1, <3>3, <3>4, Onward DEF M, Replaces
  <2>3. CASE wk[w].db /\ ~row.there
    <3>1. wk' = [wk EXCEPT ![w] = Decided(wk[w], "miss")] /\ InsertRow
      BY <1>8, <2>3 DEF CacheRow
    <3>2. ~Torn(exists, data, row', M)
      BY <1>6, <2>3, <3>1 DEF Torn, NewRow
    <3>3. QED  BY <1>5, <2>1, <2>3, <3>1, <3>2
  <2>4. CASE ~wk[w].db
    <3> DEFINE m == Decided(wk[w], "direct")
    <3>1. UNCHANGED row /\ \/ wk' = [wk EXCEPT ![w] = m]
                           \/ wk' = [wk EXCEPT ![w] = [NewProcess EXCEPT !.last = "dropped"]]
      BY <1>8, <2>4 DEF CacheRow
    <3>2. /\ m.pc \in {"connect", "send"} /\ m.mode = "direct" /\ m.pending = 0 /\ ~m.writing
          /\ ~m.bad /\ m.last # "wrong" /\ m.dlresp = wk[w].dlresp
      BY <1>3 DEF Modes
    <3> HIDE DEF m
    <3>3. InOrder(m, exists, data, row, M) /\ ~Replaces(m) /\ m.pc # "idle"
      BY <1>2, <3>2 DEF InOrder, Replaces
    <3>4. CASE wk' = [wk EXCEPT ![w] = m]
      BY <1>2, <2>1, <3>1, <3>3, <3>4, Onward DEF M
    <3>5. CASE wk' = [wk EXCEPT ![w] = [NewProcess EXCEPT !.last = "dropped"]]
      <4>1. FileInOrder(exists', data') /\ Len(data) <= Len(data')  BY <1>1, <2>1 DEF FileInOrder
      <4>2. QED  BY <3>1, <3>5, <4>1, GoneAdvances
    <3>6. QED  BY <3>1, <3>4, <3>5
  <2>5. QED  BY <2>2, <2>3, <2>4
<1>9. CASE CacheMtime(w)
  <2> DEFINE a == [wk[w] EXCEPT !.young = fresh, !.pc = "decide"]
  <2>1. /\ a.pc = "decide" /\ a.pending = 0 /\ ~a.writing /\ ~a.bad /\ a.last # "wrong"
        /\ a.next = 1 /\ a.dlresp = wk[w].dlresp /\ a.filesize = wk[w].filesize
        /\ a.expired = wk[w].expired
    BY <1>1, <1>2 DEF Worker
  <2>2. wk' = [wk EXCEPT ![w] = a] /\ UNCHANGED <<exists, data, row>>
    BY <1>9 DEF CacheMtime, file
  <2> HIDE DEF a
  <2>3. /\ exists /\ row.there /\ wk[w].filesize = row.size
        /\ wk[w].expired => row.expired
    BY <1>1, <1>9 DEF CacheMtime, InOrder
  <2>4. InOrder(a, exists, data, row, M)
    BY <1>2, <2>1, <2>3 DEF InOrder, Torn
  <2>5. QED  BY <1>2, <2>1, <2>2, <2>4, Onward DEF M, Replaces
<1>10. CASE CacheDecide(w)
  <2>1. /\ exists /\ row.there /\ wk[w].filesize = row.size /\ (wk[w].expired => row.expired)
        /\ UNCHANGED <<exists, data>>
    BY <1>1, <1>10 DEF CacheDecide, InOrder, file
\* It reads on from the file or passes the request on, and the row stands.
  <2>2. ASSUME NEW mode \in {"direct", "hitdown", "hit"}, UNCHANGED row,
               wk' = [wk EXCEPT ![w] = Decided(wk[w], mode)]
        PROVE  Advances(w)
    <3> DEFINE m == Decided(wk[w], mode)
    <3>1. /\ m.pc \in {"connect", "send"} /\ m.mode = mode /\ m.pending = 0 /\ ~m.writing
          /\ ~m.bad /\ m.last # "wrong" /\ m.dlresp = wk[w].dlresp /\ m.filesize = row.size
      BY <1>3, <2>1 DEF Modes
    <3>2. wk' = [wk EXCEPT ![w] = m]  BY <2>2
    <3> HIDE DEF m
    <3>3. InOrder(m, exists, data, row, M) /\ ~Replaces(m) /\ m.pc # "idle"
      BY <1>2, <3>1 DEF InOrder, Replaces
    <3>4. QED  BY <1>2, <2>1, <2>2, <3>2, <3>3, Onward DEF M
  <2>3. CASE /\ UNCHANGED row
             /\ \E mode \in {"direct", "hitdown"} : wk' = [wk EXCEPT ![w] = Decided(wk[w], mode)]
    BY <2>2, <2>3
  <2>4. CASE /\ Complete(wk[w]) /\ row' = MarkDownloaded(wk[w])
             /\ wk' = [wk EXCEPT ![w] = Decided(wk[w], IF wk[w].expired THEN "miss" ELSE "hit")]
    <3>1. CASE wk[w].expired
      <4>1. ~Torn(exists, data, row', M)
        BY <1>1, <2>1, <2>4 DEF Complete, Torn, MarkDownloaded, Row
      <4>2. QED  BY <1>5, <2>1, <2>4, <3>1, <4>1
    <3>2. CASE ~wk[w].expired
      <4>1. (row.expired /\ ~wk[w].expired) = row.expired
        BY <1>1, <3>2 DEF Row
      <4>2. row' = [row EXCEPT !.expired = row.expired]
        BY <2>4, <4>1 DEF MarkDownloaded
      <4>3. row' = row
        BY <1>1, <4>2 DEF Row
      <4>4. QED  BY <2>2, <2>4, <3>2, <4>3
    <3>3. QED  BY <3>1, <3>2
  <2>5. CASE /\ wk[w].filesize # Len(data) /\ UNCHANGED row
             /\ wk' = [wk EXCEPT ![w] =
                         Decided(wk[w], IF M /\ wk[w].filesize > 0 THEN "resume" ELSE "miss")]
    <3>1. CASE M /\ wk[w].filesize > 0
      <4> DEFINE m == Decided(wk[w], "resume")
      <4>1. /\ m.pc \in {"connect", "send"} /\ m.mode = "resume" /\ m.pending = 0 /\ ~m.writing
            /\ ~m.bad /\ m.last # "wrong" /\ m.dlresp = wk[w].dlresp /\ m.filesize = row.size
        BY <1>3, <2>1 DEF Modes
      <4>2. wk[w].dlresp \in {0, 416}
        BY <1>2, <2>1, <2>5, <3>1 DEF Torn
      <4>3. wk' = [wk EXCEPT ![w] = m]  BY <2>5, <3>1
      <4> HIDE DEF m
      <4>4. m.dlresp \in {0, 416} /\ Len(data) # row.size
        BY <2>1, <2>5, <4>1, <4>2
      <4>6. InOrder(m, exists, data, row, M)
        BY <2>1, <4>1, <4>4 DEF InOrder, Torn
      <4>5. QED  BY <1>2, <2>1, <2>5, <4>1, <4>3, <4>6, Onward DEF M, Replaces
    <3>2. CASE ~(M /\ wk[w].filesize > 0)
      <4>1. ~Torn(exists, data, row', M)
        BY <2>1, <2>5, <3>2 DEF Torn
      <4>2. QED  BY <1>5, <2>1, <2>5, <3>2, <4>1
    <3>3. QED  BY <3>1, <3>2
  <2>6. QED
    <3>1. \/ /\ UNCHANGED row
             /\ wk' = [wk EXCEPT ![w] =
                         Decided(wk[w], IF NODOWN /\ ~GENERAL THEN "direct" ELSE "hitdown")]
          \/ /\ Complete(wk[w]) /\ row' = MarkDownloaded(wk[w])
             /\ wk' = [wk EXCEPT ![w] = Decided(wk[w], IF wk[w].expired THEN "miss" ELSE "hit")]
          \/ /\ wk[w].filesize # Len(data) /\ UNCHANGED row
             /\ wk' = [wk EXCEPT ![w] =
                         Decided(wk[w], IF M /\ wk[w].filesize > 0 THEN "resume" ELSE "miss")]
      BY <1>10 DEF CacheDecide, Complete, M
    <3>2. QED  BY <2>3, <2>4, <2>5, <3>1
<1>11. QED
  BY <1>7, <1>8, <1>9, <1>10

\* A request that has not reached the file yet, goes on to the next place or fails.
LEMMA ConnectAdvances ==
  ASSUME IInv, OrderInv, NEW w \in Workers, ConnectToServer(w) \/ SendRequest(w)
  PROVE  Advances(w)
<1> DEFINE M == MayResume
           Alike(x) == /\ x.pending = 0 /\ ~x.writing /\ ~x.bad /\ x.last # "wrong"
                       /\ x.dlresp = wk[w].dlresp /\ x.mode = wk[w].mode
                       /\ x.filesize = wk[w].filesize
<1>1. /\ wk[w] \in Worker /\ Sound(wk[w]) /\ InOrder(wk[w], exists, data, row, M)
      /\ FileInOrder(exists, data) /\ row \in Row /\ Len(data) \in Nat /\ Len(data) <= L
  BY Knows
<1>2. /\ wk[w].pc \in {"connect", "send"} /\ wk[w].pending = 0 /\ wk[w].filesended = 0
      /\ Alike(wk[w])
      /\ wk[w].dlresp \in {0, 416} \/ ~Torn(exists, data, row, M)
      /\ wk[w].mode = "miss" => wk[w].next = 1
      /\ wk[w].mode \in {"hit", "hitdown", "resume"} => wk[w].filesize = row.size
      /\ wk[w].mode = "resume" => exists /\ Len(data) # row.size /\ wk[w].dlresp \in {0, 416}
  BY <1>1 DEF ConnectToServer, SendRequest, InOrder, Sound, Early
<1> HIDE DEF M
\* It goes on at another place, and has decided what it had decided.
<1>3. ASSUME NEW x, Alike(x), x.pc \in {"send", "response"}, x.next \in {wk[w].next, Len(data) + 1},
             x.pc = "response" /\ x.mode = "resume" => x.next = Len(data) + 1,
             x.mode = "miss" => x.next = wk[w].next,
             wk' = [wk EXCEPT ![w] = x], UNCHANGED <<exists, data, row>>
      PROVE  Advances(w)
  <2>1. InOrder(x, exists, data, row, M)
    BY <1>2, <1>3 DEF InOrder, Torn
  <2>2. x.pc # "idle" /\ (Replaces(x) => Replaces(wk[w]))
    BY <1>2, <1>3 DEF Replaces
  <2>3. QED  BY <1>2, <1>3, <2>1, <2>2, Onward DEF M
<1>4. ASSUME NEW x, Alike(x), x.pc = "failed",
             wk' = [wk EXCEPT ![w] = x], UNCHANGED <<exists, data, row>>
      PROVE  Advances(w)
  <2>1. InOrder(x, exists, data, row, M)
    BY <1>2, <1>4 DEF InOrder, Torn, Early
  <2>2. x.pc # "idle" /\ (Replaces(x) => Replaces(wk[w]))
    BY <1>4 DEF Replaces
  <2>3. QED  BY <1>2, <1>4, <2>1, <2>2, Onward DEF M
<1> DEFINE f == [wk[w] EXCEPT !.pc = "failed"]
<1>5. f.pc = "failed" /\ Alike(f)
  BY <1>1, <1>2 DEF Worker
<1>6. CASE ConnectToServer(w)
  <2> DEFINE r == [wk[w] EXCEPT !.pc = "send", !.connected = TRUE]
             c == [r EXCEPT !.conn = TRUE]
             d == [r EXCEPT !.dconn = TRUE]
             e == [Closed(r) EXCEPT !.connected = TRUE]
  <2>1. r.pc = "send" /\ Alike(r) /\ r.next = wk[w].next /\ r.filesended = 0
    BY <1>1, <1>2 DEF Worker
  <2>2. c.pc = "send" /\ Alike(c) /\ c.next = wk[w].next
    BY <1>1, <1>2 DEF Worker
  <2>3. d.pc = "send" /\ Alike(d) /\ d.next = wk[w].next
    BY <1>1, <1>2 DEF Worker
  <2>4. e.pc = "send" /\ Alike(e) /\ e.next = wk[w].next
    BY <1>1, <1>2 DEF Worker, Closed, FilesClosed
  <2>5. CloseFiles(r) => UNCHANGED <<exists, data>>
    BY <2>1 DEF CloseFiles, Flush
  <2>6. \/ wk' \in {[wk EXCEPT ![w] = r], [wk EXCEPT ![w] = c], [wk EXCEPT ![w] = d]}
           /\ UNCHANGED file /\ UNCHANGED row
        \/ CloseFiles(r) /\ wk' = [wk EXCEPT ![w] = e] /\ UNCHANGED row
        \/ wk' = [wk EXCEPT ![w] = f] /\ UNCHANGED file /\ UNCHANGED row
        \/ Dropped(w) /\ UNCHANGED row
    BY <1>6 DEF ConnectToServer
  <2>7. wk[w].pc = "connect"
    BY <1>6 DEF ConnectToServer
  <2> HIDE DEF r, c, d, e, f
  <2>8. CASE wk' = [wk EXCEPT ![w] = r] /\ UNCHANGED file /\ UNCHANGED row
    BY <2>1, <2>8, <1>3 DEF file
  <2>9. CASE wk' = [wk EXCEPT ![w] = c] /\ UNCHANGED file /\ UNCHANGED row
    BY <2>2, <2>9, <1>3 DEF file
  <2>10. CASE wk' = [wk EXCEPT ![w] = d] /\ UNCHANGED file /\ UNCHANGED row
    BY <2>3, <2>10, <1>3 DEF file
  <2>11. CASE CloseFiles(r) /\ wk' = [wk EXCEPT ![w] = e] /\ UNCHANGED row
    BY <2>4, <2>5, <2>11, <1>3
  <2>12. CASE wk' = [wk EXCEPT ![w] = f] /\ UNCHANGED file /\ UNCHANGED row
    BY <1>4, <1>5, <2>12 DEF file
  <2>13. CASE Dropped(w) /\ UNCHANGED row
    BY <2>13, DroppedAdvances
  <2>14. QED  BY <2>6, <2>8, <2>9, <2>10, <2>11, <2>12, <2>13
<1>7. CASE SendRequest(w)
  <2> DEFINE place == IF wk[w].filesize = 0 THEN "finish" ELSE "body"
             h == [wk[w] EXCEPT !.pc = place]
             p == [wk[w] EXCEPT !.pc = "response"]
             n == Len(data) + 1
             x == wk[w].dconn
             s == [wk[w] EXCEPT !.pc = "response", !.header = x, !.next = n]
  <2>1. /\ UNCHANGED <<exists, data, row>>
        /\ \/ wk[w].mode \in {"hit", "hitdown"} /\ wk' = [wk EXCEPT ![w] = h]
           \/ wk[w].mode \in {"miss", "direct"} /\ wk' = [wk EXCEPT ![w] = p]
           \/ wk' = [wk EXCEPT ![w] = f]
           \/ wk[w].mode = "resume" /\ wk' = [wk EXCEPT ![w] = s]
    BY <1>7 DEF SendRequest, RangeStart, file
  <2>2. /\ Alike(h) /\ h.pc = place /\ h.filesended = 0
    BY <1>1, <1>2 DEF Worker
  <2>3. p.pc = "response" /\ Alike(p) /\ p.next = wk[w].next
    BY <1>1, <1>2 DEF Worker
  <2>4. s.pc = "response" /\ Alike(s) /\ s.next = n
    <3> HIDE DEF n
    <3>1. QED  BY <1>1, <1>2 DEF Worker
  <2>5. n = Len(data) + 1  OBVIOUS
  <2>6. place \in {"body", "finish"} /\ (place = "finish" => wk[w].filesize = 0)
    OBVIOUS
  <2> HIDE DEF place, h, p, s, n, f
  <2>7. CASE wk[w].mode \in {"hit", "hitdown"} /\ wk' = [wk EXCEPT ![w] = h]
    <3>1. InOrder(h, exists, data, row, M)
      BY <1>2, <2>2, <2>6, <2>7 DEF InOrder, Torn, Early
    <3>2. h.pc # "idle" /\ ~Replaces(h)
      BY <2>2, <2>6, <2>7 DEF Replaces
    <3>3. QED  BY <1>2, <2>1, <2>7, <3>1, <3>2, Onward DEF M
  <2>8. CASE wk[w].mode \in {"miss", "direct"} /\ wk' = [wk EXCEPT ![w] = p]
    BY <1>3, <2>1, <2>3, <2>8
  <2>9. CASE wk' = [wk EXCEPT ![w] = f]
    BY <1>4, <1>5, <2>1, <2>9
  <2>10. CASE wk[w].mode = "resume" /\ wk' = [wk EXCEPT ![w] = s]
    BY <1>3, <2>1, <2>4, <2>5, <2>10
  <2>11. QED  BY <2>1, <2>7, <2>8, <2>9, <2>10
<1>8. QED  BY <1>6, <1>7

\* A worker of which the store may not see that its file is replaced: what is kept is not
\* known to be good, and stays.
LEMMA ChangesAdvance ==
  ASSUME IInv, OrderInv, NEW w \in Workers, wk[w].pc # "idle",
         NEW r, wk' = [wk EXCEPT ![w] = r], UNCHANGED <<exists, data>>,
         InOrder(r, exists, data, row', MayResume), r.pc # "idle",
         ~(Len(data) = L /\ KnownBy(wk[w], row))
  PROVE  Advances(w)
<1>1. FileInOrder(exists, data) /\ Len(data) <= Len(data')
  BY Knows
<1>2. MayBecome(w, r)
  BY <1>1 DEF MayBecome
<1>3. InOrder(r, exists', data', row', MayResume) /\ FileInOrder(exists', data')
  BY <1>1
<1>4. QED
  BY <1>2, <1>3 DEF Advances

LEMMA FailsOn ==
  ASSUME IInv, OrderInv, NEW w \in Workers, wk[w].pc \in Early, UNCHANGED <<exists, data, row>>,
         NEW f, wk' = [wk EXCEPT ![w] = f], f.pc = "failed", f.pending = 0, ~f.bad,
         f.last # "wrong", f.dlresp \in {wk[w].dlresp, 416}
  PROVE  Advances(w)
<1> DEFINE M == MayResume
<1>1. InOrder(wk[w], exists, data, row, M)
  BY Knows
<1> HIDE DEF M
<1>2. f.dlresp \in {0, 416} \/ ~Torn(exists, data, row, M)
  BY <1>1 DEF InOrder
<1>3. InOrder(f, exists, data, row, M)
  BY <1>2 DEF InOrder, Torn, Early
<1>4. wk[w].pc # "idle" /\ f.pc # "idle" /\ ~Replaces(f)
  BY DEF Replaces, Early
<1>5. QED
  BY <1>3, <1>4, Onward DEF M

LEMMA ResponseAdvances ==
  ASSUME IInv, OrderInv, NEW w \in Workers, Response(w)
  PROVE  Advances(w)
<1> DEFINE M == MayResume
           b == [wk[w] EXCEPT !.pc = "body", !.filesize = L]
           e == [wk[w] EXCEPT !.pc = "body", !.mode = "direct", !.filesize = ErrorSize]
           f == [wk[w] EXCEPT !.pc = "failed"]
           Fresh(x) == x.pc = "body" /\ x.pending = 0 /\ ~x.writing /\ ~x.bad /\ x.last # "wrong"
                       /\ x.filesended = 0
<1>1. /\ wk[w] \in Worker /\ Sound(wk[w]) /\ InOrder(wk[w], exists, data, row, M)
      /\ wk[w].pc = "response" /\ wk[w].mode \in {"miss", "direct"} /\ UNCHANGED <<exists, data>>
  BY Knows DEF Response, file
<1>2. /\ wk[w].pending = 0 /\ ~wk[w].writing /\ wk[w].filesended = 0 /\ ~wk[w].bad
      /\ wk[w].last # "wrong" /\ (wk[w].mode = "miss" => wk[w].next = 1)
  BY <1>1 DEF InOrder, Sound, Early
<1>3. Fresh(b) /\ b.mode = wk[w].mode /\ b.next = wk[w].next
  BY <1>1, <1>2 DEF Worker
<1>4. Fresh(e) /\ e.mode = "direct"
  BY <1>1, <1>2 DEF Worker
<1>5. \/ row' = row /\ wk' = [wk EXCEPT ![w] = f]
      \/ /\ wk[w].mode = "direct" => row' = row
         /\ wk' = [wk EXCEPT ![w] = b] \/ wk' = [wk EXCEPT ![w] = e]
  BY <1>1 DEF Response, SetSize
<1>6. wk[w].mode = "miss" => Replaces(wk[w])
  BY <1>1 DEF Replaces
<1> HIDE DEF M, b, e
<1>7. CASE row' = row /\ wk' = [wk EXCEPT ![w] = f]
  <2>1. f.pc = "failed" /\ f.pending = 0 /\ ~f.bad /\ f.last # "wrong" /\ f.dlresp = wk[w].dlresp
    BY <1>1, <1>2 DEF Worker
  <2> HIDE DEF f
  <2>2. QED  BY <1>1, <1>7, <2>1, FailsOn DEF Early
<1>8. ASSUME NEW r \in {b, e}, wk' = [wk EXCEPT ![w] = r], wk[w].mode = "direct" => row' = row
      PROVE  Advances(w)
  <2>1. InOrder(r, exists, data, row', M)
    BY <1>1, <1>2, <1>3, <1>4, <1>8 DEF InOrder, Early
  <2>2. r.pc = "body" /\ (wk[w].mode = "direct" => ~Replaces(r))
    BY <1>3, <1>4, <1>8 DEF Replaces
  <2>3. CASE wk[w].mode = "direct"
    BY <1>1, <1>8, <2>1, <2>2, <2>3, Onward DEF M
  <2>4. CASE wk[w].mode = "miss"
    BY <1>1, <1>6, <1>8, <2>1, <2>2, <2>4, ChangesAdvance DEF M, KnownBy
  <2>5. QED  BY <1>1, <2>3, <2>4
<1>9. QED  BY <1>5, <1>7, <1>8

LEMMA ResumeResponseAdvances ==
  ASSUME OneAtATime, IInv, OrderInv, NEW w \in Workers, ResumeResponse(w)
  PROVE  Advances(w)
<1> DEFINE M == MayResume
           body == [wk[w] EXCEPT !.pc = "body", !.fetch = TRUE]
           b == [body EXCEPT !.dlresp = 206, !.header = FALSE]
           f == [wk[w] EXCEPT !.pc = "failed"]
           h == [wk[w] EXCEPT !.pc = "failed", !.dlresp = 416]
           g == [NewProcess EXCEPT !.last = "dropped"]
<1>1. /\ wk[w] \in Worker /\ Sound(wk[w]) /\ InOrder(wk[w], exists, data, row, M)
      /\ wk[w].pc = "response" /\ wk[w].mode = "resume" /\ UNCHANGED <<exists, data>>
      /\ FileInOrder(exists, data) /\ Len(data) \in Nat /\ L \in Nat \ {0} /\ ErrorSize \in Nat
      /\ row \in Row
  BY Knows DEF ResumeResponse, file
<1>2. /\ wk[w].pending = 0 /\ ~wk[w].writing /\ wk[w].filesended = 0 /\ ~wk[w].bad
      /\ wk[w].last # "wrong" /\ wk[w].dlresp \in {0, 416} /\ exists /\ Len(data) # row.size
      /\ wk[w].filesize = row.size /\ wk[w].next = Len(data) + 1
  BY <1>1 DEF InOrder, Sound, Early
<1>3. \/ row' = row /\ wk' = [wk EXCEPT ![w] = b]
      \/ row' = row /\ wk' = [wk EXCEPT ![w] = h]
      \/ row' = row /\ wk' = [wk EXCEPT ![w] = f]
      \/ row' = row /\ wk' = [wk EXCEPT ![w] = g]
      \/ Redirected(w)
  BY <1>2 DEF ResumeResponse
<1>4. CASE row' = row /\ wk' = [wk EXCEPT ![w] = b]
  <2>1. /\ b.pc = "body" /\ b.mode = "resume" /\ b.pending = 0 /\ ~b.writing /\ ~b.bad
        /\ b.last # "wrong" /\ b.header = FALSE /\ b.next = wk[w].next
        /\ b.filesize = wk[w].filesize
    BY <1>1, <1>2 DEF Worker
  <2> HIDE DEF b, M
  <2>2. InOrder(b, exists, data, row, M) /\ b.pc # "idle" /\ ~Replaces(b)
    BY <1>2, <2>1 DEF InOrder, Early, Replaces
  <2>3. QED  BY <1>1, <1>4, <2>2, Onward DEF M
<1>5. CASE row' = row /\ wk' = [wk EXCEPT ![w] = h]
  <2>1. h.pc = "failed" /\ h.pending = 0 /\ ~h.bad /\ h.last # "wrong" /\ h.dlresp = 416
    BY <1>1, <1>2 DEF Worker
  <2> HIDE DEF h
  <2>2. QED  BY <1>1, <1>5, <2>1, FailsOn DEF Early
<1>6. CASE row' = row /\ wk' = [wk EXCEPT ![w] = f]
  <2>1. f.pc = "failed" /\ f.pending = 0 /\ ~f.bad /\ f.last # "wrong" /\ f.dlresp = wk[w].dlresp
    BY <1>1, <1>2 DEF Worker
  <2> HIDE DEF f
  <2>2. QED  BY <1>1, <1>6, <2>1, FailsOn DEF Early
<1>7. CASE row' = row /\ wk' = [wk EXCEPT ![w] = g]
  <2>1. FileInOrder(exists', data') /\ Len(data) <= Len(data')
    BY <1>1 DEF FileInOrder
  <2>2. QED  BY <1>7, <2>1, GoneAdvances
<1>8. CASE Redirected(w)
  <2>1. PICK n \in {0, ErrorSize}, place \in {"finish", "body"} :
           /\ wk' = [wk EXCEPT ![w] = Rewritten(wk[w], place, n)]
           /\ row' = row \/ row' = [row EXCEPT !.size = n]
    BY <1>8 DEF Redirected, SetSize
  <2> DEFINE r == Rewritten(wk[w], place, n)
  <2>2. /\ r.pc = place /\ r.mode = "rewritten" /\ r.pending = 0 /\ ~r.writing /\ ~r.bad
        /\ r.last # "wrong" /\ r.filesize = n
    <3> HIDE DEF OneAtATime
    <3>1. QED  BY <1>1, <1>2 DEF Worker, Rewritten
  <2>3. wk' = [wk EXCEPT ![w] = r]  BY <2>1
  <2>4. n # L  BY <1>1 DEF OneAtATime
  <2>5. ~(Len(data) = L /\ row'.size = L)
    <3>1. row'.size = row.size \/ row'.size = n
      BY <1>1, <2>1 DEF Row
    <3>2. QED  BY <1>2, <2>4, <3>1
  <2> HIDE DEF r, M
  <2>6. InOrder(r, exists, data, row', M) /\ r.pc # "idle"
    BY <2>2, <2>4, <2>5 DEF InOrder, Early
  <2>7. ~(Len(data) = L /\ KnownBy(wk[w], row))
    BY <1>2 DEF KnownBy
  <2>8. QED  BY <1>1, <2>3, <2>6, <2>7, ChangesAdvance DEF M
<1>9. QED  BY <1>3, <1>4, <1>5, <1>6, <1>7, <1>8

LEMMA RetryAdvances ==
  ASSUME IInv, OrderInv, NEW w \in Workers, Retry(w)
  PROVE  Advances(w)
<1> DEFINE M == MayResume
           n == wk[w].retries + 1
           c == [Closed(wk[w]) EXCEPT !.db = TRUE, !.retries = n]
           r == CacheEntered(c)
<1>1. /\ wk[w] \in Worker /\ Sound(wk[w]) /\ InOrder(wk[w], exists, data, row, M)
      /\ wk[w].pc = "failed" /\ UNCHANGED row
  BY Knows DEF Retry
<1>2. wk[w].pending = 0 /\ ~wk[w].bad /\ wk[w].last # "wrong"
      /\ (wk[w].dlresp \in {0, 416} \/ ~Torn(exists, data, row, M))
  BY <1>1 DEF InOrder, Sound
<1>3. /\ r.pc = "exists" /\ r.mode = "direct" /\ r.pending = 0 /\ ~r.writing /\ ~r.bad
      /\ r.last # "wrong" /\ r.next = 1 /\ r.dlresp = wk[w].dlresp
  BY <1>1, <1>2 DEF CacheEntered, Closed, FilesClosed, Worker
<1>4. Dropped(w) \/ (CloseFiles(wk[w]) /\ wk' = [wk EXCEPT ![w] = r])
  BY DEF Retry
<1> HIDE DEF M, r
<1>5. CASE CloseFiles(wk[w]) /\ wk' = [wk EXCEPT ![w] = r]
  <2>1. UNCHANGED <<exists, data>>
    BY <1>2, <1>5 DEF CloseFiles, Flush
  <2>2. InOrder(r, exists, data, row, M) /\ r.pc # "idle" /\ ~Replaces(r)
    BY <1>2, <1>3 DEF InOrder, Torn, Replaces
  <2>3. QED  BY <1>1, <1>5, <2>1, <2>2, Onward DEF M
<1>6. QED  BY <1>1, <1>4, <1>5, DroppedAdvances

\* A browser is given the part it waits for.
LEMMA DeliveredNext ==
  ASSUME NEW r \in Worker, Sound(r), r.pc = "body", r.mode # "direct", ~r.bad, r.last # "wrong",
         NEW b, b = r.filesended + 1
  PROVE  LET d == Delivered(r, b) IN
         /\ d.pc = (IF r.filesended + 1 = r.filesize THEN "finish" ELSE "body")
         /\ ~d.bad /\ d.last # "wrong" /\ d.filesended = r.filesended + 1
         /\ d.mode = r.mode /\ d.next = r.next /\ d.header = r.header /\ d.filesize = r.filesize
         /\ d.writing = r.writing /\ d.pending = r.pending /\ d.dlresp = r.dlresp
         /\ d.connected = r.connected
<1>1. (r.bad \/ b # r.filesended + 1) = FALSE /\ r.filesended + 1 \in Nat /\ r.filesended \in Nat
  BY DEF Worker
<1>2. QED
  BY <1>1 DEF Delivered, Worker

LEMMA WritePartAdvances ==
  ASSUME IInv, OrderInv, NEW w \in Workers, WritePart(w)
  PROVE  Advances(w)
<1> DEFINE opened == IF wk[w].writing THEN data ELSE <<>>
           d == Delivered(wk[w], wk[w].next)
           n == d.next + 1
           p == d.pending + 1
           r == [d EXCEPT !.next = n, !.writing = TRUE, !.pending = p]
           s == [r EXCEPT !.pending = 0]
           k == wk[w].filesended + 1
           q == wk[w].pending + 1
           M == MayResume
<1>1. /\ wk[w] \in Worker /\ Sound(wk[w]) /\ InOrder(wk[w], exists, data, row, M)
      /\ FileInOrder(exists, data) /\ data \in Content /\ Len(data) \in Nat /\ L \in Nat \ {0}
      /\ wk[w].pc = "body" /\ wk[w].mode = "miss"
  BY Knows DEF WritePart
<1>2. exists' = TRUE /\ row' = row
      /\ \/ data' = Flush(opened, r) /\ wk' = [wk EXCEPT ![w] = s]
         \/ data' = opened /\ wk' = [wk EXCEPT ![w] = r]
  BY DEF WritePart
<1>3. /\ wk[w].next = k /\ k \in 1..L /\ wk[w].filesize = L /\ ~wk[w].bad /\ wk[w].filesended \in Nat
      /\ wk[w].pending \in Nat /\ wk[w].last # "wrong" /\ wk[w].filesended < L
      /\ wk[w].pending <= wk[w].filesended
      /\ Len(opened) = wk[w].filesended - wk[w].pending
      /\ \A i \in 1..Len(opened) : opened[i] = i
  <2>1. CASE wk[w].writing
    BY <1>1, <2>1 DEF InOrder, FileInOrder, Worker, Sound
  <2>2. CASE ~wk[w].writing
    BY <1>1, <2>2 DEF InOrder, FileInOrder, Worker, Sound
  <2>3. QED  BY <2>1, <2>2
<1>4. /\ d.pc = (IF k = L THEN "finish" ELSE "body") /\ ~d.bad /\ d.last # "wrong"
      /\ d.filesended = k /\ d.mode = "miss" /\ d.next = k /\ d.filesize = L
      /\ d.pending = wk[w].pending
  BY <1>1, <1>3, DeliveredNext
<1>5. d \in Worker
  BY <1>1, <1>3, DeliveredGood DEF Good
<1>6. /\ r.filesended = k /\ r.pending = q /\ r.next = k + 1 /\ r.mode = "miss"
      /\ r.writing /\ ~r.bad /\ r.last # "wrong" /\ r.filesize = L /\ r.pc = d.pc
  <2> HIDE DEF d
  <2>1. QED  BY <1>4, <1>5 DEF Worker
<1>7. /\ s.filesended = k /\ s.pending = 0 /\ s.next = k + 1 /\ s.mode = "miss"
      /\ s.writing /\ ~s.bad /\ s.last # "wrong" /\ s.filesize = L /\ s.pc = d.pc
  <2> HIDE DEF d
  <2>1. QED  BY <1>4, <1>5 DEF Worker
<1>8. Len(opened) <= L /\ q \in Nat /\ q > 0 /\ Len(opened) = k - q
  <2>1. /\ wk[w].filesended \in Nat /\ wk[w].pending \in Nat /\ wk[w].filesended < L
        /\ L \in Nat /\ Len(opened) = wk[w].filesended - wk[w].pending
    BY ONLY <1>1, <1>3
  <2> HIDE DEF opened
  <2>2. QED  BY ONLY <2>1
<1> HIDE DEF opened, d, r, s, k, q, M
<1>9. CASE data' = Flush(opened, r) /\ wk' = [wk EXCEPT ![w] = s]
  <2>1. data' = [i \in 1..k |-> i]
    <3>1. (IF Len(opened) > r.filesended THEN Len(opened) ELSE r.filesended) = k
      BY <1>3, <1>6, <1>8
    <3>2. data' = [i \in 1..k |->
                      IF r.filesended - r.pending < i /\ i <= r.filesended THEN i
                      ELSE IF i <= Len(opened) THEN opened[i] ELSE Junk]
      <4>1. r.pending # 0
        BY <1>6, <1>8
      <4>2. data' = [i \in 1..(IF Len(opened) > r.filesended THEN Len(opened) ELSE r.filesended) |->
                        IF r.filesended - r.pending < i /\ i <= r.filesended THEN i
                        ELSE IF i <= Len(opened) THEN opened[i] ELSE Junk]
        BY ONLY <1>9, <4>1 DEF Flush
      <4>3. QED  BY ONLY <3>1, <4>2
    <3>3. \A i \in 1..k : (IF r.filesended - r.pending < i /\ i <= r.filesended THEN i
                            ELSE IF i <= Len(opened) THEN opened[i] ELSE Junk) = i
      BY <1>3, <1>6, <1>8
    <3>4. QED  BY <3>2, <3>3
  <2>2. Len(data') = k /\ FileInOrder(exists', data')
    BY <1>2, <1>3, <2>1 DEF FileInOrder
  <2>3. InOrder(s, exists', data', row', M)
    BY <1>2, <1>3, <1>4, <1>7, <2>2 DEF InOrder, Early
  <2>4. MayBecome(w, s)
    <3>1. s.pc # "idle" /\ ~Replaces(s)
      BY <1>4, <1>7 DEF Replaces
    <3>2. CASE wk[w].writing
      <4>1. Len(data) <= Len(data') /\ ~Replaces(wk[w])
        BY <1>1, <1>3, <1>8, <2>2, <3>2 DEF opened, Replaces
      <4>2. QED  BY <1>2, <3>1, <4>1 DEF MayBecome, KnownBy
    <3>3. CASE ~wk[w].writing
      <4>1. Replaces(wk[w]) /\ Len(data') <= 1
        <5>1. wk[w].filesended = 0  BY <1>1, <3>3 DEF InOrder
        <5>2. QED  BY <1>1, <2>2, <3>3, <5>1 DEF Replaces, k
      <4>2. QED  BY <1>1, <3>1, <4>1 DEF MayBecome, KnownBy
    <3>4. QED  BY <3>2, <3>3
  <2>5. QED  BY <1>9, <2>2, <2>3, <2>4 DEF Advances, M
<1>10. CASE data' = opened /\ wk' = [wk EXCEPT ![w] = r]
  <2>1. FileInOrder(exists', data') /\ Len(data') = k - q
    BY <1>2, <1>3, <1>8, <1>10 DEF FileInOrder
  <2>2. InOrder(r, exists', data', row', M)
    BY <1>2, <1>3, <1>4, <1>6, <2>1 DEF InOrder, Early
  <2>3. MayBecome(w, r)
    <3>1. r.pc # "idle" /\ ~Replaces(r)
      BY <1>4, <1>6 DEF Replaces
    <3>2. CASE wk[w].writing
      <4>1. Len(data) <= Len(data') /\ ~Replaces(wk[w])
        BY <1>1, <1>10, <3>2 DEF opened, Replaces
      <4>2. QED  BY <1>2, <3>1, <4>1 DEF MayBecome, KnownBy
    <3>3. CASE ~wk[w].writing
      <4>1. Replaces(wk[w]) /\ Len(data') <= 1
        BY <1>1, <1>10, <3>3 DEF Replaces, opened
      <4>2. QED  BY <1>1, <3>1, <4>1 DEF MayBecome, KnownBy
    <3>4. QED  BY <3>2, <3>3
  <2>4. QED  BY <1>10, <2>1, <2>2, <2>3 DEF Advances, M
<1>11. QED  BY <1>2, <1>9, <1>10

LEMMA ResumePartAdvances ==
  ASSUME IInv, OrderInv, NEW w \in Workers, ResumePart(w)
  PROVE  Advances(w)
<1> DEFINE M == MayResume
           done == [wk[w] EXCEPT !.fetch = FALSE]
           n == wk[w].next + 1
           a == [done EXCEPT !.header = FALSE, !.next = n]
           m == Ended(wk[w])
           b == [done EXCEPT !.header = FALSE, !.next = m]
           g == [NewProcess EXCEPT !.last = "dropped"]
           Alike(x) == /\ x.pc = "body" /\ x.mode = "resume" /\ x.filesize = row.size
                       /\ x.header = FALSE /\ ~x.bad /\ x.last # "wrong" /\ x.pending = 0
<1>1. /\ wk[w] \in Worker /\ Sound(wk[w]) /\ InOrder(wk[w], exists, data, row, M)
      /\ FileInOrder(exists, data) /\ data \in Content /\ Len(data) \in Nat /\ L \in Nat \ {0}
      /\ row.size \in Nat /\ wk[w].pc = "body" /\ wk[w].fetch /\ row' = row /\ exists' = exists
  BY Knows DEF ResumePart, file
<1>2. wk[w].mode = "resume" /\ wk[w].header = FALSE /\ exists
  BY <1>1 DEF Sound, InOrder, Worker
<1>3. Alike(wk[w]) /\ (wk[w].next = Len(data) + 1 \/ wk[w].next > RangeEnd(wk[w]))
  <2>1. wk[w].pending = 0  BY <1>1, <1>2 DEF Sound, Worker
  <2>2. QED  BY <1>1, <1>2, <2>1 DEF InOrder
<1>4. RangeEnd(wk[w]) \in Nat /\ RangeEnd(wk[w]) <= L
  BY <1>1, <1>3 DEF RangeEnd
<1>5. Alike(done) /\ done.next = wk[w].next
  BY <1>1, <1>3 DEF Worker
<1>6. Alike(a) /\ a.next = n
  <2>1. n \in Nat  BY <1>1 DEF Worker
  <2> HIDE DEF n
  <2>2. QED  BY <1>1, <1>3, <2>1 DEF Worker
<1>7. Alike(b) /\ b.next = m
  <2> HIDE DEF m
  <2>1. QED  BY <1>1, <1>3 DEF Worker
<1>8. m > RangeEnd(wk[w])
  BY <1>4 DEF Ended
<1>9. n = wk[w].next + 1  OBVIOUS
<1>10. \/ /\ wk[w].next <= RangeEnd(wk[w]) /\ data' = Append(data, wk[w].next)
          /\ wk' = [wk EXCEPT ![w] = a]
       \/ data' = data /\ wk' = [wk EXCEPT ![w] = b]
       \/ data' = data /\ wk' = [wk EXCEPT ![w] = done]
       \/ data' = data /\ wk' = [wk EXCEPT ![w] = g]
  <2>1. done.next = wk[w].next /\ wk[w].header = FALSE
    BY <1>1, <1>2 DEF Worker
  <2>2. QED  BY <2>1 DEF ResumePart, file
<1> HIDE DEF M, done, n, a, m, b
\* Where the file is no longer than its parts, the worker goes on.
<1>11. ASSUME NEW x, Alike(x), x.next > RangeEnd(x) \/ x.next = Len(data') + 1, exists'
       PROVE  InOrder(x, exists', data', row', M) /\ x.pc # "idle" /\ ~Replaces(x)
  BY <1>1, <1>11 DEF InOrder, Early, Replaces
<1>12. ASSUME NEW x, Alike(x)  PROVE RangeEnd(x) = RangeEnd(wk[w])
  BY <1>3, <1>12 DEF RangeEnd
<1>13. ~Replaces(wk[w])
  BY <1>2 DEF Replaces
<1>14. CASE /\ wk[w].next <= RangeEnd(wk[w]) /\ data' = Append(data, wk[w].next)
            /\ wk' = [wk EXCEPT ![w] = a]
  <2>1. wk[w].next = Len(data) + 1 /\ wk[w].next <= L
    BY <1>1, <1>3, <1>4, <1>14 DEF Worker
  <2>2. Len(data') = Len(data) + 1 /\ \A i \in 1..Len(data') : data'[i] = i
    BY <1>1, <1>14, <2>1 DEF FileInOrder, Content
  <2>3. FileInOrder(exists', data') /\ Len(data) <= Len(data')
    BY <1>1, <1>2, <2>1, <2>2 DEF FileInOrder
  <2>4. InOrder(a, exists', data', row', M) /\ a.pc # "idle" /\ ~Replaces(a)
    BY <1>1, <1>2, <1>6, <1>9, <1>11, <2>1, <2>2
  <2>5. MayBecome(w, a)
    BY <1>1, <1>13, <2>3, <2>4 DEF MayBecome, KnownBy
  <2>6. QED  BY <1>14, <2>3, <2>4, <2>5 DEF Advances, M
<1>15. CASE data' = data /\ wk' = [wk EXCEPT ![w] = b]
  <2>1. InOrder(b, exists', data', row', M) /\ b.pc # "idle" /\ ~Replaces(b)
    BY <1>1, <1>2, <1>7, <1>8, <1>11, <1>12
  <2>2. InOrder(b, exists, data, row, M)
    BY <1>1, <1>15, <2>1
  <2>3. QED  BY <1>1, <1>15, <2>1, <2>2, Onward DEF M
<1>16. CASE data' = data /\ wk' = [wk EXCEPT ![w] = done]
  <2>1. InOrder(done, exists', data', row', M) /\ done.pc # "idle" /\ ~Replaces(done)
    BY <1>1, <1>2, <1>3, <1>5, <1>11, <1>12, <1>16
  <2>2. InOrder(done, exists, data, row, M)
    BY <1>1, <1>16, <2>1
  <2>3. QED  BY <1>1, <1>16, <2>1, <2>2, Onward DEF M
<1>17. CASE data' = data /\ wk' = [wk EXCEPT ![w] = g]
  <2>1. FileInOrder(exists', data') /\ Len(data) <= Len(data')
    BY <1>1, <1>17 DEF FileInOrder
  <2>2. QED  BY <1>1, <1>17, <2>1, GoneAdvances
<1>18. QED  BY <1>10, <1>14, <1>15, <1>16, <1>17

LEMMA BodyAdvances ==
  ASSUME IInv, OrderInv, NEW w \in Workers,
         \/ RelayBody(w) \/ BreakOff(w) \/ ReadHit(w)
         \/ Refresh(w) \/ ReadDown(w) \/ Timeout(w)
  PROVE  Advances(w)
<1> DEFINE M == MayResume
<1>1. /\ wk[w] \in Worker /\ Sound(wk[w]) /\ InOrder(wk[w], exists, data, row, M)
      /\ FileInOrder(exists, data) /\ data \in Content /\ Len(data) \in Nat /\ L \in Nat \ {0}
      /\ wk[w].pc = "body" /\ row' = row
  BY Knows DEF RelayBody, BreakOff, ReadHit, Refresh, ReadDown, Timeout, Following
<1>2. ~wk[w].bad /\ wk[w].last # "wrong"
  BY <1>1 DEF InOrder
<1> HIDE DEF M
<1>3. CASE RelayBody(w)
  <2> DEFINE r == [wk[w] EXCEPT !.pc = "finish"]
  <2>1. wk[w].mode = "direct" /\ wk' = [wk EXCEPT ![w] = r] /\ UNCHANGED <<exists, data>>
    BY <1>3 DEF RelayBody, file
  <2>2. /\ r.pc = "finish" /\ r.mode = "direct" /\ ~r.bad /\ r.last # "wrong" /\ r.pending = 0
    BY <1>1, <1>2, <2>1 DEF Worker, Sound
  <2> HIDE DEF r
  <2>3. InOrder(r, exists, data, row, M) /\ r.pc # "idle" /\ ~Replaces(r)
    BY <2>2 DEF InOrder, Early, Replaces
  <2>4. QED  BY <1>1, <2>1, <2>3, Onward DEF M
<1>4. CASE BreakOff(w)
  <2>1. CASE wk[w].mode = "miss" /\ ~wk[w].writing
    <3> DEFINE r == [NewProcess EXCEPT !.last = "dropped"]
    <3>1. exists' = TRUE /\ data' = <<>> /\ wk' = [wk EXCEPT ![w] = r]
      BY <1>4, <2>1 DEF BreakOff
    <3>2. FileInOrder(exists', data') /\ Len(data') = 0
      BY <1>1, <3>1 DEF FileInOrder
    <3>3. r.pc = "idle" /\ r.last = "dropped" /\ InOrder(r, exists', data', row', M)
      BY NewInOrder
    <3>4. Replaces(wk[w])
      BY <1>1, <2>1 DEF Replaces
    <3> HIDE DEF r
    <3>5. MayBecome(w, r)
      BY <1>1, <3>2, <3>3, <3>4 DEF MayBecome, KnownBy
    <3>6. QED  BY <3>1, <3>2, <3>3, <3>5 DEF Advances, M
  <2>2. CASE ~(wk[w].mode = "miss" /\ ~wk[w].writing)
    BY <1>1, <1>4, <2>2, DroppedAdvances DEF BreakOff
  <2>3. QED  BY <2>1, <2>2
<1>5. CASE ReadHit(w) \/ ReadDown(w)
  <2> DEFINE r == Delivered(wk[w], data[wk[w].filesended + 1])
  <2>1. /\ wk[w].mode \in {"hit", "hitdown", "resume"}
        /\ \/ /\ wk[w].filesended + 1 <= Len(data)
              /\ wk' = [wk EXCEPT ![w] = r] /\ UNCHANGED file
           \/ Dropped(w)
    BY <1>1, <1>5 DEF ReadHit, ReadDown, Following
  <2>2. CASE /\ wk[w].filesended + 1 <= Len(data)
             /\ wk' = [wk EXCEPT ![w] = r] /\ UNCHANGED file
    <3>1. data[wk[w].filesended + 1] = wk[w].filesended + 1
      BY <1>1, <2>2 DEF FileInOrder, Worker
    <3>2. /\ r.pc = (IF wk[w].filesended + 1 = wk[w].filesize THEN "finish" ELSE "body")
          /\ ~r.bad /\ r.last # "wrong" /\ r.filesended = wk[w].filesended + 1
          /\ r.mode = wk[w].mode /\ r.next = wk[w].next /\ r.header = wk[w].header
          /\ r.filesize = wk[w].filesize /\ r.pending = wk[w].pending
      BY <1>1, <1>2, <2>1, <3>1, DeliveredNext
    <3>3. wk[w].pending = 0 /\ wk[w].filesize = row.size
          /\ (wk[w].mode = "resume" => exists /\ ~wk[w].header
                /\ (wk[w].next = Len(data) + 1 \/ wk[w].next > RangeEnd(wk[w])))
      <4>1. wk[w].pending = 0  BY <1>1, <2>1 DEF Sound, Worker
      <4>2. QED  BY <1>1, <2>1, <4>1 DEF InOrder
    <3> HIDE DEF r
    <3>4. RangeEnd(r) = RangeEnd(wk[w])
      BY <3>2 DEF RangeEnd
    <3>5. InOrder(r, exists, data, row, M)
      BY <2>1, <3>2, <3>3, <3>4 DEF InOrder, Early
    <3>6. r.pc # "idle" /\ ~Replaces(r)
      BY <2>1, <3>2 DEF Replaces
    <3>7. QED  BY <1>1, <2>2, <3>5, <3>6, Onward DEF M, file
  <2>3. QED  BY <1>1, <2>1, <2>2, DroppedAdvances
<1>6. CASE Refresh(w)
  <2> DEFINE n == Len(data)
             r == [wk[w] EXCEPT !.filedownloaded = n]
  <2>1. /\ wk[w].mode \in {"hitdown", "resume"}
        /\ wk' = [wk EXCEPT ![w] = r] /\ UNCHANGED <<exists, data>>
    BY <1>6 DEF Refresh, Following, file
  <2>2. /\ r.pc = "body" /\ r.mode = wk[w].mode /\ ~r.bad /\ r.last # "wrong"
        /\ r.pending = wk[w].pending /\ r.next = wk[w].next /\ r.header = wk[w].header
        /\ r.filesize = wk[w].filesize /\ r.filesended = wk[w].filesended
    <3> HIDE DEF n
    <3>1. QED  BY <1>1, <1>2 DEF Worker
  <2> HIDE DEF r
  <2>3. RangeEnd(r) = RangeEnd(wk[w])
    BY <2>2 DEF RangeEnd
  <2>4. InOrder(r, exists, data, row, M) /\ r.pc # "idle" /\ ~Replaces(r)
    BY <1>1, <2>1, <2>2, <2>3 DEF InOrder, Early, Replaces
  <2>5. QED  BY <1>1, <2>1, <2>4, Onward DEF M
<1>7. CASE Timeout(w)
  BY <1>1, <1>7, DroppedAdvances DEF Timeout
<1>8. QED
  BY <1>3, <1>4, <1>5, <1>6, <1>7

LEMMA FinishAdvances ==
  ASSUME IInv, OrderInv, NEW w \in Workers, Finish(w)
  PROVE  Advances(w)
<1> DEFINE M == MayResume
           a == Answered(wk[w])
           c == Closed(a)
           t == Answer(wk[w])
           g == [NewProcess EXCEPT !.last = t]
<1>1. /\ wk[w] \in Worker /\ Sound(wk[w]) /\ InOrder(wk[w], exists, data, row, M)
      /\ FileInOrder(exists, data) /\ Len(data) \in Nat /\ Len(data) <= L
      /\ wk[w].pc = "finish" /\ row' = row
  BY Knows DEF Finish
<1>2. ~wk[w].bad /\ wk[w].connected
      /\ (wk[w].pending > 0 => exists /\ Len(data) = wk[w].filesended - wk[w].pending)
  BY <1>1 DEF InOrder, Sound
\* Only where the whole is not kept, something of another length is taken for it.
<1>3. t \in {"whole", "other"} /\ (t = "other" => ~(Len(data) = L /\ KnownBy(wk[w], row)))
  <2>1. CASE wk[w].mode = "direct"
    BY <2>1 DEF Answer
  <2>2. CASE wk[w].mode = "rewritten"
    <3>1. wk[w].filesize # L /\ ~(Len(data) = L /\ row.size = L)
      BY <1>1, <2>2 DEF InOrder
    <3>2. QED  BY <1>2, <2>2, <3>1 DEF Answer, KnownBy
  <2>3. CASE wk[w].mode = "miss"
    <3>1. wk[w].filesended = L
      BY <1>1, <2>3 DEF InOrder, Sound
    <3>2. QED  BY <1>2, <2>3, <3>1 DEF Answer
  <2>4. CASE wk[w].mode \in {"hit", "hitdown", "resume"}
    <3>1. wk[w].filesended = wk[w].filesize /\ wk[w].filesize = row.size
      BY <1>1, <2>4 DEF InOrder
    <3>2. QED  BY <1>2, <2>4, <3>1 DEF Answer, KnownBy
  <2>5. QED  BY <1>1, <2>1, <2>2, <2>3, <2>4 DEF Worker, Modes
<1>4. t \in {"none", "whole", "other", "wrong", "dropped"}
  BY <1>3
<1>5. /\ a.pc = "idle" /\ a.last = t /\ ~a.bad /\ a.pending = wk[w].pending /\ a.connected
      /\ a.filesended = wk[w].filesended /\ a \in Worker
  <2>1. a \in Worker
    BY <1>1, AnsweredGood DEF Good
  <2>2. /\ a.pc = "idle" /\ a.last = Answer(wk[w]) /\ a.bad = wk[w].bad
        /\ a.pending = wk[w].pending /\ a.connected = wk[w].connected
        /\ a.filesended = wk[w].filesended
    BY <1>1 DEF Answered, Worker
  <2> HIDE DEF a
  <2>3. QED  BY <1>2, <2>1, <2>2
<1>6. c.pc = "idle" /\ c.last = t /\ ~c.bad /\ c.pending = 0 /\ ~c.writing
  <2> HIDE DEF a, t
  <2>1. QED  BY <1>4, <1>5 DEF Closed, FilesClosed, Worker
<1>7. g.pc = "idle" /\ g.last = t /\ InOrder(g, exists', data', row', M)
  <2> HIDE DEF t
  <2>1. t # "wrong"  BY <1>3
  <2>2. QED  BY <2>1, NewInOrder
<1>8. \/ wk' = [wk EXCEPT ![w] = a] /\ UNCHANGED file
      \/ wk' = [wk EXCEPT ![w] = c] /\ CloseFiles(wk[w])
      \/ wk' = [wk EXCEPT ![w] = g] /\ CloseFiles(wk[w])
  <2>1. a.last = t  BY <1>5
  <2> HIDE DEF t, a
  <2>2. QED  BY <2>1 DEF Finish, a
<1>9. CloseFiles(wk[w]) => FileInOrder(exists', data') /\ Len(data) <= Len(data')
  BY Flushed
<1> HIDE DEF M, a, c, g, t
<1>10. ~Replaces(wk[w])
  BY <1>1 DEF Replaces
<1>11. ASSUME NEW x, x.pc = "idle", x.last = t, InOrder(x, exists', data', row', M),
              wk' = [wk EXCEPT ![w] = x], FileInOrder(exists', data'), Len(data) <= Len(data')
       PROVE  Advances(w)
  <2>1. ~Replaces(x)  BY <1>11 DEF Replaces
  <2>2. MayBecome(w, x)
    BY <1>1, <1>3, <1>10, <1>11, <2>1 DEF MayBecome, KnownBy
  <2>3. QED  BY <1>11, <2>2 DEF Advances, M
<1>12. CASE wk' = [wk EXCEPT ![w] = a] /\ UNCHANGED file
  <2>1. InOrder(a, exists, data, row, M)
    BY <1>2, <1>3, <1>5 DEF InOrder, Early
  <2>2. InOrder(a, exists', data', row', M) /\ FileInOrder(exists', data') /\ Len(data) <= Len(data')
    BY <1>1, <1>12, <2>1 DEF file, FileInOrder
  <2>3. QED  BY <1>5, <1>11, <1>12, <2>2
<1>13. CASE wk' = [wk EXCEPT ![w] = c] /\ CloseFiles(wk[w])
  <2>1. InOrder(c, exists', data', row', M)
    BY <1>3, <1>6 DEF InOrder, Early
  <2>2. QED  BY <1>6, <1>9, <1>11, <1>13, <2>1
<1>14. CASE wk' = [wk EXCEPT ![w] = g] /\ CloseFiles(wk[w])
  BY <1>7, <1>9, <1>11, <1>14
<1>15. QED  BY <1>8, <1>12, <1>13, <1>14

LEMMA RequestAdvances ==
  ASSUME OneAtATime, IInv, OrderInv, NEW w \in Workers, Request(w)
  PROVE  Advances(w)
<1> DEFINE M == MayResume
           r == [wk[w] EXCEPT !.retries = 0, !.bad = FALSE, !.last = "none"]
           a == CacheEntered(FilesClosed(r))
           b == CacheEntered([r EXCEPT !.db = TRUE])
           d == Flush(data, wk[w])
<1>1. /\ wk[w] \in Worker /\ Sound(wk[w]) /\ InOrder(wk[w], exists, data, row, M)
      /\ FileInOrder(exists, data) /\ Len(data) \in Nat /\ env.ResumeOnce
      /\ wk[w].pc = "idle" /\ row' = row
  BY Knows DEF Request
<1>2. wk[w].dlresp = 0 \/ ~Torn(exists, d, row, M)
  BY <1>1 DEF Request, Resumable, Torn
<1>3. /\ r.pending = wk[w].pending /\ r.filesended = wk[w].filesended
      /\ r.connected = wk[w].connected
  BY <1>1 DEF Worker
<1>4. /\ a.pc = "exists" /\ a.mode = "direct" /\ a.pending = 0 /\ ~a.writing /\ ~a.bad
      /\ a.last = "none" /\ a.next = 1 /\ a.dlresp = wk[w].dlresp
  BY <1>1 DEF CacheEntered, FilesClosed, Worker
<1>5. ~wk[w].connected => /\ b.pc = "exists" /\ b.mode = "direct" /\ b.pending = 0
                          /\ ~b.writing /\ ~b.bad /\ b.last = "none" /\ b.next = 1
                          /\ b.dlresp = wk[w].dlresp
  <2>1. ~wk[w].connected => wk[w].pending = 0 /\ ~wk[w].writing
    BY <1>1 DEF InOrder, Sound, Worker
  <2>2. QED  BY <1>1, <2>1 DEF CacheEntered, Worker
<1>6. \/ CloseFiles(r) /\ wk' = [wk EXCEPT ![w] = a]
      \/ ~wk[w].connected /\ UNCHANGED file /\ wk' = [wk EXCEPT ![w] = b]
  BY <1>3 DEF Request
<1> HIDE DEF M, r, a, b, d
<1>7. ASSUME NEW x, x.pc = "exists", x.mode = "direct", x.pending = 0, ~x.writing, ~x.bad,
             x.last = "none", x.next = 1, x.dlresp = wk[w].dlresp, wk' = [wk EXCEPT ![w] = x],
             FileInOrder(exists', data'), Len(data) <= Len(data'), exists' = exists, data' = d
      PROVE  Advances(w)
  <2>1. x.dlresp = 0 \/ ~Torn(exists', data', row', M)
    BY <1>1, <1>2, <1>7 DEF Torn
  <2>2. InOrder(x, exists', data', row', M)
    BY <1>7, <2>1 DEF InOrder, Torn
  <2>3. ~Replaces(x) /\ ~Replaces(wk[w])
    BY <1>1, <1>7 DEF Replaces
  <2>4. MayBecome(w, x)
    BY <1>1, <1>7, <2>3 DEF MayBecome, KnownBy
  <2>5. QED  BY <1>7, <2>2, <2>4 DEF Advances, M
<1>8. CASE CloseFiles(r) /\ wk' = [wk EXCEPT ![w] = a]
  <2>1. /\ data' = d /\ exists' = exists /\ FileInOrder(exists', data')
        /\ Len(data) <= Len(data')
    BY <1>3, <1>8, Flushed DEF d
  <2>2. QED  BY <1>4, <1>7, <1>8, <2>1
<1>9. CASE ~wk[w].connected /\ UNCHANGED file /\ wk' = [wk EXCEPT ![w] = b]
  <2>1. wk[w].pending = 0
    BY <1>1, <1>9 DEF Sound, Worker
  <2>2. d = data /\ data' = data /\ exists' = exists
    BY <1>9, <2>1 DEF d, Flush, file
  <2>3. FileInOrder(exists', data') /\ Len(data) <= Len(data')
    BY <1>1, <2>2 DEF FileInOrder
  <2>4. QED  BY <1>5, <1>7, <1>9, <2>2, <2>3
<1>10. QED  BY <1>6, <1>8, <1>9

LEMMA EnvironmentAdvances ==
  ASSUME OneAtATime, IInv, OrderInv, NEW w \in Workers, Environment(w)
  PROVE  Advances(w)
<1>1. CASE KeepAliveTimeout(w)
  <2> DEFINE x == wk[w].last
             r == [NewProcess EXCEPT !.last = x]
  <2>1. /\ wk[w].pc = "idle" /\ CloseFiles(wk[w]) /\ row' = row
        /\ wk' = [wk EXCEPT ![w] = r] /\ x # "wrong"
    BY <1>1, Knows DEF KeepAliveTimeout, InOrder
  <2>2. FileInOrder(exists', data') /\ Len(data) <= Len(data')
    BY <2>1, Flushed
  <2>3. /\ r.pc = "idle" /\ r.last = wk[w].last /\ ~Replaces(r)
        /\ InOrder(r, exists', data', row', MayResume)
    <3> HIDE DEF x
    <3>1. r.pc = "idle" /\ r.last = x /\ ~Replaces(r) /\ InOrder(r, exists', data', row', MayResume)
      BY <2>1, NewInOrder
    <3>2. QED  BY <3>1 DEF x
  <2>4. ~Replaces(wk[w])
    BY <2>1 DEF Replaces
  <2> HIDE DEF r
  <2>5. MayBecome(w, r)
    BY <2>1, <2>2, <2>3, <2>4 DEF MayBecome, KnownBy
  <2>6. QED  BY <2>1, <2>2, <2>3, <2>5 DEF Advances
<1>2. CASE BrowserDrop(w)
  BY <1>2, DroppedAdvances DEF BrowserDrop
<1>3. CASE Crash(w)
  <2>1. FileInOrder(exists, data) /\ Len(data) \in Nat
    BY Knows
  <2>2. FileInOrder(exists', data') /\ Len(data) <= Len(data')
    BY <1>3, <2>1 DEF FileInOrder, Crash, file
  <2>3. QED  BY <1>3, <2>2, GoneAdvances DEF Crash
<1>4. QED
  BY <1>1, <1>2, <1>3, RequestAdvances DEF Environment

-----------------------------------------------------------------------------
(* The invariant.                                                          *)

\* Whatever goes wrong, the configuration stays.
LEMMA ConfigurationStays ==
  ASSUME IInv, OrderInv, Next
  PROVE  env'.ResumeOnce /\ (MayResume' <=> MayResume)
<1>1. env \in World /\ env.ResumeOnce
  BY DEF IInv, TypeOK, OrderInv
<1>2. ASSUME NEW k \in FaultKinds, Fault(k)
      PROVE  /\ env'.ResumeOnce = env.ResumeOnce /\ env'.GENERAL = env.GENERAL
             /\ env'.NORESUME = env.NORESUME
  BY <1>1, <1>2 DEF Fault, World
<1>3. ASSUME NEW w \in Workers, Step(w)
      PROVE  UNCHANGED env \/ \E k \in FaultKinds : Fault(k)
  <2>1. CASE CacheExists(w) \/ CacheRow(w) \/ CacheMtime(w) \/ CacheDecide(w)
    BY <2>1 DEF CacheExists, CacheRow, CacheMtime, CacheDecide, InsertRow, FaultKinds
  <2>2. CASE ConnectToServer(w) \/ SendRequest(w) \/ Response(w)
    BY <2>2 DEF ConnectToServer, SendRequest, Response, FaultKinds
  <2>3. CASE ResumeResponse(w)
    BY <2>3 DEF ResumeResponse, FaultKinds
  <2>4. CASE Retry(w) \/ RelayBody(w) \/ WritePart(w) \/ BreakOff(w) \/ ReadHit(w)
    BY <2>4 DEF Retry, RelayBody, WritePart, BreakOff, ReadHit, FaultKinds
  <2>5. CASE ResumePart(w) \/ Refresh(w) \/ ReadDown(w) \/ Timeout(w) \/ Finish(w)
    BY <2>5 DEF ResumePart, Refresh, ReadDown, Timeout, Finish, FaultKinds
  <2>6. QED  BY <1>3, <2>1, <2>2, <2>3, <2>4, <2>5 DEF Step
<1>4. UNCHANGED env \/ \E k \in FaultKinds : Fault(k)
  <2>1. \A w \in Workers : Environment(w) => UNCHANGED env \/ \E k \in FaultKinds : Fault(k)
    BY DEF Environment, Request, KeepAliveTimeout, BrowserDrop, Crash, FaultKinds
  <2>2. Age \/ Expire => UNCHANGED env \/ \E k \in FaultKinds : Fault(k)
    BY DEF Age, Expire, FaultKinds
  <2>3. QED  BY <1>3, <2>1, <2>2 DEF Next
<1>5. QED
  BY <1>1, <1>2, <1>4 DEF MayResume, GENERAL, NORESUME

\* Who begins finds nobody else at work.
LEMMA BeginsAlone ==
  ASSUME OneAtATime, IInv, NEW w \in Workers, Request(w)
  PROVE  Others(w)
<1>1. IsFiniteSet(Active \ {w})
  BY EntryAssumption, FS_Subset DEF Active
<1>2. Cardinality(Active \ {w}) = 0
  BY <1>1, FS_CardinalityType DEF OneAtATime, Request
<1>3. Active \ {w} = {}
  BY <1>1, <1>2, FS_EmptySet
<1>4. QED
  BY <1>3 DEF Active, Others, Busy

\* Whoever goes on is alone, but a process that ends and has nothing to do with the file.
LEMMA GoesOnAlone ==
  ASSUME OneAtATime, IInv, OrderInv, NEW w \in Workers, Step(w) \/ Environment(w)
  PROVE  Others(w) \/ (KeepAliveTimeout(w) /\ ~Busy(wk[w]))
<1>1. CASE Request(w)
  BY <1>1, BeginsAlone
<1>2. CASE Busy(wk[w])
  BY <1>2 DEF OrderInv, Alone, Others
<1>3. Request(w) \/ KeepAliveTimeout(w) \/ Busy(wk[w])
  BY DEF Step, Environment, CacheExists, CacheRow, CacheMtime, CacheDecide,
     ConnectToServer, SendRequest, Response, ResumeResponse, Retry, RelayBody, WritePart,
     BreakOff, ReadHit, ResumePart, Refresh, ReadDown, Timeout, Finish, Following,
     BrowserDrop, Crash, Busy
<1>4. QED
  BY <1>1, <1>2, <1>3

\* An idle process that ends, perhaps while another one is at work.
LEMMA EndsQuietly ==
  ASSUME IInv, OrderInv, NEW w \in Workers, KeepAliveTimeout(w), ~Busy(wk[w])
  PROVE  /\ UNCHANGED <<exists, data, row, env>>
         /\ \E r : /\ wk' = [wk EXCEPT ![w] = r] /\ r.pc = "idle" /\ ~Busy(r)
                   /\ r.last = wk[w].last /\ InOrder(r, exists, data, row, MayResume)
<1> DEFINE x == wk[w].last
           r == [NewProcess EXCEPT !.last = x]
<1>1. wk[w] \in Worker /\ wk[w].pending = 0 /\ x # "wrong"
  <2>1. wk[w] \in Worker /\ InOrder(wk[w], exists, data, row, MayResume)
    BY Knows
  <2>2. QED  BY <2>1 DEF InOrder, Busy, Worker
<1>2. UNCHANGED <<exists, data, row, env>> /\ wk' = [wk EXCEPT ![w] = r]
  BY <1>1 DEF KeepAliveTimeout, CloseFiles, Flush
<1> HIDE DEF x
<1>3. r.pc = "idle" /\ r.last = x /\ InOrder(r, exists, data, row, MayResume)
  BY <1>1, NewInOrder
<1>4. ~Busy(r)
  BY DEF Busy, NewProcess
<1> HIDE DEF r
<1>5. QED
  BY <1>2, <1>3, <1>4 DEF x

LEMMA EveryoneAdvances ==
  ASSUME OneAtATime, IInv, OrderInv, NEW w \in Workers, Step(w) \/ Environment(w)
  PROVE  Advances(w)
<1>1. CASE Step(w)
  <2>1. \/ CacheExists(w) \/ CacheRow(w) \/ CacheMtime(w) \/ CacheDecide(w)
        \/ ConnectToServer(w) \/ SendRequest(w) \/ Response(w) \/ ResumeResponse(w)
        \/ Retry(w) \/ WritePart(w) \/ ResumePart(w) \/ Finish(w)
        \/ RelayBody(w) \/ BreakOff(w) \/ ReadHit(w) \/ Refresh(w) \/ ReadDown(w) \/ Timeout(w)
    BY <1>1 DEF Step
  <2>2. QED
    BY <2>1, DecisionAdvances, ConnectAdvances, ResponseAdvances, ResumeResponseAdvances,
       RetryAdvances, WritePartAdvances, ResumePartAdvances, BodyAdvances, FinishAdvances
<1>2. QED  BY <1>1, EnvironmentAdvances

LEMMA OrderBegins ==
  ASSUME OneAtATime, Init
  PROVE  OrderInv
<1>1. env.ResumeOnce
  BY DEF OneAtATime, Init
<1>2. Alone
  BY DEF Init, Alone, NewProcess, Busy
<1>3. FileInOrder(exists, data)
  BY EntryAssumption DEF Init, FileInOrder
<1>4. ASSUME NEW w \in Workers PROVE InOrder(wk[w], exists, data, row, MayResume)
  <2>1. wk[w] = NewProcess
    BY DEF Init
  <2>2. NewProcess = [NewProcess EXCEPT !.last = "none"]
    BY DEF NewProcess
  <2>3. InOrder([NewProcess EXCEPT !.last = "none"], exists, data, row, MayResume)
    BY NewInOrder
  <2>4. QED  BY <2>1, <2>2, <2>3
<1>5. QED
  BY <1>1, <1>2, <1>3, <1>4 DEF OrderInv

LEMMA OrderStays ==
  ASSUME OneAtATime, IInv, OrderInv, Next
  PROVE  OrderInv'
<1>1. env'.ResumeOnce /\ (MayResume' <=> MayResume)
  BY ConfigurationStays
<1>2. ASSUME NEW w \in Workers, Step(w) \/ Environment(w)
      PROVE  OrderInv'
  <2>1. CASE Others(w)
    BY <1>1, <1>2, <2>1, EveryoneAdvances, AdvancesKeepsOrder
  <2>2. CASE KeepAliveTimeout(w) /\ ~Busy(wk[w])
    <3>1. UNCHANGED <<exists, data, row, env>>
      BY <2>2, EndsQuietly
    <3>2. PICK r : /\ wk' = [wk EXCEPT ![w] = r] /\ ~Busy(r)
                   /\ InOrder(r, exists, data, row, MayResume)
      BY <2>2, EndsQuietly
    <3>3. \A v \in Workers : wk'[v] = IF v = w THEN r ELSE wk[v]
      BY <3>2 DEF IInv, TypeOK
    <3>4. Alone'
      BY <3>2, <3>3 DEF OrderInv, Alone, Busy
    <3>5. FileInOrder(exists, data)'
      BY <3>1 DEF OrderInv, FileInOrder
    <3>6. ASSUME NEW v \in Workers PROVE InOrder(wk[v], exists, data, row, MayResume)'
      <4>1. InOrder(wk'[v], exists, data, row, MayResume)
        BY <3>2, <3>3 DEF OrderInv
      <4>2. QED  BY <1>1, <3>1, <4>1 DEF InOrder, Torn, RangeEnd
    <3>7. QED  BY <1>1, <3>4, <3>5, <3>6 DEF OrderInv
  <2>3. QED  BY <1>2, <2>1, <2>2, GoesOnAlone
<1>3. CASE Age
  <2>1. UNCHANGED <<exists, data, row, wk, env>>
    BY <1>3 DEF Age
  <2>2. QED
    BY <2>1 DEF OrderInv, Alone, Busy, FileInOrder, InOrder, Torn, RangeEnd, MayResume,
       GENERAL, NORESUME
<1>4. CASE Expire
  <2>1. row \in Row
    BY Shared DEF RowOK
  <2>2. /\ row'.there = row.there /\ row'.size = row.size /\ row'.expired
        /\ UNCHANGED <<exists, data, wk>>
    BY <1>4, <2>1 DEF Expire, Row, file
  <2>3. Alone' /\ FileInOrder(exists, data)'
    BY <2>2 DEF OrderInv, Alone, Busy, FileInOrder
  <2>4. ASSUME NEW v \in Workers PROVE InOrder(wk[v], exists, data, row, MayResume)'
    <3>1. InOrder(wk[v], exists, data, row, MayResume)
      BY DEF OrderInv
    <3>2. QED  BY <1>1, <2>2, <3>1 DEF InOrder, Torn, RangeEnd
  <2>5. QED  BY <1>1, <2>3, <2>4 DEF OrderInv
<1>5. QED
  BY <1>2, <1>3, <1>4 DEF Next

LEMMA OrderHolds ==
  ASSUME OneAtATime
  PROVE  Spec => [](IInv /\ OrderInv)
<1>1. Init => OrderInv
  BY OrderBegins
<1>2. IInv /\ OrderInv /\ [Next]_vars => OrderInv'
  <2>1. IInv /\ OrderInv /\ UNCHANGED vars => OrderInv'
    BY DEF vars, OrderInv, Alone, Busy, FileInOrder, InOrder, Torn, RangeEnd, MayResume,
       GENERAL, NORESUME
  <2>2. QED  BY <2>1, OrderStays
<1>3. QED
  BY <1>1, <1>2, InvariantHolds, PTL DEF Spec

-----------------------------------------------------------------------------
(* Theorems.                                                               *)

\* Whoever asks is given the object part by part in its order, and an answer that
\* announces the object's length is the whole object: from the origin, from the file,
\* or from a file that is resumed on the way, after any number of broken connections,
\* error pages, redirects, failed INSERTs, browsers that left, deaths and expirations,
\* if requests are served one at a time (connectiontohttp2.cpp:430).
THEOREM AnswersAreWhole ==
  ASSUME OneAtATime
  PROVE  Spec => []Integrity
<1>1. OrderInv => Integrity
  BY DEF OrderInv, InOrder, Integrity
<1>2. QED
  BY <1>1, OrderHolds, PTL

\* Only a file that holds the beginning of the object is resumed, and a whole one only
\* if an error page or a redirect left its own length in the row
\* (connectiontohttp2.cpp:98, :171 and :374).
THEOREM OnlyPartialResumed ==
  ASSUME OneAtATime
  PROVE  Spec => ResumesPartialFile
<1> DEFINE Partial(w) == /\ Len(data) <= L /\ \A i \in 1..Len(data) : data[i] = i
                         /\ Len(data) = L => wk[w].filesize # L
<1>1. ASSUME IInv, OrderInv, NEW w \in Workers, Next,
             wk[w].pc = "decide", wk'[w].mode = "resume", wk'[w].pc # "decide"
      PROVE  Partial(w)
  <2>1. /\ FileInOrder(exists, data) /\ wk[w] \in Worker /\ Len(data) \in Nat
        /\ L \in Nat \ {0}
    BY <1>1, Knows
  <2>2. CASE CacheDecide(w)
    <3>1. wk[w].filesize # Len(data)
      <4>1. SUFFICES ASSUME wk[w].filesize = Len(data) PROVE FALSE
        OBVIOUS
      <4>2. \E m \in {"direct", "hitdown", "miss", "hit"} :
               wk' = [wk EXCEPT ![w] = Decided(wk[w], m)]
        BY <2>2, <4>1 DEF CacheDecide, Complete
      <4>3. PICK m \in {"direct", "hitdown", "miss", "hit"} : wk'[w] = Decided(wk[w], m)
        BY <1>1, <4>2 DEF IInv, TypeOK
      <4>4. Decided(wk[w], m).mode = m
        BY <2>1 DEF Decided, Worker
      <4>5. QED  BY <1>1, <4>3, <4>4
    <3>2. QED  BY <2>1, <3>1 DEF FileInOrder
  <2>3. CASE ~CacheDecide(w)
    <3>1. wk'[w] = wk[w] \/ Crash(w)
      <4>1. ASSUME NEW v \in Workers, v # w, Step(v) \/ Environment(v)
            PROVE  wk'[w] = wk[w]
        BY <1>1, <4>1, StepExchanges DEF Exchanged, IInv, TypeOK
      <4>2. Step(w) \/ Environment(w) => CacheDecide(w) \/ Crash(w)
        BY <1>1 DEF Step, Environment, CacheExists, CacheRow, CacheMtime, ConnectToServer,
           SendRequest, Response, ResumeResponse, Retry, RelayBody, WritePart, BreakOff,
           ReadHit, ResumePart, Following, Refresh, ReadDown, Timeout, Finish, Request,
           KeepAliveTimeout, BrowserDrop
      <4>3. Age \/ Expire => wk' = wk
        BY DEF Age, Expire
      <4>4. QED  BY <1>1, <2>3, <4>1, <4>2, <4>3 DEF Next
    <3>2. Crash(w) => wk'[w].mode = "direct"
      BY <1>1 DEF Crash, NewProcess, IInv, TypeOK
    <3>3. QED  BY <1>1, <3>1, <3>2
  <2>4. QED  BY <2>2, <2>3
<1>2. IInv /\ OrderInv /\ [Next]_vars
        => [\A w \in Workers :
               wk[w].pc = "decide" /\ wk'[w].mode = "resume" /\ wk'[w].pc # "decide"
                  => Partial(w)]_vars
  BY <1>1
<1>3. QED
  BY <1>2, OrderHolds, PTL DEF Spec, ResumesPartialFile

-----------------------------------------------------------------------------
(* What the cache promises, served one at a time: it implements Store.     *)

LEMMA SeenInit ==
  ASSUME Init
  PROVE  S!Init
<1>1. \A w \in Workers : wk[w] = NewProcess
  BY DEF Init
<1>2. Known = FALSE /\ Seen = [w \in Workers |-> "none"]
  BY <1>1 DEF Init, Known, Seen, AsSeen, NewProcess
<1>3. QED
  BY <1>2 DEF Init, S!Init

\* What the store sees of a step while nobody else is at work.
LEMMA SeenBy ==
  ASSUME IInv, NEW w \in Workers, NEW r, wk' = [wk EXCEPT ![w] = r], Others(w)
  PROVE  /\ Known <=> KnownBy(wk[w], row)
         /\ Known' <=> KnownBy(r, row')
         /\ Known \in BOOLEAN /\ Known' \in BOOLEAN
         /\ Seen[w] = AsSeen(wk[w]) /\ Seen' = [Seen EXCEPT ![w] = AsSeen(r)]
         /\ \A v \in Workers \ {w} : Seen[v] = wk[v].last
<1>1. \A v \in Workers : wk'[v] = IF v = w THEN r ELSE wk[v]
  BY DEF IInv, TypeOK
<1>2. \A v \in Workers \ {w} : wk[v].pc = "idle"
  BY DEF Others, Busy
<1>3. \A v \in Workers \ {w} : ~Replaces(wk[v]) /\ ~Replaces(wk'[v])
  BY <1>1, <1>2 DEF Replaces
<1>4. Known <=> KnownBy(wk[w], row)
  BY <1>3 DEF Known, KnownBy
<1>5. Known' <=> (row'.there /\ row'.size = L /\ ~row'.expired
                    /\ \A v \in Workers : ~Replaces(wk'[v]))
  BY DEF Known, Replaces
<1>6. Known' <=> KnownBy(r, row')
  BY <1>1, <1>3, <1>5 DEF KnownBy
<1>7. Known \in BOOLEAN /\ Known' \in BOOLEAN
  BY DEF Known
<1>8. Seen = [v \in Workers |-> AsSeen(wk[v])] /\ Seen' = [v \in Workers |-> AsSeen(wk'[v])]
  BY DEF Seen, AsSeen
<1>9. QED
  BY <1>1, <1>2, <1>4, <1>6, <1>7, <1>8 DEF AsSeen

\* The file in its order is a beginning of the object.
LEMMA CopyBegins ==
  ASSUME NEW f, NEW d \in Content, FileInOrder(f, d)
  PROVE  Len(d) \in 0..L /\ d = S!Beginning(Len(d))
<1>1. Len(d) \in Nat /\ Len(d) <= L /\ \A i \in 1..Len(d) : d[i] = i
  BY DEF FileInOrder, Content
<1>2. d = [i \in 1..Len(d) |-> d[i]]
  BY DEF Content
<1>3. Len(d) \in 0..L
  BY <1>1, EntryAssumption
<1>4. QED
  BY <1>1, <1>2, <1>3 DEF S!Beginning

\* Each of the ways a worker may go on is one action of the store.
LEMMA StoreGoesOn ==
  ASSUME IInv, IInv', OrderInv, NEW w \in Workers, Advances(w), Others(w)
  PROVE  [S!Next]_(S!vars)
<1>1. PICK r : wk' = [wk EXCEPT ![w] = r] /\ MayBecome(w, r)
  BY DEF Advances
<1> DEFINE k == KnownBy(wk[w], row)
           m == KnownBy(r, row')
<1>2. /\ Known <=> k
      /\ Known' <=> m
      /\ Known \in BOOLEAN /\ Known' \in BOOLEAN
      /\ Seen[w] = AsSeen(wk[w]) /\ Seen' = [Seen EXCEPT ![w] = AsSeen(r)]
      /\ \A v \in Workers \ {w} : Seen[v] = wk[v].last
  BY <1>1, SeenBy
<1>3. Seen = [v \in Workers |-> Seen[v]]
  BY DEF Seen
<1>4. \A v \in Workers : wk[v].last # "asking"
  BY DEF IInv, TypeOK, Worker
<1>5. Len(data) \in Nat /\ Len(data') \in 0..L /\ data' = S!Beginning(Len(data'))
  <2>1. data \in Content /\ data' \in Content /\ FileInOrder(exists', data')
    BY DEF IInv, TypeOK, Content, Advances
  <2>2. QED  BY <2>1, CopyBegins DEF Content
<1>6. Len(data) <= Len(data') => S!Grow
  BY <1>5 DEF S!Grow
<1>7. Len(data') <= 1 => data' \in {S!Beginning(0), S!Beginning(1)}
  BY <1>5
<1> DEFINE kept == Len(data) = L /\ k
           same == Len(data) <= Len(data') /\ (m <=> k)
           changes == wk[w].pc # "idle" /\ ~kept /\ (Len(data) <= Len(data') \/ Len(data') <= 1)
<1>8. \/ r.pc # "idle" /\ (same \/ changes)
      \/ r.pc = "idle" /\ r.last = "dropped" /\ (same \/ changes)
      \/ r.pc = "idle" /\ wk[w].pc # "idle" /\ r.last = "whole" /\ same
      \/ r.pc = "idle" /\ wk[w].pc # "idle" /\ r.last = "other" /\ same /\ ~kept
      \/ r.pc = "idle" /\ wk[w].pc = "idle" /\ r.last = wk[w].last /\ same
  BY <1>1 DEF MayBecome
<1>9. kept <=> S!Kept
  BY <1>2 DEF S!Kept
<1>10. same => S!Grow /\ Known' = Known
  BY <1>2, <1>6
<1>11. changes => S!Change /\ S!Asks(w)
  BY <1>2, <1>6, <1>7, <1>9 DEF S!Change, S!Asks, AsSeen
<1>12. wk[w].pc # "idle" <=> S!Asks(w)
  BY <1>2, <1>4 DEF S!Asks, AsSeen
<1> HIDE DEF k, m, kept, same, changes
<1>13. CASE r.pc # "idle" /\ same /\ wk[w].pc # "idle"
  <2>1. Seen' = Seen
    BY <1>2, <1>3, <1>13 DEF AsSeen
  <2>2. S!Gather
    BY <1>10, <1>13, <2>1 DEF S!Gather
  <2>3. QED  BY <2>2 DEF S!Next
<1>14. CASE r.pc # "idle" /\ same /\ wk[w].pc = "idle"
  <2>1. \A v \in Workers : ~S!Asks(v)
    BY <1>2, <1>4, <1>12, <1>14 DEF S!Asks
  <2>2. S!Ask(w)
    BY <1>2, <1>10, <1>14, <2>1 DEF S!Ask, AsSeen
  <2>3. QED  BY <2>2 DEF S!Next
<1>15. CASE r.pc # "idle" /\ changes
  <2>1. wk[w].pc # "idle"
    BY <1>15 DEF changes
  <2>2. Seen' = Seen
    BY <1>2, <1>3, <1>15, <2>1 DEF AsSeen
  <2>3. S!Work(w)
    BY <1>11, <1>15, <2>2 DEF S!Work
  <2>4. QED  BY <2>3 DEF S!Next
<1>16. CASE r.pc = "idle" /\ r.last = "dropped" /\ (same \/ changes)
  <2>1. S!Drop(w)
    BY <1>2, <1>10, <1>11, <1>16 DEF S!Drop, AsSeen
  <2>2. QED  BY <2>1 DEF S!Next
<1>17. CASE /\ r.pc = "idle" /\ wk[w].pc # "idle" /\ same
            /\ r.last = "whole" \/ (r.last = "other" /\ ~kept)
  <2>1. S!Answer(w)
    BY <1>2, <1>9, <1>10, <1>12, <1>17 DEF S!Answer, AsSeen
  <2>2. QED  BY <2>1 DEF S!Next
<1>18. CASE r.pc = "idle" /\ wk[w].pc = "idle" /\ r.last = wk[w].last /\ same
  <2>1. Seen' = Seen
    BY <1>2, <1>3, <1>18 DEF AsSeen
  <2>2. S!Gather
    BY <1>10, <1>18, <2>1 DEF S!Gather
  <2>3. QED  BY <2>2 DEF S!Next
<1>19. QED
  BY <1>8, <1>13, <1>14, <1>15, <1>16, <1>17, <1>18

\* Time, and a process that ends without a request, are not seen by the store, but that
\* the object grows old.
LEMMA StoreWaits ==
  ASSUME IInv, OrderInv,
         \/ Age \/ Expire \/ UNCHANGED vars
         \/ \E w \in Workers : KeepAliveTimeout(w) /\ ~Busy(wk[w])
  PROVE  [S!Next]_(S!vars)
<1>1. CASE Age \/ UNCHANGED vars
  <2>1. UNCHANGED <<data, row, wk>>
    BY <1>1 DEF Age, vars
  <2>2. (Known' = Known) /\ Seen' = Seen
    BY <2>1 DEF Known, Replaces, Seen, AsSeen
  <2>3. QED  BY <2>1, <2>2 DEF S!vars
<1>2. CASE Expire
  <2>1. /\ UNCHANGED <<data, wk>> /\ row \in Row /\ row' = [row EXCEPT !.expired = TRUE]
    BY <1>2, Shared DEF Expire, file, RowOK
  <2>2. row'.expired = TRUE
    BY <2>1 DEF Row
  <2>3. Known' = FALSE /\ Seen' = Seen
    BY <2>1, <2>2 DEF Known, Seen, AsSeen
  <2>4. CASE Known
    <3>1. S!Expire
      BY <2>1, <2>3, <2>4 DEF S!Expire
    <3>2. QED  BY <3>1 DEF S!Next
  <2>5. CASE ~Known
    <3>1. Known = FALSE
      BY <2>5 DEF Known
    <3>2. QED  BY <2>1, <2>3, <3>1 DEF S!vars
  <2>6. QED  BY <2>4, <2>5
<1>3. ASSUME NEW w \in Workers, KeepAliveTimeout(w), ~Busy(wk[w])
      PROVE  [S!Next]_(S!vars)
  <2>1. UNCHANGED <<data, row>> /\ wk[w].pc = "idle"
    BY <1>3, EndsQuietly DEF KeepAliveTimeout
  <2>2. PICK r : wk' = [wk EXCEPT ![w] = r] /\ r.pc = "idle" /\ r.last = wk[w].last
    BY <1>3, EndsQuietly
  <2>3. \A v \in Workers : wk'[v] = IF v = w THEN r ELSE wk[v]
    BY <2>2 DEF IInv, TypeOK
  <2>4. \A v \in Workers : AsSeen(wk'[v]) = AsSeen(wk[v])
                           /\ (Replaces(wk'[v]) <=> Replaces(wk[v]))
    BY <2>1, <2>2, <2>3 DEF AsSeen, Replaces
  <2>5. Seen = [v \in Workers |-> AsSeen(wk[v])] /\ Seen' = [v \in Workers |-> AsSeen(wk'[v])]
    BY DEF Seen, AsSeen
  <2>6. Seen' = Seen
    BY <2>4, <2>5
  <2>7. Known' <=> (row'.there /\ row'.size = L /\ ~row'.expired
                      /\ \A v \in Workers : ~Replaces(wk'[v]))
    BY DEF Known, Replaces
  <2>8. Known' <=> Known
    BY <2>1, <2>4, <2>7 DEF Known
  <2>9. Known \in BOOLEAN /\ Known' \in BOOLEAN
    BY DEF Known
  <2>10. QED  BY <2>1, <2>6, <2>8, <2>9 DEF S!vars
<1>4. QED
  BY <1>1, <1>2, <1>3

\* Every step of the workers is a step of the store, or one that it does not show.
LEMMA StoreStays ==
  ASSUME OneAtATime, IInv, IInv', OrderInv, [Next]_vars
  PROVE  [S!Next]_(S!vars)
<1>1. ASSUME NEW w \in Workers, Step(w) \/ Environment(w)
      PROVE  [S!Next]_(S!vars)
  <2>1. CASE Others(w)
    BY <1>1, <2>1, EveryoneAdvances, StoreGoesOn
  <2>2. CASE KeepAliveTimeout(w) /\ ~Busy(wk[w])
    BY <2>2, StoreWaits
  <2>3. QED  BY <1>1, <2>1, <2>2, GoesOnAlone
<1>2. QED
  BY <1>1, StoreWaits DEF Next

\* Served one at a time, requests see a store that keeps the beginning of the object,
\* never throws away a whole copy that it knows to be good, and gives all of it as long
\* as it has it: for every number of workers, every length of the object, and any number
\* of breaks, error pages, redirects, failed INSERTs, drops, deaths and expirations
\* (connectiontohttp2.cpp:76, :374 and :430).
THEOREM StoreImplemented ==
  ASSUME OneAtATime
  PROVE  Spec => ImplementsStore
<1>1. Init => S!Init
  BY SeenInit
<1>2. IInv /\ IInv' /\ OrderInv /\ [Next]_vars => [S!Next]_(S!vars)
  BY StoreStays
<1>3. QED
  BY <1>1, <1>2, OrderHolds, PTL DEF Spec, ImplementsStore, S!Spec
=============================================================================
