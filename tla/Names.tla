-------------------------------- MODULE Names --------------------------------
(***************************************************************************)
(* What the plugins are made of: the answer of getmatch(), and the name    *)
(* that most of them give to the object at a URL (host and request).       *)
(***************************************************************************)
EXTENDS Text

NoMatch == [match |-> FALSE, domain |-> <<>>, file |-> <<>>]

\* r.match if there is a name; a name that could not be computed is kept, for
\* it is the end of the worker, or a loop.
Named(domain, file) ==
    IF file = <<>> THEN NoMatch
    ELSE [match |-> ~ Fails(file), domain |-> domain, file |-> file]

slash(url, results) == stringexplode(url, {"/"}, results)

\* The parts that names are made of: what precedes the last "?", cut at "/".
\* They follow the parts cut at "?", so with nothing but a query after the
\* last "/" they may be all there is.
Parts(url) ==
    LET byMark == stringexplode(url, {"?"}, <<>>)
        before == FromEnd(byMark, 2)
    IN  IF ~ Has(url, <<"?">>) THEN slash(url, <<>>)
        ELSE IF before = Thrown THEN Thrown ELSE slash(before, byMark)

FromParts(parts, k) == IF parts = Thrown THEN Thrown ELSE FromEnd(parts, k)

\* The last k parts, joined.
Joined(parts, k) ==
    IF parts = Thrown \/ Len(parts) < k THEN Thrown
    ELSE Tail(FlattenSeq([i \in 1..k |-> <<"_">> \o parts[Len(parts) - k + i]]))

get_filename(url) == FromParts(Parts(url), 1)

Ext(url, types) == \E t \in types : Has(url, <<".", t>>)
When(condition, domain, file) == IF condition THEN Named(domain, file) ELSE NoMatch
=============================================================================
