-------------------------------- MODULE Store --------------------------------
(***************************************************************************)
(* What the cache promises of one object while it serves one request at a  *)
(* time, whatever it reads of its file and its row to keep the promise:    *)
(* the copy is the beginning of the object and grows by the parts that     *)
(* come next; it is begun again only while somebody asks and the copy is   *)
(* not known to be whole and good; and as long as it is, whoever asks is   *)
(* given all of it.  CacheEntry is shown to implement it.                  *)
(***************************************************************************)
EXTENDS Integers, Sequences

CONSTANTS
    Clients,
    L           \* length of the object

VARIABLES
    copy,       \* the parts that are kept
    good,       \* a whole copy would be known to be whole, and is not too old
    client      \* what each client waits for, or was given last

vars == <<copy, good, client>>

Asks(w) == client[w] = "asking"
Kept == Len(copy) = L /\ good

Beginning(n) == [i \in 1..n |-> i]

Init ==
    /\ copy = <<>> /\ good = FALSE
    /\ client = [w \in Clients |-> "none"]

\* Parts that were got while somebody asked may be kept a little later.
Grow == \E n \in Len(copy)..L : copy' = Beginning(n)

Gather == Grow /\ UNCHANGED <<good, client>>

Ask(w) ==
    /\ \A v \in Clients : ~Asks(v)
    /\ Grow
    /\ client' = [client EXCEPT ![w] = "asking"]
    /\ UNCHANGED good

\* What is not known to be whole and good is completed, renewed or forgotten.
Change ==
    /\ ~Kept
    /\ Grow \/ copy' \in {Beginning(0), Beginning(1)}
    /\ good' \in BOOLEAN

Work(w) ==
    /\ Asks(w)
    /\ Change
    /\ UNCHANGED client

\* The whole object, or, while it is not kept, something of another length.
Answer(w) ==
    /\ Asks(w)
    /\ \E a \in {"whole"} \cup (IF Kept THEN {} ELSE {"other"}) :
          client' = [client EXCEPT ![w] = a]
    /\ Grow /\ UNCHANGED good

\* The client leaves, or nobody serves it any more.
Drop(w) ==
    /\ client' = [client EXCEPT ![w] = "dropped"]
    /\ (Grow /\ UNCHANGED good) \/ (Asks(w) /\ Change)

Expire ==
    /\ good /\ good' = FALSE
    /\ UNCHANGED <<copy, client>>

Next ==
    \/ \E w \in Clients : Ask(w) \/ Work(w) \/ Answer(w) \/ Drop(w)
    \/ Gather
    \/ Expire

Spec == Init /\ [][Next]_vars
=============================================================================
