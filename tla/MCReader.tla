----------------------------- MODULE MCReader -----------------------------
(* Instances of Reader for TLC: what browsers and servers send.            *)
EXTENDS Reader

F(kind, before, text) == [kind |-> kind, before |-> before, text |-> text, after |-> <<>>]

Get == F("header", <<>>, <<"x">>)
Lines == F("header", <<"cr", "lf">>, <<"x", "cr", "lf", "x">>)
LongHeader == F("header", <<"sp">>, [i \in 1..44 |-> "x"])
Unix == F("wrongheader", <<"lf">>, <<"x", "lf", "x">>)
Chunk(n) == F("chunk", <<>>, [i \in 1..n |-> IF i = 1 THEN "cr" ELSE "lf"])
Extended == [Chunk(1) EXCEPT !.after = <<"sp", "1">>]
Zeros(n) == F("chunk", [i \in 1..n |-> "0"], <<"1">>)
LastChunk == F("last", <<>>, <<>>)
Body3 == F("body", <<>>, <<"lf", "x", "lf">>)

MCConversations == {
    <<Get, Lines, Get>>,                        \* pipelined requests
    <<Lines, Body3>>,                           \* an announced length
    <<Get, Chunk(2), Chunk(1), LastChunk, Get>>,
    <<Extended, Zeros(6), LastChunk, Lines>>,
    <<Chunk(3), LastChunk>>, <<Zeros(7)>>,      \* over the limits
    <<[Zeros(7) EXCEPT !.kind = "last", !.text = <<>>]>>,
    <<LongHeader>>, <<F("header", [i \in 1..30 |-> "lf"], <<"x">>)>>,
    <<Unix, Body3>>}

=============================================================================
