--------------------------- MODULE MCProxySession ---------------------------
(* Instances of ProxySession for TLC: two names, a literal address and a   *)
(* parent proxy.                                                           *)
EXTENDS ProxySession, TLC

CONSTANTS a, b, ip, proxy

TheHosts == {a, b, ip}

\* a has two addresses and b three.
Many == (a :> 2) @@ (b :> 3) @@ (ip :> 1) @@ (proxy :> 2)
Single == [h \in {a, b, ip, proxy} |-> 1]

\* Several addresses and nothing to resume, with and without a parent; or
\* partial files to resume and one address per host.
SoundWorlds ==
    {[NumIPs |-> Many, resumes |-> FALSE, UseParentProxy |-> u] : u \in BOOLEAN}
        \cup {[NumIPs |-> Single, resumes |-> TRUE, UseParentProxy |-> FALSE]}

\* Both at once.
MixedWorld == {[NumIPs |-> Many, resumes |-> TRUE, UseParentProxy |-> FALSE]}
=============================================================================
