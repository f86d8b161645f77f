-------------------------------- MODULE Keys --------------------------------
(***************************************************************************)
(* Under which key an object is kept: the first and the last part of       *)
(* ConnectionToHTTP2::Cache(), which finds the plugin of the site, calls   *)
(* it, and otherwise keeps the types of file the configuration gives an    *)
(* expiration to.  The middle, what becomes of the object there, is        *)
(* CacheEntry.                                                             *)
(***************************************************************************)
EXTENDS Plugins

CONSTANTS
    Static,   \* file extensions with an _EXP above 0, in any mixture of cases
    MAXNAME   \* length of the column for names (767 in the code)

ASSUME KeysAssumption == MAXNAME \in Nat

\* A row of the table, and a file below CACHEDIR as its list of directories:
\* the file system does not see empty ones.
NotKept == [kind |-> "none", row |-> <<>>, path |-> <<>>]
Object(kind, domain, name) ==
    [kind |-> kind, row |-> <<domain, name>>,
     path |-> <<<<kind>>>> \o slash(domain \o <<"/">> \o name, <<>>)]
Ends(how) == [NotKept EXCEPT !.kind = how]

\* request.substr(1, length - file - 2), which is everything but the leading
\* slash when there is no directory.
Subdir(request, file) ==
    IF Len(request) = Len(file) + 1 THEN Tail(request)
    ELSE SubSeq(request, 2, Len(request) - Len(file) - 1)

\* The system for files without a plugin, GENERAL.
General(request, domaintmp) ==
    LET file == getFileName(request)
        name == Subdir(request, file) \o <<"/">> \o file
    IN  CASE getFileExtension(file) \notin {<<e>> : e \in Static} -> NotKept
          [] getFileExtension(file) \in {<<e>> : e \in Static} ->
               IF ConvertChar(domaintmp) = Thrown THEN Ends("dies")
               ELSE IF Size(name) <= MAXNAME THEN Object("general", domaintmp, name)
               ELSE NotKept

\* Every use of the name in a statement quotes it.
Quoted(object) ==
    IF object.row # <<>> /\ sqlconv(object.row[2]) = Endless THEN Ends("loops") ELSE object

\* The site of a URL, and what its plugin says: dominiotxt is renewed first.
Asked(url, memory) ==
    {<<site, Getmatch(site, url, Remember(site, url, memory))>> : site \in {getdomain(url)}}

\* What Cache() decides, as the one member of a set.  Also where to redirect is
\* converted.
Lookup(domain, request, memory) ==
    LET object(site, r) ==
          CASE site = Thrown \/ r.file = Thrown -> Ends("dies")
            [] site # Thrown /\ r.file = Endless -> Ends("loops")
            [] r.match ->
                 IF ConvertChar(r.file) = Thrown THEN Ends("dies")
                 ELSE IF r.domain = <<"rewrite">>
                 THEN [NotKept EXCEPT !.kind = "rewrite", !.path = r.file]
                 ELSE Quoted(Object("plugin", r.domain, r.file))
            [] OTHER -> Quoted(General(request, site))
    IN  {object(answer[1], answer[2]) : answer \in Asked(domain \o request, memory)}
=============================================================================
