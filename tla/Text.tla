-------------------------------- MODULE Text --------------------------------
(***************************************************************************)
(* What utils.cpp does with strings.  A string is a sequence of tokens: a  *)
(* separator ("/", ".", "?", ...) is a token of its own, and a word, whose *)
(* letters nothing here tells apart, is one token.  What is searched for   *)
(* is whole tokens too.  Len of a token is its number of characters.       *)
(***************************************************************************)
EXTENDS Naturals, Sequences, SequencesExt, TLC

\* What vector::at() throws beyond the end; nothing in the program catches it.
Thrown == <<"std::out_of_range">>

\* A loop that never ends.
Endless == <<"endless">>

Fails(s) == s \in {Thrown, Endless}

At(v, i) == IF i \in DOMAIN v THEN v[i] ELSE Thrown

\* v.at(v.size() - k)
FromEnd(v, k) == At(v, Len(v) + 1 - k)

Size(s) == FoldLeft(LAMBDA n, t : n + Len(t), 0, s)

\* find(t) != npos, of a string and of any of some.
Has(s, t) == \E i \in 1..Len(s) : IsPrefix(t, SubSeq(s, i, Len(s)))
HasAny(s, T) == \E t \in T : Has(s, t)

MatchBegin(hay, needle) ==
    Len(hay) >= Len(needle) /\ SubSeq(hay, 1, Len(needle)) = needle

\* Begins again at the start of the string after every replacement, so it
\* never ends if what it puts in contains the token that it searches.
SearchReplace(source, search, replace) ==
    LET replaced == [i \in DOMAIN source |->
                        IF source[i] = search THEN replace ELSE <<source[i]>>]
    IN  IF Contains(source, search) /\ Contains(replace, search) THEN Endless
        ELSE FlattenSeq(replaced)

\* The pieces between separators, without the empty ones, after results.
stringexplode(s, separators, results) ==
    LET take(pieces, t) ==
            IF t \in separators THEN Append(pieces, <<>>)
            ELSE Append(Front(pieces), Append(Last(pieces), t))
        nonempty(piece) == piece # <<>>
    IN  results \o SelectSeq(FoldLeft(take, <<<<>>>>, s), nonempty)

\* The position of the last t of s, or 0.
LastOf(t, s) == SelectLastInSeq(s, LAMBDA u : u = t)
After(t, s) == SubSeq(s, LastOf(t, s) + 1, Len(s))

getFileName(file) == After("/", file)

\* Compared with the configuration in upper case: see Static in Keys.
getFileExtension(file) == After(".", file)

IsNumber(t) ==
    Len(t) > 0 /\ \A i \in 1..Len(t) : SubSeq(t, i, i) \in {ToString(d) : d \in 0..9}

Octets == {ToString(n) : n \in 0..255}
High == {ToString(n) : n \in 200..255}

\* The digits that ConvertChar() makes of a character: a letter is its number in
\* the alphabet, what is neither letter nor digit is 27.
Alphabet == "abcdefghijklmnopqrstuvwxyz"
Numerals(c) ==
    LET pair(n) == IF n < 10 THEN <<n>> ELSE <<n \div 10, n % 10>>
    IN  CASE \E d \in 0..9 : ToString(d) = c -> <<CHOOSE d \in 0..9 : ToString(d) = c>>
          [] \E k \in 1..26 : SubSeq(Alphabet, k, k) = c ->
               pair(CHOOSE k \in 1..26 : SubSeq(Alphabet, k, k) = c)
          [] OTHER -> pair(27)

\* ConvertChar() adds up the digits three by three, without the last ones, and
\* names two directories by the digits of the sum; it takes the third one for
\* granted if there is but one.  The directories themselves are left out: they
\* depend on the name, which is in the path too.
ConvertChar(name) ==
    LET ofToken(t) == FlattenSeq([i \in 1..Len(t) |-> Numerals(SubSeq(t, i, i))])
        line == FlattenSeq([i \in DOMAIN name |-> ofToken(name[i])])
        padded == IF Len(line) > 3 THEN line ELSE line \o <<2, 8, 2, 9, 3, 0>>
        three(g) == 100 * padded[3 * g - 2] + 10 * padded[3 * g - 1] + padded[3 * g]
        sum == MapThenSumSet(three, 1..((Len(padded) - 1) \div 3))
    IN  IF sum < 10 THEN Thrown ELSE <<>>

\* The $ of the expression belongs to the one alternative of the last octet
\* that takes up to 199: such an address matches only if the string ends there.
IsGoogle(url) ==
    /\ Len(url) >= 7 /\ MatchBegin(url, <<"74", ".", "125", ".">>)
    /\ url[5] \in Octets /\ url[6] = "."
    /\ url[7] \in High \/ (url[7] \in Octets /\ Len(url) = 7)

IsMediafire(url) ==
    /\ Len(url) >= 7 /\ url[6] = "." /\ {url[5], url[7]} \subseteq Octets
    /\ \E net \in {<<"205", "196">>, <<"199", "91">>} :
           MatchBegin(url, <<net[1], ".", net[2], ".">>)
    /\ Len(url[5]) >= 2

\* The site of a URL, which names plugin and directory: the last two labels
\* of the host, or three if both are short.  A request for "/" is no part of
\* its own, so the slash then stays in the last label.
getdomain(url) ==
    LET parts == stringexplode(url, {"/"}, <<>>)
        host == IF Len(parts) > 1 THEN parts[1] ELSE url
        labels == stringexplode(host, {"."}, <<>>)
        n == Len(labels)
        short == Size(labels[n - 1]) <= 3 /\ Size(labels[n]) <= 3
    IN  CASE IsGoogle(url) -> <<"youtube", ".", "com">>
          [] ~ IsGoogle(url) /\ IsMediafire(url) -> <<"mediafire", ".", "com">>
          [] OTHER ->
               IF n <= 1 THEN host
               ELSE IF ~ short THEN labels[n - 1] \o <<".">> \o labels[n]
               ELSE IF n = 2 THEN Thrown
               ELSE labels[n - 2] \o <<".">> \o labels[n - 1] \o <<".">> \o labels[n]

\* Database::sqlconv: each of the three characters is replaced by a text
\* that contains it.
sqlconv(sql) ==
    LET quoted(s, c) == IF s = Endless THEN s ELSE SearchReplace(s, c, <<"\\", c>>)
    IN  FoldLeft(quoted, sql, <<"'", ";", "\"">>)
=============================================================================
