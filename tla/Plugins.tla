------------------------------ MODULE Plugins -------------------------------
(***************************************************************************)
(* The plugins: one library per site, each with a function getmatch() that *)
(* tells from the URL (host and request) whether the object is kept, and   *)
(* under which domain and file name, whatever the rest of the URL is.      *)
(* Sites has those that look for some words and take the last part of the  *)
(* path; here are all others.                                              *)
(*                                                                         *)
(* A library is never unloaded, so its global dominiotxt lives as long as  *)
(* the worker: memory holds it for the plugins that have one.              *)
(***************************************************************************)
EXTENDS Sites

-----------------------------------------------------------------------------
(* Conditions on host and type.                                            *)

globo(url) ==
    When(Has(url, <<"flashvideo", ".", "globo", ".", "com">>) /\ Ext(url, {"mp4", "flv"}),
         <<"globo">>, get_filename(url))

\* "and" binds more tightly than "or": the host counts for .jpg only.
amazonaws(url) ==
    When(\/ Has(url, <<".", "amazonaws", ".", "com", "/">>) /\ Ext(url, {"jpg"})
         \/ Ext(url, {"png", "gif", "swf", "js", "mp3"}),
         <<"GAMESF_amazonaws">>, get_filename(url))

bomusica(url) ==
    When(Has(url, <<"bomusica", ".", "biz">>), <<"bomusica", ".", "biz">>, get_filename(url))

uol(url) == When(Ext(url, {"flv"}), <<"uol">>, get_filename(url))

photobucket(url) == Named(<<"photobucket">>, Joined(Parts(url), 4))

\* Parts of a film are not kept.
tube8(url) ==
    When(/\ Has(url, <<".", "tube8", ".", "com", "/", "flv">>) /\ Ext(url, {"flv"})
         /\ ~ Has(url, <<"?", "start", "=">>),
         <<"tube8">>, get_filename(url))

redtube(url) ==
    When(/\ Has(url, <<"redtube", ".", "com", "/">>) /\ Ext(url, {"flv"})
         /\ Has(url, <<"?", "start", "=", "0">>),
         <<"redtube">>, FromParts(Parts(url), IF Has(url, <<"/", "_videos">>) THEN 1 ELSE 3))

imageshack(url) ==
    IF Has(url, <<".", "imageshack", ".", "us", "/">>)
    THEN Named(<<"imageshack">>, get_filename(url))
    ELSE When(Has(url, <<"imageshack", ".", "us", "/">>) /\ Ext(url, {"jpg", "png"}),
              <<"imageshack-small">>, get_filename(url))

megavideo(url) ==
    When(\E www \in {"www12", "wwwab1", "wwwabc1"} :
             Has(url, <<www, ".", "megavideo", ".", "com", "/", "files", "/">>),
         <<"megavideo">>,
         IF get_filename(url) = Thrown THEN Thrown ELSE get_filename(url) \o <<".", "flv">>)

avgate(url) ==
    When(/\ \E host \in {"avgate", "freeav"}, top \in {"net", "com"} :
                Has(url, <<".", host, ".", top, "/">>)
         /\ Ext(url, {"gz", "zip", "exe"})
         /\ ~ \E listed \in {"ave2", "info-wks-classic-nt-en", "specvir-nt", "vdf",
                             "classic-nt-en"} : Has(url, <<listed, ".", "info", ".", "gz">>),
         <<"avgate">>, get_filename(url))

rapidshare(url) ==
    LET parts == slash(url, <<>>)
        numbered == \E i \in 1..(Len(url) - 6) :
            /\ url[i] = "files" /\ {url[i + 1], url[i + 3], url[i + 5]} = {"/"}
            /\ IsNumber(url[i + 2]) /\ IsNumber(url[i + 4])
            /\ Has(SubSeq(url, i + 6, Len(url)), <<".">>)
    IN  When(Has(url, <<".", "rapidshare", ".", "com", "/", "files">>) /\ numbered,
             <<"rapidshare">>, FromEnd(parts, 3) \o <<"_">> \o FromEnd(parts, 1))

\* Up to a ";", also without a "?".
xvideos(url) ==
    LET last == FromEnd(slash(url, <<>>), 1)
        name == IF Has(last, <<"?">>) THEN At(stringexplode(last, {"?"}, <<>>), 1) ELSE last
        mark == SelectInSeq(name, LAMBDA t : t = ";")
    IN  Named(<<"xvideos">>, IF mark = 0 THEN name ELSE SubSeq(name, 1, mark - 1))

\* The names of metadata are the same for all: the directory tells them apart.
microsoft_filename(url) ==
    LET byMark == stringexplode(url, {"?"}, <<>>)
        marked == Has(url, <<"?">>)
        before == IF marked THEN FromEnd(byMark, 2) ELSE url
        parts == slash(before, IF marked THEN byMark ELSE <<>>)
    IN  IF before = Thrown THEN Thrown
        ELSE FromEnd(parts, IF IsNumber(Last(before)) /\ Len(Last(before)) >= 10 THEN 3 ELSE 1)

microsoft(url) ==
    LET hosts == {<<"windowsupdate", ".", "com">>} \cup
                 {<<h, ".", "microsoft", ".", "com">> : h \in {"update", "download", "dlservice"}}
        cabs == {"WuSetupHandler", "muv3muredir", "muredir", "wuredir", "muauth", "musetup",
                 "wsus3setup", "authrootstl", "wuident", "cdm"}
        black_list == {<<c, ".", "cab">> : c \in cabs} \cup
                      {<<".", t>> : t \in {"asp", "aspx", "asmx"}} \cup
                      {<<"authrootseq", ".", "txt">>, <<"stats", ".">>}
    IN  When(/\ HasAny(url, hosts)
             /\ Ext(url, {"cab", "exe", "iso", "zip", "psf", "txt", "crt"})
             /\ ~ HasAny(url, black_list),
             <<"windowsupdate">>, microsoft_filename(url))

\* The first of the kinds <<directory, words of the URL, parts of the name>>
\* that applies.
orkut(url) ==
    LET parts == slash(url, <<>>)
        image(size) == {<<"images", "/", size, "/">>}
        kinds == << <<"small", image("small"), 2>>, <<"chhota", {<<"chhota">>}, 3>>,
                    <<"klein", image("klein"), 3>>, <<"mittel", image("mittel"), 3>>,
                    <<"milieu", image("milieu"), 5>>, <<"medium", image("medium"), 3>>,
                    <<"albums", {<<"/", "albums", "/">>, <<"/", "photos", "/">>}, 1>> >>
        i == SelectInSeq(kinds, LAMBDA kind : HasAny(url, kind[2]))
        name == Joined(parts, kinds[i][3])
        again == IF kinds[i][1] = "milieu" THEN <<".", "jpg">> ELSE <<>>
    IN  IF i = 0 \/ ~ Has(url, <<"orkut", ".", "com">>) THEN NoMatch
        ELSE Named(<<"orkut", "/", kinds[i][1]>>, IF name = Thrown THEN Thrown ELSE name \o again)

\* The value of a parameter: Thrown if it has none, or if something before it
\* has not even a name.
Parameter(query, names) ==
    LET pairs == stringexplode(query, {"&"}, <<>>)
        halves(i) == stringexplode(pairs[i], {"="}, <<>>)
        i == SelectInSeq(pairs, LAMBDA p : At(stringexplode(p, {"="}, <<>>), 1)
                                             \in names \cup {Thrown})
    IN  IF pairs = <<>> THEN Thrown ELSE IF i = 0 THEN <<>> ELSE At(halves(i), 2)

\* Only the first directory is looked at, and it is the whole request only
\* if there is no other.
youtube(url) ==
    LET parts == slash(SearchReplace(url, "?", <<"&">>), <<>>)
        id == IF Len(parts) < 2 THEN <<>> ELSE Parameter(parts[2], {<<"id">>, <<"video_id">>})
        hosts == {<<".", "googlevideo", ".", "com">>, <<".", "youtube", ".", "com">>,
                  <<"74", ".", "125", ".">>}
    IN  IF id = Thrown THEN Named(<<"youtube">>, Thrown)
        ELSE When(/\ id # <<>> /\ HasAny(url, hosts)
                  /\ Has(url, <<"videoplayback">>) /\ ~ Has(url, <<"begin", "=">>),
                  <<"youtube">>, id \o <<".", "flv">>)

-----------------------------------------------------------------------------
(* Plugins that answer with another address to go to.                      *)

Rewrite(target) == Named(<<"rewrite">>, target)

meu_partner == <<"partner-pub-9370461587396013", ":", "l0rtjl-aokf">>
banner == <<"zion2", ".", "zionlanhouse", ".", "com", ".", "br", ":", "8080", "/", "msn", ".", "htm">>

google(url) ==
    LET partner == Parameter(SearchReplace(url, "?", <<"&">>), {<<"cx">>})
    IN  IF ~ HasAny(url, {<<"/", "search", "?">>, <<"/", "cse", "?">>}) THEN NoMatch
        ELSE IF partner = Thrown THEN Rewrite(Thrown)
        ELSE IF partner = meu_partner THEN NoMatch
        ELSE IF partner = <<>> THEN Rewrite(url \o <<"&", "cx", "=">> \o meu_partner)
        ELSE Rewrite(SearchReplace(url, partner[1], meu_partner))

\* Without a search there is nowhere to go but to the same address.
live(url) ==
    LET q == Parameter(SearchReplace(url, "?", <<"&">>), {<<"q">>})
        results == <<"www", ".", "google", ".", "com", ".", "br", "/", "search", "?", "q", "=">>
    IN  IF ~ HasAny(url, {<<"/", "results", ".", "aspx", "?">>, <<"/", "search", "?">>}) THEN NoMatch
        ELSE IF q = Thrown THEN Rewrite(Thrown)
        ELSE IF q = <<>> THEN Rewrite(url)
        ELSE Rewrite(results \o q \o <<"&", "cx", "=">> \o meu_partner)

doubleclick(url) ==
    IF Has(url, <<"doubleclick", ".", "net", "/", "pagead", "/", "ads", "?">>)
    THEN Rewrite(banner) ELSE NoMatch

rad_msn(url) ==
    IF Has(url, <<"rad", ".", "msn", ".", "com", "/", "ADSAdClient31", ".", "dll", "?">>)
    THEN Rewrite(banner) ELSE NoMatch

-----------------------------------------------------------------------------
(* Plugins with a memory: what they find in a URL replaces dominiotxt, and *)
(* a URL in which they find nothing gets what an earlier one left there.   *)

\* The last of the rules <<needles, domain>> that applies.
Remembered(url, rules, old) ==
    FoldLeft(LAMBDA txt, rule : IF HasAny(url, rule[1]) THEN rule[2] ELSE txt, old, rules)

Media(url) == Ext(url, {"jpg", "png", "mp3", "swf"})

fbcdn_blacklisted(url) ==
    HasAny(url, {<<"safe_image", ".", "php">>, <<"app_full_proxy", ".", "php">>})

\* The black list counts for the last word of each condition only.
fbcdn_dominiotxt(url, old) ==
    LET ok(words) == IF fbcdn_blacklisted(url) THEN {} ELSE words
    IN  Remembered(url,
          << <<{<<"sphotos">>} \cup ok({<<"photos">>}), <<"facebook_photos">> >>,
             <<ok({<<"profile">>}), <<"facebook_profile">> >>,
             <<{<<"static">>, <<"platform">>} \cup ok({<<"external">>}), <<"facebook_small">> >>,
             <<{<<"video">>, <<".", "mp4">>}, <<"facebook_video">> >> >>, old)

fbcdn(url, dominiotxt) ==
    When(Has(url, <<".", "fbcdn", ".", "net", "/">>) /\ ~ fbcdn_blacklisted(url),
         dominiotxt, get_filename(url))

zgncdn_dominiotxt(url, old) ==
    Remembered(url,
      << <<{<<"empire">>}, <<"GF_zgncdn_empire">> >>,
         <<{<<"cityvillefb">>, <<"/", "city", "/">>}, <<"GF_zgncdn_city">> >>,
         <<{<<"farmville">>, <<"/", "farm", "/">>}, <<"GF_zgncdn_farm">> >>,
         <<{<<"castle">>}, <<"GF_zgncdn_castle">> >>,
         <<{<<"bubblesafari">>, <<"/", "bubble", "/">>}, <<"GF_zgncdn_bubble">> >>,
         <<{<<"familyville">>}, <<"GF_zgncdn_ville">> >>,
         <<{<<"hog">>, <<"/", "hidden", "/">>}, <<"GF_zgncdn_hidden">> >> >>, old)

zgncdn(url, dominiotxt) ==
    When(Has(url, <<".", "zgncdn", ".", "com">>) /\ Media(url), dominiotxt, get_filename(url))

akamaihd_dominiotxt(url, old) ==
    Remembered(url,
      << <<{<<"/", "shockwave", "/">>}, <<"GF_akamaihd_city2">> >>,
         <<{<<"/", "farm2", "/">>}, <<"GF_akamaihd_farm2">> >>,
         <<{<<"/", "slingo", "/">>}, <<"GF_akamaihd_slingo">> >>,
         <<{<<"dchoc1">>}, <<"GF_akamaihd", "/", "galaxy">> >>,
         <<{<<"/", "cooking", "/">>}, <<"GF_akamaihd_cheff">> >> >>, old)

akamaihd(url, dominiotxt) ==
    When(Has(url, <<".", "akamaihd", ".", "net">>) /\ Media(url), dominiotxt, Joined(Parts(url), 4))

socialpoint_dominiotxt(url, old) ==
    Remembered(url,
      << <<{<<"/", "dragoncity", "/">>}, <<"socialpg", "/", "dragoncity">> >>,
         <<{<<"/", "socialwars", "/">>}, <<"socialpg", "/", "socialwars">> >>,
         <<{<<"/", "socialempires", "/">>}, <<"socialpg", "/", "socialempires">> >> >>, old)

socialpoint(url, dominiotxt) ==
    When(Has(url, <<".", "socialpointgames", ".", "com", "/">>) /\ Media(url),
         dominiotxt, get_filename(url))

-----------------------------------------------------------------------------
(* The libraries by the site in their name (of host and request, as        *)
(* getdomain() cuts it), with the copies the sources speak of.             *)

AvSites == {Site(a, b) : a \in {"avgate", "freeav"}, b \in {"net", "com"}}

Getmatch(site, url, memory) ==
    CASE site = Site("globo", "com") -> globo(url)
      [] site = Site("amazonaws", "com") -> amazonaws(url)
      [] site = Site("bomusica", "biz") -> bomusica(url)
      [] site = Site("photobucket", "com") -> photobucket(url)
      [] site = Site("tube8", "com") -> tube8(url)
      [] site = Site("redtube", "com") -> redtube(url)
      [] site = Site("imageshack", "us") -> imageshack(url)
      [] site = Site("megavideo", "com") -> megavideo(url)
      [] site = Site("rapidshare", "com") -> rapidshare(url)
      [] site = Site("xvideos", "com") -> xvideos(url)
      [] site = Site("orkut", "com") -> orkut(url)
      [] site = Site("youtube", "com") -> youtube(url)
      [] site = Site("google", "com") -> google(url)
      [] site = Site("live", "com") -> live(url)
      [] site = Site("doubleclick", "net") -> doubleclick(url)
      [] site = <<"uol", ".", "com", ".", "br">> -> uol(url)
      [] site = <<"rad", ".", "msn", ".", "com">> -> rad_msn(url)
      [] site \in AvSites -> avgate(url)
      [] site \in {Site("microsoft", "com"), Site("windowsupdate", "com")} -> microsoft(url)
      [] site = Site("fbcdn", "net") -> fbcdn(url, memory.fbcdn)
      [] site = Site("zgncdn", "com") -> zgncdn(url, memory.zgncdn)
      [] site = Site("akamaihd", "net") -> akamaihd(url, memory.akamaihd)
      [] site = Site("socialpointgames", "com") -> socialpoint(url, memory.socialpoint)
      [] OTHER -> GetmatchOfSites(site, url)

\* dominiotxt of a worker that has loaded nothing yet.
Fresh == [fbcdn |-> <<"facebook_img">>, zgncdn |-> <<"GF_zgncdn">>,
          akamaihd |-> <<"GAMESF_akamaihd">>, socialpoint |-> <<"socialpg">>]

\* dominiotxt after a call of the plugin of the site.
Remember(site, url, memory) ==
    CASE site = Site("fbcdn", "net") ->
           [memory EXCEPT !.fbcdn = fbcdn_dominiotxt(url, @)]
      [] site = Site("zgncdn", "com") ->
           [memory EXCEPT !.zgncdn = zgncdn_dominiotxt(url, @)]
      [] site = Site("akamaihd", "net") ->
           [memory EXCEPT !.akamaihd = akamaihd_dominiotxt(url, @)]
      [] site = Site("socialpointgames", "com") ->
           [memory EXCEPT !.socialpoint = socialpoint_dominiotxt(url, @)]
      [] OTHER -> memory
=============================================================================
