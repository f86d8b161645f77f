----------------------------- MODULE MCExchange -----------------------------
(* Instances of Exchange for TLC: families of requests and answers, each   *)
(* with one question.                                                      *)
EXTENDS Exchange

MCStatic == {"gif"}
MCPortNumbers == {"80", "21", "8080"}
MCParent == <<"parent">>
MCNORESUME == {<<"globo">>}

-----------------------------------------------------------------------------
(* Addresses                                                               *)

Www(site) == <<"www", ".">> \o site
Com(name) == Www(Site(name, "com"))
Br(name) == Www(<<name, ".", "com", ".", "br">>)
Path(dirs, file) == FlattenSeq([i \in DOMAIN dirs |-> <<"/", dirs[i]>>]) \o <<"/">> \o file
F(name, type) == <<name, ".", type>>
Query(file, pairs) ==
    file \o FlattenSeq([i \in DOMAIN pairs |->
        <<IF i = 1 THEN "?" ELSE "&", pairs[i][1], "=", pairs[i][2]>>])

\* Files of the types that the configuration keeps, under one site.
General_ == {
    Com("plain") \o Path(<<>>, F("x", "gif")),
    <<"img", ".">> \o Site("plain", "com") \o Path(<<>>, F("x", "gif")),
    Com("plain") \o Path(<<"d">>, F("x", "gif")),
    Com("plain") \o Path(<<"d">>, <<"/">> \o F("x", "gif")),
    Com("plain") \o Path(<<>>, <<"/">> \o F("x", "gif")),
    Com("plain") \o Path(<<"x", ".gif">>, F("x", "gif")),
    Com("plain") \o Path(<<>>, F("x", "html")),
    Com("plain") \o Path(<<>>, Query(F("x", "gif"), <<<<"v", "1">>>>)),
    Com("plain") \o Path(<<"a", "b", "c", "d", "e">>, F("longname", "gif")),
    Br("plain") \o Path(<<>>, F("x", "gif"))}

\* One host and path for every plugin, and every rule of those that have some.
Videos == {
    Com("globo") \o Path(<<"v">>, F("f", "mp4")),
    <<"flashvideo", ".">> \o Site("globo", "com") \o Path(<<"v", "w">>, F("f", "mp4")),
    <<"s3", ".">> \o Site("amazonaws", "com") \o Path(<<"b", "c">>, F("i", "png")),
    Br("uol") \o Path(<<"v", "w">>, F("f", "flv")),
    Com("photobucket") \o Path(<<"a", "b", "c">>, F("i", "jpg")),
    Com("tube8") \o Path(<<"flv", "a">>, F("f", "flv")),
    Com("tube8") \o Path(<<"flv", "a">>, Query(F("f", "flv"), <<<<"start", "0">>>>)),
    Com("redtube") \o Path(<<"_videos", "k", "l">>, Query(F("f", "flv"), <<<<"start", "0">>>>)),
    <<"img5", ".">> \o Site("imageshack", "us") \o Path(<<"a", "b">>, F("i", "jpg")),
    <<"www12", ".">> \o Site("megavideo", "com") \o Path(<<"files", "a">>, <<"f">>),
    <<"rs1", ".">> \o Site("rapidshare", "com") \o Path(<<"files", "1", "22">>, F("f", "exe")),
    Com("xvideos") \o Path(<<"v", "w">>, <<"f", ".", "flv", ";", "s", "=", "1">>),
    <<"v1", ".">> \o Site("youtube", "com")
        \o Path(<<>>, Query(<<"videoplayback">>, <<<<"id", "k">>, <<"itag", "5">>>>))}

Updates == {
    <<"dl1", ".">> \o Site("avgate", "net") \o Path(<<"u", "v">>, F("vdf", "gz")),
    <<"dl2", ".">> \o Site("freeav", "com") \o Path(<<"u", "w">>, F("vdf", "gz")),
    <<"download", ".">> \o Site("microsoft", "com") \o Path(<<"u", "v">>, F("up", "cab")),
    <<"dl", ".", "download", ".">> \o Site("windowsupdate", "com") \o Path(<<"u", "w">>, F("up", "cab")),
    <<"img1", ".">> \o Site("orkut", "com") \o Path(<<"images", "small", "2">>, F("i", "jpg"))}

\* One host and path for every plugin of Sites.
At_(sites, dirs, file) == {Www(site) \o Path(dirs, file) : site \in sites}
Songs == At_({Site("bomusica", "info"), Site("bomusicas", "com"), Site("bullafina", "biz"),
              Site("bullafina", "me"), Site("cutmu", "net"), Site("domusica", "me"),
              Site("domusicas", "com"), Site("goobeo", "com"), Site("gooveo", "biz"),
              Site("gooveo", "info"), Site("gooveo", "me"), Site("musicaveo", "biz"),
              Site("musicaveo", "info"), Site("vevos", "biz"), Site("coqui", "net"),
              Site("hulkshare", "com"), Site("maguinamotors", "com"), Site("manabar", "ca"),
              Site("molenillo", "com"), Site("mp3-buscador", "com"), Site("ning", "com"),
              Site("nofeehost", "com"), Site("turner", "com"), Site("sonicomusica", "com"),
              Site("4shared", "com")}, <<"download">>, F("f", "mp3"))
Games == At_({Site("appspot", "com"), Site("geewa", "net"), Site("llnwd", "net"),
              Site("netpocket", "org"), Site("tetrisfb", "com"), Site("friv", "com"),
              Site("cloudfront", "net"), Site("kixeye", "com"), Site("dungeonbusters", "com"),
              Site("edgecastcdn", "net"), Site("miniclip", "com"), Site("nordeus", "com"),
              Site("telaxo", "com"), Site("wooga", "com"), Site("disneylatino", "com"),
              Site("popcap", "com"), Site("vostucdn", "com"), Site("mlstatic", "com")},
             <<"g">>, F("f", "jpg"))
Films == At_({Site("megaupload", "com"), Site("modovideo", "com"), Site("pop6", "com"),
              Site("pornotube", "com"), Site("serviporno", "com"), Site("terra", "com"),
              Site("viddler", "com"), Site("xtube", "com")}, <<"files", "video">>, F("f", "flv"))
    \cup {<<"proxy123", ".">> \o Site("dailymotion", "com") \o Path(<<>>, F("f", "mp4")),
          <<"akvideos", ".">> \o Site("metacafe", "com") \o Path(<<"ItemFiles">>, <<"f">>),
          Com("pornhub") \o Path(<<"dl">>, F("f", "flv")),
          <<"a", ".", "catalog", ".", "video", ".", "msn", ".", "com">> \o Path(<<"share">>, <<"f">>),
          <<"bitcast", ".">> \o Site("vimeo", "com") \o Path(<<"vimeo">>, F("f", "mp4")),
          <<"download12", ".">> \o Site("mediafire", "com") \o Path(<<"a">>, <<"f">>),
          <<"downloads", ".">> \o Site("ziddu", "com") \o Path(<<"downloadfiles">>, <<"f">>)}
Scanners == At_({Site("kaspersky", "com"), Site("symantecliveupdate", "com"),
                 Site("avg", "com"), Site("nai", "com"), <<"etrustdownloads", ".", "ca", ".", "com">>},
                <<"u">>, F("f", "exe"))
    \cup {Com("avast") \o Path(<<"u">>, F("f", "vpu")), Com("eset") \o Path(<<"u">>, F("f", "nup"))}

Redirected == {
    Com("google") \o Path(<<"a", "b", "c">>, Query(<<"search">>, <<<<"q", "k">>>>)),
    Com("google") \o Path(<<"a", "b", "c">>, Query(<<"search">>, <<<<"q", "k">>, <<"cx", "other">>>>)),
    Com("google") \o Path(<<"a", "b", "c">>,
        Query(<<"search">>, <<<<"q", "k">>, <<"cx", "partner-pub-9370461587396013">>>>)),
    Com("live") \o Path(<<>>, Query(<<"results", ".", "aspx">>, <<<<"q", "k">>>>)),
    Com("live") \o Path(<<>>, Query(<<"search">>, <<<<"p", "k">>>>)),
    Www(Site("doubleclick", "net")) \o Path(<<"pagead">>, Query(<<"ads">>, <<<<"k", "l">>>>))}

\* Addresses that are out of the ordinary.
Strange == {
    Www(Site("bomusica", "biz")) \o Path(<<"a", "b", "c">>, <<"0001">>),
    Www(Site("bomusica", "biz")) \o Path(<<"a", "b", "c">>, <<"0101">>),
    Site("bbc", "com") \o Path(<<"a", "b", "c">>, F("x", "gif")),
    Com("photobucket") \o Path(<<"a">>, F("i", "jpg")),
    Com("live") \o Path(<<>>, <<"search", "?", "q">>),
    Com("plain") \o Path(<<"a", "b">>, <<"x", "'", "y", ".", "gif">>),
    <<"10", ".", "0", ".", "0", ".", "1">> \o Path(<<>>, F("x", "gif"))}

\* Sites whose plugin has a memory.
Remembering ==
    {<<host, ".">> \o Site("fbcdn", "net") \o Path(<<"a", "b">>, F("i", "jpg")) :
        host \in {"sphotos", "profile", "m"}}
    \cup {<<"z", ".">> \o Site("zgncdn", "com") \o Path(<<dir, "b">>, F("i", "jpg")) :
        dir \in {"farm", "other"}}
    \cup {<<"h", ".">> \o Site("akamaihd", "net") \o Path(<<dir, "b", "c">>, F("i", "jpg")) :
        dir \in {"farm2", "other"}}
    \cup {<<"h", ".">> \o Site("socialpointgames", "com") \o Path(<<dir, "b">>, F("i", "jpg")) :
        dir \in {"dragoncity", "other"}}

-----------------------------------------------------------------------------
(* Requests and answers                                                    *)

Num(name, n) == [Line(name, <<>>) EXCEPT !.num = n]
Alive == Line("connection", <<"keep-alive">>)
R(method, url, lines, body) ==
    [method |-> method, url |-> url, version |-> "1.1", lines |-> lines, body |-> body]
Asks(url) == R("GET", <<"http://">> \o url, <<Alive>>, 0)
A(status, lines, sent, late) == [status |-> status, lines |-> lines, sent |-> sent, late |-> late]
Ok(n, sent) == A("200", <<Alive, ContentLength(n)>>, sent, 0)

World(Requests, Answers, max) ==
    [Transparent |-> FALSE, UseParentProxy |-> FALSE,
     Requests |-> Requests, Answers |-> Answers, max |-> max]

Names == World({Asks(url) : url \in General_ \cup Videos \cup Updates \cup Redirected \cup Strange},
               {Ok(2, 2)}, 2)
Sites_ == World({Asks(url) : url \in Songs \cup Games \cup Films \cup Scanners}, {Ok(2, 2)}, 2)
Memories == World({Asks(url) : url \in Remembering}, {Ok(2, 2)}, 3)

Gif == Com("plain") \o Path(<<>>, F("x", "gif"))
Page == Com("plain") \o Path(<<>>, <<"p">>)
Other == Www(Site("plain", "org")) \o Path(<<>>, F("x", "gif"))

\* What becomes of the size of a row and of the file, one request after another.
Sizes == World({Asks(Gif), R("HEAD", <<"http://">> \o Gif, <<Alive>>, 0),
                R("GET", <<"http://">> \o Gif, <<Alive, Num("range", 2)>>, 0),
                R("GET", <<"http://">> \o Gif, <<Alive, Num("range", 13)>>, 0),
                R("GET", <<"http://">> \o Gif, <<Alive, Num("range", -1)>>, 0),
                R("GET", <<"http://">> \o Gif, <<Alive, Line("if-none-match", <<"e">>)>>, 0)},
               {Ok(3, 3), Ok(3, 2), Ok(3, 0), Ok(2, 3), A("404", <<Alive, ContentLength(2)>>, 2, 0),
               A("206", <<Alive, ContentLength(1)>>, 1, 0),
                A("302", <<Alive, ContentLength(3)>>, 0, 0), A("303", <<Alive>>, 0, 0),
                A("200", <<ContentLength(3), Line("transfer-encoding", <<"chunked">>)>>, 3, 0)}, 4)

\* Two rows of one file.
Twins == World({Asks(Com("plain") \o Path(<<"d">>, F("x", "gif"))),
                R("GET", <<"http://">> \o Com("plain") \o Path(<<"d">>, F("x", "gif")),
                  <<Alive, Num("range", 2)>>, 0),
                Asks(Com("plain") \o Path(<<"d">>, <<"/">> \o F("x", "gif")))},
               {Ok(3, 3), Ok(2, 2), Ok(2, 0), Ok(2, 3), A("200", <<Alive>>, 2, 0)}, 4)

\* A plugin's file is completed only if the configuration says so.
Globo == <<"flashvideo", ".">> \o Site("globo", "com") \o Path(<<"v">>, F("f", "mp4"))
Torn == World({Asks(Globo), Asks(Br("uol") \o Path(<<"v", "w">>, F("f", "flv"))),
               R("POST", <<"http://">> \o Globo, <<Alive, ContentLength(1)>>, 1)},
              {Ok(3, 3), Ok(3, 1), A("206", <<Alive, ContentLength(2)>>, 1, 0)}, 4)

\* Headers of requests: of three hosts, kept and not.
Plain(url) == <<"http://">> \o url
OddRequests ==
    {R("GET", Plain(Page), lines, 0) : lines \in {
        <<>>, <<Line("proxy-connection", <<"close">>)>>,
        <<Line("connection", <<"close">>), Line("proxy-connection", <<"keep-alive">>), Alive>>,
        <<Alive, Line("host", <<"h">>), Line("keep-alive", <<"3">>)>>,
        <<Alive, Line("proxy-authorization", <<"u">>), Line("via", <<"v">>)>>,
        <<Num("content-length", 0), Alive>>, <<ContentLength(2)>>}}
    \cup {R("POST", Plain(Gif), <<Alive, ContentLength(1)>>, 1),
          R("POST", Plain(Page), <<Alive>>, 0), R("HEAD", Plain(Page), <<Alive>>, 0),
          R("CONNECT", Page, <<>>, 0), R("BREW", Plain(Page), <<>>, 0),
          R("GET", <<"ftp://", "www", ".", "plain", ".", "org", "/">>, <<>>, 0),
          [R("GET", <<"http://", "u", ":", "p", "@">> \o Page, <<>>, 0) EXCEPT !.version = "1.0"],
          R("GET", <<"http://", "www", ".", "plain", ".", "com", ":", "8080", "/", "p">>, <<>>, 0),
          R("GET", <<"http://", "www", ".", "plain", ".", "com", ":", "x", "/", "p">>, <<>>, 0),
          R("GET", Plain(Gif), <<Alive, ContentLength(1)>>, 1), Asks(Gif), Asks(Other)}
Headers_ == World(OddRequests, {Ok(2, 2)}, 3)

\* Headers of answers.
OddAnswers ==
    {Ok(2, 2), Ok(2, 3), Ok(0, 0), Ok(0, 1), A("204", <<Alive>>, 0, 0),
     A("304", <<Alive, ContentLength(2)>>, 0, 0), A("200", <<Alive>>, 2, 0),
     A("200", <<Alive, Num("content-length", -1)>>, 2, 0),
     A("200", <<ContentLength(2), Line("connection", <<"close">>)>>, 2, 0),
     A("200", <<Alive, Line("transfer-encoding", <<"chunked">>)>>, 2, 0),
     A("200", <<ContentLength(2), Line("transfer-encoding", <<"chunked">>)>>, 2, 0),
     A("200", <<Line("transfer-encoding", <<"gzip">>), ContentLength(2)>>, 2, 0),
     A("200", <<Alive, ContentLength(2), ContentLength(3)>>, 3, 0),
     A("200", <<Line("proxy-connection", <<"keep-alive">>), Line("keep-alive", <<"3">>),
                ContentLength(2)>>, 2, 0),
     A("unreadable", <<Alive>>, 2, 0), A("200", <<Alive, ContentLength(2)>>, 2, 1)}
Answers_ == World({Asks(Gif), Asks(Page), R("HEAD", Plain(Page), <<Alive>>, 0),
                   R("GET", Plain(Page), <<Line("proxy-connection", <<"keep-alive">>)>>, 0)},
                  OddAnswers, 3)

Behind == [World({Asks(Gif), Asks(Other), Asks(Page), R("GET", Plain(Page), <<>>, 0),
                  R("GET", Plain(Gif), <<Alive, Line("proxy-authorization", <<"u">>)>>, 0),
                  R("GET", <<"ftp://", "www", ".", "plain", ".", "org", "/">>, <<Alive>>, 0)},
                 {Ok(2, 2), Ok(2, 1)}, 3) EXCEPT !.UseParentProxy = TRUE]

Hosts(words) == Line("host", words)
InTheMiddle == [World({R("GET", <<"/", "x", ".", "gif">>, lines, 0) : lines \in {
                    <<Alive>>, <<Hosts(Com("plain"))>>, <<Hosts(Com("plain") \o <<":", "8080">>)>>,
                    <<Hosts(Com("plain") \o <<":", "no">>)>>, <<Hosts(Com("a")), Hosts(Com("plain"))>>,
                    <<Hosts(<<"averyveryverylonghostname", ":", "80">>)>>}}
                 \cup {Asks(Gif)}, {Ok(2, 2)}, 2) EXCEPT !.Transparent = TRUE]

\* Connections that are not there, and some that the origin closes.
Retries == World({Asks(Gif), Asks(Page), Asks(Other), R("HEAD", Plain(Page), <<Alive>>, 0),
                  R("POST", Plain(Gif), <<Alive, ContentLength(1)>>, 1)},
                 {Ok(2, 2), Ok(2, 1), A("200", <<ContentLength(2)>>, 2, 0)}, 5)

MCWorlds == {Names, Sites_, Memories, Sizes, Twins, Torn, Headers_, Answers_, Retries, Behind, InTheMiddle}

\* What the plugins can remember, after however many requests.
MCMemories == [w \in MCWorlds |->
    IF w # Memories THEN {Fresh}
    ELSE [fbcdn : {Fresh.fbcdn, <<"facebook_photos">>, <<"facebook_profile">>},
          zgncdn : {Fresh.zgncdn, <<"GF_zgncdn_farm">>},
          akamaihd : {Fresh.akamaihd, <<"GF_akamaihd_farm2">>},
          socialpoint : {Fresh.socialpoint, <<"socialpg", "/", "dragoncity">>}]]

\* What ExchangeProofs asks of the keys of these worlds.
ASSUME KeysAreTold == \A w \in MCWorlds : KeysTell(w, MCMemories[w])
=============================================================================
