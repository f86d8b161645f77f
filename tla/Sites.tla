-------------------------------- MODULE Sites --------------------------------
(***************************************************************************)
(* The plugins that look for some words in the URL, and keep the object    *)
(* under the last part of its path.  Only grandchase.com.br is left out:   *)
(* its function ends without a return.                                     *)
(***************************************************************************)
EXTENDS Names

KeptAs(domain, condition, url) == When(condition, <<domain>>, get_filename(url))

\* One of the labels of a regular expression, in front of a site.
Below(label(_), site, url) ==
    \E i \in 1..(Len(url) - 1) : label(url[i]) /\ IsPrefix(<<".">> \o site, SubSeq(url, i + 1, Len(url)))

-----------------------------------------------------------------------------
(* Music.                                                                  *)

bomusica_info(url) == KeptAs("bomusica.info", Has(url, <<"bomusica", ".", "info">>), url)

bomusicas(url) == KeptAs("bomusicas.com", Has(url, <<"bomusicas", ".", "com">>), url)

bullafina_biz(url) == KeptAs("bullafina.biz", Has(url, <<"bullafina", ".", "biz">>), url)

bullafina_me(url) == KeptAs("bullafina.me", Has(url, <<"bullafina", ".", "me">>), url)

cutmu(url) == KeptAs("cutmu.biz", Has(url, <<"cutmu", ".", "net">>), url)

domusica(url) == KeptAs("domusica.me", Has(url, <<"domusica", ".", "me">>), url)

domusicas(url) == KeptAs("domusica.com", Has(url, <<"domusicas", ".", "com">>), url)

goobeo(url) == KeptAs("goobeo.com", Has(url, <<"goobeo", ".", "com">>), url)

gooveo_biz(url) == KeptAs("gooveo.biz", Has(url, <<"gooveo", ".", "biz">>), url)

gooveo_info(url) == KeptAs("gooveo.info", Has(url, <<"gooveo", ".", "info">>), url)

gooveo_me(url) == KeptAs("gooveo.me", Has(url, <<"gooveo", ".", "me">>), url)

musicaveo_biz(url) == KeptAs("musicaveo.biz", Has(url, <<"musicaveo", ".", "biz">>), url)

musicaveo_info(url) == KeptAs("musicaveo.info", Has(url, <<"musicaveo", ".", "info">>), url)

vevos(url) == KeptAs("vevos.biz", Has(url, <<"vevos", ".", "biz">>), url)

coqui(url) == KeptAs("coqui", Has(url, <<".", "coqui", ".", "net", "/">>) /\ Ext(url, {"mp3"}), url)

hulkshare(url) ==
    KeptAs("hulkshare", Has(url, <<".", "hulkshare", ".", "com", "/">>) /\ Ext(url, {"mp3"}), url)

maguinamotors(url) ==
    KeptAs("maguinamotors",
           /\ Has(url, <<".", "maguinamotors", ".", "com", "/">>)
           /\ Ext(url, {"mp3"}), url)

manabar(url) == KeptAs("manabar", Has(url, <<"manabar", ".", "ca", "/">>) /\ Ext(url, {"mp3"}), url)

molenillo(url) ==
    KeptAs("molenillo", Has(url, <<"molenillo", ".", "com", "/">>) /\ Ext(url, {"mp3"}), url)

mp3_buscador(url) ==
    KeptAs("mp3-buscador", Has(url, <<".", "mp3-buscador", ".", "com", "/">>) /\ Ext(url, {"mp3"}), url)

ning(url) == KeptAs("ning", Has(url, <<".", "ning", ".", "com", "/">>) /\ Ext(url, {"mp3"}), url)

nofeehost(url) ==
    KeptAs("nofeehost", Has(url, <<".", "nofeehost", ".", "com", "/">>) /\ Ext(url, {"mp3"}), url)

turner(url) ==
    KeptAs("turner", Has(url, <<".", "turner", ".", "com", "/">>) /\ Ext(url, {"mp3"}), url)

sonicomusica(url) ==
    KeptAs("sonicomusica",
           /\ Has(url, <<".", "sonicomusica", ".", "com", "/">>)
           /\ Ext(url, {"sm3"}) \/ ~ Ext(url, {"jpg"}), url)

fourshared(url) ==
    KeptAs("4shared", Has(url, <<".", "4shared", ".", "com", "/", "download", "/">>), url)

-----------------------------------------------------------------------------
(* Games.  In most of them the host counts for the first type only, as    *)
(* "and" binds more tightly than "or".                                     *)

appspot(url) == KeptAs("GAMESF_appspot", Has(url, <<".", "appspot", ".", "com">>), url)

geewa(url) == KeptAs("GAMESF_geewa", Has(url, <<".", "geewa", ".", "net">>), url)

llnwd(url) == KeptAs("GAMESF_llnwd", Has(url, <<".", "llnwd", ".", "net">>), url)

netpocket(url) == KeptAs("GF_netpocket", Has(url, <<".", "netpocket", ".", "org">>), url)

tetrisfb(url) == KeptAs("GAMESF_tetrisfb", Has(url, <<".", "tetrisfb", ".", "com">>), url)

friv(url) == KeptAs("FrivIntro", Has(url, <<".", "friv", ".", "com">>), url)

cloudfront(url) ==
    KeptAs("GAMESF_cloudfront",
           \/ Has(url, <<".", "cloudfront", ".", "net">>) /\ Ext(url, {"jpg"})
           \/ Ext(url, {"png", "swf", "mp3"}), url)

kixeye(url) ==
    KeptAs("GAMESF_kixeye",
           \/ Has(url, <<".", "kixeye", ".", "com">>) /\ Ext(url, {"jpg"})
           \/ Ext(url, {"png", "swf", "mp3"}), url)

dungeonbusters(url) ==
    KeptAs("GAMESF_dungeonbusters",
           \/ Has(url, <<".", "dungeonbusters", ".", "com", "/">>) /\ Ext(url, {"jpg"})
           \/ Ext(url, {"png", "swf", "mp3"}), url)

edgecastcdn(url) ==
    KeptAs("GAMESF_edgecastcdn",
           \/ Has(url, <<".", "edgecastcdn", ".", "net">>) /\ Ext(url, {"jpg"})
           \/ Ext(url, {"png", "swf", "mp3"}), url)

miniclip(url) ==
    KeptAs("GAMESF_miniclip",
           \/ Has(url, <<".", "miniclip", ".", "com">>) /\ Ext(url, {"jpg"})
           \/ Ext(url, {"png", "swf", "mp3"}), url)

nordeus(url) ==
    KeptAs("GAMESF_nordeus",
           \/ Has(url, <<".", "nordeus", ".", "com">>) /\ Ext(url, {"jpg"})
           \/ Ext(url, {"png", "swf", "mp3"}), url)

telaxo(url) ==
    KeptAs("GAMESF_telaxo",
           \/ Has(url, <<".", "telaxo", ".", "com", "/">>) /\ Ext(url, {"jpg"})
           \/ Ext(url, {"png", "swf", "mp3"}), url)

wooga(url) ==
    KeptAs("GAMESF_wooga",
           \/ Has(url, <<".", "wooga", ".", "com", "/">>) /\ Ext(url, {"jpg"})
           \/ Ext(url, {"png", "swf", "mp3"}), url)

disneylatino(url) ==
    KeptAs("DISNEY",
           \/ Has(url, <<".", "disneylatino", ".", "com">>) /\ Ext(url, {"jpg"})
           \/ Ext(url, {"swf", "gif"}), url)

popcap(url) ==
    KeptAs("GAMESF_popcap",
           \/ Has(url, <<".", "popcap", ".", "com", "/">>) /\ Ext(url, {"jpg"})
           \/ Ext(url, {"png", "gif", "swf", "js", "mp3"}), url)

vostucdn(url) ==
    KeptAs("GAMESF_vostucdn",
           \/ Has(url, <<".", "vostucdn", ".", "com", "/">>) /\ Ext(url, {"jpg"})
           \/ Ext(url, {"png", "gif", "swf", "mp3"}), url)

-----------------------------------------------------------------------------
(* Films and downloads.                                                    *)

dailymotion(url) ==
    LET proxy(label) == MatchBegin(label, "proxy") /\ Len(label) \in 8..9
    IN  KeptAs("dailymotion",
               /\ \/ Below(proxy, <<"dailymotion", ".", "com">>, url)
                  \/ HasAny(url, {<<"vid", ".", "akm", ".", "dailymotion", ".", "com">>,
                                  <<".", "cdn", ".", "dailymotion", ".", "com">>})
               /\ Ext(url, {"flv", "h264", "mp4", "on2"}), url)

megaupload(url) ==
    KeptAs("megaupload", Has(url, <<".", "megaupload", ".", "com", "/", "files", "/">>), url)

metacafe(url) ==
    KeptAs("metacafe",
           /\ HasAny(url, {<<"akvideos", ".", "metacafe", ".", "com", "/">>,
                           <<"v", ".", "mccont", ".", "com", "/">>})
           /\ Has(url, <<"ItemFiles">>), url)

modovideo(url) ==
    KeptAs("modovideo",
           /\ Has(url, <<"modovideo", ".", "com", "/">>)
           /\ Ext(url, {"flv"}) \/ ~ Ext(url, {"mp4"}), url)

pop6(url) == KeptAs("pop6", Has(url, <<".", "pop6", ".", "com", "/">>) /\ Ext(url, {"flv"}), url)

pornhub(url) ==
    KeptAs("pornhub",
           /\ Has(url, <<".", "pornhub", ".", "com", "/", "dl", "/">>)
           /\ Ext(url, {"flv"})
           /\ ~ Has(url, <<"media">>), url)

pornotube(url) ==
    KeptAs("pornotube",
           /\ Has(url, <<"pornotube", ".", "com", "/">>)
           /\ Has(url, <<"video">>)
           /\ Ext(url, {"flv"}), url)

serviporno(url) == KeptAs("serviporno", Has(url, <<".", "serviporno", ".", "com", "/">>), url)

terra(url) == KeptAs("terra", Has(url, <<".", "terra", ".", "com">>) /\ Ext(url, {"flv"}), url)

viddler(url) ==
    KeptAs("viddler", Has(url, <<"viddler", ".", "com", "/">>) /\ Ext(url, {"flv"}), url)

video_msn(url) ==
    KeptAs("msn_video",
           /\ Has(url, <<".", "catalog", ".", "video", ".", "msn", ".", "com", "/">>)
           /\ Has(url, <<"share">>), url)

vimeo(url) ==
    KeptAs("vimeo",
           /\ HasAny(url, {<<"bitcast", ".", "vimeo", ".", "com", "/", "vimeo">>,
                           <<".", "bitgravity", ".", "com", "/", "vimeo">>})
           /\ Ext(url, {"flv", "mp4"}), url)

xtube(url) ==
    LET server(label) == Len(label) >= 2
    IN  KeptAs("xtube",
               /\ Below(server, <<"xtube", ".", "com">>, url)
               /\ ~ HasAny(url, {<<"Thumb">>, <<"av_preview">>})
               /\ Ext(url, {"flv"}) /\ Has(url, <<"video">>), url)

mediafire(url) ==
    LET server(label) == MatchBegin(label, "download") /\ IsNumber(SubSeq(label, 9, Len(label)))
    IN  KeptAs("mediafire", Below(server, <<"mediafire", ".", "com">>, url), url)

ziddu(url) ==
    KeptAs("ziddu", Has(url, <<"downloads", ".", "ziddu", ".", "com", "/", "downloadfiles">>), url)

-----------------------------------------------------------------------------
(* Updates of scanners.                                                    *)

avast(url) ==
    KeptAs("avast",
           /\ Has(url, <<".", "avast", ".", "com", "/">>)
           /\ Ext(url, {"vpu", "smtap"})
           /\ ~ Has(url, <<"servers", ".", "def", ".", "vpu">>), url)

avg(url) ==
    KeptAs("avg",
           /\ HasAny(url, {<<"avg", ".", "com", "/">>, <<"grisoft", ".", "com", "/">>,
                           <<"grisoft", ".", "cz", "/">>})
           /\ Ext(url, {"exe", "bin"}), url)

eset(url) ==
    KeptAs("eset",
           /\ Has(url, <<".", "eset", ".", "com", "/">>)
           /\ Ext(url, {"nup"})
           /\ ~ Has(url, <<"update", ".", "ver">>), url)

etrustdownloads(url) == KeptAs("etrust", Ext(url, {"pkg", "exe", "zip", "tar"}), url)

kaspersky(url) ==
    KeptAs("kaspersky",
           \/ Ext(url, {"bz2", "avc", "kdc", "klz", "dif", "dat", "exe", "kdz", "kdl", "kfb"})
           \/ Has(url, <<"/", "diffs", "/">>), url)

nai(url) ==
    LET black_list == {<<"engmin", ".", "zip">>, <<"SiteStat", ".", "xml">>,
                       <<"PkgCatalog", ".", "z">>, <<"V2enginstall", ".", "mcs">>,
                       <<"V2engdet", ".", "mcs">>, <<"gdeltaavv", ".", "ini">>,
                       <<"catalog", ".", "z">>}
    IN  KeptAs("nai",
               /\ Has(url, <<".", "nai", ".", "com", "/">>)
               /\ Ext(url, {"zip", "exe", "gem", "tar"}) /\ ~ HasAny(url, black_list), url)

symantecliveupdate(url) ==
    KeptAs("symantec",
           /\ Has(url, <<".", "symantecliveupdate", ".", "com", "/">>)
           /\ Ext(url, {"zip", "exe"}), url)

-----------------------------------------------------------------------------

\* Here the query is part of the name.
mlstatic(url) ==
    When(Has(url, <<".", "mlstatic", ".", "com">>) /\ Ext(url, {"jpg", "png"}),
         <<"mercadolibre_img">>, FromEnd(stringexplode(url, {"/"}, <<>>), 1))

-----------------------------------------------------------------------------
Site(a, b) == <<a, ".", b>>

\* The libraries of this module by the site in their name.
GetmatchOfSites(site, url) ==
    CASE site = Site("bomusica", "info") -> bomusica_info(url)
      [] site = Site("bomusicas", "com") -> bomusicas(url)
      [] site = Site("bullafina", "biz") -> bullafina_biz(url)
      [] site = Site("bullafina", "me") -> bullafina_me(url)
      [] site = Site("cutmu", "net") -> cutmu(url)
      [] site = Site("domusica", "me") -> domusica(url)
      [] site = Site("domusicas", "com") -> domusicas(url)
      [] site = Site("goobeo", "com") -> goobeo(url)
      [] site = Site("gooveo", "biz") -> gooveo_biz(url)
      [] site = Site("gooveo", "info") -> gooveo_info(url)
      [] site = Site("gooveo", "me") -> gooveo_me(url)
      [] site = Site("musicaveo", "biz") -> musicaveo_biz(url)
      [] site = Site("musicaveo", "info") -> musicaveo_info(url)
      [] site = Site("vevos", "biz") -> vevos(url)
      [] site = Site("coqui", "net") -> coqui(url)
      [] site = Site("hulkshare", "com") -> hulkshare(url)
      [] site = Site("maguinamotors", "com") -> maguinamotors(url)
      [] site = Site("manabar", "ca") -> manabar(url)
      [] site = Site("molenillo", "com") -> molenillo(url)
      [] site = Site("mp3-buscador", "com") -> mp3_buscador(url)
      [] site = Site("ning", "com") -> ning(url)
      [] site = Site("nofeehost", "com") -> nofeehost(url)
      [] site = Site("turner", "com") -> turner(url)
      [] site = Site("sonicomusica", "com") -> sonicomusica(url)
      [] site = Site("4shared", "com") -> fourshared(url)
      [] site = Site("appspot", "com") -> appspot(url)
      [] site = Site("geewa", "net") -> geewa(url)
      [] site = Site("llnwd", "net") -> llnwd(url)
      [] site = Site("netpocket", "org") -> netpocket(url)
      [] site = Site("tetrisfb", "com") -> tetrisfb(url)
      [] site = Site("friv", "com") -> friv(url)
      [] site = Site("cloudfront", "net") -> cloudfront(url)
      [] site = Site("kixeye", "com") -> kixeye(url)
      [] site = Site("dungeonbusters", "com") -> dungeonbusters(url)
      [] site = Site("edgecastcdn", "net") -> edgecastcdn(url)
      [] site = Site("miniclip", "com") -> miniclip(url)
      [] site = Site("nordeus", "com") -> nordeus(url)
      [] site = Site("telaxo", "com") -> telaxo(url)
      [] site = Site("wooga", "com") -> wooga(url)
      [] site = Site("disneylatino", "com") -> disneylatino(url)
      [] site = Site("popcap", "com") -> popcap(url)
      [] site = Site("vostucdn", "com") -> vostucdn(url)
      [] site = Site("dailymotion", "com") -> dailymotion(url)
      [] site = Site("megaupload", "com") -> megaupload(url)
      [] site = Site("metacafe", "com") -> metacafe(url)
      [] site = Site("modovideo", "com") -> modovideo(url)
      [] site = Site("pop6", "com") -> pop6(url)
      [] site = Site("pornhub", "com") -> pornhub(url)
      [] site = Site("pornotube", "com") -> pornotube(url)
      [] site = Site("serviporno", "com") -> serviporno(url)
      [] site = Site("terra", "com") -> terra(url)
      [] site = Site("viddler", "com") -> viddler(url)
      [] site = <<"video", ".", "msn", ".", "com">> -> video_msn(url)
      [] site = Site("vimeo", "com") -> vimeo(url)
      [] site = Site("xtube", "com") -> xtube(url)
      [] site = Site("mediafire", "com") -> mediafire(url)
      [] site = Site("ziddu", "com") -> ziddu(url)
      [] site = Site("avast", "com") -> avast(url)
      [] site = Site("avg", "com") -> avg(url)
      [] site = Site("eset", "com") -> eset(url)
      [] site = <<"etrustdownloads", ".", "ca", ".", "com">> -> etrustdownloads(url)
      [] site = Site("kaspersky", "com") -> kaspersky(url)
      [] site = Site("nai", "com") -> nai(url)
      [] site = Site("symantecliveupdate", "com") -> symantecliveupdate(url)
      [] site = Site("mlstatic", "com") -> mlstatic(url)
      [] OTHER -> NoMatch
=============================================================================
