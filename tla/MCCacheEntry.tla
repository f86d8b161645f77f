---------------------------- MODULE MCCacheEntry ----------------------------
(* Instances of CacheEntry for TLC: configurations, and how often each of  *)
(* the things that may go wrong does.                                      *)
EXTENDS CacheEntry

Never == [k \in FaultKinds |-> 0]

Static == [GENERAL |-> TRUE, NODOWN |-> FALSE, NORESUME |-> FALSE,
           SmallParts |-> FALSE, ResumeOnce |-> TRUE, left |-> Never]
Plugin == [Static EXCEPT !.GENERAL = FALSE]

\* One request at a time: breaks, browsers that leave, a death and an object that
\* expires; on a plugin domain that passes on what is downloading; with an error page,
\* and on a plugin domain, where a file torn at its length is a hit; with a redirect of
\* a resumed request; with parts that are held back; and with an INSERT that fails.
Sequential ==
    {[Static EXCEPT !.left = [Never EXCEPT !["break"] = 2, !["drop"] = 1,
                                           !["crash"] = 1, !["expiry"] = 1]],
     [Plugin EXCEPT !.NODOWN = TRUE, !.left["break"] = 1, !.left["drop"] = 1],
     [Static EXCEPT !.left["error"] = 1, !.left["break"] = 1, !.left["expiry"] = 1],
     [Plugin EXCEPT !.left["error"] = 1, !.left["break"] = 1, !.left["crash"] = 1],
     [Static EXCEPT !.left["redirect"] = 1, !.left["break"] = 1, !.left["drop"] = 1],
     [Static EXCEPT !.SmallParts = TRUE, !.left["break"] = 1, !.left["crash"] = 1],
     [Plugin EXCEPT !.NORESUME = TRUE, !.left["db"] = 1, !.left["break"] = 1]}

\* Two at once: following, resuming and overwriting each other's download; and
\* on a plugin domain with parts that are held back in the buffers of streams.
Followed == [Static EXCEPT !.ResumeOnce = FALSE]
Held == [Plugin EXCEPT !.SmallParts = TRUE]
Concurrent == {[Followed EXCEPT !.left["break"] = 1], [Followed EXCEPT !.left["redirect"] = 1],
               [Held EXCEPT !.left["break"] = 1],
               [Held EXCEPT !.left["error"] = 1], [Held EXCEPT !.left["db"] = 1]}

NoConcurrentDownloads == {[Plugin EXCEPT !.NODOWN = TRUE]}

\* A file is resumed twice over the same connection.
Sticky == {[Static EXCEPT !.ResumeOnce = FALSE,
                          !.left = [Never EXCEPT !["break"] = 2, !["drop"] = 1, !["expiry"] = 1]]}
=============================================================================
