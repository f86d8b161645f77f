# Thunder: specifications and proofs

Thunder is a caching web proxy.  A master process forks workers; a worker accepts a browser
connection, relays its requests to origin servers, and keeps the answers it may keep in files
under `CACHEDIR`, indexed by a MySQL table.  All workers share the directory and the table, and
nothing is locked.  This directory specifies the program in TLA+, checks the specifications
with TLC, and proves theorems about them with TLAPS.  Every definition is translated from
`src/thunder`; `PROJECT.json` maps each one to its lines.

## 1. The system

| Part | Source | State | Operations |
|---|---|---|---|
| Supervisor | thunder.cpp, helper.cpp | `Instances`, `startchild`, flags set by signal handlers, process table | reread, reopen logs, restart children, reap, spawn, grow, exit |
| Session | proxyhandler.cpp | `DropBrowser`, `BrowserDropped`, `DropServer`, `ServerConnected`, `ConnectedHost`, retries | one request after another: resolve, connect, send, relay, retry, report |
| Cache entry | connectiontohttp2.cpp | file, its length and modification time, row of the table, mode of each worker | `Cache()`, miss, hit, following a download, resuming, closing |
| Sockets | sockethandler.cpp | receive buffer, `LastHost`, `ips`, `ip_count`, address list of `gethostbyname()` | resolve, connect, receive, send, close |
| HTTP reader | httphandler.cpp | none besides the buffer | header, body part, chunk |
| Requests and headers | connectiontobrowser.cpp, connectiontohttp.cpp | host, port, path, Content-Length, keep-alive, chunked, the lines kept | analyse a header, prepare it for the other side |
| Keys | connectiontohttp2.cpp, utils.cpp | none | which object of the cache a URL is, its row and its file |
| Plugins | plugins/ | a global in four of them | URL to domain and file name, or to another URL |
| Configuration, logs, database | params, logfile, database_mysql | parameters, two descriptors, a connection | read once; reopen; queries |

How they interact:

- The supervisor and its workers share the listening socket, the process group and the log
  descriptors inherited at `fork()`; they talk by signals and by the death of children.
- A session calls the cache for every request; `SetDomainAndPort()` calls `Cache()` for a new
  connection, `SendHeader()` calls it for a kept one.
- `Cache()` tells the object by its URL: it loads the plugin named after the site and asks it; without
  one, the extensions that the configuration gives an expiration to are kept.  Plugins stay loaded,
  and their globals live as long as the worker.
- A session owns two sockets: that of the origin connection and that of the *downloader*, which
  resumes partial files.  Both resolve names with `gethostbyname()`, which has one result per
  process.
- Workers meet in the cache directory and the table.  A worker learns that another one is
  downloading an object from the modification time of the file: less than ten seconds old.

What is hard about it: signals between any two statements of the master; workers that die at any
point, leaving files and rows half done; four looks at shared state (`Cache()`: file, row, time,
length) that others change in between; connections that outlive the request they were made for;
retries over state that the failed attempt has changed; answers that break off after their
header was passed on; TCP cutting the stream anywhere.  `PROJECT.json` lists these hazards at
their lines, with the properties that cover each, or the reason why none does.

What makes each part correct:

- *Supervisor*: the count of workers is exact, the pool bounded and replenished, waiting clients
  are accepted, a HUP is never lost, a SIGTERM ends everything.
- *Session*: a request goes to its own host; every address is tried before the host is called
  down; no body is sent twice; a kept browser has had exactly one answer; every request ends.
- *Cache entry*: a browser is given the object and nothing else; partial files, and only these,
  are resumed; a complete object stays; an object that is asked for gets complete.
- *Reader*: the result does not depend on how the stream was cut.
- *Requests and headers, keys, plugins*: a browser is given what it asked for, framed as announced, by a
  connection that nothing is left on; no ordinary address ends the worker.

## 2. Modules

| Module | What it is |
|---|---|
| `Pool` | what a pre-forked pool promises: an abstract specification |
| `Supervisor` | the master's loop, one action per step, and the workers as the master, the listening socket and the signals see them; implements `Pool` |
| `MCSupervisor` | instances: two to four slots of the process table |
| `SupervisorProofs` | six theorems |
| `Store` | what the cache promises of one object while it serves one request at a time: an abstract specification |
| `CacheEntry` | one object, its file and row, and the workers that request it; implements `Store` for requests one at a time |
| `MCCacheEntry` | instances: configurations, and how often each fault occurs |
| `CacheEntryProofs` | two theorems: types, and that what is settled stays |
| `CacheIntegrity` | three theorems about requests that are served one at a time |
| `ProxySession` | one browser connection: the loop of `Proxy()`, `CommunicationHTTP()`, the resolvers of the two sockets |
| `MCProxySession` | instances: two names, a literal address, a parent proxy |
| `ProxySessionProofs` | seven theorems |
| `Reader` | the receive buffer and the functions that take headers, chunks and bodies from it |
| `MCReader` | instances: what browsers and servers send |
| `Counting` | lemmas for proofs about sequences of any length: induction for a set of numbers, functions that are defined step by step, least and greatest elements |
| `ReaderProofs` | five theorems |
| `Text` | the string functions of utils.cpp, on sequences of tokens |
| `Names`, `Sites`, `Plugins` | what the plugins share; those that only look for words; those with code of their own |
| `Keys` | plugin, row and file of a URL: the first and last part of `Cache()` |
| `Headers` | the analysis of requests and answers, and the headers that are sent |
| `HeaderProofs` | lemmas about the operators of `Headers`, for lines of any number and order |
| `Exchange` | one worker that passes requests and answers on, over `Keys` and `Headers` |
| `MCExchange` | instances: families of addresses, requests and answers |
| `ExchangeProofs` | nine theorems |

Four of the specifications are views of one worker, and `Reader` is a part of it that the others
see only by its results.  `Supervisor` knows only whether it is
forked, waiting, serving, closed or dead; `ProxySession` has the control of a request and chooses
freely what `Cache()` decides (miss, hit, resume, rewrite); `CacheEntry` has that decision and everything
that is done to file and row, and chooses freely which requests come and what the origin does;
`Exchange` computes from the data of requests and answers which object, header, connection and
length follow, where the others choose, and lets one request follow another.

### Supervisor

`pc` is the master's place in the server loop: `if (rereadall)` and the clearing of the flag, the
two log files one after the other, `killpg`, the `waitpid` loop (one child per step), the fork
loop, the two looks at the listening socket a second apart.  `rotation` numbers the generations
of the log files, `log` and `workerlog` say which generation a descriptor belongs to.  Signals
(`RotateAndHup`, `ExitProcess`) come between any two steps.  A worker is `forked` until it has
installed its own handlers, since SIGUSR1 and SIGTERM mean different things before and after.

An `open()` of a log file may fail (`OpenFails`, `MaxOpenErrors`).  `LogFile::InitLogFiles` closes both descriptors before it
opens the first file and returns where one cannot be opened, and `thunder.cpp:129` ignores the result: after a failure of
the error log the access log is not opened either, and nobody tries again before the next HUP.  `openerrors` has the rotations after
which it happened, and `SeenTo(l)` says of which rotation the last try for a log was.  After the failure of the error log the code's
`Access_fd` keeps the number of a descriptor that is closed; the model says `Closed` of both.  `Leader` is whether the
master leads its process group, which `setsid()` makes it with DAEMON: `ExitProcess` kills the group only then
(helper.cpp:47).

After its first browser connection a worker loops on `sock_fd = -1` and calls `FD_SET(-1, ..)`,
which is undefined: `ClosedFdOutcomes` holds what builds do, aborting (fortified) or stalling.

### CacheEntry

The object has `L` parts, what one `recv()` delivers; `data` is the sequence of parts in the
file, so that a hole, a doubled part or an error page stored as the object are all visible.
`Cache()` is four actions, since file, row, modification time and length are read one after the
other: `CacheExists`, `CacheRow`, `CacheMtime`, `CacheDecide`.  `fresh` stands for the modification
time: `Age` lets ten seconds pass, and closing a partial file dates it back.  A worker's record
has the flags of the C++ object (`mode` stands for `hit`, `downloading`, `resuming` and `r.match`),
among them what survives from one request to the next: `dlresp`, the open connections, and a file
whose last part is still in the stream's buffer (`pending`).

`env` is chosen in `Init` from `Worlds`: the configuration (`GENERAL`, `NODOWN`, `NORESUME`) and in `left` how
often each fault may still occur (a connection breaks, the origin sends an error page or redirects a resumed request, a
browser leaves, a worker dies, an INSERT fails, the object expires).

A resumed request that is answered 302 or 303 is `rewritten`: the row gets the length of the redirect, for `r.match` is
still TRUE, the browser the redirect's header, and the body is line ends, with no end if no length was announced
(`Endless`); the browser may leave.  A downloader whose origin has ended reads 0 at every call, and the worker goes on
with what the file has.

### ProxySession

`pc` follows `Proxy()` and `CommunicationHTTP()`; `answer` is `CommunicationAnswer` with the codes
of the source.  `to` and `dl` are the two sockets: `LastHost`, `ips`, `ip_count`, the address that
was chosen and the one that is connected.  `hostent` is the host whose addresses
`gethostbyname()` holds at the moment.  An index past the end of that list dereferences a null
pointer, and the process dies.  History variables record what the browser was given (`given`),
which addresses were tried and how often a body was read.  Any request may have a body, of which
`SendClientBody` makes no difference by method, so a GET that is tried again reads the next bytes of the browser, those of a
pipelined request among them, as its body.  What `Cache()` decides includes the rewrite of a plugin; and a resumed
request may be redirected, with a length (`swollen`: more line ends are sent than were announced) or without (`Endless`).
An origin's own body is taken to be finite: `MaxParts` bounds its parts.

`world` is chosen in `Init` and never changes: the number of addresses of each host, whether
there are partial files to resume, whether a parent proxy is used.

### Text, Names, Sites, Plugins, Keys, Headers

Pure operators.  A string is a sequence of tokens: separators are tokens of their own, and so are the
words whose letters nothing looks into; positions and lengths count the characters of the tokens.
Functions that throw (`at()` beyond the end, which nothing catches) return `Thrown`, and loops that do not end
`Endless`, so that a URL for which the worker dies or hangs is a value like any other.  `SearchReplace` starts
again from the beginning after each replacement, as the code does.  Each of about 90 plugins is one operator
on the URL.  `Keys!Lookup` gives the set of objects that a URL can be: a set, for four plugins append to a
global that earlier requests have left (`memory`).  A file that is a number has a directory made of the sum of its
digits (`ConvertChar`), which throws if the sum has too few: `Numerals` says how long the name and its sum are.

### Exchange

`pc` goes from `idle` through `connect`, `send` and `answer` to `over`, or to `dead` and `looping`.  `browser` is what
`AnalyseHeaderFirstLine` and `AnalyseHeaderLine` made of the request, `asked` the header an origin was sent, `out` what
the browser got: its lines, and from where to where of which URLs' object.  `rows` and `stored` are table and
cache directory: the size of a row, and of a file the bytes it has and the URLs they came from.  `directories` are
those that a miss made, for a file cannot be opened where a directory is, or below a file.

A file whose size is that of its row is a hit; one with another size, where the row's is not 0, is torn (`IsTorn`) and
completed if the object is of GENERAL or `_NORESUME` is TRUE (which the code reads the wrong way round).
The *downloader* then asks for the rest on a connection of its own, which is open only if `ConnectToServer()` was called;
its response is read once in the life of a worker, so that later its header goes to the file (`HeaderSize`).
`AnswerResumed` gives what the row announces of the file, `AnswerRedirected` and `ResumeFailed` are the other outcomes.

`PassOn` is one answer of the origin, from the status line as it was read to the state of both connections; a status
line that follows bytes of the last answer may be `unreadable`, and then the lines after it are lost.  `sock` is the
connection to an origin: `stray` bytes of an answer that were not read, `garbage` that was sent to it, whether it is
`closing`, which may be after any answer, for origins close idle connections, or was `told` to.  Requests come one after
another; a browser that is dropped takes its worker with it, and the next one has a new worker, with fresh plugins, and the
same cache.  The first request behind a parent is looked up under the empty name, later ones under the parent's.

### Pool

A slot is free, idle, busy, spent or dead.  `Supervisor!AsSeen` maps the states of a worker to these; stepping through
the master's loop, signals and logs are stutters, a crash of an idle worker is `Die`, a loop of `waitpid` one `Reap`
per child.

### Store

What a worker looks at and remembers is gone: there is the copy, whether it is to be renewed, and what each client waits
for.  A step appends the next part (`Fetch`), starts over where the copy is torn or old (`StartOver`), passes the
object on without keeping it (`PassOn`), answers or drops.  In `CacheEntry` the copy is `data`; it is old when the row has
expired or a worker has decided to renew it and has not begun (`Old`); `AsSeen` maps the state of a worker to
`asking`, `passing` (a request that is not kept) or what it gave last.  The four looks of `Cache()`, the retries and
what is prepared in flags and buffers are stutters, a crash of a busy worker is `Drop`.  `Forget` is one of the code's
own: an expired object is marked as downloaded before it is fetched (connectiontohttp2.cpp:168), so that after a failed
connection the old copy counts as new.

### Reader

A peer sends a *conversation*, a sequence of frames (header, header that ends in LF LF, chunk, last
chunk, body), whose encodings make up the stream.  `recvd` is how far `recv()` has come, and one
`recv()` returns up to `MAXRECV` bytes of the rest; the connection may end before any of them.  A
byte is one of the few that the functions tell apart.  `RecvBuf` is the buffer; `temp`, `got`,
`poscount` and `received` are the locals of `ReadHeader()` and `ReadBodyPart()`; `out` is what the calls
have returned, and has to consist of the frames.  Arithmetic on lengths is modulo `WORD`.

There are cuts that the code does not survive, and `badcut` records them: a `recv()` that ends
before the last byte of the empty line after a header (`position - poscount + 2` is then
2^32 - 1, and the read waits for 4 GB), and one that ends inside the size of a chunk or the line
end in front of it (`Recv()` hands out the buffer again without reading on, until 256 bytes have been
counted).  `BadPlaces` lists them, and `OnlyBadCutsFail` says that there are no others.

`Left` counts what the functions can still do: frames to come, bytes that are not received, bytes that are not
taken, how often the same buffer may be looked at in vain (`Tries`), and places until the next of these changes.
`StepsRunOut` says that every step lowers it.

`IsConversation` says what a peer may send, and `ReaderAssumption` demands it of `Conversations`: a header begins
with something that is not blank and ends where its first empty line is; a chunk has one to three bytes, any number
of zeros in front of its size and an extension behind it, and is followed by a chunk or the last one; a body that is not
chunked, or a header that ends in LF LF without a body, comes last.  All of it is shorter than `WORD`, so that a
read which waits for 4 GB is never satisfied.

## 3. Runs

| Run | Module | Shows |
|---|---|---|
| `supervisor_safety` | MCSupervisor | exact count, bound of the pool, a free slot for every fork, no lost HUP |
| `supervisor_liveness` | MCSupervisor | pool replenished, backlog served, shutdown complete, `Pool` implemented |
| `supervisor_workerlogs` | MCSupervisor | *violated*: workers never leave rotated logs |
| `supervisor_starved` | MCSupervisor | *violated*: a pool at its limit accepts nobody |
| `cache_sequential` | MCCacheEntry | requests one at a time, in seven worlds: integrity, resuming, `Store` implemented, every request ends but for an endless redirect, the object settles unless its row has the length of something else |
| `cache_concurrent` | MCCacheEntry | two requests at a time, in five worlds: a settled object stays settled, every request ends, followers of a dead writer included |
| `cache_nodown` | MCCacheEntry | *violated*: `_NODOWN` does not keep a second worker from writing the file |
| `cache_sticky` | MCCacheEntry | *violated*: a file with a header in it is resumed |
| `session_pass` | MCProxySession | all properties of a session |
| `session_resolver` | MCProxySession | *violated*: a request goes to another host's address |
| `reader` | MCReader | what is read does not depend on the cuts, but for the bad ones; overlong headers are given up; every step brings the end of a read nearer; every read ends |
| `exchange` | MCExchange | framing, headers, connections and cache keys of up to five requests; what is given was asked for, ordinary addresses are survived |

Every property of a passing run has a mutant in `PROJECT.json`: an operator of the module in
which a plausible slip has been made, and with which TLC finds the property violated.

### Bounds, and why they are enough

- Supervisor: three slots, `SERVERNUMBER` 1, `MAXSERVERS` 2.  The pool grows in twos, so it reaches
  `MAXSERVERS + 1` = 3, the overshoot the bound is about, and the table is exactly full; four slots where
  `ImplementsPool` is checked, so that a pool that grew too far would have the room.  Two
  rotations are one that arrives while the other is being handled, and one `open()` that fails may be
  that of either log after either rotation.  One crash, one failing
  `fork()` and three clients suffice for every action to meet every other; the theorems drop
  all of these bounds.
- Cache: two workers.  Where requests are served one at a time: three parts (first, middle, last), and worlds that
  each have one kind of fault with those that make it matter: two breaks, so that a resumed download breaks again, with
  a crash, a drop and an expiry; an error page whose length (`ErrorSize`) a torn file may have, with an expiry or a
  crash; a redirected resume with a drop; parts held back in the buffers of streams, with a crash; a failed INSERT; a
  plugin domain with `_NODOWN`, whose partial file is passed on and not resumed.  Where they are concurrent: two parts, and
  one break, error, redirect or failing INSERT, each in a world of its own.  `MaxActive`
  limits the requests served at a time, not the workers: kept connections and buffers of one
  worker meet requests of the other in every run.  `MaxData` ends the exploration once a file
  is longer than its object and grows with every request.
- Session: hosts with two and three addresses, a literal one, a parent with two; requests until the count
  of the connection saturates (`MAXALIVE` 2 for 99), one further part of an origin's body; the line ends of a redirected resume have no bound.
- Reader: streams of up to 49 bytes, cut in every way into pieces of at most 12; 12 holds an empty
  line and most frames whole, and the next frame with it.  The limit of a header (28) is passed by one that goes on
  and by blanks, that of a chunk (2) by one; `WORD` (64) is more than any stream has.
- Exchange: eleven worlds, each a family with one question (names of plugins, names of sites, plugins with a memory,
  sizes of a row and of a file, two rows of one file, torn files of plugins, requests, answers, retries, behind a parent,
  transparent), with two to five requests: as many as it takes to store, spoil, complete and ask again.  Every plugin is
  asked for at least one URL that it keeps.  `HeaderSize`, the length of a header that goes to a file, is 2.

`CHECK_DEADLOCK FALSE` stands in six configurations.  A conversation of `reader` ends.  The supervisor stops for good after
SIGTERM.  In `cache_sequential` and `cache_concurrent` browsers may be done asking once `MaxData` is
reached; a request that is stuck is what `RequestsEnd` looks for.  A worker of `exchange` may be dead, or looping, and
its requests are counted.

### Fairness

- `Supervisor!FairSpec`: the scheduler runs the master and the workers that can run; `accept()`
  returns while a client waits; a pending signal is delivered.  Nothing is assumed of clients or
  of the end of connections; `EndingSpec`, which assumes the latter, is used only where a
  violation is to be shown in spite of it.
- `CacheEntry!FairSpec`, `ProxySession!FairSpec`, `Reader!Spec`: a worker in the middle of a request goes on.  All
  its waiting is in `select()` with a timeout, and the timeouts are steps.  `BusySpec` adds that
  browsers keep asking and that time passes; only `EventuallySettled` needs it.

### What the environment is taken to do

- `ResumeOnce` (TRUE in `cache_sequential`): the browser does not keep its connection after an
  answer that was resumed.  With it the response code of the downloader, which is never reset,
  is not seen by a second resume; `cache_sticky` shows what happens otherwise.
- An error page has another length than the object (`ErrorSize # L`).  Of one of the same length nobody can tell, from
  row and answer, that it is not the object.
- A redirected resume without a length never ends, and this is in the models: `RequestsEnd` and `EventuallySettled` name it
  (`Endless`), as they must.  Browsers may leave it, and need not.
- Origins' bodies end (`MaxParts`, `L`): nothing in the code bounds them.
- `GENERAL` selects between files that the static rules cache and objects of a plugin.  `Integrity` is checked for
  requests one at a time: two workers that resume one file append the same parts twice, and the file is then
  refused for ever.
- In `Exchange` hosts can be reached, more than ten seconds pass between requests, and answers may end early but not
  break off with an error; `ProxySession` and `CacheEntry` have what is left out.
- `Survives` is about ordinary addresses (`Ordinary`): with a site below a domain that is not of two short labels, with
  parameters that have names and values, no quote or semicolon, and no name that begins with two zeros (the sum that
  `ConvertChar` makes of 0001 has one digit, of which it takes the third).  The run has others, too, of which workers die.
- `FramingAgrees` excepts two lengths that differ, some Ranges, and the redirect of a torn file, of which more line ends
  are sent than were announced; `TriedAgainOnce` excepts torn files, whose second connection is not there after a retry
  over a kept one.
- A header that ends in LF LF is not followed, in the same piece, by one that ends in CR LF CR LF: the latter
  end is looked for first (httphandler.cpp:60), and the two would be read as one.  `MCConversations` has none.
- `session_pass` has several addresses per host, or partial files to resume, but not both;
  `session_resolver` has both.

## 4. Proofs

| Theorem | States | Argument |
|---|---|---|
| `SupervisorProofs!TypeCorrect` | types | inductive as it stands |
| `PoolBounded` | `PoolBound` | with what the guards of the loop know at each `pc` |
| `InstancesCounted` | `InstancesCount` | the used slots are finite; each fork and reap changes both sides by one |
| `SlotAlwaysFree` | `SlotForFork` | from the two before: used slots are fewer than `PoolMax` when a fork is due |
| `LogsStayCurrent` | `MasterLogsCurrent`: newest files, or closed after an `open()` that failed since the last rotation | the flag is cleared before the first file is opened |
| `PoolImplemented` | `ImplementsPool`: every behaviour of `Supervisor` is one of `Pool` | each step is one of the pool or a stutter; a fork finds the pool below its bound by the two before |
| `CacheEntryProofs!TypeCorrect` | types: among them that a file holds parts, holes and headers only | `Sound`: only a miss has parts in its buffer, and no more than the object has |
| `WholeStaysWhole` | `StaysSettled` | `Calm`: among settled workers each step leaves file and row alone and makes nobody a writer |
| `ProxySessionProofs!TypeCorrect` | types | needs `ResolverInv`: a resolver that holds a name has an index below the count of its list |
| `CacheKeyIsHost` | `KeyIsHost` | `KeyInv`: a connection that is kept stands for the host the cache was last asked for |
| `PostsOnce` | `UploadsOnce`, of requests other than GET | `UploadInv`: of these, whatever is retried has not reached its body |
| `SyncKept` | `KeptInSync`, but for redirected resumes with a body | `SyncInv`: an answer without length, or cut short, drops the browser |
| `RequestsReachTheirHosts` | `HeaderReachesHost`, if nothing is resumed | `ReachInv`: with one caller of `gethostbyname()` its list is that of the name the resolver remembers |
| `AllAddressesTried` | `TriesAllAddresses`, if nothing is resumed | `TriedInv`: the addresses that the resolver passed 1, 2, ... resolutions ago are those that the attempts have tried |
| `NoLookupEndsWorker` | `LookupsLeadOn` (stated in the proof module, no run checks it): no lookup ends the worker, if nothing is resumed | `ReachInv` and the types: the index stays below the count of the list that is held, because that list is the resolver's own |
| `CacheIntegrity!AnswersAreWhole` | `Integrity`, for requests one at a time and no second resume over one connection (`OneAtATime`), whatever else fails | `OrderInv`: the file holds the first parts of the object in order (`FileInOrder`), each worker knows where in it it is (`InOrder`), and at most one of them is busy (`Alone`) |
| `OnlyPartialResumed` | `ResumesPartialFile`, under the same conditions | the same invariant: who resumes has seen a prefix, and not all of it unless the row has another length |
| `StoreImplemented` | `ImplementsStore`, under the same conditions: every behaviour of `CacheEntry` is one of `Store` | the same invariant; one lemma per group of actions says which step of `Store` it is |
| `ExchangeProofs!TypeCorrect` | types | `RequestInv`: what is read of a request with any number of lines (`RequestRead`) |
| `LengthsAgree`, `DoneAsTold` | `FramingAgrees`, `ToldIsDone` | `OutInv`: the five ways to give something to a browser, each with what it does to the connection; `AnswerUnderstood` and `PreparedForBrowser` say which length is on the lines |
| `ConnectionsAreOurs` | `HeaderIsOurs` | `AskedInv`, `OutInv` on top of `PreparedForServer` and `PreparedForBrowser` |
| `AskedAtTheOrigin` | `AskedWhereItBelongs`, also of what completes a file | `ConnectionInv`: an open connection is that to `Address`, and what was told to close is closed with the browser's |
| `NoThirdTry` | `TriedAgainOnce`, but for torn files | `ConnectionInv`: after a retry the connection is there when the header is sent |
| `GivenWhatWasAsked`, `RedirectsAreOver`, `WorkerSurvives` | `AnswerIsRequested`, `RedirectsEnd`, `Survives`, if the keys of each world satisfy `KeysTell` | `FoundInv`: what is looked up is the host of the request, so that what is found, and every file, is an object of some request's keys |
| `ReaderProofs!TypeCorrect` | types, and that the buffer holds no more than one `recv()` | `BufferInv`: the buffer is the piece of the stream from `Taken` to `recvd` |
| `FramesAreRead` | `OnlyFrames`, bad cuts included | `PlaceInv`: at every place of the functions, how far into the stream they are (`Taken`, against where the frame begins and ends), and that `temp`, `got`, `poscount` and `received` are, or count, a known piece of it |
| `FailuresExplained` | `OnlyBadCutsFail` | the same invariant; a size that is looked at again and again (`Stuck`), and a read that waits for what is not of its frame, imply `badcut` |
| `HeadersBounded` | `HeaderBounded` | the same invariant; `Small` in the places where nothing is added |
| `StepsCounted` | `StepsRunOut` | the same invariant, with a bound for `Tries`: a step takes a byte or a place from `Left`, or is one of the counted tries |

The assumptions are the named `ASSUME`s of the modules: what `TestConfig()` demands of the
configuration, that hosts, literal addresses and `None` are what they are called, that requests and answers are
records with the fields of `IsWorld`, that peers send what `IsConversation` says, and which of the names of header lines begin with which
(`NamesAssumption`: the provers know nothing of letters).  The theorems
hold for every number of slots, hosts, addresses, workers, parts, retries and faults, where the runs have
two or three.
None of the safety properties is inductive; the invariants above say what holds in the places
between, and TLC checked each before it was proved.

The last three theorems about `Exchange` leave to TLC what the string functions and ninety plugins compute of single
addresses, and prove the rest.  `KeysTell` is about the keys of a set of requests alone: objects that are kept
in one file are asked for by addresses that may have each other's answer, the target of a redirection is not redirected,
and no ordinary address ends or holds a worker, whatever the plugins have in memory; `Remembers` says what that can be.
`MCExchange` assumes it of all its worlds (`KeysAreTold`), so that TLC computes it for each pair of their
requests; a slip in those functions, such as a directory that is left out of a name, makes it false.  The theorems then hold for any number of these requests in any order, with any answers, retries and
connections kept, where the run has two to five.

Model-checked only: all liveness (`PoolReplenished`, `BacklogServed`, `ShutdownComplete`,
`RequestsEnd`, `EventuallySettled`, `ReadingEnds`), which needs fairness and is outside what the prover does.  Of
`ReadingEnds` the part that needs no fairness is proved: the count that every step lowers.
`AnswersAreWhole`, `OnlyPartialResumed` and `StoreImplemented` need requests one at a time and no second resume, and
`RequestsReachTheirHosts` and `AllAddressesTried` nothing to resume: `ResumesPartialFile` and `HeaderReachesHost`
do not hold in general, as runs show.

`Headers` goes through lines from first to last, by recursive functions, and so does `Reader` through the frames
of a stream.  `Counting` has what an induction needs, without the operator parameters of the library's theorems: `AllNumbers`, induction for a set of numbers, from
`WFMin`; and `StepByStep`, that a function with a given step exists, so that a recursive definition is equal to its
body.  With them `OnlyLines` and `RequestRead` of `HeaderProofs` hold for lines of any number,
and `SentStep` and `Inside` of `ReaderProofs` for frames of any number.

The theorems about `Reader` are for all conversations, limits and sizes of `recv()`.  Two bounds stay in the model
itself: a byte is one of the few of `Bytes`, and a size has one digit that is not zero (`Digit`).  The proof first says
where the parts of a frame are in the stream (`HeaderLayout`, `ChunkLayout`), then what `find()` gives on a piece of it
that begins and ends anywhere (`EndFound`, `SizeOf`, `SizeNotYet`), and then has one lemma per action.

What the proofs found.  Each of these was in the model and not in the worlds of the runs, which have it now:

- Two lengths that differ pass on together; `FramingAgrees` excepts them (connectiontohttp.cpp:41 says they are an error).
- An answer that is chunked and announces a length is refused (proxyhandler.cpp:347), after its length has
  become that of the row (connectiontohttp2.cpp:374).
- A Range that begins behind the end of an empty file is announced with a negative length (connectiontohttp2.cpp:336).
- The body of a GET that is answered from the cache is sent to whatever connection is kept (proxyhandler.cpp:281);
  `AskedWhereItBelongs` excepts it.
- A last chunk whose size has more than six zeros in front is refused, as other chunks with such a size are
  (httphandler.cpp:243); `TooLong` covers it.

## 5. Disagreements between code and documentation

Shown by runs:

- `supervisor_workerlogs`: SIGUSR1 sets `childrestart`, which nothing reads; after a rotation the
  workers write to the old files (helper.cpp:39 against thunder.cpp:134).
- `supervisor_starved`: a worker serves one browser connection and never accepts again
  (proxyhandler.cpp:38); where it stalls instead of aborting, a full pool accepts nobody.
- `cache_nodown`: while it downloads, a worker sets the modification time of the file to 0
  (connectiontohttp2.cpp:518, utils.cpp:218), so another one does not see a download in progress and,
  also with `_NODOWN`, writes the same file (against connectiontohttp2.cpp:85 and thunder.conf:96).
- `cache_sticky`: the response code of the downloader is never reset (connectiontohttp2.cpp:284), so
  a worker that resumes a second time leaves the header unread and appends it to the file; the next
  resume is not one of a partial download (against connectiontohttp2.cpp:171).
- `session_resolver`: the address list of the last name, whoever resolved it, is indexed by the
  socket's own counter (sockethandler.cpp:487).

Met while reading, and in the models as the code has it:

- A header whose last byte comes alone is not read (httphandler.cpp:99), and neither is a chunk whose size comes in two
  pieces (httphandler.cpp:226); see *Reader* above.
- A chunk size of eight digits is refused (httphandler.cpp:243), where the comment above it says "max 8 hex".
- `HeaderSend` is never set (proxyhandler.cpp:781): after a failure in the middle of a body a second
  header follows it.  `given = "garbled"` records this.
- A retry that ends well clears `DropServer` (proxyhandler.cpp:148), also when this answer asked for the
  connection to be closed.
- The pool reaches `MAXSERVERS + 1` (thunder.cpp:186; thunder.conf:130 calls it the limit).
- The fork loop does not reap (thunder.cpp:150), so in a table smaller than `PoolMax` it waits for slots that
  zombies of its own hold.
- `_NORESUME` is read the wrong way round (connectiontohttp2.cpp:98): a plugin domain is resumed if it is TRUE.
- The size of the row is updated before the response code is looked at (connectiontohttp2.cpp:374), so an
  error page, or the answer to a HEAD, changes what the file is compared with: a torn file of just that length
  becomes a hit, cut short.  `Integrity` tells such answers from the object's by the length they announce.
- Behind a parent proxy the first request is looked up under the empty name, and never kept; later ones on the
  kept connection are looked up under the parent's name (connectiontohttp2.cpp:236), so that files of the same
  path at different sites are one.
- Hosts that are numbers lose the first of them: 10.0.0.1 and 11.0.0.1 share their keys.  "/x.gif" and
  "/x.gif/x.gif" do, too, and "/d/x.gif" and "/d//x.gif" are two rows of one file, which each compares with its own size.
- A hit leaves `ServerConnected` true without a connection; the next miss fails to send, and is retried.
- Any If-None-Match is answered 304 if the object is a hit (connectiontohttp2.cpp:310).
- A Range that counts from the end is answered 206 with a length that the body does not have, on a
  connection that is kept; one from beyond the end gets a negative length.  The start is cut out of the
  first line by a position computed in another string (connectiontohttp2.cpp:264).
- `bool AnalyseHeader` (connectiontohttp2.cpp:352) hides the error codes -230 and -232, so answers with two lengths, or
  one that is no number, pass on (against the comment of connectiontohttp.cpp:41).
- Bytes that an origin sends late, after the length it announced, are read as the next answer (proxyhandler.cpp:370).
- A host of two short labels, like bbc.com, ends the worker (utils.cpp:112), and so do paths that are shorter than a
  plugin expects.  A name with a quote in it (database_mysql.cpp:74), or google's partner if it is part of the
  owner's, keeps it for ever (utils.cpp:40).
- The live.com plugin redirects an address without `q` to itself; those of avg.com and nai.com look for sites (avg.com.so,
  nai.com.so) under which they are never loaded; akamaihd's joining with "_" can give two addresses one name.
- Four plugins name an object by a global that an earlier request has left (fbcdn.net.cpp:29).
- Two workers that resume one file append its parts twice (connectiontohttp2.cpp:441).
- A resumed request that is redirected leaves `rewrited` and `r.match` set (connectiontohttp2.cpp:287): the length of the
  redirect becomes the row's, and the browser is sent line ends, for ever if no length was announced (:432).
- After an `open()` of the error log that fails, the access log is closed and not opened (logfile.cpp:45), and nobody looks
  at the result (thunder.cpp:129).
- The body of a GET that is tried again is read from the browser again (proxyhandler.cpp:250), from what it sent next.
- The name 0001 ends the worker: the sum of its digits is 0, of which `ConvertChar` takes a third digit (utils.cpp:279).

## 6. Plan

1. An abstract reader, which takes whole frames, as the specification that `Reader` implements on the
   streams without bad cuts.
2. What two workers at once keep of `Integrity`, which does not hold there: two that resume one file append its parts
   twice.  A file that is longer than its row is refused for ever, and a bound of what browsers then get can be stated.
3. The parser of the configuration, and the start of `main()`.

## 7. Not modelled, and why

- Contents of logs and messages, configuration syntax, daemon start: no property is about them.
- MySQL, the resolver library, the browsers and origins: external, modelled by how the code uses them.
- The SSL tunnel: not compiled in.
- `setTOS`, access control lists of ports: pure decisions that only select between behaviours the models already choose from.
- The refusals by `*_MIN`, `*_MAX` and `CACHE_LIMIT`, and failing queries other than the INSERT: they turn a miss into a
  direct answer, which the models have.
- Which directories `ConvertChar` spreads the files over: they depend on names that are in the path anyway (where it
  throws is modelled).  The letters inside of words, so also names that differ in characters the code drops.
- How many bytes an old descriptor number of the log swallows after a failed `open()`, if it was given to another file.
- In `Exchange`, what two workers at once do to a file, and files that break off while they are completed: `CacheEntry` has
  both.  That every hit is whole is no property of `Exchange`: of one request at a time `Integrity` says it, and
  the bytes that a file was given beyond its row are not told apart from the object's there.
- grandchase.com.br, whose `getmatch()` ends without a return; `base64_encode` and `XOR`, which nothing calls.
- thunder.php, the init script, update-conf, the build files: not part of the running program.
