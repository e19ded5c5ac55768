# amarr in TLA+

amarr lets Radarr, Sonarr and other clients search eD2k and Kad and download through
aMule: it answers the Torznab and the qBittorrent protocols over HTTP and speaks the aMule EC
protocol, the eD2k server protocol and Kad behind them. The HTTP handlers are
synchronous functions, so FastAPI runs them on a pool of threads; all of them share
the objects built at start-up. This directory models what these threads, the timers
they arm and the peers they talk to can do to the shared state.

## 1. Inventory

| Component | Source | State | Operations | Talks to |
|---|---|---|---|---|
| EC connection | `jamule/connection.py` | `_connected`, `_socket`, `_reader`, `_lock` | `send_request`, `reconnect`, `_authenticate` | the aMule core over TCP, called by the aMule client |
| aMule client | `jamule/client.py`, `request.py`, `response.py`, `model.py` | none of its own; the core has one current search, a download queue and shared files | `search_sync`, `get_download_queue`, `get_shared_files`, `download_ed2k_link`, `send_download_command`, `set_file_category`, `get_stats` | EC connection |
| EC codec | `jamule/ec/*` | none | parse and write packets, tags, UTF-8 numbers | EC connection |
| eD2k server session | `ed2k_session.py` | `_conn`, `_timer`, `_lock` | `search`, `close`, `_idle_close` | one eD2k server over TCP, a timer thread |
| eD2k protocol, high-id search | `ed2k/server.py`, `ed2k/core.py` | a connection, a callback listener with a thread of its own | `login`, `search`, `recv_packet`, `ServerSearch.search` | eD2k server, UPnP |
| Kad session | `kad_session.py` | `_pool`, `_timer`, `_lock` | `search`, `close`, `_idle_clear` | a `KadClient` per search, a timer thread |
| Kad lookup | `ed2k/kad.py` | contacts, results of one search | `keyword_search`, `enrich_sources` | Kad nodes over UDP |
| UPnP | `ed2k/upnp.py` | a port mapping at the router | `open`, `close` | the router |
| Search cache | `cache.py` | rows (backend, query) -> results, time | `get`, `put` | SQLite file |
| Indexers | `torznab/indexer/*.py` | the lazily created sessions | `search`, `_raw_search_cached` | cache, the three engines |
| Torznab API and aggregation | `torznab/api.py`, `torznab/indexer/aggregate.py` | none | queries, spellings of an episode, merging, deduplication, paging | indexers |
| Links | `magnet.py` | none | magnet and eD2k links, made and read | Torznab and torrent routes |
| Torrent service and API | `torrent/service.py`, `torrent/api.py` | none of its own | add, delete, list, categories | aMule client, category store |
| Category store | `category/store.py` | hash -> category, known categories | `store`, `get_category`, `delete`, ... | SQLite file |
| Wiring, configuration, pages | `app.py`, `config.py`, `homepage.py`, `debug_api.py` | none after start-up | | |

Which behaviours are hard, and what makes the component correct:

* EC connection: the flag is tested and cleared outside the lock that guards the
  socket. Correct means: exchanges never overlap, an answer reaches the request it answers,
  the flag never promises a socket that is not authenticated, a failure is not forgotten, and
  service resumes when the failures stop.
* eD2k server session: the idle timer races the searches; an answer can come
  after its time-out; the retry logs in again. Correct means: the connection
  is closed only when idle and always when idle long enough, no query is answered with the results of
  another one, and a search logs in at most twice.
* Kad session: searches run concurrently outside the lock, and each arms a timer.
  Correct means: the pool is kept for the idle period and no longer, is bounded and keeps the
  contacts seen last.
* Cache and indexers: three engines with different failure modes behind one cache;
  `search_sync` is a sequence of separate requests on the core's only search. Correct means: an entry
  holds results of its own query, is served only within the TTL, and is never the trace of a failure.
* Torrent service: it owns only the categories and reads everything else from
  two snapshots of the core. Correct means: no file is missing, nothing is reported complete
  that is not, a category exists for every download it was given for and for no other; the figures agree.
* EC codec and messages: one payload error must not touch the next packet, and the core leaves out
  tags and sends each number in the narrowest type. Correct means: what is written is read back, what is
  cut is refused, and every reply is understood whatever is missing.
* Feeds and links: a page is cut from lists merged anew each time, and a result becomes a magnet
  link, an eD2k link and a file of aMule. Correct means: pages leave nothing out, and the file listed is the one chosen.
* High-id search: a listener, a mapping at the router and a connection, any of which may fail. Correct
  means: all is released, in the order in which the server can call back as long as it thinks so, and the search ends.

The full list of hazards, line by line, is in `PROJECT.json`.

## 2. The modules and how they fit

```
FeedPages ──┐                                    (engines' results -> feeds -> links)
TorrentView ┴── GrabFlow                         (search, page, grab, download, list)
   └── ECMessages ── ECTag ── ECEncoding         (requests, replies, fields, numbers)
                       └── ECCodec ── ECStream   (packets as bytes on one connection)

TorrentService ──┐                               (torrent routes, category table, aMule's files)
                 ├── uses ── AmuleConnection     (one EC connection shared by all threads)
SearchPipeline ──┘
   │  cache, three engines, "all", aMule's one current search
   ├── uses ── Ed2kSession ── implements ── ExclusiveSession
   └── uses ── KadSession ── one lookup of its search is ── KadLookup

HighIdSearch                                     (library path: listener, mapping, search)
```

The modules compose by atomicity. `AmuleConnection` shows that one request and its answer are an
exchange nobody can disturb and that every request ends; `SearchPipeline` and `TorrentService`
therefore take one EC request as one step, and interleave everything between two requests.
`Ed2kSession` is shown to implement `ExclusiveSession` (one user at a time; the
connection is closed by its user or when there is none), so that a search of that session is one
step of `SearchPipeline`; the one way in which a search then reads an answer that is *not* its own (one
a connection still owes) is kept there as the variable `owed`. A Kad search touches shared state only in two critical
sections, so for the pipeline it is one step too. `KadLookup` is what happens between the two: it has
a socket of its own, gets the seeds and leaves the contacts (`contacts`, which include the seeds, as
`EndSearch` of `KadSession` assumes).

The upper group is about data, the lower about interleavings. `ECStream` is what is on the wire of one
direction of an `AmuleConnection`; `ECMessages` gives the packets a meaning; `GrabFlow` composes them
with the feeds and the views to follow one file from a result to the listing. What `TorrentService` does with
hashes and `SearchPipeline` with lists of results, `GrabFlow` does with their contents.

Every module that TLC runs has a module `MC...` that adds the symmetry or the instance's data. A definition called
"Mutant of X" is X with a plausible mistake; no specification uses it. It is what a property must
be able to tell from X.

### AmuleConnection (`jamule/connection.py`)

State: per thread the place in `send_request` (`pc`), the packet it is about (`phase`) and how its
last call ended (`out`); `_lock`, `_connected`; the socket (`sock`, `authed`, `link`, `timedOut`,
`late`). Actions: the unlocked test of `_connected` (`SendRequest`), the two critical sections
(`Reconnect`, then `BuildSocket`/`BuildFails` and the two packets of `_authenticate`;
`SendPacket`/`SendFails` and one `Receive...` action per way the answer can end: answer, EC_OP_FAILED, end
of stream, OSError, time-out), and `Invalidate`, the except clause that clears the flag after the lock is
released. The core may close its end at any time (`PeerCloses`); all such events count as `faults`.
Frame contents are abstract: a packet is of phase salt, password or request.

### Ed2kSession and ExclusiveSession (`ed2k_session.py`, `ed2k/server.py`)

State: per thread place, query, attempt and logins; `_lock`; `_conn` with the server's end and the queries
sent but not answered (`inFlight`); two pieces of history, `owing` (a search has left this connection without its answer)
and `stranded` (the last search left it by an exception); the handle `_timer` and every Timer object, which is free, armed
or *fired*, that is, waiting for the lock in `_idle_close`, where `cancel` no longer reaches it.
`persistent` is `idle_seconds > 0`, chosen in the initial state. Actions: `BeginSearch` (lock, cancel),
`ReuseConn`/`Connect`/`ConnectFails`, `SendQuery`, `ConnDown` (OSError/ConnectionError: once more,
then give up), `ReceiveResults`, `ReceiveTimesOut` (an empty list, connection kept), `ReceiveMalformed`
and `LoginMalformed` (an exception no clause catches, from a packet that was the answer or any other one, so that the answer
may still come), `Close`, `TimerFires`, `IdleClose`, `ServerDrops`. `_after_search` and the
release of the lock belong to the step that ends the search.

### KadSession (`kad_session.py`)

State: which threads are looking up, from which seeds; `_pool` as a sequence of distinct contacts in the
insertion order of the dict; `_timer` and the Timer objects as above. `BeginSearch` and
`EndSearch`/`SearchFails` are the two critical sections of `search`; a lookup returns its seeds
plus any contacts it was told of, in any order.

### KadLookup (`ed2k/kad.py`)

State: the window that is open (`stage`), what is looked for (`goal`: the keyword, then each file whose
sources are counted), `contacts`/`pool`/`queried`/`alive` as in the code, what the open window was told, the
results heard in order, and `air`, the answers that were sent. An answer in `air` may be received in any window
or in none, and again: loss, delay and repetition need no actions of their own. `ReceiveContacts`, `ReceiveResults`
and `ReceiveSources` are what the three kinds of window make of a packet. A window ends with the merge of
what it was told and the next requests, in one step: `AskRound`, `AskHolders`, `EndKeywordSearch`, `EndSourceSearch`. Which nodes
answer and how the network is linked are chosen in the initial state. Packet contents are
abstract: an answer carries what its sender knows, whole. The query has at least one word.

### SearchPipeline (`cache.py`, `torznab/indexer/*.py`, `AmuleClient.search_sync`)

State: per thread the request, and per (thread, engine) the stage of the call and the list it
holds; the rows of `search_cache` with their age; aMule's one current search (`core`); the answer an
eD2k server still owes; whether the networks have `changed` since the start. `Hit`/`Miss`/`Store` are
`_raw_search_cached` around the cache; `StartSearch`, `Settle`, `EndPolling`, `Fetch` are the separate
requests of `search_sync`; `SearchSession` is a search of the other two engines; `CaughtError` and
`EscapingError` are the exceptions inside and outside `_SEARCH_ERRORS`, from any stage;
`Answer` is the route's reply, for `all` after every engine has ended; `Restart` kills the process and keeps
the SQLite file. A row that has expired is the same as none.

### TorrentService (`torrent/service.py`, `torrent/api.py`, `category/store.py`)

State: per thread the next step, the arguments still to be worked on and the two snapshots; what aMule does
with each file (absent, queued, sharing = queued and already shared in part, complete, gone = removed
from the disk but still listed); table `file_categories`. One action per EC request or table access
of the routes info, add, delete and delete all; `RequestFails` is an EC request that fails, and the
commands may also take effect and lose their answer. `AmuleStep` is aMule's own progress. The other
variables are history: `named`, `sound`, `owned`, `erased` record which promises hold, `kept` and `underway`
what stayed true during a listing.

Assumed of aMule, which is outside `src/`: a completed file leaves the queue and stays shared in one
step; DELETE for a file that is not in the queue is refused (EC_OP_FAILED, which the client raises); an
acknowledged link means that aMule has the file; a search shows as 100 % in its first moments
(`client.py`, the comment before the 15 polls).

### ECEncoding, ECTag, ECCodec and ECStream (`jamule/ec/*`)

Operators, one per function of the code: fixed and UTF-8 numbers (`ECEncoding`), the values of the ten tag types and
the `find_*` accessors (`ECTag`), the encoder with its "theoretical" lengths, flags, zlib, the writer and both
parsers (`ECCodec`). Bytes are 0..255 and indices start at 1; an exception is the empty sequence, a
result a sequence of one. zlib is external: a block announces what it expands to, so that one
that is cut, that is not zlib's or that expands too far is refused; the size limit is the code's. `ECStream` puts such packets on one direction of a connection: packets that can be written and some that
cannot, the peer's malformed payloads (cut after any byte, a byte too long, an unknown op code) and the end of the connection
inside a packet.

### ECMessages, TorrentView, FeedPages and GrabFlow (`request.py`, `response.py`, `model.py`, `client.py`, `torrent/*`, `torznab/*`, `magnet.py`)

`ECMessages` has a table per kind of reply, field -> (how it is read, tag), and one operator for each way a field is
read: absent and default, absent and None, absent and an exception, and the widths it is accepted in; `parse` is
`ResponseParser.parse` in its order, `Returned` the `isinstance` tests of the client. `TorrentView` is the service's
listing of a file, `FeedPages` the filter, links, deduplication and pages; `Comprehension` is Python's list with a
condition, in a form that can be proved about. `GrabFlow` has the client's search and
pages, `Grab` (`add_torrent` of one link, which aMule may refuse), aMule's progress, `ListTorrents` and `Ask` (every other call of the
client). What a caller may ask and be told is an *exchange*: a request, a reply, what the call ought to do with it (return, refuse,
or either: `due`) and the number it tells, if any; `StatsExchanges` and its siblings vary the plain reply by a tag left out or one more,
a number of any width among them. What is due is taken from what the code says of itself: no tag is needed for a listing of the queue
or of the shared files ("aMule omits tags", `model.py:85-88`), and a number is converted or refused (`tag.py:138-221`).

### HighIdSearch (`ed2k/server.py` `ServerSearch`, `ed2k/upnp.py`)

State per search: place, advertised port, callback listener and whether it was told to stop, whether a mapping is held, the
connection and the id the server gave; the router's mappings. The two nested `finally` blocks are the last
three actions. The listener's own loop may end by an error of `accept` at any time (`ListenerFails`): it is then *broken*, and nobody notices. The host may be public, the port taken; the router may be absent, refuse, act and lose its answer; the server sends anything at any time. A
packet is received in one step.

## 3. What the runs check

A passing run says that TLC found every reachable state of the instance to satisfy the properties.

| Run | Instance | Shows |
|---|---|---|
| `amule_connection` | 3 threads, 2 faults of any kind, busy callers | no exchange is disturbed, no answer reaches another request, the flag is honest, failures are not forgotten, no refusal without a fault; every request ends and service resumes |
| `ec_stream` | 13 packets, 2 in flight, 80 bytes decompressed, one fault at a time | packets arrive as written, broken ones are refused, and the stream stays in step |
| `ed2k_session` | 2 threads, 2 queries, 3 timers, up to 2 unread answers, all failures, malformed packets included | serialisation, no use after close, timers, at most one login per attempt, own results unless the connection owes an answer, refinement of `ExclusiveSession`; an idle session closes for good unless its last search met a malformed packet; searches end |
| `high_id_search` | 2 searches, 2 ports, any failure of router, server and listener | nothing is left open, nothing of its own freed while the id is high, searches end |
| `kad_lookup` | 4 contacts, 2 networks, any of them silent, 2 files under several names, 2 rounds of 2 | the nearest reachable nodes are asked, results keep the highest availability, sources are counted for the right file, the search ends |
| `kad_session` | 2 threads, 3 contacts, pool of 2, 3 timers | the pool is bounded, nothing merged is lost, and it is discarded |
| `search_pipeline` | 1 thread, routes `amule` and `all` over aMule and eD2k, late eD2k answers, 2 queries, TTL 1 | no error and no half-begun list is cached, rows answer their query; `all` always answers, after both engines |
| `search_live` | 2 threads, aMule, 1 query, TTL 1 | only an overlap leaves a half-begun list in the cache; requests end even if aMule never finishes; old results leave the cache however often the query is asked |
| `grab_flow` | lists of up to 3 results from 1 or 2 engines and 1 or 3 spellings, pages of 1 and 2; numbers of each width, any one tag left out or added | pages tile, the grabbed file is the one listed, no listing fails for a left-out tag, numbers come out exact or are refused, figures agree |
| `torrent_service` | 2 threads, 2 files, up to 2 links or hashes, all routes | what exists throughout a listing is in it; what is downloading throughout is not listed as done; what is confirmed without overlap stays true through failures, completion and restarts |

Two runs are expected to find a violation, because the code does not do what it says of itself (the
quotations are in `PROJECT.json`):

* `search_amule_crossed`: two concurrent aMule searches share the core's only search, and the results of one are
  cached for the other. `OwnUnlessCrossed` says what is left of the promise, for every request and any number of
  threads: a list that is cached is no error, and it is its query's own and not that of a search that has only just
  begun, unless another thread started a search in aMule meanwhile. `search_live` checks it with two threads,
  `search_pipeline` with the late answers of an eD2k server; it is proved for any number of both.
* `grab_listing_size`: a download whose size aMule leaves out makes the listing of all torrents raise.
  `_compute_progress` guards against an absent size and says so (`service.py:143-148`), but `_compute_eta` (line 134)
  has already subtracted from it.

Seen while modelling, and built into the models without a run of its own.

* EC connection: the end of the stream raises `InvalidECException`, not `OSError`, so the flag stays set and the next request
  fails as well (`SocketDiscipline` and `ServiceResumes` allow for it); a thread that saw the flag set can send its
  request on a socket another thread has just rebuilt but not authenticated (its answer is then AUTH_FAIL), and
  threads that saw it clear reconnect one after the other.
* eD2k session: after a time-out the connection is kept, and the late answer is read as that of the next query
  (`OwnResults` is about connections that owe no answer); a time-out in the middle of a packet loses the bytes already taken
  (`server.py:130-145`), so later reads may start inside one; a timer that has fired closes the connection of the search it waited for. A
  malformed packet (`server.py:140-149`: a size of 0, bad zlib) leaves the connection open, without a timer until the next search, and
  if it was not the answer itself the answer comes later and is read by that search. `stranded` and `owing` record both, and
  `IdleConnectionCloses` and `OwnResults` except exactly these connections.
* Kad session: overlapping searches each arm a timer and only the last can be cancelled, so an orphan may discard a pool
  that has just been used; a lookup that raises leaves the pool without a timer; the pool drops contacts met again
  before those met long ago, and holds contacts that never answered.
* Kad lookup: it ends its rounds at once when nobody is left to ask, even if answers are still on their
  way; a file known under several names is judged by the name with the highest availability.
* Searches: an eD2k search nobody answered is cached as an empty list, and one that read the late answer to another query caches
  what `filter_by_query` (`ed2k_session.py:80`) leaves of it, which is fit for the query but not all of its results; exceptions of the aMule client
  end a request with HTTP 500; two identical requests both search.
* Feeds: `total` counts only the lists asked for (`offset + limit` per engine), so a client must stop at a short page, as the one in `GrabFlow`
  does, not at `total`; if an engine fails between two pages the pages no longer tile (in the model an engine is down for all pages or none).
* Listing: a file shared in part between the two snapshots is listed as done; a file that cannot be removed is
  reported as deleted. One file without hash, name or size, or one download without size or speed, fails the whole
  listing, and so does one number wider than its field: a source count above 65535 makes the accessor raise (`tag.py:186-188`, `model.py:98`).
* Replies: the salt is read as a 64-bit tag only (`response.py:440-443`), so one that happens to fit in 32 bits refuses
  the login; fields that are read from bytes only (flags, small enumerations), and `kad_ip_address`, `buddy_ip` and `buddy_port`, take a tag of another width for absent.
  A packet with unknown transmission flags is refused with the rest of it unread on the connection (`packet.py:227`).
* Cache: a `sqlite3.Error` escapes `cache.get` and `cache.put` alike (`EscapingError`, also from `lookup`).
* High-id search: `_read_exact` does not look at the deadline, so a server that trickles one huge packet keeps the search (a
  packet is one step in the model). Two searches on one fixed port: the second's port may be answered by the
  listener of the first; and the listener is stopped (`server.py:292`) before the mapping is deleted (294), so a search that maps the
  port in between has its mapping deleted. `ReachableWhileHighId` is about a search alone on its port.

### Bounds, and why they are enough

Three threads on the connection: one inside the lock, one that read the flag before and one that clears it after. Two
faults: one to bring the connection down and one while it is being repaired. In the sessions two threads overlap in every way,
and timers outnumber the threads, so that one may have fired, one be orphaned and one armed; of three timers
one waits for the lock (the bound in `TimerFires`). Two unread answers are one the connection owes and one of the search itself. Two queries tell an own result from another's. The pool holds two of
three contacts, so it overflows. Two rounds of two requests are
enough to ask all four contacts and, if answers are late, too few: both ends of the lookup occur; a chain
and a network with a shortcut make near nodes visible only through others. TTL 1 gives a row the ages fresh, last moment and expired. Two files
are needed for a step on one to harm the other. `MaxFaults`, `MaxInFlight`,
`MaxLinks`, `MaxHeard` (results read by one lookup), the number of timers and `Huge`, the number
that stands for every larger one in `ECEncoding`, are the only bounds that are not in the code. In `ec_stream` a
second packet in flight is what an error in the first could harm, and the packets have the lengths at which a number takes one more byte;
80 bytes lie between the two compressed packets. Requested pages of 1 and 2 over lists of 3 put the end of a list inside,
at and after a page. The numbers of `grab_flow` need one to four bytes, and the sizes lie on both sides of the longest time left. Two searches and two ports: one
they share and one they do not. A call of `Ask` or a search of `GrabFlow` starts only when nothing else is under way; they touch nothing
that another one reads.

### Fairness

* A running thread runs on, and a socket call returns, because the socket has a time-out or the peer answers or
  closes (the EC socket that `app.py` builds has none, so for aMule it is the latter): weak fairness on the steps inside the critical sections.
* A thread that waits for a lock which is released again and again gets it: strong fairness on the acquisition.
  `threading.Lock` promises no order, but no thread takes it again without returning to its caller first.
* An armed timer expires (weak), and its thread gets the lock (strong, `IdleClose`).
* `BusySpec` adds that callers go on calling; only `ServiceResumes` needs it.
* In `SearchPipeline` only the normal steps, the passing of time and the first moments of a core search are fair: errors never
  have to happen, and aMule need not ever finish a search.
* A window of a Kad lookup ends by the clock (weak, `EndWindow`), whatever still arrives. `KadSession` relies on it: a lookup ends.
* In `HighIdSearch` a search runs on and its calls end by their time-outs, the deadline of a loop passes, and the listener's `accept`
  times out every half second (`server.py:210-225`). That packets keep coming is not excluded.

## 4. What is proved

TLAPS checks the following for every set of threads, queries, timers, searches and ports, and every bound.

* `AmuleConnectionProofs`: types, `ConnectedIsAuthenticated`, `SocketDiscipline` (exclusive exchanges, a socket for every thread
  past the unlocked test, failures that bring the flag down), `OwnAnswer`, `NoDenialWithoutFault` and the action
  property `SocketHeldDuringExchange`. None is inductive alone: `IInv` adds that outside an exchange a
  thread's packet is a request (`PhaseInv`), that during `reconnect` the flag is down and the socket, once built, is
  open and unbroken (`ReconnectInv`), that a late answer exists only after a time-out (`LateInv`), and that without faults the
  socket is good or being made (`FaultFreeInv`). Each action has a step of its own.
* `Ed2kSessionProofs`: an invariant in three layers, each proved from the ones below: types and the query of a running search; the
  lock, the connection, the timers and the logins; and that on a connection that owes no answer the only outstanding
  one is that which the searching thread waits for, whatever malformed packets came. From it follow `SessionDiscipline` (serialised searches, no use after close,
  an armed timer is the one that can be cancelled), `LoginsPerSearch` and `OwnResults`; `OpenConnectionHasTimer`, for every server, with the connection stranded by a
  malformed packet as the one exception; and that every step is a step of `ExclusiveSession` or leaves its variables alone.
* `HighIdSearchProofs`: types, `NothingLeftBehind` and `ReachableWhileHighId`, with a listener that may break at any time. The invariant adds where a search has a port and
  listens (`PortInv`), where it has a connection and an id (`ConnInv`), and that a mapping is on the port its search
  advertises and will be deleted unless the router has not said that there is one (`MappingInv`).
* `TorrentServiceProofs`: types, `ListsWhatStays`, `UnderwayIsNotDone`, `AddedStaysListed` and `DeletedIsGone`, for any number of
  threads, files and links in a request. The invariant says of every thread how far its route has come (`RunningInv`): a listing has in its two
  snapshots what stayed while it ran (`ListingOf`), an addition has stored or is about to store every link it has sent (`AddingOf`), a
  deletion has removed what it has passed (`DeletingOf`). While nothing overlaps (`sound`) the files a request names are its own
  (`NamedInv`, `SoundInv`), so that what it has confirmed (`owned`, `erased`) is true when it replies and no later step undoes it
  (`AddedInv`, `ErasedInv`). `OthersUntouched` and `OnlyNamedFiles` are the frame: a step changes only files its request names.
* `SearchPipelineProofs`: types, `AllAnswersWithEveryEngine` and, for any number of threads, engines and queries, `OwnUnlessCrossed`
  (`ListsAreOwnOrCrossed`), what holds of `CacheHoldsOwnResults`, which is false when two requests search in aMule at a time; and
  that every row comes from an engine that has returned a list (`ErrorsAreNotCached`). The invariant says what
  the core's one search is when its starter polls it: its own and past its first moments, unless somebody else's (`CoreInv`,
  `CurrentInv`), and that of every list held or stored what `OwnOrCrossed` asks holds (`ListsInv`).
* `KadSessionProofs`: types, with the bound of the pool, and `NothingForgotten`. It rests on what an order of a set
  is (`OrderOfContacts`) and on sequences without repetitions put together and cut (`ConcatDistinct`).
* `KadLookupProofs`: types, `FindsNearest`, `KeepsHighest` and `SourcesOfTheFile`, for every network, every set of seeds and files, whatever
  was published, any number of rounds and requests. `NetworkInv` relates the search to the network: everybody asked has an
  answer under way, an answer that was made use of has given its contacts, and no node that answers is known but those in every set that is closed under
  giving away contacts. When everybody was asked and heard, the nodes alive are such a set themselves, hence the reachable ones (`AliveIsReachable`).
  `SourcesInv`: an answer about a file counts for that file, also when the file is no longer, or not yet, looked up.
  `DedupKeepsHighest` is an induction over the results read (below).
* `GrabFlowProofs`: `Utf8RoundTrip`, for every code point and whatever stands before and after it: the number that was
  written is read, from its own bytes only. It rests on the digits of a number in base 64 and on how the first byte
  tells the length. `ec_stream` shows the same inside packets, for a few numbers. `EtaAgrees` and `ProgressAgrees` say of the
  two formulas of a download's figures, for every size and speed, what `FiguresAgree` checks on a few. `PagesAreComplete` is `PagesTile`
  for whatever is found, any number of engines and spellings, any engines down, any page size. Its lemmas are about `FlattenSeq`
  (`FlattenFacts`) and `Deduplicated`, which is `New` with nothing seen yet: `New` of a concatenation is `New` of its parts
  (`NewConcat`), n items without repetitions need the first n of every list only (`MergeNeedsTops`: the step that asking each engine for
  `offset + limit` relies on), and lists may be deduplicated before they are merged (`MergeOfDeduplicated`: spelling
  by spelling, then all). So all pages are cut from one list (`PageOfEverything`), and what a client has seen is its beginning.

  The way of a file is proved for every set of files (any hash of 16 bytes, any name, any size) in three parts. First the
  links: a number is read from its decimal digits (`DecimalRoundTrip`), a name from its escapes, which leave none of the symbols that
  separate the parts of a link (`EncodedText`), and `Split` therefore finds the parts that were joined; so a magnet link and an eD2k
  link are read as what they were made of (`MagnetRoundTrip`, `Ed2kRoundTrip`, both in `GrabbedLink`). Second the listing: from
  the tags of a file, with any one left out, `parse` and `get_torrent_info` make exactly one entry with its hash, name, size and figures,
  or raise (`ListingOfFile`). Third the state: neither `GrabbedIsListed` nor `FiguresAgree` is inductive, because they speak
  about listings only, so `FlowInv` adds what holds in between: what pages have shown are items of files or the answer to
  an empty query (`ShownInv`), the file aMule has is the one the grabbed item stands for, with no more done than its size,
  and it is out of the queue only when complete (`FileInv`), and the last listing is one of the file as it is (`ListedInv`).

  Of `RepliesAreUnderstood`, which `grab_flow` checks for every exchange, three parts are proved. `LinksAreTaken`: for every set of files and
  every page, a link of the feed is taken to aMule without an exception unless aMule refuses it. `LeftOutTagsAreTolerated`: whatever can be
  read as a shared file or a download can be read with any set of its tags left out; the tables of their fields hold only ways of
  reading that have a default (`LenientRead`), and a table raises exactly when one of its fields does (`ReadAllRaises`). `NumbersAreExact`:
  the six ways of reading a number give what was sent or raise, for every number and integer type, and never raise for one of 16 bits. That
  the other calls (status page, categories, login, commands) return or refuse as they ought is model-checked only.

The proofs assume only the named assumptions on the constants. `FilesAssumption` says what the files are: hashes have 16 bytes,
none of which is a symbol of links (a hash is base 32 or hexadecimal there), sizes are natural numbers, and names are not empty: from an
eD2k server and from Kad a nameless file comes as "no_name" (`core.py:57-67`), and aMule names what it finds. For an empty name the link could
not be read back, because a part of a magnet link without a value is passed over (`magnet.py:85`). `HashesAssumption` and
`ContactsAssumption` say that the hashes and contacts there can be are finitely many; both have 128 bits. `FoundAssumption` says that
no engine lists a link twice. For Kad the code sees to it (`kad.py:356-360`); that an eD2k server and aMule name a file once in an answer
is an assumption on them: with one engine nothing is deduplicated, and with several a repeated link makes a page short before the end.

The dict `dedup` of a Kad search is a recursive function. So are `FlattenSeq`, `Decimal` and the value that `FromDecimal` computes. The induction theorems of the library cannot be instantiated, so the
induction is done in first order: the set of the prefixes for which the claim fails would have a least element
(`LeastNatural`, from the well-foundedness of finite sets), and that one does not exist. The same argument shows that the function exists.

Only model-checked: every liveness property (`RequestsEnd`, `ServiceResumes`, `IdleConnectionCloses`, `SearchesEnd`, `PoolDiscardedWhenIdle`,
`LookupEnds`, `OldResultsExpire`: fairness and ENABLED are out of the prover's reach), and what the recursive codec of tags and packets does (`ECCodec`,
`ECStream` with `WireHoldsWholePackets` and `PacketsArriveIntact`: RECURSIVE operators; tags nest to any depth in the code).

## 5. Not modelled

* The formats of Kad packets and of `nodes.dat`, the parsing of eD2k packets, metadata and server lists, the XML of
  the feeds and of the capabilities, the SOAP and SSDP texts: conversions of data without state. Their failures are
  in the models (a packet that cannot be parsed, a router whose description cannot be read).
* `KadSearch`, and of the client the category commands other than setting one, `search_stop` and `download_search_result`: nothing in amarr
  calls them. Their requests and replies are in `ECMessages`, their interleaving is not. The statistics tree is not modelled.
* The routes that answer constants (login, version, preferences), start-up code, environment variables, HTML pages and data classes
  have no state that changes while the program runs.
* `KadIndexer` and `Ed2kServerIndexer` create their session on first use without a lock; the models start with the sessions in place.

## 6. What is left open

Every invariant and every action property the passing runs check is proved, but for the two of `ECStream` and the part of `RepliesAreUnderstood`
that section 4 names. A round trip of the whole codec
would need its encoder and parsers as recursive functions on tag trees of a given depth. Four hazards have no property
(`PROJECT.json` says why of each): two first searches that create two sessions, an empty answer after a time-out that
stays in the cache, a deletion and an addition of one hash at the same time, and the bytes lost by a time-out in the
middle of a packet.
