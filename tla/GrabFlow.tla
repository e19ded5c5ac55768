------------------------------- MODULE GrabFlow -------------------------------
(***************************************************************************)
(* The way of a file through the program: a client (Sonarr or Radarr)      *)
(* searches, reads page after page, grabs an item by its link, and then    *)
(* follows the download, while the status page and other callers of        *)
(* AmuleClient ask aMule for other things.  aMule is external: what it     *)
(* does with a link, how a download goes on, and that it leaves out tags   *)
(* and sends each number in the smallest type that holds it, as in the     *)
(* packets of tests/test_ec_protocol.py.                                   *)
(***************************************************************************)
EXTENDS TorrentView, FeedPages

CONSTANTS
    Requests,   \* searches: a query, whether it is for TV, season, episode and page size
    Files,      \* the files there are
    Found,      \* what the engines may find: files by spelling of the query and by engine
    Samples,    \* values of the numbers aMule sends, below 2^30
    Speeds      \* bytes per second

ASSUME NumbersAssumption == Samples \cup Speeds \subseteq Nat

ASSUME RequestsAssumption == \A request \in Requests : request.limit \in Nat

\* A hash has 16 bytes, and what stands for a byte is no symbol of links; a nameless
\* file of a server or of Kad is "no_name" (core.py:57-67), and aMule names all it finds.
ASSUME FilesAssumption ==
    \A f \in Files :
        /\ f.hash \in Seq(STRING) /\ Len(f.hash) = 16
        /\ \A i \in 1..16 : f.hash[i] \notin DOMAIN Escapes
        /\ f.file_name \in Seq(STRING) /\ f.file_name # << >>
        /\ f.size_full \in Nat

NoLinkTwice(items) == \A i, j \in DOMAIN items : items[i].url = items[j].url => i = j

\* Every spelling of a query goes to every engine.  No engine lists a link twice: Kad's
\* results are one per file (kad.py:356-360); that an eD2k server and aMule name a file
\* once in an answer is an assumption on them.
ASSUME FoundAssumption ==
    /\ Found \subseteq Seq(Seq(Seq(Files)))
    /\ \A found \in Found : found # << >> /\ \A v \in DOMAIN found :
           /\ Len(found[v]) = Len(found[1])
           /\ \A e \in DOMAIN found[v] : NoLinkTwice(Items(found[v][e]))

VARIABLES
    search,     \* the client's search, if any: what there is to find and what it has seen
    grabbed,    \* the item whose link aMule has accepted, if any
    file,       \* aMule's file, if any
    place,      \* whether it is in the download queue or only shared
    answer      \* the last exchange with aMule, valid until aMule changes

vars == <<search, grabbed, file, place, answer>>

\* An exchange: what is due ("return", "refusal", or "any": nothing is promised), what
\* came of it, the tags left out of a listing, and the number the reply tells, if any.
Exchange(of, due, got) ==
    [of |-> of, due |-> due, got |-> got, without |-> {}, tells |-> None]

NoAnswer == Exchange("nothing", "any", Raised)

Init ==
    /\ search = None
    /\ grabbed = None
    /\ file = None
    /\ place = "queue"
    /\ answer = NoAnswer

-----------------------------------------------------------------------------
\* Searching

\* An engine that is down is down for all pages.  Bound: nothing is under way yet.
BeginSearch(request, found, down) ==
    /\ search = None /\ file = None /\ answer = NoAnswer
    /\ down \subseteq DOMAIN found[1]
    /\ Len(found) = Len(SearchQueries(request.query, request.tv, request.season, request.episode))
    /\ search' = <<[found |-> found, down |-> down, blank |-> request.query = << >>,
                    limit |-> request.limit, shown |-> << >>, ended |-> FALSE]>>
    /\ UNCHANGED <<grabbed, file, place, answer>>

\* The client asks for the next page until one is short.
NextPage ==
    /\ search # None /\ ~search[1].ended
    /\ LET s    == search[1]
           feed == IF s.blank THEN empty_query_response
                   ELSE PerformQueries(s.found, s.down, Len(s.shown), s.limit)
       IN  search' = <<[s EXCEPT !.shown = @ \o feed.items,
                                 !.ended = s.blank \/ Len(feed.items) < s.limit]>>
    /\ UNCHANGED <<grabbed, file, place, answer>>

-----------------------------------------------------------------------------
\* Grabbing

\* What aMule makes of a link.
Download(link) ==
    [hash |-> link.hash, name |-> link.name, size |-> link.size,
     done |-> 0, speed |-> 0, sources |-> 0, status |-> FileState.READY]

AddAnswer(due, got) == answer' = Exchange("add", due, got)

\* The eD2k link that add_torrent makes of a link, if it is one of amarr's.
LinkOf(url) ==
    Then(from_string(url), LAMBDA magnet :
         IF is_amarr(magnet) THEN <<to_ed2k_link(magnet)>> ELSE Raised)

\* There is no such link, or aMule cannot read it: every link of the feed must do, save
\* that of the answer to an empty query.  Or aMule refuses, or takes it.
AddLink(item, link, read) ==
    \/ /\ read = Fails
       /\ AddAnswer(IF item = empty_query_response.items[1] THEN "refusal" ELSE "return", Raised)
       /\ UNCHANGED <<grabbed, file>>
    \/ /\ read # Fails
       /\ AddAnswer("refusal", Returned(add_link_request(link[1]), Packet("FAILED", << >>)))
       /\ UNCHANGED <<grabbed, file>>
    \/ /\ read # Fails
       /\ AddAnswer("return", Returned(add_link_request(link[1]), Packet("NOOP", << >>)))
       /\ file' = <<Download(read[1])>>
       /\ grabbed' = <<item>>

\* add_torrent with one link.  Bound: one file is grabbed, after the last page.
Grab(item) ==
    /\ AddLink(item, LinkOf(item.url), Then(LinkOf(item.url), from_ed2k))
    /\ search' = None
    /\ UNCHANGED place

GrabShown ==
    /\ search # None /\ search[1].ended
    /\ \E i \in DOMAIN search[1].shown : Grab(search[1].shown[i])

-----------------------------------------------------------------------------
\* aMule

\* A download goes on, in any status, with or without sources.
Transfer(done, speed, sources, status) ==
    /\ file # None /\ place = "queue" /\ answer.of # "list"
    /\ file[1].done <= done /\ done <= file[1].size
    /\ file' = <<[file[1] EXCEPT !.done = done, !.speed = speed, !.sources = sources,
                                 !.status = status]>>
    /\ answer' = NoAnswer
    /\ UNCHANGED <<search, grabbed, place>>

\* A complete file leaves the queue and stays shared.
Complete ==
    /\ file # None /\ place = "queue" /\ file[1].done = file[1].size /\ answer.of # "list"
    /\ place' = "shared"
    /\ answer' = NoAnswer
    /\ UNCHANGED <<search, grabbed, file>>

\* The smallest type that holds the number.
Num(name, value) ==
    Leaf(name, IF value < 256 THEN "UINT8" ELSE IF value < 65536 THEN "UINT16" ELSE "UINT32", value)

FileTags(f) ==
    <<Leaf("PARTFILE_HASH", "HASH16", f.hash), Leaf("PARTFILE_NAME", "STRING", f.name),
      Leaf("PARTFILE_SIZE_FULL", "UINT64", f.size), Num("PARTFILE_SIZE_DONE", f.done),
      Num("PARTFILE_SPEED", f.speed), Num("PARTFILE_STATUS", f.status),
      Num("PARTFILE_SOURCE_COUNT_XFER", f.sources)>>

\* A tag as it may come for a field that is read in this way.
TagsFor(way, name) ==
    IF way \in {"string?", "string!"} THEN {Leaf(name, "STRING", <<"text">>)}
    ELSE {Num(name, v) : v \in Samples}

\* The number that a tag tells the field that is read from it as a number; not the
\* flags and small enumerations, which are read from bytes only.
Telling(field, way, tag) ==
    IF way \in {"short", "int", "long", "short?", "int?", "long?"}
    THEN <<[field |-> field, way |-> way, number |-> tag.value]>> ELSE None

\* How a reply differs from the plain one: a tag left out, or one more.
Variants(tags, fields) ==
    LET plain == {tags[i].name : i \in DOMAIN tags}
        More(f) == {[without |-> {}, more |-> <<t>>, tells |-> Telling(f, fields[f][1], t)] :
                        t \in TagsFor(fields[f][1], fields[f][2])}
    IN  [without : {{}} \cup {{name} : name \in plain}, more : {<< >>}, tells : {None}]
            \cup UNION {More(f) : f \in {g \in DOMAIN fields : fields[g][2] \notin plain}}

Varied(tags, variant) == Where(tags, LAMBDA t : t.name \notin variant.without) \o variant.more

\* A number above 65535 does not fit a field that is read as short.
TooWide(variant) ==
    \E i \in DOMAIN variant.tells :
        variant.tells[i].way \in {"short", "short?"} /\ variant.tells[i].number > 65535

\* The tags without which get_torrent_info has no entry to show.
ListingNeeds ==
    {"PARTFILE_HASH", "PARTFILE_NAME", "PARTFILE_SIZE_FULL"}
        \cup (IF place = "queue" THEN {"PARTFILE_SIZE_DONE", "PARTFILE_SPEED"} ELSE {})

-----------------------------------------------------------------------------
\* Asking.  These calls change nothing: bound: each ends the behaviour it is asked in.

\* get_torrent_info: the queue, then the shared files, downloads among them.
ListedTags == {FileTags(file[1])[i].name : i \in DOMAIN FileTags(file[1])}

ListTorrents(without) ==
    /\ file # None /\ answer.of # "list"
    /\ LET tags   == Varied(FileTags(file[1]), [without |-> without, more |-> << >>])
           queue  == Returned(download_queue_request,
                              Packet("DLOAD_QUEUE", IF place = "queue"
                                                    THEN <<Tag("PARTFILE", "UINT8", 1, tags)>>
                                                    ELSE << >>))
           shared == Returned(shared_files_request,
                              Packet("SHARED_FILES", <<Tag("KNOWNFILE", "UINT8", 1, tags)>>))
           info   == Then(queue, LAMBDA downloading : Then(shared, LAMBDA others :
                         get_torrent_info(downloading, others)))
           due    == IF without \cap ListingNeeds = {} THEN "return" ELSE "any"
       IN  answer' = [Exchange("list", due, info) EXCEPT !.without = without]
    /\ UNCHANGED <<search, grabbed, file, place>>

Asked(request, packet, due, tells) ==
    [request |-> request, reply |-> packet, due |-> due, tells |-> tells]

Logger == Tag("STATS_LOGGER_MESSAGE", "UINT8", 0, <<Leaf("STRING", "STRING", <<"line">>)>>)

Server(type) ==
    Tag("SERVER", type, [address |-> <<10, 0, 0, 1>>, port |-> 4661],
        <<Leaf("SERVER_VERSION", "STRING", <<"17.15">>), Num("SERVER_USERS", 70000),
          Num("SERVER_STATIC", 0)>>)

ConnState(type, below) == Tag("CONNSTATE", type, 21, below)

\* Everything is optional on the status page; the state of the connections is a byte.
StatsExchange(type, below, v) ==
    Asked(stats_request, Packet("STATS", Varied(<<Logger, ConnState(type, below)>>, v)),
          IF "CONNSTATE" \in v.without \/ type = "UINT8" THEN "return" ELSE "any", v.tells)

StatsExchanges ==
    {StatsExchange(type, below, v) :
         type \in {"UINT8", "UINT16"},
         below \in {<< >>, <<Server("IPV4")>>, <<Server("CUSTOM"), Num("ED2K_ID", 70000)>>},
         v \in Variants(<<Logger, ConnState("UINT8", << >>)>>, StatsFields)}

AFile == Download([hash |-> Padded(<< >>), name |-> <<"n">>, size |-> 1])

SearchFileTags == Append(SubSeq(FileTags(AFile), 1, 3), Num("PARTFILE_STATUS", 1))

SearchExchange(v) ==
    Asked(search_results_request,
          Packet("SEARCH_RESULTS", <<Tag("SEARCHFILE", "UINT8", 1, Varied(SearchFileTags, v))>>),
          IF v.without \subseteq {"PARTFILE_SIZE_FULL"} THEN "return" ELSE "any", v.tells)

ProgressExchange(tags) ==
    Asked(search_status_request, Packet("SEARCH_PROGRESS", tags),
          IF tags # << >> THEN "return" ELSE "any", None)

SearchExchanges ==
    {SearchExchange(v) : v \in Variants(SearchFileTags, SearchFields)}
        \cup {ProgressExchange(tags) :
                  tags \in {<< >>} \cup {<<Num("SEARCH_STATUS", n)>> : n \in {0, 50, 65534}}}

ACategory == [id |-> 1, name |-> <<"tv">>, path |-> <<"p">>, comment |-> << >>,
              color |-> 255, priority |-> 1]

\* aMule tells a category in the tags it was created with, each in its smallest type.
CategoryTags ==
    LET made == create_category_request(ACategory).tags[1].subtags
    IN  [i \in DOMAIN made |-> IF made[i].type = "STRING" THEN made[i]
                               ELSE Num(made[i].name, made[i].value)]

CategoryExchange(v) ==
    Asked(get_preferences_request(1),
          Packet("SET_PREFERENCES",
                 <<Tag("PREFS_CATEGORIES", "CUSTOM", << >>,
                       <<Tag("CATEGORY", "UINT8", 1, Varied(CategoryTags, v))>>)>>),
          IF v.without = {} THEN "return" ELSE "any", v.tells)

CategoryExchanges ==
    {CategoryExchange(v) : v \in Variants(CategoryTags, CategoryFields)}
        \cup {Asked(get_preferences_request(1), Packet("SET_PREFERENCES", << >>), "return", None)}

\* The salt is a random number, nearly always one of 64 bits.
SaltExchange(type) ==
    Asked(salt_request, Packet("AUTH_SALT", <<Leaf("PASSWD_SALT", type, 1)>>),
          IF type = "UINT64" THEN "return" ELSE "any", None)

AuthExchange(op, name) ==
    Asked(auth_request(Padded(<< >>)), Packet(op, <<Leaf(name, "STRING", <<"text">>)>>),
          IF op = "AUTH_OK" THEN "return" ELSE "refusal", None)

LoginExchanges ==
    {SaltExchange(type) : type \in DOMAIN NumericSize}
        \cup {AuthExchange("AUTH_OK", "SERVER_VERSION"), AuthExchange("AUTH_FAIL", "STRING")}

NoFilters == [filetype |-> None, extension |-> None, min_size |-> None, max_size |-> None,
              availability |-> None]

\* Requests that aMule answers with a word: the one they wait for, or any other.
Commands ==
    LET hash == Padded(<< >>)
    IN  [NOOP      |-> {download_command_request(hash, "PARTFILE_DELETE"),
                        set_file_category_request(hash, 1), create_category_request(ACategory)},
         STRINGS   |-> {search_request(<<"q">>, 1, NoFilters), download_search_result_request(hash)},
         MISC_DATA |-> {search_stop_request}]

CommandExchange(request, op, awaited) == 
    Asked(request, Packet(op, << >>), IF op = awaited THEN "return" ELSE "refusal", None)

CommandExchanges ==
    UNION {{CommandExchange(request, op, awaited) :
                request \in Commands[awaited], op \in DOMAIN Commands \cup {"FAILED", "SHUTDOWN"}} :
               awaited \in DOMAIN Commands}

ListingExchange(request, op, name, fields, v) ==
    Asked(request, Packet(op, <<Tag(name, "UINT8", 1, Varied(FileTags(AFile), v))>>),
          IF TooWide(v) THEN "any" ELSE "return", v.tells)

ListingExchanges ==
    {ListingExchange(download_queue_request, "DLOAD_QUEUE", "PARTFILE", PartFields, v) :
         v \in Variants(FileTags(AFile), PartFields)}
        \cup {ListingExchange(shared_files_request, "SHARED_FILES", "KNOWNFILE", SharedFields, v) :
                  v \in Variants(FileTags(AFile), SharedFields)}

\* What a caller of AmuleClient sees of the number that the reply tells: << >> for None.
Shown(exchange, result) ==
    LET entry == IF exchange.request = stats_request THEN from_stats_response(result)
                 ELSE result[1]
        told  == exchange.tells[1]
    IN  IF exchange.tells = None THEN None
        ELSE IF told.way \in {"short", "int", "long"} THEN <<entry[told.field]>>
        ELSE entry[told.field]

Outcome(exchange) ==
    [Exchange(exchange.request.op_code, exchange.due,
              Then(Returned(exchange.request, exchange.reply),
                   LAMBDA result : <<Shown(exchange, result)>>))
     EXCEPT !.tells = exchange.tells]

Outcomes ==
    {Outcome(x) : x \in StatsExchanges \cup SearchExchanges \cup CategoryExchanges
                            \cup LoginExchanges \cup CommandExchanges \cup ListingExchanges}

\* Any method of AmuleClient, on its own.
Ask ==
    /\ search = None /\ file = None /\ answer = NoAnswer
    /\ answer' \in Outcomes
    /\ UNCHANGED <<search, grabbed, file, place>>
-----------------------------------------------------------------------------
Next ==
    \/ \E request \in Requests, found \in Found, down \in {{}, {1}, {2}} :
           BeginSearch(request, found, down)
    \/ NextPage
    \/ GrabShown
    \/ \E done \in {0, 1} \cup Samples, speed \in Speeds, sources \in {0, 2}, status \in FileStatus :
           Transfer(done, speed, sources, status)
    \/ Complete
    \/ file # None /\ \E without \in {{}} \cup {{name} : name \in ListedTags} : ListTorrents(without)
    \/ Ask

Spec == Init /\ [][Next]_vars

-----------------------------------------------------------------------------
\* Properties

\* All there is to see, each link once: the results of the first spelling and engine,
\* then those of the next that are new; nothing from an engine that is down.
Everything(found, down) ==
    LET Seen(v, e) == IF e \in down THEN << >>
                      ELSE Items(found[v][e])
        Of(v)      == FlattenSeq([e \in DOMAIN found[v] |-> Seen(v, e)])
    IN  Deduplicated(FlattenSeq([v \in DOMAIN found |-> Of(v)]))

\* Page after page a client sees everything once and in order, although each page is
\* merged and deduplicated anew from longer lists (aggregate.py:36-61, api.py:128-142);
\* when a page is short nothing is left.
PagesTile ==
    search # None => LET s == search[1] IN
        ~s.blank =>
            IF s.ended THEN s.shown = Everything(s.found, s.down)
            ELSE IsPrefix(s.shown, Everything(s.found, s.down))

\* What was grabbed is what is downloaded and listed: the item's link, through magnet
\* and ed2k form (magnet.py:41-98), has given aMule its hash, name and size, and the
\* listing shows the file under them, once, before and after it is complete.
GrabbedIsListed ==
    grabbed # None /\ answer.of = "list" /\ answer.got # Raised =>
        /\ Len(answer.got[1]) = 1
        /\ LET info == answer.got[1][1]
           IN  /\ info.name = grabbed[1].title
               /\ info.size = grabbed[1].length
               /\ grabbed[1].url = MagnetText(for_amarr(info.hash, info.name, info.size))

\* "aMule omits tags" (model.py:85-88): no listing of the queue or of the shared files
\* fails for a tag that is left out, nor do the status page and the torrents of the
\* client for one they can do without; no call takes another reply for the one it waits
\* for; and whatever type a number comes in (tag.py:138-221), a call that returns shows
\* the number that was sent, neither cut to the width of its field nor taken for absent.
RepliesAreUnderstood ==
    /\ answer.due = "return" => answer.got # Raised
    /\ answer.due = "refusal" => answer.got = Raised
    /\ answer.tells # None /\ answer.got # Raised => answer.got[1] = <<answer.tells[1].number>>

\* "a freshly created part-file may arrive with size_full at 0 or absent; we avoid [...]
\* the TypeError if it were None" (service.py:143-148): the listing of a download whose
\* size is left out returns.
AbsentSizeIsTolerated ==
    answer.of = "list" /\ answer.without = {"PARTFILE_SIZE_FULL"} => answer.got # Raised

\* The figures of an entry agree with the file and with each other: progress is a
\* fraction that is 1 for complete files only, and the time left is what is left at
\* the current speed, never beyond the value that means "unknown" (service.py:128-148).
FiguresAgree ==
    answer.of = "list" /\ answer.got # Raised =>
        \A i \in DOMAIN answer.got[1] :
            LET info == answer.got[1][i]
                left == info.size - info.downloaded
            IN  /\ info.downloaded = file[1].done
                /\ 0 <= info.progress[1] /\ info.progress[1] <= info.progress[2]
                /\ info.progress[1] = info.progress[2] => left = 0
                /\ left = 0 => info.eta = 0 \/ info.dlspeed = 0
                /\ 0 <= info.eta /\ info.eta <= NO_ETA
                /\ info.eta < NO_ETA /\ place = "queue" =>
                       /\ info.eta * info.dlspeed <= left
                       /\ left < (info.eta + 1) * info.dlspeed

=============================================================================
