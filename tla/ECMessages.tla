------------------------------ MODULE ECMessages ------------------------------
(***************************************************************************)
(* What the client and aMule say to each other over EC: the requests       *)
(* (src/amarr/jamule/request.py), the responses read from the replies      *)
(* (response.py), the files in them (model.py), and which response the     *)
(* client takes for the answer of which request (client.py).               *)
(*                                                                         *)
(* Op codes, tag names and fields go by their names in codes.py, without   *)
(* the prefixes EC_OP_ and EC_TAG_.  As in ECTag an operation that may     *)
(* raise returns a sequence, empty when it raises; a field that may be     *)
(* None is a sequence too.                                                 *)
(***************************************************************************)
EXTENDS ECTag

None == << >>

Packet(op_code, tags) == [op_code |-> op_code, tags |-> tags]

Leaf(name, type, value) == Tag(name, type, value, << >>)

\* A tag for a filter that is set, none for one that is not.
Optional(name, type, filter) == IF filter = None THEN << >> ELSE <<Leaf(name, type, filter[1])>>

-----------------------------------------------------------------------------
\* Requests

FullDetail == Leaf("DETAIL_LEVEL", "UINT8", 2)

salt_request ==
    Packet("AUTH_REQ", <<Leaf("CLIENT_NAME", "STRING", <<"jAmule">>),
                         Leaf("CLIENT_VERSION", "STRING", <<"version">>),
                         Leaf("PROTOCOL_VERSION", "UINT16", 516),
                         Leaf("CAN_ZLIB", "CUSTOM", << >>),
                         Leaf("CAN_UTF8_NUMBERS", "CUSTOM", << >>)>>)

auth_request(hashed) == Packet("AUTH_PASSWD", <<Leaf("PASSWD_HASH", "HASH16", hashed)>>)

stats_request          == Packet("STAT_REQ", <<FullDetail>>)
download_queue_request == Packet("GET_DLOAD_QUEUE", <<FullDetail>>)
shared_files_request   == Packet("GET_SHARED_FILES", <<FullDetail>>)

add_link_request(link) == Packet("ADD_LINK", <<Leaf("PARTFILE_ED2K_LINK", "STRING", link)>>)

\* The searched name below the type of the search, the filters beside it.
search_request(query, type, filters) ==
    Packet("SEARCH_START",
           <<Tag("SEARCH_TYPE", "UINT8", type, <<Leaf("SEARCH_NAME", "STRING", query)>>)>>
               \o Optional("SEARCH_FILE_TYPE", "STRING", filters.filetype)
               \o Optional("SEARCH_EXTENSION", "STRING", filters.extension)
               \o Optional("SEARCH_MIN_SIZE", "UINT64", filters.min_size)
               \o Optional("SEARCH_MAX_SIZE", "UINT64", filters.max_size)
               \o Optional("SEARCH_AVAILABILITY", "UINT64", filters.availability))

search_status_request  == Packet("SEARCH_PROGRESS", << >>)
search_results_request == Packet("SEARCH_RESULTS", << >>)
search_stop_request    == Packet("SEARCH_STOP", << >>)

download_search_result_request(hash) ==
    Packet("DOWNLOAD_SEARCH_RESULT", <<Leaf("PARTFILE", "HASH16", hash)>>)

\* The command is the op code.
download_command_request(hash, command) == Packet(command, <<Leaf("PARTFILE", "HASH16", hash)>>)

get_preferences_request(prefs) ==
    Packet("GET_PREFERENCES", <<FullDetail, Leaf("SELECT_PREFS", "UINT32", prefs)>>)

set_file_category_request(hash, category) ==
    Packet("PARTFILE_SET_CAT",
           <<Tag("PARTFILE", "HASH16", hash, <<Leaf("PARTFILE_CAT", "UINT64", category)>>)>>)

create_category_request(category) ==
    Packet("CREATE_CATEGORY",
           <<Tag("CATEGORY", "UINT32", category.id,
                 <<Leaf("CATEGORY_TITLE", "STRING", category.name),
                   Leaf("CATEGORY_PATH", "STRING", category.path),
                   Leaf("CATEGORY_COMMENT", "STRING", category.comment),
                   Leaf("CATEGORY_COLOR", "UINT8", category.color % 256),
                   Leaf("CATEGORY_PRIO", "UINT32", category.priority)>>)>>)

-----------------------------------------------------------------------------
\* Fields

\* A tag that was found or not: its value through a getter, which may raise.
Got(found, getter(_), default) == IF found = << >> THEN <<default>> ELSE getter(found[1])

Value(tag)         == <<tag.value>>
Must(found)        == IF found = << >> THEN Raised ELSE Value(found[1])
OptionOf(result)   == IF result = Raised THEN Raised ELSE <<result>>
Some(tag)          == <<Value(tag)>>
to_signed_byte(v)  == IF v >= 128 THEN v - 256 ELSE v

byte_or(tags, name, default) == Got(find_byte(tags, name), Value, default)

\* The ways a field is read from the tag that holds it: "?" gives None when there is no
\* such tag, "!" raises, the others have a default.
Read(how, tags, name) ==
    CASE how = "hash16!" -> Must(find_hash16(tags, name))
      [] how = "string!" -> Must(find_string(tags, name))
      [] how = "byte!"   -> Must(find_byte(tags, name))
      [] how = "salt!"   -> Must(find_long(tags, name))
      [] how = "int!"    ->
             Then(find_numeric(tags, name), get_int)
      [] how = "hash16?" -> Got(find_hash16(tags, name), Some, None)
      [] how = "string?" -> Got(find_string(tags, name), Some, None)
      [] how = "rating?" ->
             Got(find_byte(tags, name), LAMBDA t : <<<<to_signed_byte(t.value)>>>>, None)
      [] how = "short?"  -> Got(find_numeric(tags, name), LAMBDA t : OptionOf(get_short(t)), None)
      [] how = "int?"    -> Got(find_numeric(tags, name), LAMBDA t : OptionOf(get_int(t)), None)
      [] how = "long?"   -> Got(find_numeric(tags, name), LAMBDA t : OptionOf(get_long(t)), None)
      [] how = "uint32?" -> Got(find_int(tags, name), Some, None)
      [] how = "uint16?" -> Got(find_short(tags, name), Some, None)
      [] how = "flag?"   -> Got(find_byte(tags, name), LAMBDA t : <<<<t.value # 0>>>>, None)
      [] how = "priority" -> Then(byte_or(tags, name, 0), LAMBDA v : <<to_signed_byte(v)>>)
      [] how = "buddy?"  ->
             Got(find_byte(tags, name),
                 LAMBDA t : <<IF t.value \in 0..2 THEN Value(t) ELSE None>>, None)
      [] how = "static?" ->
             Got(find_numeric(tags, name),
                 LAMBDA t : Then(get_int(t), LAMBDA v : <<<<v # 0>>>>), None)
      [] how = "flag"    -> Then(byte_or(tags, name, 0), LAMBDA v : <<v # 0>>)
      [] how = "short"   -> Got(find_numeric(tags, name), get_short, 0)
      [] how = "int"     -> Got(find_numeric(tags, name), get_int, 0)
      [] how = "long"    -> Got(find_numeric(tags, name), get_long, 0)

\* A record from its tags, by a table of each field's way and tag; raises if one does.
Whole(read) ==
    IF \E f \in DOMAIN read : read[f] = Raised THEN Raised
    ELSE <<[f \in DOMAIN read |-> read[f][1]]>>

ReadAll(fields, tags) ==
    Whole([f \in DOMAIN fields |-> Read(fields[f][1], tags, fields[f][2])])

\* A list from the results for its elements: one that raises leaves no list.
AllOf(results) ==
    IF \E i \in DOMAIN results : results[i] = Raised THEN Raised
    ELSE <<[i \in DOMAIN results |-> results[i][1]]>>

-----------------------------------------------------------------------------
\* Files

SharedFields ==
    [file_hash_hex_string      |-> <<"hash16?",  "PARTFILE_HASH">>,
     file_name                 |-> <<"string?",  "PARTFILE_NAME">>,
     file_path                 |-> <<"string?",  "KNOWNFILE_FILENAME">>,
     size_full                 |-> <<"long?",    "PARTFILE_SIZE_FULL">>,
     file_ed2k_link            |-> <<"string?",  "PARTFILE_ED2K_LINK">>,
     up_prio                   |-> <<"priority", "KNOWNFILE_PRIO">>,
     get_requests              |-> <<"short",    "KNOWNFILE_REQ_COUNT">>,
     get_all_requests          |-> <<"int",      "KNOWNFILE_REQ_COUNT_ALL">>,
     get_accepts               |-> <<"short",    "KNOWNFILE_ACCEPT_COUNT">>,
     get_all_accepts           |-> <<"int",      "KNOWNFILE_ACCEPT_COUNT_ALL">>,
     get_xferred               |-> <<"long",     "KNOWNFILE_XFERRED">>,
     get_all_xferred           |-> <<"long",     "KNOWNFILE_XFERRED_ALL">>,
     get_complete_sources_low  |-> <<"short",    "KNOWNFILE_COMPLETE_SOURCES_LOW">>,
     get_complete_sources_high |-> <<"short",    "KNOWNFILE_COMPLETE_SOURCES_HIGH">>,
     get_complete_sources      |-> <<"short",    "KNOWNFILE_COMPLETE_SOURCES">>,
     get_on_queue              |-> <<"short",    "KNOWNFILE_ON_QUEUE">>,
     get_comment               |-> <<"string?",  "KNOWNFILE_COMMENT">>,
     get_rating                |-> <<"rating?",  "KNOWNFILE_RATING">>]

PartFields == Joined(SharedFields,
    [part_met_id                    |-> <<"short?",   "PARTFILE_PARTMETID">>,
     size_xfer                      |-> <<"long?",    "PARTFILE_SIZE_XFER">>,
     size_done                      |-> <<"long?",    "PARTFILE_SIZE_DONE">>,
     stopped                        |-> <<"flag",     "PARTFILE_STOPPED">>,
     source_count                   |-> <<"short",    "PARTFILE_SOURCE_COUNT">>,
     source_not_curr_count          |-> <<"short",    "PARTFILE_SOURCE_COUNT_NOT_CURRENT">>,
     source_xfer_count              |-> <<"short",    "PARTFILE_SOURCE_COUNT_XFER">>,
     source_count_a4af              |-> <<"short",    "PARTFILE_SOURCE_COUNT_A4AF">>,
     speed                          |-> <<"long?",    "PARTFILE_SPEED">>,
     down_prio                      |-> <<"priority", "PARTFILE_PRIO">>,
     file_cat                       |-> <<"long",     "PARTFILE_CAT">>,
     last_seen_complete             |-> <<"long",     "PARTFILE_LAST_SEEN_COMP">>,
     last_date_changed              |-> <<"long",     "PARTFILE_LAST_RECV">>,
     download_active_time           |-> <<"int",      "PARTFILE_DOWNLOAD_ACTIVE">>,
     available_part_count           |-> <<"short",    "PARTFILE_AVAILABLE_PARTS">>,
     a4af_auto                      |-> <<"flag",     "PARTFILE_A4AFAUTO">>,
     hashing_progress               |-> <<"flag",     "PARTFILE_HASHED_PART_COUNT">>,
     get_lost_due_to_corruption     |-> <<"long",     "PARTFILE_LOST_CORRUPTION">>,
     get_gain_due_to_compression    |-> <<"long",     "PARTFILE_GAINED_COMPRESSION">>,
     total_packets_saved_due_to_ich |-> <<"int",      "PARTFILE_SAVED_ICH">>])

FileStatus == 0..10
UNKNOWN == 6

SharedFileTag(tags) == ReadAll(SharedFields, tags)

\* A status outside the enumeration raises.
PartFileTag(tags) ==
    LET With(status) ==
            IF status \notin FileStatus THEN Raised
            ELSE Then(ReadAll(PartFields, tags),
                      LAMBDA file : <<Joined([file_status |-> status], file)>>)
    IN  Then(byte_or(tags, "PARTFILE_STATUS", UNKNOWN), With)

-----------------------------------------------------------------------------
\* Statistics

\* Here the names are without EC_TAG_STATS_.
CounterFields ==
    [upload_overhead      |-> "UP_OVERHEAD",      download_overhead    |-> "DOWN_OVERHEAD",
     banned_count         |-> "BANNED_COUNT",     total_sent_bytes     |-> "TOTAL_SENT_BYTES",
     total_received_bytes |-> "TOTAL_RECEIVED_BYTES",
     shared_file_count    |-> "SHARED_FILE_COUNT", upload_speed        |-> "UL_SPEED",
     download_speed       |-> "DL_SPEED",         upload_speed_limit   |-> "UL_SPEED_LIMIT",
     download_speed_limit |-> "DL_SPEED_LIMIT",   upload_queue_length  |-> "UL_QUEUE_LEN",
     total_source_count   |-> "TOTAL_SRC_COUNT",  ed2k_users           |-> "ED2K_USERS",
     kad_users            |-> "KAD_USERS",        ed2k_files           |-> "ED2K_FILES",
     kad_files            |-> "KAD_FILES",        kad_nodes            |-> "KAD_NODES"]

\* What the core leaves out while it has no buddy, no Kad or no index.
SpareFields ==
    [kad_firewalled_udp         |-> <<"flag?",   "KAD_FIREWALLED_UDP">>,
     kad_indexed_sources        |-> <<"long?",   "KAD_INDEXED_SOURCES">>,
     kad_indexed_keywords       |-> <<"long?",   "KAD_INDEXED_KEYWORDS">>,
     kad_indexed_notes          |-> <<"long?",   "KAD_INDEXED_NOTES">>,
     kad_indexed_load           |-> <<"long?",   "KAD_INDEXED_LOAD">>,
     kad_ip_address             |-> <<"uint32?", "KAD_IP_ADRESS">>,
     kad_is_running_in_lan_mode |-> <<"flag?",   "KAD_IN_LAN_MODE">>,
     buddy_status               |-> <<"buddy?",  "BUDDY_STATUS">>,
     buddy_ip                   |-> <<"uint32?", "BUDDY_IP">>,
     buddy_port                 |-> <<"uint16?", "BUDDY_PORT">>]

StatsFields ==
    Joined([f \in DOMAIN CounterFields |-> <<"long", CounterFields[f]>>], SpareFields)

ConnectionFields ==
    [ed2k_id   |-> <<"int?", "ED2K_ID">>, kad_id |-> <<"int?", "KAD_ID">>,
     client_id |-> <<"int?", "CLIENT_ID">>]

ServerFields ==
    [server_ping    |-> <<"int?", "SERVER_PING">>,    server_prio  |-> <<"int?", "SERVER_PRIO">>,
     server_failed  |-> <<"int?", "SERVER_FAILED">>,
     server_static  |-> <<"static?", "SERVER_STATIC">>,
     server_version |-> <<"string?", "SERVER_VERSION">>,
     server_description |-> <<"string?", "SERVER_DESC">>,
     server_users   |-> <<"int?", "SERVER_USERS">>,
     server_users_max |-> <<"int?", "SERVER_USERS_MAX">>,
     server_files   |-> <<"int?", "SERVER_FILES">>]

\* The value of the tag is the bits of the two networks, its subtags the rest.
from_con_state_tag(tag) ==
    LET server == Named(tag.subtags, "SERVER")
        Bit(n) == (tag.value \div n) % 2 = 1
        states == [ed2k_connected |-> Bit(1), ed2k_connecting |-> Bit(2), kad_connected |-> Bit(4),
                   kad_firewalled |-> Bit(8), kad_running |-> Bit(16),
                   server_ipv4    |-> IF server # << >> /\ server[1].type = "IPV4"
                                      THEN Value(server[1]) ELSE None]
    IN  IF tag.type # "UINT8" THEN Raised
        ELSE Then(ReadAll(ConnectionFields, tag.subtags), LAMBDA numbers :
             Then(ReadAll(ServerFields, IF server = << >> THEN << >> ELSE server[1].subtags),
                  LAMBDA about : <<Joined(states, Joined(numbers, about))>>))

parse_stats(tags) ==
    LET state  == Named(tags, "CONNSTATE")
        logger == Named(tags, "STATS_LOGGER_MESSAGE")
        lines  == IF logger = << >> THEN << >>
                  ELSE Where(logger[1].subtags, LAMBDA t : t.name = "STRING" /\ t.type = "STRING")
    IN  Then(IF state = << >> THEN <<None>> ELSE OptionOf(from_con_state_tag(state[1])),
             LAMBDA conn : Then(ReadAll(StatsFields, tags), LAMBDA stats :
                 <<Joined([connection_state |-> conn,
                           logger_message   |-> [i \in DOMAIN lines |-> lines[i].value]], stats)>>))

-----------------------------------------------------------------------------
\* The other replies

SearchFields ==
    [file_name             |-> <<"string!", "PARTFILE_NAME">>,
     hash                  |-> <<"hash16!", "PARTFILE_HASH">>,
     size_full             |-> <<"long",    "PARTFILE_SIZE_FULL">>,
     download_status       |-> <<"byte!",   "PARTFILE_STATUS">>,
     complete_source_count |-> <<"int",     "PARTFILE_SOURCE_COUNT_XFER">>,
     source_count          |-> <<"int",     "PARTFILE_SOURCE_COUNT">>]

ECSearchFileDownloadStatus == 0..4

SearchFileOf(tag) ==
    IF tag.name # "SEARCHFILE" THEN Raised
    ELSE Then(ReadAll(SearchFields, tag.subtags), LAMBDA file :
             IF file.download_status \in ECSearchFileDownloadStatus THEN <<file>> ELSE Raised)

\* A fraction.  Local searches report 0xFFFF and those of Kad 0xFFFE when they end.
parse_search_status(tags) ==
    Then(Read("int!", tags, "SEARCH_STATUS"), LAMBDA num :
         <<IF num \in {65534, 65535} THEN <<1, 1>> ELSE <<num, 100>>>>)

CategoryFields ==
    [name     |-> <<"string!", "CATEGORY_TITLE">>,   path  |-> <<"string!", "CATEGORY_PATH">>,
     comment  |-> <<"string!", "CATEGORY_COMMENT">>, color |-> <<"int!",    "CATEGORY_COLOR">>,
     priority |-> <<"byte!",   "CATEGORY_PRIO">>]

CategoryOf(tag) ==
    Then(get_long(tag), LAMBDA id :
         Then(ReadAll(CategoryFields, tag.subtags),
              LAMBDA category : <<Joined([id |-> id], category)>>))

Each(read(_), tags) == AllOf([i \in DOMAIN tags |-> read(tags[i])])

Response(kind, result) == Then(result, LAMBDA is : <<[kind |-> kind, is |-> is]>>)

\* The first response whose conditions the packet meets; none raises.
parse(packet) ==
    LET op   == packet.op_code
        tags == packet.tags
        text == find_string(tags, "STRING")
        cats == find_custom(tags, "PREFS_CATEGORIES")
    IN  CASE op = "AUTH_FAIL"   -> Response("AuthFailed", Read("string!", tags, "STRING"))
          [] op = "AUTH_OK"     -> Response("AuthOk", Read("string!", tags, "SERVER_VERSION"))
          [] op = "AUTH_SALT"   -> Response("AuthSalt", Read("salt!", tags, "PASSWD_SALT"))
          [] op = "DLOAD_QUEUE" ->
                 Response("DownloadQueue",
                          Each(LAMBDA t : PartFileTag(t.subtags), Named(tags, "PARTFILE")))
          [] op = "SET_PREFERENCES" /\ tags = << >> ->
                 Response("EmptyPreferences", <<None>>)
          [] op = "FAILED"      ->
                 Response("Error", IF text = << >> THEN <<<<"Unknown error">>>> ELSE Value(text[1]))
          [] op = "MISC_DATA"   -> Response("MiscData", <<None>>)
          [] op = "NOOP"        -> Response("Noop", <<None>>)
          [] op = "SET_PREFERENCES" /\ cats # << >> ->
                 Response("PrefsCategories", Each(CategoryOf, Named(cats[1].subtags, "CATEGORY")))
          [] op = "SEARCH_RESULTS"  -> Response("SearchResults", Each(SearchFileOf, tags))
          [] op = "SEARCH_PROGRESS" -> Response("SearchStatus", parse_search_status(tags))
          [] op = "SHARED_FILES"    ->
                 Response("SharedFiles",
                          Each(LAMBDA t : SharedFileTag(t.subtags), Named(tags, "KNOWNFILE")))
          [] op = "STATS"   -> Response("Stats", parse_stats(tags))
          [] op = "STRINGS" ->
                 Response("Strings", IF text = << >> THEN <<<< >>>> ELSE Value(text[1]))
          [] OTHER -> Raised

-----------------------------------------------------------------------------
\* The client

\* The responses the method that sends a request returns from; any other raises.
Awaited ==
    [AUTH_REQ         |-> {"AuthSalt"},      AUTH_PASSWD       |-> {"AuthOk"},
     STAT_REQ         |-> {"Stats"},         GET_DLOAD_QUEUE   |-> {"DownloadQueue"},
     GET_SHARED_FILES |-> {"SharedFiles"},   ADD_LINK          |-> {"Noop"},
     SEARCH_START     |-> {"Strings"},       SEARCH_PROGRESS   |-> {"SearchStatus"},
     SEARCH_RESULTS   |-> {"SearchResults"}, SEARCH_STOP       |-> {"MiscData"},
     PARTFILE_DELETE  |-> {"Noop"},          PARTFILE_SET_CAT  |-> {"Noop"},
     CREATE_CATEGORY  |-> {"Noop"},          DOWNLOAD_SEARCH_RESULT |-> {"Strings"},
     GET_PREFERENCES  |-> {"PrefsCategories", "EmptyPreferences"}]

Returned(request, reply) ==
    Then(parse(reply), LAMBDA response :
         IF response.kind \in Awaited[request.op_code] THEN <<response.is>> ELSE Raised)

=============================================================================
