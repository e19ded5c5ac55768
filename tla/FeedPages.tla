------------------------------- MODULE FeedPages -------------------------------
(***************************************************************************)
(* From the results of the engines to the pages Sonarr and Radarr read     *)
(* (src/amarr/torznab/api.py, indexer/base.py, indexer/aggregate.py), and  *)
(* the links in them (magnet.py).  Text is a sequence of symbols; those    *)
(* that mean something in a link, the codes of %-escapes, the digits and   *)
(* the bytes of a hash are single symbols.  As in ECTag, an operation that *)
(* may raise returns a sequence, empty when it raises.                     *)
(***************************************************************************)
EXTENDS Integers, Comprehension

CONSTANT MIN_VIDEO_SIZE     \* _MIN_VIDEO_SIZE_BYTES

ASSUME MinVideoSizeAssumption == MIN_VIDEO_SIZE \in Nat

Fails == << >>

-----------------------------------------------------------------------------
\* Text

Escapes == [x \in {"&", "=", "|", "%", "/", ":"} |->
                CASE x = "&" -> "26" [] x = "=" -> "3D" [] x = "|" -> "7C"
                  [] x = "%" -> "25" [] x = "/" -> "2F" [] x = ":" -> "3A"]

encode_url(text) ==
    FlattenSeq([i \in DOMAIN text |-> IF text[i] \in DOMAIN Escapes THEN <<"%", Escapes[text[i]]>>
                                      ELSE <<text[i]>>])

\* A "%" without a code behind it stays.
decode_url(text) ==
    LET Escaped(i) == i \in 1..Len(text) - 1 /\ text[i] = "%"
                          /\ \E x \in DOMAIN Escapes : Escapes[x] = text[i + 1]
        Read(i)    == IF Escaped(i - 1) THEN << >>
                      ELSE IF Escaped(i)
                      THEN <<CHOOSE x \in DOMAIN Escapes : Escapes[x] = text[i + 1]>>
                      ELSE <<text[i]>>
    IN  FlattenSeq([i \in DOMAIN text |-> Read(i)])

\* sequence[from : from + length] of Python, for from, length >= 0.
Slice(sequence, from, length) ==
    SubSeq(sequence, from + 1,
           IF from + length < Len(sequence) THEN from + length ELSE Len(sequence))

Digits == <<"0", "1", "2", "3", "4", "5", "6", "7", "8", "9">>

Decimal(n) ==
    LET digits[m \in Nat] == IF m < 10 THEN <<Digits[m + 1]>>
                             ELSE Append(digits[m \div 10], Digits[(m % 10) + 1])
    IN  digits[n]

FromDecimal(text) ==
    LET Digit(x) == (CHOOSE d \in 1..10 : Digits[d] = x) - 1
        value[k \in 0..Len(text)] == IF k = 0 THEN 0 ELSE 10 * value[k - 1] + Digit(text[k])
    IN  IF text = << >> \/ \E i \in DOMAIN text : ~Contains(Digits, text[i]) THEN Fails
        ELSE <<value[Len(text)]>>

\* The place of the first separator from i on, behind the text if there is none.
NextAt(text, separator, i) ==
    CHOOSE j \in i..Len(text) + 1 :
        /\ j <= Len(text) => text[j] = separator
        /\ \A k \in i..j - 1 : text[k] # separator

\* The parts of a text between separators: one begins behind each of them.
Split(text, separator) ==
    LET Part(i) == IF i > 1 /\ text[i - 1] # separator THEN << >>
                   ELSE <<SubSeq(text, i, NextAt(text, separator, i) - 1)>>
    IN  FlattenSeq([i \in 1..Len(text) + 1 |-> Part(i)])

Before(text, separator) == SubSeq(text, 1, NextAt(text, separator, 1) - 1)

\* From the first separator on, without it; the whole text if there is none.
After(text, separator) ==
    LET at == NextAt(text, separator, 1)
    IN  IF at > Len(text) THEN text ELSE SubSeq(text, at + 1, Len(text))

-----------------------------------------------------------------------------
\* Links

AMARR_TRACKER == <<"http", ":", "/", "/", "amarr-reserved">>

for_amarr(hash, name, size) ==
    [hash |-> hash, name |-> name, size |-> size, trackers |-> <<AMARR_TRACKER>>]

\* hash[:20].ljust(20).  Base 32 and hexadecimal keep the bytes and are left out.
Padded(hash) == [i \in 1..20 |-> IF i <= Len(hash) THEN hash[i] ELSE "00"]

\* hash[:16]
amule_hex_hash(magnet) == Slice(magnet.hash, 0, 16)

MagnetText(magnet) ==
    <<"magnet:?", "xt", "=", "urn:btih:">> \o Padded(magnet.hash)
        \o <<"&", "dn", "=">> \o encode_url(magnet.name)
        \o <<"&", "xl", "=">> \o Decimal(magnet.size)
        \o <<"&", "tr", "=">> \o encode_url(magnet.trackers[1])

\* The parameters of a magnet link: what has text on both sides of its first "=".
Params(text) ==
    LET parts == Where(Split(After(text, "magnet:?"), "&"),
                       LAMBDA p : \E i \in 2..Len(p) - 1 : p[i] = "=")
    IN  [i \in DOMAIN parts |-> <<Before(parts[i], "="), After(parts[i], "=")>>]

FromParams(params) ==
    LET With(key) == Where(params, LAMBDA p : p[1] = <<key>>)
        xt       == With("xt")
        dn       == With("dn")
        tr       == With("tr")
        size     == LET xl == With("xl") IN IF xl = << >> THEN Fails ELSE FromDecimal(xl[1][2])
    IN  IF xt = << >> \/ dn = << >> \/ size = Fails THEN Fails
        ELSE <<[hash     |-> After(xt[1][2], "urn:btih:"),
                name     |-> decode_url(dn[1][2]),
                size     |-> size[1],
                trackers |-> [i \in DOMAIN tr |-> decode_url(tr[i][2])]]>>

from_string(text) == FromParams(Params(text))

is_amarr(magnet) == Contains(magnet.trackers, AMARR_TRACKER)

\* Mutant of Ed2kName: the decoded name goes into the link.
Ed2kNameBare(magnet) == magnet.name

Ed2kName(magnet) == encode_url(magnet.name)

to_ed2k_link(magnet) ==
    <<"ed2k://", "|", "file", "|">> \o Ed2kName(magnet) \o <<"|">> \o Decimal(magnet.size)
        \o <<"|">> \o amule_hex_hash(magnet) \o <<"|", "/">>

\* Also how aMule reads the link.
from_ed2k(text) ==
    LET els  == Split(text, "|")
        size == IF Len(els) < 5 THEN Fails ELSE FromDecimal(els[4])
    IN  IF size = Fails THEN Fails
        ELSE <<[hash |-> els[5], name |-> decode_url(els[3]), size |-> size[1],
                trackers |-> <<AMARR_TRACKER>>]>>

-----------------------------------------------------------------------------
\* Feeds

VIDEO    == {"avi", "m2ts", "m4v", "mkv", "mov", "mp4", "mpeg", "mpg", "ts", "webm", "wmv"}
EXCLUDED == {"ass", "cue", "gif", "jpg", "jpeg", "m3u", "mp3", "nfo", "png", "rar", "srt",
             "sub", "txt", "zip"}

\* Files with a video extension, and large ones without any; letter case is left out.
is_relevant_video_result(file) ==
    LET extension == IF Contains(file.file_name, ".") THEN Last(Split(file.file_name, "."))
                     ELSE << >>
    IN  \/ extension \in {<<x>> : x \in VIDEO \ EXCLUDED}
        \/ extension = << >> /\ file.size_full >= MIN_VIDEO_SIZE

Item(file) ==
    [title   |-> file.file_name,
     url     |-> MagnetText(for_amarr(file.hash, file.file_name, file.size_full)),
     length  |-> file.size_full,
     seeders |-> file.complete_source_count,
     peers   |-> file.source_count]

\* The files that are relevant, as items.
Items(files) ==
    FlattenSeq([i \in DOMAIN files |->
        IF is_relevant_video_result(files[i]) THEN <<Item(files[i])>> ELSE << >>])

\* offset, the total the client is told, and the items of the page.
FeedOf(items, offset, limit) ==
    [offset |-> offset, total |-> Len(items), items |-> Slice(items, offset, limit)]

empty_query_response ==
    [offset |-> 0, total |-> 1,
     items  |-> <<[title |-> <<"No query provided">>, url |-> <<"http", ":", "/", "/", "mock.url">>,
                   length |-> 0, seeders |-> 0, peers |-> 0]>>]

\* Indexer.search of one engine that has found these files.
EngineFeed(files, offset, limit) == FeedOf(Items(files), offset, limit)

\* The first item of each link.
Deduplicated(items) ==
    FlattenSeq([i \in DOMAIN items |->
        IF \E j \in 1..i - 1 : items[j].url = items[i].url THEN << >> ELSE <<items[i]>>])

\* Mutant of RawLimit: each list is asked for one page.
RawLimitOfPage(offset, limit) == limit

RawLimit(offset, limit) == offset + limit

\* Several feeds, each asked from 0 on, as one: merged, deduplicated, then cut.
Merged(feeds, offset, limit) ==
    FeedOf(Deduplicated(FlattenSeq([i \in DOMAIN feeds |-> feeds[i].items])), offset, limit)

\* AggregateIndexer.search: found gives the files of each engine, in the order they are
\* configured; engines that fail are left out.
AggregateFeed(found, failing, offset, limit) ==
    Merged([e \in DOMAIN found |->
                IF e \in failing THEN FeedOf(<< >>, 0, 0)
                ELSE EngineFeed(found[e], 0, RawLimit(offset, limit))], offset, limit)

\* The route of one engine, which answers with nothing when its search fails, or of all.
IndexerFeed(found, failing, offset, limit) ==
    IF Len(found) = 1 THEN EngineFeed(IF failing = {} THEN found[1] ELSE << >>, offset, limit)
    ELSE AggregateFeed(found, failing, offset, limit)

\* _perform_queries: one query is the indexer's own page; the variants of an episode's
\* name are merged like engines.  found gives the files by variant and engine.
PerformQueries(found, failing, offset, limit) ==
    IF Len(found) = 1 THEN IndexerFeed(found[1], failing, offset, limit)
    ELSE Merged([v \in DOMAIN found |->
                     IndexerFeed(found[v], failing, 0, RawLimit(offset, limit))], offset, limit)

\* _search_queries: three spellings when a TV search names a season and an episode.
SearchQueries(query, tv, season, episode) ==
    IF ~tv \/ query = << >> \/ season = << >> \/ episode = << >> THEN <<query>>
    ELSE <<query \o <<"S">> \o season \o <<"E">> \o episode,
           query \o season \o <<"x">> \o episode, query \o season \o episode>>

=============================================================================
