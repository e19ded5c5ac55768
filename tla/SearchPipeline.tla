---------------------------- MODULE SearchPipeline ----------------------------
(***************************************************************************)
(* How a search is answered: the cache (src/amarr/cache.py), the pipeline  *)
(* of Indexer (torznab/indexer/base.py), its three engines, the "all"      *)
(* endpoint that asks them in parallel (aggregate.py), and aMule's one     *)
(* current search, which AmuleClient.search_sync drives with separate      *)
(* requests.  Each request to aMule, each cache access and each search of  *)
(* a session is one step: AmuleConnection, the lock of SearchCache and     *)
(* ExclusiveSession make them so.                                          *)
(***************************************************************************)
EXTENDS Naturals

CONSTANTS Threads,    \* the server's worker threads
          Engines,    \* the active indexers
          Endpoints,  \* the routes asked: engines, or "all"
          Queries,    \* normalized queries
          TTL,        \* ttl_seconds
          None        \* nobody, no query

ASSUME EnginesAssumption == Engines \subseteq {"amule", "ed2k", "kad"}
ASSUME EndpointsAssumption == Endpoints \subseteq Engines \cup {"all"}
ASSUME NoneAssumption == None \notin Threads \cup Queries \cup Engines \cup {"all"}
ASSUME TTLAssumption == TTL \in Nat

VARIABLES endpoint,  \* the route each thread is serving, or None
          query,     \* what it is asked for
          stage,     \* where its call of each engine has come to
          got,       \* the result list each of these calls holds
          reply,     \* the last reply of each thread
          cache,     \* the rows of search_cache
          core,      \* aMule's current search
          owed,      \* the search an eD2k server has not answered yet
          changed    \* the networks have changed what they would answer

requestVars == <<endpoint, query, reply>>
taskVars == <<stage, got>>
networkVars == <<core, owed, changed>>
vars == <<requestVars, taskVars, cache, networkVars>>
-----------------------------------------------------------------------------
Tasks == Threads \X Engines
Keys == Engines \X Queries

(* A result list: the query its files answer, what it is, whether another  *)
(* thread had started an aMule search meanwhile, and whether it was        *)
(* collected after the networks changed.  It is empty, "early" when aMule  *)
(* was asked in the first moments of a search, "late" when it is what the  *)
(* answer to an earlier query has for this one.                            *)
Results == [q : Queries \cup {None}, kind : {"failed", "empty", "early", "found", "late"},
            crossed : BOOLEAN, new : BOOLEAN]
Failed == [q |-> None, kind |-> "failed", crossed |-> FALSE, new |-> FALSE]
Empty == [q |-> None, kind |-> "empty", crossed |-> FALSE, new |-> changed]

NoDebt == [q |-> None, new |-> FALSE]

(* A row that is missing behaves like one that has expired. *)
Missing == [result |-> Failed, age |-> TTL + 1]

(* SearchCache.get finds the row and it is not older than ttl. *)
Served(key) == TTL > 0 /\ cache[key].age <= TTL

Init ==
    /\ endpoint = [t \in Threads |-> None]
    /\ query = [t \in Threads |-> None]
    /\ stage = [a \in Tasks |-> "off"]
    /\ got = [a \in Tasks |-> Failed]
    /\ reply = [t \in Threads |-> "none"]
    /\ cache = [key \in Keys |-> Missing]
    /\ core = [by |-> None, q |-> None, phase |-> "done", new |-> FALSE]
    /\ owed = NoDebt
    /\ changed = FALSE

KeyOf(a) == <<a[2], query[a[1]]>>
-----------------------------------------------------------------------------
(* A request reaches a route; "all" submits one search per engine. *)
Arrive(t, route, q) ==
    /\ endpoint[t] = None
    /\ endpoint' = [endpoint EXCEPT ![t] = route]
    /\ query' = [query EXCEPT ![t] = q]
    /\ reply' = [reply EXCEPT ![t] = "none"]
    /\ stage' = [a \in Tasks |->
                    IF a[1] = t /\ route \in {a[2], "all"} THEN "lookup" ELSE stage[a]]
    /\ UNCHANGED <<got, cache, networkVars>>

Goes(a, from, to) ==
    /\ stage[a] = from
    /\ stage' = [stage EXCEPT ![a] = to]
    /\ UNCHANGED requestVars

(* Mutant of Hit: a row that is used counts as new. *)
HitRenews(a) ==
    /\ Goes(a, "lookup", "done")
    /\ Served(KeyOf(a))
    /\ got' = [got EXCEPT ![a] = cache[KeyOf(a)].result]
    /\ cache' = [cache EXCEPT ![KeyOf(a)].age = 0]
    /\ UNCHANGED networkVars

(* _raw_search_cached: a hit is returned as it is. *)
Hit(a) ==
    /\ Goes(a, "lookup", "done")
    /\ Served(KeyOf(a))
    /\ got' = [got EXCEPT ![a] = cache[KeyOf(a)].result]
    /\ UNCHANGED <<cache, networkVars>>

Miss(a) ==
    /\ Goes(a, "lookup", "search")
    /\ ~Served(KeyOf(a))
    /\ UNCHANGED <<got, cache, networkVars>>
-----------------------------------------------------------------------------
(* search_sync: the core drops its current search for the new one. *)
StartSearch(a) ==
    /\ a[2] = "amule"
    /\ Goes(a, "search", "settle")
    /\ core' = [by |-> a[1], q |-> query[a[1]], phase |-> "warm", new |-> changed]
    /\ UNCHANGED <<got, cache, owed, changed>>

(* Mutant of Settle: the polls before the first look at the status are left out. *)
SettleAtOnce(a) ==
    /\ Goes(a, "settle", "poll")
    /\ UNCHANGED <<got, cache, networkVars>>

(* The 15 polls of 200 ms are there because "the server always returns     *)
(* 100 % if you don't wait a bit": they outlast that time of a's search.   *)
Settle(a) ==
    /\ core.by = a[1] => core.phase # "warm"
    /\ Goes(a, "settle", "poll")
    /\ UNCHANGED <<got, cache, networkVars>>

(* Mutant of EndPolling: no time-out. *)
EndPollingWhenDone(a) ==
    /\ core.phase # "running"
    /\ Goes(a, "poll", "fetch")
    /\ UNCHANGED <<got, cache, networkVars>>

(* The search shows as done (or as 100 % because another one has just      *)
(* started), or the time-out has passed.                                   *)
EndPolling(a) ==
    /\ Goes(a, "poll", "fetch")
    /\ UNCHANGED <<got, cache, networkVars>>

(* search_results: whatever the core holds now, if anything yet. *)
Fetch(a) ==
    /\ Goes(a, "fetch", "store")
    /\ LET early == core.phase = "warm"
       IN  got' = [got EXCEPT ![a] =
                      [q       |-> IF early THEN None ELSE core.q,
                       kind    |-> IF early THEN "early" ELSE "found",
                       crossed |-> core.by # a[1],
                       new     |-> core.new]]
    /\ UNCHANGED <<cache, networkVars>>

CoreBegins ==
    /\ core.phase = "warm"
    /\ core' = [core EXCEPT !.phase = "running"]
    /\ UNCHANGED <<requestVars, taskVars, cache, owed, changed>>

CoreFinishes ==
    /\ core.phase = "running"
    /\ core' = [core EXCEPT !.phase = "done"]
    /\ UNCHANGED <<requestVars, taskVars, cache, owed, changed>>
-----------------------------------------------------------------------------
(* What an eD2k server may owe once a's search is over, however it ends: the *)
(* answer to it, or to an earlier one; nothing if all are read, or if the    *)
(* connection was closed.                                                    *)
Owes(a) ==
    owed' \in IF a[2] = "ed2k" THEN {owed, NoDebt, [q |-> query[a[1]], new |-> changed]}
              ELSE {owed}

(* filter_by_query drops what the query does not match. *)
Filtered(a, kind, new) ==
    [q |-> query[a[1]], kind |-> kind, crossed |-> FALSE, new |-> new]

(* A search of the eD2k or the Kad session.  When nothing arrives in time    *)
(* both return an empty list.  An eD2k server may still owe an answer; the   *)
(* next search on that connection reads it as its own.                       *)
SearchSession(a) ==
    /\ a[2] \in {"ed2k", "kad"}
    /\ Goes(a, "search", "store")
    /\ \E list \in {Filtered(a, "found", changed), Empty}
                      \cup (IF a[2] = "ed2k" /\ owed.q # None
                            THEN {Filtered(a, "late", owed.new)} ELSE {}) :
           got' = [got EXCEPT ![a] = list]
    /\ Owes(a)
    /\ UNCHANGED <<cache, core, changed>>

(* Mutant of CaughtError: the empty list goes the way of a result. *)
CaughtErrorStored(a) ==
    /\ \E s \in {"search", "settle", "poll", "fetch"} : Goes(a, s, "store")
    /\ got' = [got EXCEPT ![a] = Failed]
    /\ IF stage[a] = "search" THEN Owes(a) ELSE UNCHANGED owed
    /\ UNCHANGED <<cache, core, changed>>

(* The engine raises OSError or ValueError: logged, and an empty list. *)
CaughtError(a) ==
    /\ \E s \in {"search", "settle", "poll", "fetch"} : Goes(a, s, "done")
    /\ got' = [got EXCEPT ![a] = Failed]
    /\ IF stage[a] = "search" THEN Owes(a) ELSE UNCHANGED owed
    /\ UNCHANGED <<cache, core, changed>>

(* Any other exception escapes: an AmuleException of the client,           *)
(* struct.error or zlib.error of the eD2k parser, IndexError of a Kad      *)
(* search without words, sqlite3.Error when the cache cannot be read or    *)
(* written.                                                                *)
EscapingError(a) ==
    /\ \E s \in {"lookup", "search", "settle", "poll", "fetch", "store"} : Goes(a, s, "raised")
    /\ got' = [got EXCEPT ![a] = Failed]
    /\ IF stage[a] = "search" THEN Owes(a) ELSE UNCHANGED owed
    /\ UNCHANGED <<cache, core, changed>>

(* SearchCache.put; with ttl = 0 it does nothing. *)
Store(a) ==
    /\ Goes(a, "store", "done")
    /\ cache' = IF TTL = 0 THEN cache
                ELSE [cache EXCEPT ![KeyOf(a)] = [result |-> got[a], age |-> 0]]
    /\ UNCHANGED <<got, networkVars>>
-----------------------------------------------------------------------------
Called(t) == {e \in Engines : stage[<<t, e>>] # "off"}

(* The thread is ready for the next request. *)
Clear(t) ==
    /\ endpoint' = [endpoint EXCEPT ![t] = None]
    /\ query' = [query EXCEPT ![t] = None]
    /\ stage' = [a \in Tasks |-> IF a[1] = t THEN "off" ELSE stage[a]]
    /\ got' = [a \in Tasks |-> IF a[1] = t THEN Failed ELSE got[a]]

(* Mutant of Answer: the first exception of an engine goes through "all". *)
AnswerUnguarded(t) ==
    /\ endpoint[t] # None
    /\ \A e \in Called(t) : stage[<<t, e>>] \in {"done", "raised"}
    /\ reply' = [reply EXCEPT ![t] =
                    IF \E e \in Called(t) : stage[<<t, e>>] = "raised"
                      THEN "error" ELSE "feed"]
    /\ Clear(t)
    /\ UNCHANGED <<cache, networkVars>>

(* The reply: a feed, or HTTP 500 when the exception of the only engine    *)
(* escapes; AggregateIndexer ignores the engines that failed.              *)
Answer(t) ==
    /\ endpoint[t] # None
    /\ \A e \in Called(t) : stage[<<t, e>>] \in {"done", "raised"}
    /\ reply' = [reply EXCEPT ![t] =
                    IF endpoint[t] # "all" /\ \E e \in Called(t) : stage[<<t, e>>] = "raised"
                      THEN "error" ELSE "feed"]
    /\ Clear(t)
    /\ UNCHANGED <<cache, networkVars>>

(* amarr is killed and started again: cache.db and aMule are still there. *)
Restart ==
    /\ endpoint' = [t \in Threads |-> None]
    /\ query' = [t \in Threads |-> None]
    /\ reply' = [t \in Threads |-> "none"]
    /\ stage' = [a \in Tasks |-> "off"]
    /\ got' = [a \in Tasks |-> Failed]
    /\ owed' = NoDebt
    /\ UNCHANGED <<cache, core, changed>>

(* A second passes; a row older than the TTL is as good as missing. *)
Tick ==
    /\ \E key \in Keys : cache[key] # Missing
    /\ cache' = [key \in Keys |->
                    IF cache[key].age < TTL THEN [cache[key] EXCEPT !.age = @ + 1]
                                            ELSE Missing]
    /\ UNCHANGED <<requestVars, taskVars, networkVars>>

NetworkChanges ==
    /\ ~changed
    /\ changed' = TRUE
    /\ UNCHANGED <<requestVars, taskVars, cache, core, owed>>
-----------------------------------------------------------------------------
(* What a thread's call of an engine does next when nothing is raised. *)
Proceed(a) ==
    \/ Hit(a) \/ Miss(a)
    \/ StartSearch(a) \/ Settle(a) \/ EndPolling(a) \/ Fetch(a)
    \/ SearchSession(a)
    \/ Store(a)

Next ==
    \/ \E t \in Threads, route \in Endpoints, q \in Queries : Arrive(t, route, q)
    \/ \E a \in Tasks : Proceed(a) \/ CaughtError(a) \/ EscapingError(a)
    \/ \E t \in Threads : Answer(t)
    \/ CoreBegins \/ CoreFinishes
    \/ Restart \/ Tick \/ NetworkChanges

Spec == Init /\ [][Next]_vars

(* Threads run, time passes, and the core leaves the first moments of a    *)
(* search; that it ever finishes one is not assumed.                       *)
Fairness ==
    /\ \A a \in Tasks : WF_vars(Proceed(a))
    /\ \A t \in Threads : WF_vars(Answer(t))
    /\ WF_vars(CoreBegins)
    /\ WF_vars(Tick)

FairSpec == Spec /\ Fairness
-----------------------------------------------------------------------------
(* Types, and every request has a call of each engine it asks, and no other. *)
TypeOK ==
    /\ endpoint \in [Threads -> Engines \cup {"all", None}]
    /\ query \in [Threads -> Queries \cup {None}]
    /\ stage \in [Tasks -> {"off", "lookup", "search", "settle", "poll", "fetch",
                            "store", "done", "raised"}]
    /\ got \in [Tasks -> Results]
    /\ \A a \in Tasks : stage[a] # "off" <=> endpoint[a[1]] \in {a[2], "all"}
    /\ reply \in [Threads -> {"none", "feed", "error"}]
    /\ cache \in [Keys -> [result : Results, age : 0 .. TTL + 1]]
    /\ core \in [by : Threads \cup {None}, q : Queries \cup {None},
                 phase : {"warm", "running", "done"}, new : BOOLEAN]
    /\ owed \in [q : Queries \cup {None}, new : BOOLEAN]
    /\ changed \in BOOLEAN

(* What cache.py promises of its rows (lines 5-6, "the raw results of each  *)
(* search by (engine, query)"): every list served for a query was collected *)
(* for it.                                                                  *)
CacheHoldsOwnResults ==
    \A key \in Keys : Served(key) /\ cache[key].result.kind \in {"found", "late"} =>
        cache[key].result.q = key[2]

(* A list that may be stored for an engine and a query: no error; collected *)
(* for the query, and not in the first moments of the search, unless another *)
(* thread started a search in aMule meanwhile.                               *)
OwnOrCrossed(list, key) ==
    /\ list.kind # "failed"
    /\ ~list.crossed => list.kind # "early"
    /\ ~list.crossed /\ list.kind \in {"found", "late"} => list.q = key[2]
    /\ list.crossed => key[1] = "amule"

(* What the code keeps of that promise, whatever threads overlap and        *)
(* however often amarr restarts: only a search in aMule during which        *)
(* another thread started one can leave results of another query, or the    *)
(* list of a search that has only just begun, for which the 15 polls are    *)
(* there (client.py:133-139).  What an eD2k server answers too late is      *)
(* filtered by the query that reads it.  And no error is cached: "the next  *)
(* request retries" (base.py:100-101).                                      *)
OwnUnlessCrossed ==
    \A key \in Keys : Served(key) => OwnOrCrossed(cache[key].result, key)

(* "One engine doesn't take down the rest": the "all" route always answers *)
(* with a feed, and it waits for every engine it asked.                    *)
AllAnswersWithEveryEngine ==
    [][\A t \in Threads : endpoint[t] = "all" /\ reply'[t] # reply[t] =>
           /\ reply'[t] = "feed"
           /\ \A e \in Engines : stage[<<t, e>>] \in {"done", "raised"}]_<<reply>>

(* A request ends, whatever the engines do and even if aMule never says    *)
(* that its search is over.                                                *)
RequestsEnd == \A t \in Threads : endpoint[t] # None ~> endpoint[t] = None

(* Old results do not stay: once the networks answer differently, and      *)
(* however often the query is asked, the cache comes to serve only         *)
(* results collected after the change.                                     *)
OldResultsExpire ==
    <>[]changed => <>[](\A key \in Keys : Served(key) => cache[key].result.new)
=============================================================================
