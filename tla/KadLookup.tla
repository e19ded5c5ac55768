------------------------------- MODULE KadLookup ------------------------------
(***************************************************************************)
(* One keyword search on Kad: KadClient.keyword_search, enrich_sources and *)
(* recv_for of src/amarr/ed2k/kad.py.  The client sends UDP requests in    *)
(* rounds and listens for a fixed time after each; an answer may be lost,  *)
(* may come twice, and may come in any later window, where it is read as   *)
(* whatever that window makes of it.                                       *)
(*                                                                         *)
(* A contact stands for its Kad ID and its address.  Distance is the XOR   *)
(* metric, which gives different IDs different distances.                  *)
(***************************************************************************)
EXTENDS Naturals, Sequences, FiniteSets, SequencesExt

CONSTANTS Nodes,       \* the Kad nodes
          Seeds,       \* the contacts the search starts from
          Networks,    \* what each node may know: functions Nodes -> SUBSET Nodes
          Files,       \* file hashes
          Keyword,     \* the goal of the first lookup; the files are those of the next
          Distance,    \* goal -> node -> distance
          Published,   \* node -> what it has on the keyword: a sequence of records with
                       \* the hash, FT_SOURCES, and whether the name has all the words
          Sources,     \* node -> file -> the clients it knows for the file
          Rounds, Alpha, SearchNodes,          \* parameters of keyword_search
          FileRounds, FileAlpha, FileNodes,    \* parameters of enrich_sources
          EnrichTop,   \* min(enrich_top, 8)
          MaxHeard     \* bound: search results read, repetitions included

ASSUME NodesAssumption == Seeds \subseteq Nodes /\ Seeds # {} /\ IsFiniteSet(Nodes)
ASSUME NetworksAssumption == Networks \subseteq [Nodes -> SUBSET Nodes]
ASSUME GoalsAssumption == Keyword \notin Files
ASSUME PublishedAssumption ==
    Published \in [Nodes -> Seq([hash : Files, sources : Nat, named : BOOLEAN])]
ASSUME BoundsAssumption ==
    {Rounds, Alpha, SearchNodes, FileRounds, FileAlpha, FileNodes, EnrichTop} \subseteq Nat \ {0}

VARIABLES online,    \* the nodes that answer
          knows,     \* the contacts each node gives away
          doSources, \* do_sources
          stage,     \* the window that is open, "next" between two files, or "done"
          goal,      \* what the lookup under way looks for
          round,     \* rounds of the lookup so far
          pool,      \* contacts of the lookup under way
          contacts,  \* the attribute contacts, handed to KadSession
          queried,   \* contacts of this lookup that were sent KADEMLIA2_REQ
          closest,   \* contacts that were sent the search request of this lookup
          alive,     \* nodes that some window has heard from
          told,      \* new contacts of the open window
          heard,     \* results of the keyword search, in the order they came
          out,       \* file -> published availability: the answer of the search
          todo,      \* files whose sources are still to be counted
          srcs,      \* distinct sources heard for the file of this lookup
          counted,   \* file -> kad_sources
          air,       \* answers sent: each may arrive never, once or more often
          used       \* history: the answers some window has made use of

envVars == <<online, knows, doSources>>
resultVars == <<contacts, out, todo, counted>>
vars == <<envVars, stage, goal, round, pool, queried, closest, alive, told, heard,
          srcs, resultVars, air, used>>

Goals == {Keyword} \cup Files
Answer(kind, n, g) == [kind |-> kind, from |-> n, goal |-> g]
Window == {"boot", "round", "keys", "sources"}
-----------------------------------------------------------------------------
(* sorted(...)[:n]: the n contacts of S that are nearest to the goal. *)
Nearest(g, S, n) ==
    {c \in S : Cardinality({d \in S : Distance[g][d] < Distance[g][c]}) < n}

RoundsOf(g) == IF g = Keyword THEN Rounds ELSE FileRounds
AlphaOf(g) == IF g = Keyword THEN Alpha ELSE FileAlpha

(* The contacts known once the open window is over. *)
Known == pool \cup told

(* Mutant of Candidates: a node that was asked and kept silent is asked again. *)
CandidatesAgain == Nearest(goal, Known \ (queried \cap alive), AlphaOf(goal))

(* Whom the next round asks: the nearest contacts not asked yet. *)
Candidates == Nearest(goal, Known \ queried, AlphaOf(goal))

(* Mutant of Holders: the nearest contacts, whether they answer or not. *)
HoldersUnheard ==
    Nearest(goal, Known, IF goal = Keyword THEN SearchNodes ELSE FileNodes)

(* Whom the search request goes to: for the keyword the nearest contacts   *)
(* that have answered, if any has; for a file the nearest ones.            *)
Holders ==
    IF goal # Keyword THEN Nearest(goal, Known, FileNodes)
    ELSE Nearest(goal, IF Known \cap alive # {} THEN Known \cap alive ELSE Known,
                 SearchNodes)

(* d[k] = v *)
Put(d, k, v) == [x \in DOMAIN d \cup {k} |-> IF x = k THEN v ELSE d[x]]

(* Mutant of Dedup: the result that came last is kept. *)
DedupLast(results) == FoldLeft(LAMBDA d, r : Put(d, r.hash, r), <<>>, results)

(* The dict dedup, result by result: per hash the one with the highest     *)
(* availability, the first one if there are several.                       *)
Dedup(results) ==
    LET dedup[n \in 0..Len(results)] ==
            IF n = 0 THEN <<>>
            ELSE LET r == results[n]
                     d == dedup[n - 1]
                 IN  IF r.hash \notin DOMAIN d \/ r.sources > d[r.hash].sources
                       THEN Put(d, r.hash, r) ELSE d
    IN  dedup[Len(results)]

(* filter_by_query, on the names that dedup has kept. *)
Filtered(d) == [h \in {g \in DOMAIN d : d[g].named} |-> d[h].sources]

(* The sort by availability; ties in any order. *)
Ranking(d) ==
    {s \in SetToSeqs(DOMAIN d) : \A i, j \in 1..Len(s) : i < j => d[s[i]] >= d[s[j]]}
-----------------------------------------------------------------------------
Init ==
    /\ online \in SUBSET Nodes
    /\ knows \in Networks
    /\ doSources \in BOOLEAN
    /\ stage = "boot"           \* send_bootstrap to every seed
    /\ air = {Answer("boot", n, Keyword) : n \in Seeds \cap online}
    /\ goal = Keyword
    /\ round = 0
    /\ pool = Seeds
    /\ contacts = {}
    /\ queried = {}
    /\ closest = {}
    /\ alive = {}
    /\ told = {}
    /\ heard = <<>>
    /\ out = <<>>
    /\ todo = <<>>
    /\ srcs = {}
    /\ counted = <<>>
    /\ used = {}

(* recv_for while contacts are looked for: any packet shows its sender to  *)
(* be alive; search results are dropped.                                   *)
ReceiveContacts(m) ==
    /\ stage \in {"boot", "round"}
    /\ alive' = alive \cup {m.from}
    /\ IF m.kind \in {"boot", "contacts"}
         THEN /\ told' = told \cup knows[m.from]
              /\ used' = used \cup {m}
         ELSE UNCHANGED <<told, used>>
    /\ UNCHANGED <<heard, srcs>>

(* recv_for of the last two windows of keyword_search: contacts are dropped. *)
ReceiveResults(m) ==
    /\ stage = "keys"
    /\ alive' = alive \cup {m.from}
    /\ IF m.kind = "files"
         THEN /\ Len(heard) + Len(Published[m.from]) <= MaxHeard
              /\ heard' = heard \o Published[m.from]
              /\ used' = used \cup {m}
         ELSE UNCHANGED <<heard, used>>
    /\ UNCHANGED <<told, srcs>>

(* Mutant of IsForGoal: the target of a search result is not compared. *)
IsForAny(m) == m.kind = "sources"

(* p[16:32] == wire: the result is about the file whose sources are counted. *)
IsForGoal(m) == m.kind = "sources" /\ m.goal = goal

(* The loop of enrich_sources that reads its own packets. *)
ReceiveSources(m) ==
    /\ stage = "sources"
    /\ IsForGoal(m)
    /\ srcs' = srcs \cup Sources[m.from][m.goal]
    /\ used' = used \cup {m}
    /\ UNCHANGED <<alive, told, heard>>

Receive ==
    /\ \E m \in air : ReceiveContacts(m) \/ ReceiveResults(m) \/ ReceiveSources(m)
    /\ UNCHANGED <<envVars, stage, goal, round, pool, queried, closest, resultVars, air>>
-----------------------------------------------------------------------------
Looking == stage \in {"boot", "round", "next"}

(* Mutant of RoundLeft: one round too many. *)
OneMoreRound == round <= RoundsOf(goal)

RoundLeft == round < RoundsOf(goal)

(* Mutant of LookupOver: nobody else to ask, but no answer yet, waits on. *)
LookupOverHeard == alive # {} /\ (~RoundLeft \/ Candidates = {})

(* The loop of rounds ends: also when the only answers are still to come.  *)
LookupOver == ~RoundLeft \/ Candidates = {}

(* The window is over, its contacts are merged, and the next round asks.  *)
AskRound ==
    /\ Looking
    /\ RoundLeft /\ Candidates # {}
    /\ stage' = "round"
    /\ round' = round + 1
    /\ pool' = Known
    /\ told' = {}
    /\ queried' = queried \cup Candidates
    /\ air' = air \cup {Answer("contacts", n, goal) : n \in Candidates \cap online}
    /\ UNCHANGED <<envVars, goal, closest, alive, heard, srcs, resultVars, used>>

(* No round or nobody is left: KADEMLIA2_SEARCH_KEY_REQ for the keyword,  *)
(* KADEMLIA2_SEARCH_SOURCE_REQ for a file.                                 *)
AskHolders ==
    /\ Looking
    /\ LookupOver
    /\ stage' = IF goal = Keyword THEN "keys" ELSE "sources"
    /\ pool' = Known
    /\ told' = {}
    /\ closest' = Holders
    /\ air' = air \cup {Answer(IF goal = Keyword THEN "files" ELSE "sources", n, goal) :
                           n \in Holders \cap online}
    /\ UNCHANGED <<envVars, goal, round, queried, alive, heard, srcs, resultVars, used>>

(* The loop over results[:top] of enrich_sources, from the next file on. *)
LookUpNext(files, base) ==
    IF files = <<>>
    THEN /\ stage' = "done"
         /\ UNCHANGED <<goal, round, pool, queried, closest, todo, srcs>>
    ELSE /\ stage' = "next"
         /\ goal' = Head(files)
         /\ todo' = Tail(files)
         /\ round' = 0
         /\ pool' = base
         /\ queried' = {}
         /\ closest' = {}
         /\ srcs' = {}

(* The last window of the keyword search is over. *)
EndKeywordSearch ==
    /\ stage = "keys"
    /\ out' = Filtered(Dedup(heard))
    /\ contacts' = pool
    /\ \E ranked \in Ranking(out') :
           LookUpNext(IF doSources
                        THEN SubSeq(ranked, 1, IF Len(ranked) < EnrichTop
                                                 THEN Len(ranked) ELSE EnrichTop)
                        ELSE <<>>,
                      pool)
    /\ UNCHANGED <<envVars, alive, told, heard, counted, air, used>>

(* The sources of one file are counted. *)
EndSourceSearch ==
    /\ stage = "sources"
    /\ counted' = Put(counted, goal, Cardinality(srcs))
    /\ LookUpNext(todo, contacts)
    /\ UNCHANGED <<envVars, contacts, out, alive, told, heard, air, used>>

EndWindow == AskRound \/ AskHolders \/ EndKeywordSearch \/ EndSourceSearch
Next == Receive \/ EndWindow

(* A window is over when its time is: fair, whatever is still received.    *)
Spec == Init /\ [][Next]_vars
FairSpec == Spec /\ WF_vars(EndWindow)
-----------------------------------------------------------------------------
TypeOK ==
    /\ online \subseteq Nodes /\ knows \in Networks /\ doSources \in BOOLEAN
    /\ stage \in Window \cup {"next", "done"}
    /\ goal \in Goals
    /\ round \in 0..RoundsOf(goal)
    /\ Seeds \subseteq pool /\ pool \cup told \subseteq Nodes
    /\ contacts = {} \/ (Seeds \subseteq contacts /\ contacts \subseteq Nodes)
    /\ (contacts = {}) <=> (goal = Keyword /\ stage # "done")
    /\ queried \subseteq pool /\ closest \subseteq pool
    /\ alive \subseteq online
    /\ DOMAIN counted \subseteq DOMAIN out /\ DOMAIN out \subseteq Files
    /\ used \subseteq air

(* The nodes a lookup can get to: those that answer, starting from the     *)
(* seeds, and the contacts each of them gives away.                        *)
Reachable ==
    LET Closed(S) == \A n \in S : knows[n] \cap online \subseteq S
        Sets == {S \in SUBSET online : Seeds \cap online \subseteq S /\ Closed(S)}
    IN  {n \in online : \A S \in Sets : n \in S}

InTime == {m \in air : m.kind \in {"boot", "contacts"} /\ m.goal = Keyword} \subseteq used

(* What the lookup is for (the comment before the alive list and "Querying *)
(* nearby alive nodes"): if every answer came in time and the rounds were  *)
(* enough to ask everybody, the keyword is looked for at the nodes nearest *)
(* to it among all that can be reached, however the network is linked and  *)
(* whichever nodes are silent.                                             *)
FindsNearest ==
    stage = "keys" /\ pool \subseteq queried /\ InTime =>
        LET there == Reachable
        IN  there # {} => closest = Nearest(Keyword, there, SearchNodes)

(* "Dedup by hash, keeping the highest published availability": whatever   *)
(* the order in which results come, repetitions included, a file is shown  *)
(* with the highest availability heard; it is left out only if a result    *)
(* with that availability has a name without the words of the query.       *)
KeepsHighest ==
    contacts # {} =>
        \A r \in ToSet(heard) :
            LET same == {q \in ToSet(heard) : q.hash = r.hash}
                best == {q \in same : \A p \in same : p.sources <= q.sources}
            IN  /\ r.hash \in DOMAIN out =>
                       \E q \in best : q.named /\ out[r.hash] = q.sources
                /\ r.hash \notin DOMAIN out => \E q \in best : ~q.named

(* kad_sources counts the distinct clients that answers about this very    *)
(* file named: not those of the file looked up before, whose answers may   *)
(* still come, and no client twice.                                        *)
SourcesOfTheFile ==
    \A f \in DOMAIN counted :
        counted[f] = Cardinality(UNION {Sources[m.from][f] :
                         m \in {u \in used : u.kind = "sources" /\ u.goal = f}})

(* A search ends, whoever answers and however often: the client has a      *)
(* fixed number of rounds, and its windows close by the clock.             *)
LookupEnds == <>(stage = "done")
=============================================================================
