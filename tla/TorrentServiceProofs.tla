------------------------- MODULE TorrentServiceProofs -------------------------
(***************************************************************************)
(* Proofs about TorrentService, for any number of worker threads, files,   *)
(* categories and links: what a listing shows, and what an "Ok." to an add *)
(* or to a deletion stands for.  The invariant says how far each running   *)
(* request has come, and why the others cannot undo what it has done: a    *)
(* request that is sound shares no file with any other.                    *)
(***************************************************************************)
EXTENDS TorrentService, FiniteSetTheorems, TLAPS

Elements(s) == {s[i] : i \in DOMAIN s}

Listings == {"queue", "shared", "list"}
Deletions == {"snapshot", "command", "untag"}
Present == {"queued", "sharing", "complete"}
Off == {"absent", "gone"}

\* The links and hashes a request still has to do are among those it names.
NamesWhatItDoes(step, a, hashes) ==
    /\ step \in {"idle"} \cup Listings => hashes = {}
    /\ step \in {"link", "tag"} => Elements(a.todo) \cap Hashes \subseteq hashes
    /\ step = "all" => hashes = Hashes /\ ~a.files
    /\ step \in Deletions => a.todo \in Seq(Hashes) /\ Elements(a.todo) \subseteq hashes

NamedInv == \A t \in Threads : NamesWhatItDoes(at[t], arg[t], named[t])

\* A request is sound only as long as no other names one of its files.
SoundInv ==
    \A t, u \in Threads : t # u /\ sound[t] => named[t] \cap named[u] = {}

\* What a file that a listing has to show looks like between its two steps.
ListingOf(t) ==
    /\ at[t] \in Listings => kept[t] \subseteq Listable(t)
    /\ at[t] = "shared" => \A h \in kept[t] : h \in queueSeen[t] \/ amule[h] = "complete"
    /\ at[t] = "list" => kept[t] \subseteq queueSeen[t] \cup sharedSeen[t]
    /\ at[t] \in {"shared", "list"} => underway[t] \subseteq queueSeen[t]

\* The links a sound add has done are in aMule, and tagged with its category.
AddingOf(t) ==
    at[t] \in {"link", "tag"} /\ sound[t] /\ arg[t].category # None =>
        /\ \A h \in named[t] \ Elements(arg[t].todo) :
               category[h] = arg[t].category /\ amule[h] \in Present
        /\ at[t] = "tag" => amule[Head(arg[t].todo)] \in Present

\* The files a sound deletion has done are off, and it has seen the downloads it meets.
DeletingOf(t) ==
    at[t] \in Deletions /\ sound[t] /\ arg[t].files =>
        /\ \A h \in named[t] \ Elements(arg[t].todo) : amule[h] \in Off
        /\ at[t] # "snapshot" => \A h \in named[t] : h \in queueSeen[t] \/ h \notin Queue
        /\ at[t] = "untag" => amule[Head(arg[t].todo)] \in Off

RunningInv == \A t \in Threads : ListingOf(t) /\ AddingOf(t) /\ DeletingOf(t)

\* A confirmed add holds, and nobody names its file.
AddedInv ==
    \A h \in Hashes : owned[h] # None =>
        /\ \A t \in Threads : h \notin named[t]
        /\ category[h] = owned[h]
        /\ amule[h] \in Present

\* A confirmed deletion holds, and nobody names its file.
ErasedInv ==
    \A h \in erased :
        /\ \A t \in Threads : h \notin named[t]
        /\ amule[h] \in Off

IInv ==
    /\ TypeOK /\ NamedInv /\ SoundInv
    /\ RunningInv /\ AddedInv /\ ErasedInv
-----------------------------------------------------------------------------
(* The first element of a sequence and the rest make up the sequence. *)
LEMMA SequenceParts ==
    ASSUME NEW X, NEW s \in Seq(X), s # <<>>
    PROVE  /\ Head(s) \in X
           /\ Tail(s) \in Seq(X)
           /\ Head(s) \in Elements(s)
           /\ Elements(Tail(s)) \subseteq Elements(s)
           /\ Elements(s) \subseteq {Head(s)} \cup Elements(Tail(s))
<1>1. Len(s) \in Nat \ {0} /\ DOMAIN s = 1 .. Len(s) /\ Head(s) = s[1]
  OBVIOUS
<1>2. /\ Tail(s) \in Seq(X)
      /\ DOMAIN Tail(s) = 1 .. Len(s) - 1
      /\ \A i \in 1 .. Len(s) - 1 : Tail(s)[i] = s[i + 1]
  OBVIOUS
<1>3. Head(s) \in X /\ Head(s) \in Elements(s)
  BY <1>1 DEF Elements
<1>4. Elements(Tail(s)) \subseteq Elements(s)
  <2> SUFFICES ASSUME NEW i \in DOMAIN Tail(s) PROVE \E j \in DOMAIN s : Tail(s)[i] = s[j]
    BY DEF Elements
  <2>1. i + 1 \in DOMAIN s /\ Tail(s)[i] = s[i + 1]
    BY <1>1, <1>2
  <2> QED BY <2>1
<1>5. Elements(s) \subseteq {Head(s)} \cup Elements(Tail(s))
  <2> SUFFICES ASSUME NEW i \in DOMAIN s, i # 1
               PROVE  \E j \in DOMAIN Tail(s) : Tail(s)[j] = s[i]
    BY <1>1 DEF Elements
  <2>1. i - 1 \in DOMAIN Tail(s) /\ Tail(s)[i - 1] = s[i]
    BY <1>1, <1>2
  <2> QED BY <2>1
<1> QED BY <1>2, <1>3, <1>4, <1>5

(* An order of a set of files is a sequence of exactly these files. *)
LEMMA OrderOfFiles ==
    ASSUME NEW S, S \subseteq Hashes, NEW s \in SetToSeqs(S)
    PROVE  s \in Seq(Hashes) /\ Elements(s) = S
<1>1. IsFiniteSet(S)
  BY HashesAssumption, FS_Subset
<1>2. Cardinality(S) \in Nat
  BY <1>1, FS_CardinalityType
<1>3. s \in Injection(1 .. Cardinality(S), S)
  BY DEF SetToSeqs, Injection, IsInjective
<1>4. s \in Surjection(1 .. Cardinality(S), S)
  BY <1>1, <1>2, <1>3, FS_Injection, FS_Interval, FS_CardinalityType
<1> QED BY <1>2, <1>4 DEF Surjection, Elements

(* The links of a request form a sequence. *)
LEMMA LinksAreSequences ==
    ASSUME NEW links \in Links
    PROVE  /\ links \in Seq(Hashes \cup {Foreign})
           /\ HashesOf(links) = Elements(links) \cap Hashes
  BY MaxLinksAssumption DEF Links, SeqOf, HashesOf, Elements
-----------------------------------------------------------------------------
Requests == [category : Categories \cup {None}, todo : Seq(Hashes \cup {Foreign}),
             files : BOOLEAN]

RequestStep(t) ==
    InfoRequest(t) \/ AddRequest(t) \/ DeleteRequest(t) \/ DeleteAllRequest(t)

RunningStep(t) ==
    \/ ReadLists(t) \/ InfoReply(t)
    \/ AddLink(t) \/ Tag(t) \/ AddReply(t)
    \/ Snapshot(t) \/ DeleteOne(t) \/ Untag(t) \/ DeleteReply(t)
    \/ RequestFails(t)

(* Every step is one of a request's first step, a later one, a step of     *)
(* aMule and a restart, and the histories follow it.                       *)
LEMMA NextCases ==
    Next => /\ Track
            /\ \/ \E t \in Threads : RequestStep(t) \/ RunningStep(t)
               \/ \E h \in Hashes : AmuleStep(h)
               \/ Restart
  BY DEF Next, RequestStep, RunningStep

(* The first step of a request: the thread was idle, and the request names *)
(* the files it is about.                                                  *)
LEMMA RequestBegins ==
    ASSUME NEW t \in Threads, RequestStep(t)
    PROVE  \E first \in {"queue", "link", "snapshot", "all"}, a \in Requests,
              hashes \in SUBSET Hashes :
                  /\ Begin(t, first, a, hashes)
                  /\ NamesWhatItDoes(first, a, hashes)
                  /\ first = "snapshot" => Elements(a.todo) = hashes
                  /\ first = "link" => Elements(a.todo) \cap Hashes = hashes
<1> NoArg \in Requests /\ ~NoArg.files
  BY DEF NoArg, Requests
<1> USE DEF NamesWhatItDoes, Listings, Deletions
<1>1. CASE InfoRequest(t)
  <2>1. PICK c \in Categories \cup {None} :
            Begin(t, "queue", [NoArg EXCEPT !.category = c], {})
    BY <1>1 DEF InfoRequest
  <2>2. [NoArg EXCEPT !.category = c] \in Requests
    BY DEF Requests
  <2> QED BY <2>1, <2>2
<1>2. CASE AddRequest(t)
  <2>1. PICK links \in Links, c \in Categories \cup {None} :
            Begin(t, "link", [NoArg EXCEPT !.category = c, !.todo = links], HashesOf(links))
    BY <1>2 DEF AddRequest
  <2> DEFINE a == [NoArg EXCEPT !.category = c, !.todo = links]
  <2>2. a \in Requests /\ a.todo = links
    BY LinksAreSequences DEF Requests, NoArg
  <2>3. HashesOf(links) \subseteq Hashes /\ HashesOf(links) = Elements(a.todo) \cap Hashes
    BY <2>2, LinksAreSequences
  <2> QED BY <2>1, <2>2, <2>3
<1>3. CASE DeleteRequest(t)
  <2>1. PICK S \in SUBSET Hashes, files \in BOOLEAN : \E hashes \in SetToSeqs(S) :
            Begin(t, "snapshot", [NoArg EXCEPT !.todo = hashes, !.files = files], S)
    BY <1>3 DEF DeleteRequest
  <2>4. PICK hashes \in SetToSeqs(S) :
            Begin(t, "snapshot", [NoArg EXCEPT !.todo = hashes, !.files = files], S)
    BY <2>1
  <2> DEFINE a == [NoArg EXCEPT !.todo = hashes, !.files = files]
  <2>2. hashes \in Seq(Hashes) /\ Elements(hashes) = S
    BY OrderOfFiles
  <2>5. hashes \in Seq(Hashes \cup {Foreign})
    <3>1. hashes \in [1 .. Len(hashes) -> Hashes] /\ Len(hashes) \in Nat
      BY <2>2
    <3> QED BY <3>1
  <2>6. a \in Requests /\ a.todo = hashes
    BY <2>5 DEF Requests, NoArg
  <2> QED BY <2>2, <2>4, <2>6
<1>4. CASE DeleteAllRequest(t)
  <2>1. Begin(t, "all", NoArg, Hashes)
    BY <1>4 DEF DeleteAllRequest
  <2>2. NamesWhatItDoes("all", NoArg, Hashes)
    OBVIOUS
  <2> QED BY <2>1, <2>2
<1> QED BY <1>1, <1>2, <1>3, <1>4 DEF RequestStep

(* A thread's step leaves the request of every other thread alone, and     *)
(* makes it unsound if it takes up a file that request names.              *)
LEMMA OthersUntouched ==
    ASSUME TypeOK, NEW t \in Threads, RequestStep(t) \/ RunningStep(t),
           NEW u \in Threads \ {t}
    PROVE  /\ UNCHANGED <<at[u], arg[u], queueSeen[u], sharedSeen[u], named[u]>>
           /\ sound'[u] => sound[u] /\ named[u] \cap named'[t] \subseteq named[u] \cap named[t]
<1>1. CASE RequestStep(t)
  <2>1. PICK first \in {"queue", "link", "snapshot", "all"}, a \in Requests,
             hashes \in SUBSET Hashes : Begin(t, first, a, hashes)
    BY <1>1, RequestBegins
  <2>2. /\ UNCHANGED <<at[u], arg[u], queueSeen[u], sharedSeen[u], named[u]>>
        /\ named'[t] = hashes
    BY <2>1 DEF TypeOK, Begin
  <2>3. sound'[u] <=> sound[u] /\ named[u] \cap hashes = {}
    BY <2>1, Zenon DEF Begin
  <2> QED BY <2>2, <2>3
<1>2. CASE RunningStep(t)
  <2>1. \/ UNCHANGED <<at[u], named[u], sound[u]>> /\ named'[t] \subseteq named[t]
    BY <1>2 DEF TypeOK, RunningStep, ReadLists, InfoReply, AddLink, Tag, AddReply, Snapshot,
       DeleteOne, Untag, DeleteReply, RequestFails, CancelDownload, RemoveFile,
       RemoveFileFails, LeaveFile, Raise, End, Proceed, promiseVars
  <2>2. UNCHANGED <<arg[u], queueSeen[u], sharedSeen[u]>>
    BY <1>2 DEF TypeOK, RunningStep, ReadLists, InfoReply, AddLink, Tag, AddReply, Snapshot,
       DeleteOne, Untag, DeleteReply, RequestFails, CancelDownload, RemoveFile,
       RemoveFileFails, LeaveFile, Raise, End, Proceed, NextLink, promiseVars
  <2> QED BY <2>1, <2>2
<1> QED BY <1>1, <1>2
-----------------------------------------------------------------------------
(* The histories of a listing are sets of files; while it runs, they only  *)
(* shrink, and name what is listable, and what is underway, now.           *)
LEMMA HistoriesFollow ==
    ASSUME Track
    PROVE  /\ kept' \in [Threads -> SUBSET Hashes]
           /\ underway' \in [Threads -> SUBSET Hashes]
           /\ \A t \in Threads : at'[t] \in Listings =>
                  /\ kept'[t] \subseteq Listable(t)' /\ underway'[t] \subseteq Queue'
                  /\ at[t] # "idle" =>
                         kept'[t] \subseteq kept[t] /\ underway'[t] \subseteq underway[t]
<1>1. /\ \A t \in Threads : Listable(t)' \subseteq Hashes
      /\ Queue' \subseteq Hashes
  BY DEF Listable, Queue
<1>2. /\ kept' = [t \in Threads |->
                    IF at'[t] \notin Listings THEN {}
                    ELSE IF at[t] = "idle" THEN Listable(t)' ELSE kept[t] \cap Listable(t)']
      /\ underway' = [t \in Threads |->
                        IF at'[t] \notin Listings THEN {}
                        ELSE IF at[t] = "idle" THEN Queue' ELSE underway[t] \cap Queue']
  BY DEF Track, Listings
<1> HIDE DEF Track, Listable, Queue, Listings
<1> QED BY <1>1, <1>2

\* The types without those of the histories of a listing.
Typed ==
    /\ at \in [Threads -> {"idle", "queue", "shared", "list", "link", "tag",
                           "snapshot", "all", "command", "untag"}]
    /\ arg \in [Threads -> Requests]
    /\ \A t \in Threads : at[t] \in {"tag", "untag"} =>
           arg[t].todo # <<>> /\ Head(arg[t].todo) \in Hashes
    /\ queueSeen \in [Threads -> SUBSET Hashes]
    /\ sharedSeen \in [Threads -> SUBSET Hashes]
    /\ amule \in [Hashes -> {"absent", "queued", "sharing", "complete", "gone"}]
    /\ category \in [Hashes -> Categories \cup {None}]
    /\ named \in [Threads -> SUBSET Hashes]
    /\ sound \in [Threads -> BOOLEAN]
    /\ owned \in [Hashes -> Categories \cup {None}]
    /\ erased \subseteq Hashes

(* A request that begins keeps the types. *)
LEMMA BeginTypes ==
    ASSUME Typed, NEW t \in Threads, RequestStep(t)
    PROVE  Typed' /\ NamesWhatItDoes(at'[t], arg'[t], named'[t])
<1>1. PICK first \in {"queue", "link", "snapshot", "all"}, a \in Requests,
           hashes \in SUBSET Hashes :
               Begin(t, first, a, hashes) /\ NamesWhatItDoes(first, a, hashes)
  BY RequestBegins
<1>2. sound' \in [Threads -> BOOLEAN]
  <2>1. \A u \in Threads : (IF u = t THEN \A v \in Threads : named[v] \cap hashes = {}
                            ELSE sound[u] /\ named[u] \cap hashes = {}) \in BOOLEAN
    BY DEF Typed
  <2> QED BY <1>1, <2>1 DEF Begin
<1>3. /\ at'[t] = first /\ arg'[t] = a /\ named'[t] = hashes
      /\ \A u \in Threads \ {t} : at'[u] = at[u] /\ arg'[u] = arg[u]
  BY <1>1 DEF Typed, Begin
<1>4. \A u \in Threads : at'[u] \in {"tag", "untag"} =>
          arg'[u].todo # <<>> /\ Head(arg'[u].todo) \in Hashes
  BY <1>3 DEF Typed
<1> QED BY <1>1, <1>2, <1>3, <1>4 DEF Typed, Begin

(* A request that ends keeps the types. *)
LEMMA EndTypes ==
    ASSUME Typed, NEW t \in Threads, End(t),
           amule' \in [Hashes -> {"absent", "queued", "sharing", "complete", "gone"}],
           owned' \in [Hashes -> Categories \cup {None}],
           erased' \subseteq Hashes,
           UNCHANGED category
    PROVE  Typed' /\ NamesWhatItDoes(at'[t], arg'[t], named'[t])
<1>1. NoArg \in Requests
  BY DEF NoArg, Requests
<1>2. /\ at'[t] = "idle" /\ named'[t] = {}
      /\ \A u \in Threads \ {t} : at'[u] = at[u] /\ arg'[u] = arg[u]
  BY DEF Typed, End
<1>3. \A u \in Threads : at'[u] \in {"tag", "untag"} =>
          arg'[u].todo # <<>> /\ Head(arg'[u].todo) \in Hashes
  BY <1>2 DEF Typed
<1>4. sound' \in [Threads -> BOOLEAN]
  BY DEF Typed, End
<1> QED BY <1>1, <1>2, <1>3, <1>4 DEF Typed, End, NamesWhatItDoes, Listings, Deletions

(* A step over the first element of the list keeps the types of the rest. *)
LEMMA NextLinkTypes ==
    ASSUME Typed, NEW t \in Threads, arg[t].todo # <<>>, NextLink(t)
    PROVE  /\ arg' \in [Threads -> Requests]
           /\ arg'[t].todo = Tail(arg[t].todo)
           /\ arg'[t].category = arg[t].category /\ arg'[t].files = arg[t].files
           /\ \A u \in Threads \ {t} : arg'[u] = arg[u]
<1>1. Tail(arg[t].todo) \in Seq(Hashes \cup {Foreign})
  BY SequenceParts DEF Typed, Requests
<1>2. /\ arg'[t].todo = Tail(arg[t].todo)
      /\ arg'[t].category = arg[t].category /\ arg'[t].files = arg[t].files
  BY DEF Typed, NextLink, Requests
<1>3. arg' \in [Threads -> Requests]
  BY <1>1 DEF Typed, NextLink, Requests
<1> QED BY <1>2, <1>3 DEF Typed, NextLink

(* A request that goes on to its next step keeps the types. *)
LEMMA ProceedTypes ==
    ASSUME Typed, NEW t \in Threads, NEW next \in {"link", "tag", "command", "untag"},
           Proceed(t, next),
           arg' \in [Threads -> Requests],
           \A u \in Threads \ {t} : arg'[u] = arg[u],
           next \in {"tag", "untag"} => arg'[t].todo # <<>> /\ Head(arg'[t].todo) \in Hashes,
           queueSeen' \in [Threads -> SUBSET Hashes],
           amule' \in [Hashes -> {"absent", "queued", "sharing", "complete", "gone"}],
           category' \in [Hashes -> Categories \cup {None}]
    PROVE  Typed' /\ at'[t] = next /\ named'[t] = named[t]
<1>1. at'[t] = next /\ \A u \in Threads \ {t} : at'[u] = at[u]
  BY DEF Typed, Proceed
<1>2. \A u \in Threads : at'[u] \in {"tag", "untag"} =>
          arg'[u].todo # <<>> /\ Head(arg'[u].todo) \in Hashes
  BY <1>1 DEF Typed
<1> QED BY <1>1, <1>2 DEF Typed, Proceed, promiseVars

(* A step of a running request keeps the types. *)
LEMMA RunningTypes ==
    ASSUME Typed, NamedInv, NEW t \in Threads, RunningStep(t)
    PROVE  Typed' /\ NamesWhatItDoes(at'[t], arg'[t], named'[t])
<1> USE DEF promiseVars
<1>n. NamesWhatItDoes(at[t], arg[t], named[t])
  BY DEF NamedInv
<1>q. Queue \subseteq Hashes /\ Shared \subseteq Hashes
  BY DEF Queue, Shared
<1>1. CASE ReadLists(t)
  BY <1>1, <1>n, <1>q DEF ReadLists, Typed, NamesWhatItDoes, Listings, Deletions
<1>2. CASE InfoReply(t)
  BY <1>2, EndTypes DEF InfoReply, Raise, Typed
<1>a. arg[t] \in Requests /\ arg[t].todo \in Seq(Hashes \cup {Foreign})
  BY DEF Typed, Requests
<1>h. ASSUME arg[t].todo # <<>>
      PROVE  /\ Head(arg[t].todo) \in Hashes \cup {Foreign}
             /\ Head(arg[t].todo) \in Elements(arg[t].todo)
             /\ Elements(Tail(arg[t].todo)) \subseteq Elements(arg[t].todo)
             /\ at[t] \in Deletions => /\ Head(arg[t].todo) \in Hashes
                                       /\ Tail(arg[t].todo) \in Seq(Hashes)
  BY <1>a, <1>h, <1>n, SequenceParts DEF NamesWhatItDoes
<1>3. CASE AddLink(t)
  <2>1. amule' \in [Hashes -> {"absent", "queued", "sharing", "complete", "gone"}]
    BY <1>3 DEF AddLink, Typed, Raise
  <2>2. CASE Raise(t)
    BY <1>3, <2>1, <2>2, EndTypes DEF AddLink, Raise, Typed
  <2>3. CASE Proceed(t, "link") /\ NextLink(t) /\ UNCHANGED queueSeen
    <3>1. Typed' /\ at'[t] = "link" /\ named'[t] = named[t]
      BY <1>3, <2>1, <2>3, NextLinkTypes, ProceedTypes DEF AddLink, Typed
    <3>2. arg'[t].todo = Tail(arg[t].todo) /\ arg[t].todo # <<>> /\ at[t] = "link"
      BY <1>3, <2>3, NextLinkTypes DEF AddLink
    <3> QED BY <1>n, <1>h, <3>1, <3>2 DEF NamesWhatItDoes, Listings, Deletions
  <2>4. CASE /\ Proceed(t, "tag") /\ UNCHANGED <<arg, queueSeen>>
             /\ Head(arg[t].todo) # Foreign
    <3>1. arg[t].todo # <<>> /\ Head(arg[t].todo) \in Hashes /\ at[t] = "link"
      BY <1>3, <1>h, <2>4 DEF AddLink
    <3>2. Typed' /\ at'[t] = "tag" /\ named'[t] = named[t] /\ arg'[t] = arg[t]
      BY <1>3, <2>1, <2>4, <3>1, ProceedTypes DEF AddLink, Typed
    <3> QED BY <1>n, <3>1, <3>2 DEF NamesWhatItDoes, Listings, Deletions
  <2> QED BY <1>3, <2>2, <2>3, <2>4 DEF AddLink
<1>4. CASE Tag(t)
  <2>1. at[t] = "tag" /\ arg[t].todo # <<>>
    BY <1>4 DEF Tag, Typed
  <2>2. category' \in [Hashes -> Categories \cup {None}]
    BY <1>4, <1>a DEF Tag, Typed, Requests
  <2>3. arg'[t].todo = Tail(arg[t].todo)
    BY <1>4, <2>1, NextLinkTypes DEF Tag
  <2>4. Typed' /\ at'[t] = "link" /\ named'[t] = named[t]
    BY <1>4, <2>1, <2>2, NextLinkTypes, ProceedTypes DEF Tag, Typed
  <2> QED BY <1>n, <1>h, <2>1, <2>3, <2>4 DEF NamesWhatItDoes, Listings, Deletions
<1>5. CASE AddReply(t)
  <2>1. owned' \in [Hashes -> Categories \cup {None}]
    BY <1>5, <1>a DEF AddReply, Typed, Requests
  <2> QED BY <1>5, <2>1, EndTypes DEF AddReply, Typed
<1>6. CASE Snapshot(t)
  <2>1. queueSeen' \in [Threads -> SUBSET Hashes]
    BY <1>6, <1>q DEF Snapshot, Typed
  <2>2. CASE at[t] = "snapshot"
    <3>1. UNCHANGED arg
      BY <1>6, <2>2 DEF Snapshot
    <3>2. Typed' /\ at'[t] = "command" /\ named'[t] = named[t]
      BY <1>6, <2>1, <3>1, ProceedTypes DEF Snapshot, Typed
    <3> QED BY <1>n, <2>2, <3>1, <3>2 DEF NamesWhatItDoes, Listings, Deletions
  <2>3. CASE at[t] = "all"
    <3>1. PICK hashes \in SetToSeqs(Shared) : arg' = [arg EXCEPT ![t].todo = hashes]
      BY <1>6, <2>3 DEF Snapshot
    <3>2. hashes \in Seq(Hashes) /\ Elements(hashes) = Shared
      BY <1>q, OrderOfFiles
    <3>3. hashes \in Seq(Hashes \cup {Foreign})
      <4>1. hashes \in [1 .. Len(hashes) -> Hashes] /\ Len(hashes) \in Nat
        BY <3>2
      <4> QED BY <4>1
    <3>4. /\ arg' \in [Threads -> Requests] /\ arg'[t].todo = hashes
          /\ \A u \in Threads \ {t} : arg'[u] = arg[u]
      BY <3>1, <3>3 DEF Typed, Requests
    <3>5. Typed' /\ at'[t] = "command" /\ named'[t] = named[t]
      BY <1>6, <2>1, <3>4, ProceedTypes DEF Snapshot, Typed
    <3> QED BY <1>n, <1>q, <2>3, <3>2, <3>4, <3>5 DEF NamesWhatItDoes, Listings, Deletions
  <2> QED BY <1>6, <2>2, <2>3 DEF Snapshot
<1>7. CASE DeleteOne(t)
  <2>1. /\ at[t] = "command" /\ arg[t].todo # <<>>
        /\ Head(arg[t].todo) \in Hashes /\ UNCHANGED category
    BY <1>7, <1>h DEF DeleteOne, Deletions
  <2> DEFINE h == Head(arg[t].todo)
  <2>2. amule' \in [Hashes -> {"absent", "queued", "sharing", "complete", "gone"}]
    BY <1>7, <2>1 DEF DeleteOne, CancelDownload, RemoveFile, RemoveFileFails, LeaveFile, Typed
  <2>3. CASE Raise(t)
    BY <2>1, <2>2, <2>3, EndTypes DEF Raise, Typed
  <2>4. CASE Proceed(t, "untag") /\ UNCHANGED <<arg, queueSeen>>
    <3>1. Typed' /\ at'[t] = "untag" /\ named'[t] = named[t] /\ arg'[t] = arg[t]
      BY <2>1, <2>2, <2>4, ProceedTypes DEF Typed
    <3> QED BY <1>n, <2>1, <3>1 DEF NamesWhatItDoes, Listings, Deletions
  <2>5. CASE RemoveFileFails(t, h)
    <3>1. at'[t] = "untag" /\ UNCHANGED <<arg, named>>
      BY <2>5 DEF RemoveFileFails, Typed
    <3>2. sound' \in [Threads -> BOOLEAN]
      BY <2>5 DEF RemoveFileFails, Typed
    <3>3. \A u \in Threads : at'[u] \in {"tag", "untag"} =>
              arg'[u].todo # <<>> /\ Head(arg'[u].todo) \in Hashes
      BY <2>1, <2>5, <3>1 DEF RemoveFileFails, Typed
    <3>4. Typed'
      BY <2>1, <2>5, <3>2, <3>3 DEF RemoveFileFails, Typed
    <3> QED BY <1>n, <2>1, <3>1, <3>4 DEF NamesWhatItDoes, Listings, Deletions
  <2> QED BY <1>7, <2>3, <2>4, <2>5 DEF DeleteOne, CancelDownload, RemoveFile, LeaveFile
<1>8. CASE Untag(t)
  <2>1. at[t] = "untag" /\ arg[t].todo # <<>>
    BY <1>8 DEF Untag, Typed
  <2>2. category' \in [Hashes -> Categories \cup {None}]
    BY <1>8 DEF Untag, Typed
  <2>3. arg'[t].todo = Tail(arg[t].todo)
    BY <1>8, <2>1, NextLinkTypes DEF Untag
  <2>4. Typed' /\ at'[t] = "command" /\ named'[t] = named[t]
    BY <1>8, <2>1, <2>2, NextLinkTypes, ProceedTypes DEF Untag, Typed
  <2> QED BY <1>n, <1>h, <2>1, <2>3, <2>4 DEF NamesWhatItDoes, Listings, Deletions
<1>9. CASE DeleteReply(t)
  BY <1>9, EndTypes DEF DeleteReply, Typed
<1>10. CASE RequestFails(t)
  BY <1>10, EndTypes DEF RequestFails, Raise, Typed
<1> QED BY <1>1, <1>2, <1>3, <1>4, <1>5, <1>6, <1>7, <1>8, <1>9, <1>10 DEF RunningStep

(* The types and the names hold at first. *)
LEMMA InitTypes == Init => TypeOK /\ NamedInv
<1> SUFFICES ASSUME Init PROVE TypeOK /\ NamedInv
  OBVIOUS
<1>1. NoArg \in Requests
  BY DEF NoArg, Requests
<1> QED
  BY <1>1 DEF Init, TypeOK, Requests, NamedInv, NamesWhatItDoes, Listings, Deletions

(* Every step keeps the types and the names. *)
LEMMA StepTypes == TypeOK /\ NamedInv /\ [Next]_vars => TypeOK' /\ NamedInv'
<1> SUFFICES ASSUME TypeOK, NamedInv, [Next]_vars PROVE TypeOK' /\ NamedInv'
  OBVIOUS
<1>1. CASE UNCHANGED vars
  BY <1>1 DEF vars, requestVars, promiseVars, TypeOK, NamedInv
<1>2. CASE Next
  <2>1. Typed
    BY DEF TypeOK, Typed, Requests
  <2>2. /\ kept' \in [Threads -> SUBSET Hashes]
        /\ underway' \in [Threads -> SUBSET Hashes]
    BY <1>2, NextCases, HistoriesFollow
  <2>3. Typed' /\ NamedInv' => TypeOK' /\ NamedInv'
    BY <2>2 DEF TypeOK, Typed, Requests
  <2>4. ASSUME NEW t \in Threads, RequestStep(t) \/ RunningStep(t)
        PROVE  Typed' /\ NamedInv'
    <3>1. Typed' /\ NamesWhatItDoes(at'[t], arg'[t], named'[t])
      BY <2>1, <2>4, BeginTypes, RunningTypes
    <3>2. ASSUME NEW u \in Threads \ {t}
          PROVE  NamesWhatItDoes(at'[u], arg'[u], named'[u])
      <4>1. at'[u] = at[u] /\ arg'[u] = arg[u] /\ named'[u] = named[u]
        BY <2>4, OthersUntouched
      <4> QED BY <4>1 DEF NamedInv
    <3> QED BY <3>1, <3>2 DEF NamedInv
  <2>5. ASSUME NEW h \in Hashes, AmuleStep(h) PROVE Typed' /\ NamedInv'
    BY <2>1, <2>5 DEF AmuleStep, Typed, requestVars, promiseVars, NamedInv
  <2>6. CASE Restart
    <3>1. NoArg \in Requests
      BY DEF NoArg, Requests
    <3>2. \A t \in Threads : at'[t] = "idle" /\ named'[t] = {}
      BY <2>6 DEF Restart
    <3>3. sound' \in [Threads -> BOOLEAN]
      BY <2>6 DEF Restart
    <3>4. Typed'
      BY <2>1, <2>6, <3>1, <3>2, <3>3 DEF Restart, Typed
    <3> QED BY <2>3, <3>2, <3>4 DEF NamedInv, NamesWhatItDoes, Listings, Deletions
  <2> QED BY <1>2, <2>3, <2>4, <2>5, <2>6, NextCases
<1> QED BY <1>1, <1>2

(* The types of a running torrent service. *)
THEOREM Types == Spec => []TypeOK
<1>1. Spec => [](TypeOK /\ NamedInv)
  BY InitTypes, StepTypes, PTL DEF Spec
<1> QED BY <1>1, PTL
-----------------------------------------------------------------------------
(* What a step does to a file: a thread touches, in aMule and in the table *)
(* of categories, only the files its request names.                        *)
LEMMA OnlyNamedFiles ==
    ASSUME TypeOK, NamedInv, NEW t \in Threads, RequestStep(t) \/ RunningStep(t),
           NEW h \in Hashes \ named[t]
    PROVE  amule'[h] = amule[h] /\ category'[h] = category[h]
<1>1. CASE RequestStep(t)
  BY <1>1, RequestBegins DEF Begin
<1>2. CASE RunningStep(t) /\ arg[t].todo # <<>> /\ at[t] \in {"link", "tag", "command", "untag"}
  <2>1. arg[t].todo \in Seq(Hashes \cup {Foreign})
    BY DEF TypeOK
  <2>2. Head(arg[t].todo) \in Hashes => Head(arg[t].todo) \in named[t]
    BY <1>2, <2>1, SequenceParts DEF NamedInv, NamesWhatItDoes, Deletions
  <2>3. h # Head(arg[t].todo)
    BY <2>2
  <2> QED
    BY <1>2, <2>3 DEF TypeOK, RunningStep, ReadLists, InfoReply, AddLink, Tag, AddReply,
       Snapshot, DeleteOne, Untag, DeleteReply, RequestFails, CancelDownload, RemoveFile,
       RemoveFileFails, LeaveFile
<1>3. CASE RunningStep(t) /\ ~(arg[t].todo # <<>> /\ at[t] \in {"link", "tag", "command", "untag"})
  BY <1>3 DEF TypeOK, RunningStep, ReadLists, InfoReply, AddLink, Tag, AddReply,
     Snapshot, DeleteOne, Untag, DeleteReply, RequestFails
<1> QED BY <1>1, <1>2, <1>3

(* What aMule does to a file on its own: what it has it keeps, what is off *)
(* stays off, and it starts no download.                                   *)
LEMMA AmuleKeepsFiles ==
    ASSUME TypeOK, NEW g \in Hashes, AmuleStep(g), NEW h \in Hashes
    PROVE  /\ amule[h] \in Present => amule'[h] \in Present
           /\ amule[h] \in Off => amule'[h] \in Off
           /\ h \notin Queue => h \notin Queue'
           /\ amule[h] = "complete" => amule'[h] = "complete"
           /\ category'[h] = category[h]
  BY DEF TypeOK, AmuleStep, Present, Off, Queue

(* A sound request shares no file with any other. *)
LEMMA StepSound ==
    ASSUME TypeOK, SoundInv, Next
    PROVE  SoundInv'
<1>1. ASSUME NEW t \in Threads, RequestStep(t) PROVE SoundInv'
  <2>1. PICK first \in {"queue", "link", "snapshot", "all"}, a \in Requests,
             hashes \in SUBSET Hashes : Begin(t, first, a, hashes)
    BY <1>1, RequestBegins
  <2>2. named' = [named EXCEPT ![t] = hashes]
    BY <2>1 DEF Begin
  <2>3. sound'[t] <=> \A v \in Threads : named[v] \cap hashes = {}
    BY <2>1, Zenon DEF Begin
  <2>4. ASSUME NEW u \in Threads \ {t}
        PROVE  sound'[u] <=> sound[u] /\ named[u] \cap hashes = {}
    BY <2>1, Zenon DEF Begin
  <2> QED BY <2>2, <2>3, <2>4 DEF SoundInv, TypeOK
<1>2. ASSUME NEW t \in Threads, RunningStep(t) PROVE SoundInv'
  <2>1. CASE UNCHANGED <<named, sound>>
    BY <2>1 DEF SoundInv
  <2>2. CASE End(t)
    <3>1. /\ named'[t] = {} /\ \A u \in Threads \ {t} : named'[u] = named[u]
          /\ \A u \in Threads \ {t} : sound'[u] = sound[u]
      BY <2>2 DEF End, TypeOK
    <3> QED BY <3>1 DEF SoundInv
  <2>3. CASE UNCHANGED named /\ sound' = [sound EXCEPT ![t] = FALSE]
    BY <2>3 DEF SoundInv, TypeOK
  <2> QED BY <1>2, <2>1, <2>2, <2>3
          DEF RunningStep, ReadLists, InfoReply, AddLink, Tag, AddReply, Snapshot,
              DeleteOne, Untag, DeleteReply, RequestFails, CancelDownload, RemoveFile,
              RemoveFileFails, LeaveFile, Raise, Proceed, promiseVars
<1>3. ASSUME NEW h \in Hashes, AmuleStep(h) PROVE SoundInv'
  BY <1>3 DEF AmuleStep, SoundInv, promiseVars
<1>4. CASE Restart
  BY <1>4 DEF Restart, SoundInv
<1> QED BY <1>1, <1>2, <1>3, <1>4, NextCases

(* What the step of another thread leaves of a request that stays sound:   *)
(* all its files, and its place in its list.                               *)
LEMMA SoundIsUndisturbed ==
    ASSUME TypeOK, NamedInv, SoundInv,
           NEW t \in Threads, RequestStep(t) \/ RunningStep(t),
           NEW u \in Threads \ {t}, sound'[u]
    PROVE  /\ sound[u]
           /\ \A h \in named[u] : amule'[h] = amule[h] /\ category'[h] = category[h]
           /\ at[u] \in {"tag", "untag"} => Head(arg[u].todo) \in named[u]
<1>1. sound[u] /\ named[u] \cap named[t] = {}
  BY OthersUntouched DEF SoundInv
<1>2. \A h \in named[u] : amule'[h] = amule[h] /\ category'[h] = category[h]
  BY <1>1, OnlyNamedFiles DEF TypeOK
<1>3. arg[u].todo \in Seq(Hashes \cup {Foreign})
  BY DEF TypeOK
<1>4. at[u] \in {"tag", "untag"} => Head(arg[u].todo) \in named[u]
  BY <1>3, SequenceParts DEF TypeOK, NamedInv, NamesWhatItDoes, Deletions
<1> QED BY <1>1, <1>2, <1>4

(* A sound add keeps up with its links. *)
LEMMA StepAdding ==
    ASSUME TypeOK, NamedInv, SoundInv, \A t \in Threads : AddingOf(t), Next,
           NEW u \in Threads
    PROVE  AddingOf(u)'
<1>1. ASSUME NEW t \in Threads \ {u}, RequestStep(t) \/ RunningStep(t)
      PROVE  AddingOf(u)'
  <2>1. UNCHANGED <<at[u], arg[u], named[u]>>
    BY <1>1, OthersUntouched
  <2> QED BY <1>1, <2>1, SoundIsUndisturbed DEF AddingOf
<1>2. CASE RequestStep(u)
  <2>1. PICK first \in {"queue", "link", "snapshot", "all"}, a \in Requests,
             hashes \in SUBSET Hashes :
                 /\ Begin(u, first, a, hashes)
                 /\ first = "link" => Elements(a.todo) \cap Hashes = hashes
    BY <1>2, RequestBegins
  <2>2. at'[u] = first /\ arg'[u] = a /\ named'[u] = hashes
    BY <2>1 DEF Begin, TypeOK
  <2> QED BY <2>1, <2>2 DEF AddingOf
<1>3. CASE AddLink(u) /\ at'[u] \in {"link", "tag"} /\ arg'[u].category # None
  <2> DEFINE h == Head(arg[u].todo)
  <2>1. arg[u].todo \in Seq(Hashes \cup {Foreign}) /\ arg[u].todo # <<>>
    BY <1>3 DEF AddLink, TypeOK
  <2>2. h \in Elements(arg[u].todo)
    BY <2>1, SequenceParts
  <2>3. Proceed(u, "tag") /\ UNCHANGED arg /\ h # Foreign /\ at[u] = "link"
    BY <1>3, NextLinkTypes DEF AddLink, Raise, End, NoArg, TypeOK, NextLink
  <2>4. h \in Hashes
    BY <2>1, <2>3, SequenceParts
  <2>5. amule'[h] \in Present /\ \A g \in Hashes \ {h} : amule'[g] = amule[g]
    BY <1>3, <2>3, <2>4 DEF AddLink, TypeOK, Present, Raise, End, Proceed
  <2>6. UNCHANGED <<named, sound, category>>
    BY <1>3, <2>3 DEF AddLink, Proceed, promiseVars
  <2> QED BY <2>2, <2>3, <2>5, <2>6 DEF AddingOf, TypeOK
<1>4. CASE Tag(u)
  <2> DEFINE h == Head(arg[u].todo)
  <2>1. /\ arg[u].todo \in Seq(Hashes \cup {Foreign}) /\ arg[u].todo # <<>>
        /\ at[u] = "tag" /\ h \in Hashes
    BY <1>4 DEF Tag, TypeOK
  <2>2. /\ arg'[u].todo = Tail(arg[u].todo) /\ arg'[u].category = arg[u].category
        /\ at'[u] = "link"
    BY <1>4, <2>1 DEF Tag, NextLink, Proceed, TypeOK
  <2>3. Elements(arg[u].todo) \subseteq {h} \cup Elements(arg'[u].todo)
    BY <2>1, <2>2, SequenceParts
  <2>4. /\ category'[h] = arg[u].category
        /\ \A g \in Hashes \ {h} : category'[g] = category[g]
        /\ UNCHANGED <<named, sound, amule>>
    BY <1>4, <2>1 DEF Tag, Proceed, promiseVars, TypeOK
  <2> QED BY <2>1, <2>2, <2>3, <2>4 DEF AddingOf, TypeOK
<1>5. CASE RunningStep(u) /\ ~AddLink(u) /\ ~Tag(u)
  <2>1. at'[u] \notin {"link", "tag"}
    BY <1>5 DEF RunningStep, ReadLists, InfoReply, AddReply, Snapshot, DeleteOne, Untag,
       DeleteReply, RequestFails, CancelDownload, RemoveFile, RemoveFileFails, LeaveFile,
       Raise, End, Proceed, TypeOK
  <2> QED BY <2>1 DEF AddingOf
<1>6. CASE RunningStep(u)
  BY <1>3, <1>4, <1>5, <1>6 DEF AddingOf
<1>7. ASSUME NEW g \in Hashes, AmuleStep(g) PROVE AddingOf(u)'
  <2>1. UNCHANGED <<at, arg, named, sound>>
    BY <1>7 DEF AmuleStep, requestVars, promiseVars
  <2>2. at[u] = "tag" => Head(arg[u].todo) \in Hashes
    BY DEF TypeOK
  <2>3. \A h \in Hashes : /\ amule[h] \in Present => amule'[h] \in Present
                          /\ category'[h] = category[h]
    BY <1>7, AmuleKeepsFiles
  <2> QED BY <2>1, <2>2, <2>3 DEF AddingOf, TypeOK
<1>8. CASE Restart
  BY <1>8 DEF Restart, AddingOf
<1> QED BY <1>1, <1>2, <1>6, <1>7, <1>8, NextCases

(* A sound deletion keeps up with its files. *)
LEMMA StepDeleting ==
    ASSUME TypeOK, NamedInv, SoundInv, \A t \in Threads : DeletingOf(t), Next,
           NEW u \in Threads
    PROVE  DeletingOf(u)'
<1>1. ASSUME NEW t \in Threads \ {u}, RequestStep(t) \/ RunningStep(t)
      PROVE  DeletingOf(u)'
  <2>1. UNCHANGED <<at[u], arg[u], queueSeen[u], named[u]>>
    BY <1>1, OthersUntouched
  <2> QED BY <1>1, <2>1, SoundIsUndisturbed DEF DeletingOf, Queue
<1>2. CASE RequestStep(u)
  <2>1. PICK first \in {"queue", "link", "snapshot", "all"}, a \in Requests,
             hashes \in SUBSET Hashes :
                 /\ Begin(u, first, a, hashes)
                 /\ first = "snapshot" => Elements(a.todo) = hashes
    BY <1>2, RequestBegins
  <2>2. at'[u] = first /\ arg'[u] = a /\ named'[u] = hashes
    BY <2>1 DEF Begin, TypeOK
  <2> QED BY <2>1, <2>2 DEF DeletingOf, Deletions
<1>3. CASE Snapshot(u)
  <2>1. UNCHANGED <<named, sound, amule>> /\ at'[u] = "command"
    BY <1>3 DEF Snapshot, Proceed, promiseVars, TypeOK
  <2>2. CASE at[u] = "snapshot"
    <3>1. UNCHANGED arg /\ queueSeen'[u] = Queue
      BY <1>3, <2>2 DEF Snapshot, TypeOK
    <3> QED BY <2>1, <2>2, <3>1 DEF DeletingOf, Deletions, Queue
  <2>3. CASE at[u] = "all"
    <3>1. ~arg[u].files
      BY <2>3 DEF NamedInv, NamesWhatItDoes
    <3>2. PICK hashes : arg' = [arg EXCEPT ![u].todo = hashes]
      BY <1>3, <2>3 DEF Snapshot
    <3>3. arg'[u].files = arg[u].files
      BY <3>2 DEF TypeOK
    <3> QED BY <3>1, <3>3 DEF DeletingOf
  <2> QED BY <1>3, <2>2, <2>3 DEF Snapshot
<1>4. CASE DeleteOne(u) /\ at'[u] \in Deletions /\ sound'[u] /\ arg'[u].files
  <2> DEFINE h == Head(arg[u].todo)
  <2>1. arg[u].todo \in Seq(Hashes) /\ arg[u].todo # <<>> /\ at[u] = "command"
    BY <1>4 DEF DeleteOne, NamedInv, NamesWhatItDoes, Deletions
  <2>2. h \in Hashes /\ h \in Elements(arg[u].todo) /\ h \in named[u]
    BY <2>1, SequenceParts DEF NamedInv, NamesWhatItDoes, Deletions
  <2>3. /\ at'[u] = "untag" /\ UNCHANGED <<arg, queueSeen, named, sound>>
        /\ \/ h \in Queue /\ amule' = [amule EXCEPT ![h] = "absent"]
           \/ h \notin queueSeen[u]
                 /\ amule' = [amule EXCEPT ![h] = IF @ = "complete" THEN "gone" ELSE @]
    <3>1. ~Raise(u)
      BY <1>4 DEF Raise, End, TypeOK, Deletions
    <3>2. ~RemoveFileFails(u, h)
      BY <1>4 DEF RemoveFileFails, TypeOK
    <3>3. \/ CancelDownload(u, h) /\ Proceed(u, "untag") /\ UNCHANGED <<arg, queueSeen>>
          \/ RemoveFile(u, h)
          \/ LeaveFile(u, h)
      BY <1>4, <3>1, <3>2 DEF DeleteOne, CancelDownload
    <3>4. ~LeaveFile(u, h)
      BY <1>4 DEF LeaveFile
    <3> QED BY <3>1, <3>3, <3>4 DEF CancelDownload, RemoveFile, Proceed, promiseVars, TypeOK
  <2>4. sound[u] /\ arg[u].files
    BY <1>4, <2>3
  <2>5. h \in queueSeen[u] \/ h \notin Queue
    BY <2>1, <2>2, <2>4 DEF DeletingOf, Deletions
  <2>6. amule'[h] \in Off /\ \A g \in Hashes \ {h} : amule'[g] = amule[g]
    BY <2>2, <2>3, <2>5 DEF TypeOK, Off, Queue
  <2> QED BY <2>1, <2>2, <2>3, <2>4, <2>6 DEF DeletingOf, TypeOK, Deletions, Queue, Off
<1>5. CASE Untag(u)
  <2> DEFINE h == Head(arg[u].todo)
  <2>1. /\ arg[u].todo \in Seq(Hashes \cup {Foreign}) /\ arg[u].todo # <<>>
        /\ at[u] = "untag"
    BY <1>5 DEF Untag, TypeOK
  <2>2. /\ arg'[u].todo = Tail(arg[u].todo) /\ arg'[u].files = arg[u].files
        /\ at'[u] = "command"
    BY <1>5, <2>1 DEF Untag, NextLink, Proceed, TypeOK
  <2>3. Elements(arg[u].todo) \subseteq {h} \cup Elements(arg'[u].todo)
    BY <2>1, <2>2, SequenceParts
  <2>4. UNCHANGED <<named, sound, amule, queueSeen>>
    BY <1>5 DEF Untag, Proceed, promiseVars
  <2> QED BY <2>1, <2>2, <2>3, <2>4 DEF DeletingOf, Deletions, Queue
<1>6. CASE RunningStep(u) /\ ~Snapshot(u) /\ ~DeleteOne(u) /\ ~Untag(u)
  <2>1. at'[u] \notin Deletions
    BY <1>6 DEF RunningStep, ReadLists, InfoReply, AddLink, Tag, AddReply,
       DeleteReply, RequestFails, Raise, End, Proceed, TypeOK, Deletions
  <2> QED BY <2>1 DEF DeletingOf
<1>7. CASE RunningStep(u)
  BY <1>3, <1>4, <1>5, <1>6, <1>7 DEF DeletingOf
<1>8. ASSUME NEW g \in Hashes, AmuleStep(g) PROVE DeletingOf(u)'
  <2>1. UNCHANGED <<at, arg, queueSeen, named, sound>>
    BY <1>8 DEF AmuleStep, requestVars, promiseVars
  <2>2. at[u] = "untag" => Head(arg[u].todo) \in Hashes
    BY DEF TypeOK
  <2>3. \A h \in Hashes : /\ amule[h] \in Off => amule'[h] \in Off
                          /\ h \notin Queue => h \notin Queue'
    BY <1>8, AmuleKeepsFiles
  <2> QED BY <2>1, <2>2, <2>3 DEF DeletingOf, TypeOK
<1>9. CASE Restart
  BY <1>9 DEF Restart, DeletingOf, Deletions
<1> QED BY <1>1, <1>2, <1>7, <1>8, <1>9, NextCases

(* A completed file is changed by nothing but its removal. *)
LEMMA CompleteStays ==
    ASSUME TypeOK, NamedInv, Next, NEW h \in Hashes, amule[h] = "complete"
    PROVE  amule'[h] \in {"complete", "gone"}
<1>1. ASSUME NEW t \in Threads, RequestStep(t) PROVE amule'[h] = amule[h]
  BY <1>1, RequestBegins DEF Begin
<1>2. ASSUME NEW t \in Threads, RunningStep(t) PROVE amule'[h] \in {"complete", "gone"}
  <2>1. AddLink(t) => amule'[h] = amule[h]
    BY DEF AddLink, TypeOK
  <2>2. DeleteOne(t) => amule'[h] \in {"complete", "gone"}
    BY DEF DeleteOne, CancelDownload, RemoveFile, RemoveFileFails, LeaveFile, Queue, TypeOK
  <2> QED
    BY <1>2, <2>1, <2>2 DEF RunningStep, ReadLists, InfoReply, Tag, AddReply, Snapshot,
       Untag, DeleteReply, RequestFails
<1>3. ASSUME NEW g \in Hashes, AmuleStep(g) PROVE amule'[h] = "complete"
  BY <1>3, AmuleKeepsFiles
<1>4. CASE Restart
  BY <1>4 DEF Restart
<1> QED BY <1>1, <1>2, <1>3, <1>4, NextCases

(* A listing keeps up with the files it has to show. *)
LEMMA StepListing ==
    ASSUME TypeOK, NamedInv, \A t \in Threads : ListingOf(t), Next, NEW u \in Threads
    PROVE  ListingOf(u)'
<1> SUFFICES ASSUME at'[u] \in Listings PROVE ListingOf(u)'
  BY DEF ListingOf, Listings
<1>1. /\ kept'[u] \subseteq Listable(u)' /\ underway'[u] \subseteq Queue'
      /\ at[u] # "idle" => kept'[u] \subseteq kept[u] /\ underway'[u] \subseteq underway[u]
  BY NextCases, HistoriesFollow
<1>2. \A h \in kept'[u] : h \in Hashes /\ amule'[h] \in Present
  <2>1. \A h \in Hashes : amule'[h] \in Present \cup Off
    BY StepTypes DEF TypeOK, Present, Off
  <2> QED BY <1>1, <2>1 DEF Listable, Off
<1>3. CASE UNCHANGED <<at[u], queueSeen[u], sharedSeen[u]>>
  <2>1. \A h \in kept'[u] : amule[h] = "complete" => amule'[h] = "complete"
    BY <1>2, CompleteStays DEF Present
  <2> QED BY <1>1, <1>3, <2>1 DEF ListingOf, Listings
<1>4. CASE RequestStep(u)
  <2>1. PICK first \in {"queue", "link", "snapshot", "all"}, a \in Requests,
             hashes \in SUBSET Hashes : Begin(u, first, a, hashes)
    BY <1>4, RequestBegins
  <2>2. at'[u] = "queue"
    BY <2>1 DEF Begin, TypeOK, Listings
  <2> QED BY <1>1, <2>2 DEF ListingOf
<1>5. CASE RunningStep(u)
  <2>1. ReadLists(u)
    BY <1>5 DEF RunningStep, InfoReply, AddLink, Tag, AddReply, Snapshot, DeleteOne, Untag,
       DeleteReply, RequestFails, CancelDownload, RemoveFile, RemoveFileFails, LeaveFile,
       Raise, End, Proceed, TypeOK, Listings
  <2>2. CASE at[u] = "queue"
    <3>1. at'[u] = "shared" /\ queueSeen'[u] = Queue /\ UNCHANGED amule
      BY <2>1, <2>2 DEF ReadLists, TypeOK
    <3> QED BY <1>1, <1>2, <3>1 DEF ListingOf, Queue, Present
  <2>3. CASE at[u] = "shared"
    <3>1. at'[u] = "list" /\ sharedSeen'[u] = Shared /\ UNCHANGED <<amule, queueSeen>>
      BY <2>1, <2>3 DEF ReadLists, TypeOK
    <3> QED BY <1>1, <1>2, <2>3, <3>1 DEF ListingOf, Shared
  <2> QED BY <2>1, <2>2, <2>3 DEF ReadLists
<1>6. ASSUME NEW t \in Threads \ {u}, RequestStep(t) \/ RunningStep(t)
      PROVE  ListingOf(u)'
  BY <1>3, <1>6, OthersUntouched
<1>7. ASSUME NEW g \in Hashes, AmuleStep(g) PROVE ListingOf(u)'
  BY <1>3, <1>7 DEF AmuleStep, requestVars
<1>8. CASE Restart
  BY <1>8 DEF Restart, Listings
<1> QED BY <1>4, <1>5, <1>6, <1>7, <1>8, NextCases

(* A confirmed add holds until its file is named again. *)
LEMMA StepAdded ==
    ASSUME TypeOK, NamedInv, SoundInv, \A t \in Threads : AddingOf(t), AddedInv, Next
    PROVE  AddedInv'
<1> SUFFICES ASSUME NEW h \in Hashes, owned'[h] # None
             PROVE  /\ \A t \in Threads : h \notin named'[t]
                    /\ category'[h] = owned'[h]
                    /\ amule'[h] \in Present
  BY DEF AddedInv
<1>1. ASSUME NEW t \in Threads, RequestStep(t)
      PROVE  owned'[h] = owned[h] /\ \A u \in Threads : h \notin named'[u]
  <2>1. PICK first \in {"queue", "link", "snapshot", "all"}, a \in Requests,
             hashes \in SUBSET Hashes : Begin(t, first, a, hashes)
    BY <1>1, RequestBegins
  <2>2. h \notin hashes /\ owned'[h] = owned[h] /\ named' = [named EXCEPT ![t] = hashes]
    BY <2>1 DEF Begin
  <2> QED BY <2>2 DEF AddedInv, TypeOK
<1>2. ASSUME NEW t \in Threads, RunningStep(t), ~AddReply(t) \/ ~sound[t] \/ h \notin named[t]
      PROVE  owned'[h] = owned[h]
  BY <1>2 DEF RunningStep, ReadLists, InfoReply, AddLink, Tag, AddReply, Snapshot, DeleteOne,
     Untag, DeleteReply, RequestFails, CancelDownload, RemoveFile, RemoveFileFails, LeaveFile,
     Raise, Proceed, promiseVars
<1>3. ASSUME NEW t \in Threads, RunningStep(t), NEW u \in Threads
      PROVE  named'[u] \subseteq named[u]
  BY <1>3 DEF RunningStep, ReadLists, InfoReply, AddLink, Tag, AddReply, Snapshot, DeleteOne,
     Untag, DeleteReply, RequestFails, CancelDownload, RemoveFile, RemoveFileFails, LeaveFile,
     Raise, End, Proceed, promiseVars, TypeOK
<1>4. ASSUME NEW t \in Threads, RequestStep(t) \/ RunningStep(t), owned'[h] = owned[h]
      PROVE  /\ \A u \in Threads : h \notin named'[u]
             /\ category'[h] = owned'[h] /\ amule'[h] \in Present
  <2>1. /\ \A u \in Threads : h \notin named[u]
        /\ category[h] = owned[h] /\ amule[h] \in Present
    BY <1>4 DEF AddedInv
  <2>2. category'[h] = category[h] /\ amule'[h] = amule[h]
    BY <1>4, <2>1, OnlyNamedFiles
  <2> QED BY <1>1, <1>3, <1>4, <2>1, <2>2
<1>5. ASSUME NEW t \in Threads, AddReply(t), sound[t], h \in named[t]
      PROVE  /\ \A u \in Threads : h \notin named'[u]
             /\ category'[h] = owned'[h] /\ amule'[h] \in Present
  <2>1. /\ at[t] = "link" /\ arg[t].todo = <<>> /\ UNCHANGED <<amule, category>>
        /\ owned'[h] = arg[t].category
    BY <1>5 DEF AddReply
  <2>2. Elements(arg[t].todo) = {}
    BY <2>1 DEF Elements
  <2>3. category[h] = arg[t].category /\ amule[h] \in Present
    BY <1>5, <2>1, <2>2 DEF AddingOf
  <2>4. \A u \in Threads : named'[u] = IF u = t THEN {} ELSE named[u]
    BY <1>5 DEF AddReply, End, TypeOK
  <2> QED BY <1>5, <2>1, <2>3, <2>4 DEF SoundInv
<1>6. ASSUME NEW g \in Hashes, AmuleStep(g)
      PROVE  /\ \A t \in Threads : h \notin named'[t]
             /\ category'[h] = owned'[h] /\ amule'[h] \in Present
  BY <1>6, AmuleKeepsFiles DEF AmuleStep, promiseVars, AddedInv
<1>7. CASE Restart
  BY <1>7 DEF Restart, AddedInv
<1>8. ASSUME NEW t \in Threads, RequestStep(t) \/ RunningStep(t)
      PROVE  /\ \A u \in Threads : h \notin named'[u]
             /\ category'[h] = owned'[h] /\ amule'[h] \in Present
  BY <1>1, <1>2, <1>4, <1>5, <1>8
<1> QED BY <1>6, <1>7, <1>8, NextCases

(* A confirmed deletion holds until its file is named again. *)
LEMMA StepErased ==
    ASSUME TypeOK, NamedInv, SoundInv, \A t \in Threads : DeletingOf(t), ErasedInv, Next
    PROVE  ErasedInv'
<1> SUFFICES ASSUME NEW h \in erased'
             PROVE  (\A t \in Threads : h \notin named'[t]) /\ amule'[h] \in Off
  BY DEF ErasedInv
<1>h. h \in Hashes
  BY StepTypes DEF TypeOK
<1>1. ASSUME NEW t \in Threads, RequestStep(t)
      PROVE  h \in erased /\ \A u \in Threads : h \notin named'[u]
  <2>1. PICK first \in {"queue", "link", "snapshot", "all"}, a \in Requests,
             hashes \in SUBSET Hashes : Begin(t, first, a, hashes)
    BY <1>1, RequestBegins
  <2>2. h \notin hashes /\ h \in erased /\ named' = [named EXCEPT ![t] = hashes]
    BY <2>1 DEF Begin
  <2> QED BY <2>2 DEF ErasedInv, TypeOK
<1>2. ASSUME NEW t \in Threads, RunningStep(t), ~DeleteReply(t) PROVE h \in erased
  BY <1>2 DEF RunningStep, ReadLists, InfoReply, AddLink, Tag, AddReply, Snapshot, DeleteOne,
     Untag, RequestFails, CancelDownload, RemoveFile, RemoveFileFails, LeaveFile, Raise,
     Proceed, promiseVars
<1>3. ASSUME NEW t \in Threads, RunningStep(t), NEW u \in Threads
      PROVE  named'[u] \subseteq named[u]
  BY <1>3 DEF RunningStep, ReadLists, InfoReply, AddLink, Tag, AddReply, Snapshot, DeleteOne,
     Untag, DeleteReply, RequestFails, CancelDownload, RemoveFile, RemoveFileFails, LeaveFile,
     Raise, End, Proceed, promiseVars, TypeOK
<1>4. ASSUME NEW t \in Threads, RequestStep(t) \/ RunningStep(t), h \in erased
      PROVE  (\A u \in Threads : h \notin named'[u]) /\ amule'[h] \in Off
  <2>1. (\A u \in Threads : h \notin named[u]) /\ amule[h] \in Off
    BY <1>4 DEF ErasedInv
  <2>2. amule'[h] = amule[h]
    BY <1>h, <1>4, <2>1, OnlyNamedFiles
  <2> QED BY <1>1, <1>3, <1>4, <2>1, <2>2
<1>5. ASSUME NEW t \in Threads, DeleteReply(t), h \notin erased
      PROVE  (\A u \in Threads : h \notin named'[u]) /\ amule'[h] \in Off
  <2>1. /\ at[t] = "command" /\ arg[t].todo = <<>> /\ UNCHANGED amule
        /\ h \in named[t] /\ sound[t] /\ arg[t].files
    BY <1>5 DEF DeleteReply
  <2>2. Elements(arg[t].todo) = {}
    BY <2>1 DEF Elements
  <2>3. amule[h] \in Off
    BY <2>1, <2>2 DEF DeletingOf, Deletions
  <2>4. \A u \in Threads : named'[u] = IF u = t THEN {} ELSE named[u]
    BY <1>5 DEF DeleteReply, End, TypeOK
  <2> QED BY <2>1, <2>3, <2>4 DEF SoundInv
<1>6. ASSUME NEW g \in Hashes, AmuleStep(g)
      PROVE  (\A t \in Threads : h \notin named'[t]) /\ amule'[h] \in Off
  BY <1>h, <1>6, AmuleKeepsFiles DEF AmuleStep, promiseVars, ErasedInv
<1>7. CASE Restart
  BY <1>7 DEF Restart, ErasedInv
<1>8. ASSUME NEW t \in Threads, RequestStep(t) \/ RunningStep(t)
      PROVE  (\A u \in Threads : h \notin named'[u]) /\ amule'[h] \in Off
  BY <1>1, <1>2, <1>4, <1>5, <1>8
<1> QED BY <1>6, <1>7, <1>8, NextCases
-----------------------------------------------------------------------------
(* The invariant holds at first ... *)
LEMMA InitInvariant == Init => IInv
<1> SUFFICES ASSUME Init PROVE IInv
  OBVIOUS
<1>1. SoundInv
  BY DEF Init, SoundInv
<1>2. RunningInv
  BY DEF Init, RunningInv, ListingOf, AddingOf, DeletingOf, Listings, Deletions
<1>3. AddedInv /\ ErasedInv
  BY DEF Init, AddedInv, ErasedInv
<1> QED BY <1>1, <1>2, <1>3, InitTypes DEF IInv

(* ... and is kept by every step. *)
LEMMA StepInvariant == IInv /\ [Next]_vars => IInv'
<1> SUFFICES ASSUME IInv, [Next]_vars PROVE IInv'
  OBVIOUS
<1>1. CASE UNCHANGED vars
  <2>1. /\ UNCHANGED <<at, arg, queueSeen, sharedSeen, amule, category>>
        /\ UNCHANGED <<named, sound, kept, underway, owned, erased>>
    BY <1>1 DEF vars, requestVars, promiseVars
  <2>2. RunningInv'
    BY <2>1 DEF IInv, RunningInv, ListingOf, AddingOf, DeletingOf, Listable, Wanted, Queue
  <2>3. SoundInv' /\ AddedInv' /\ ErasedInv'
    BY <2>1 DEF IInv, SoundInv, AddedInv, ErasedInv
  <2> QED BY <1>1, <2>2, <2>3, StepTypes DEF IInv
<1>2. CASE Next
  <2>1. SoundInv' /\ AddedInv' /\ ErasedInv'
    BY <1>2, StepSound, StepAdded, StepErased DEF IInv, RunningInv
  <2>2. RunningInv'
    BY <1>2, StepListing, StepAdding, StepDeleting DEF IInv, RunningInv
  <2> QED BY <2>1, <2>2, StepTypes DEF IInv
<1> QED BY <1>1, <1>2

(* How far each running request has come, in every reachable state. *)
THEOREM Invariant == Spec => []IInv
  BY InitInvariant, StepInvariant, PTL DEF Spec

(* A file that aMule has, under the category asked for, all the time that  *)
(* get_torrent_info takes is in its listing: the queue is read before the  *)
(* shared files, and a download that completes in between is in the second *)
(* list.                                                                   *)
THEOREM ListingIsComplete == Spec => []ListsWhatStays
<1>1. IInv => ListsWhatStays
  <2> SUFFICES ASSUME IInv, NEW t \in Threads, at[t] = "list", NEW h \in kept[t]
               PROVE  \E f \in Listing(t) : f[1] = h
    BY DEF ListsWhatStays
  <2>1. Wanted(t, h) /\ h \in queueSeen[t] \cup sharedSeen[t]
    BY DEF IInv, RunningInv, ListingOf, Listings, Listable
  <2>2. CASE h \in queueSeen[t]
    <3>1. <<h, "downloading">> \in Listing(t)
      BY <2>1, <2>2 DEF Listing
    <3> QED BY <3>1
  <2>3. CASE h \in sharedSeen[t] \ queueSeen[t]
    <3>1. <<h, "done">> \in Listing(t)
      BY <2>1, <2>3 DEF Listing
    <3> QED BY <3>1
  <2> QED BY <2>1, <2>2, <2>3
<1> QED BY <1>1, Invariant, PTL

(* A file that is downloaded all the time that get_torrent_info takes is   *)
(* not listed as done: Sonarr and Radarr import no unfinished file.        *)
THEOREM NoUnfinishedImport == Spec => []UnderwayIsNotDone
<1>1. IInv => UnderwayIsNotDone
  <2> SUFFICES ASSUME IInv, NEW t \in Threads, at[t] = "list", NEW h \in underway[t]
               PROVE  <<h, "done">> \notin Listing(t)
    BY DEF UnderwayIsNotDone
  <2>1. h \in queueSeen[t]
    BY DEF IInv, RunningInv, ListingOf
  <2> QED BY <2>1 DEF Listing
<1> QED BY <1>1, Invariant, PTL

(* An add that overlapped with no other request for its files and was      *)
(* answered "Ok." holds: they are in aMule, under its category, until a    *)
(* new request names them, whatever fails, completes or restarts.          *)
THEOREM AddsHold == Spec => []AddedStaysListed
<1>1. IInv => AddedStaysListed
  BY DEF IInv, AddedInv, AddedStaysListed, Present, Queue, Shared
<1> QED BY <1>1, Invariant, PTL

(* A deletion with deleteFiles that overlapped with no other request for   *)
(* its files, met no file that resisted, and was answered "Ok." holds:     *)
(* they are neither downloaded nor on the disk until a request names them. *)
THEOREM DeletionsHold == Spec => []DeletedIsGone
<1>1. IInv => DeletedIsGone
  BY DEF IInv, ErasedInv, DeletedIsGone, Off
<1> QED BY <1>1, Invariant, PTL
=============================================================================
