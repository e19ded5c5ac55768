---------------------------- MODULE TorrentService ----------------------------
(***************************************************************************)
(* The torrent service: TorrentService of src/amarr/torrent/service.py     *)
(* behind the routes of torrent/api.py, with the category table of         *)
(* category/store.py and the queue and shared files of aMule.  A request   *)
(* runs on a worker thread; each command to aMule and each access to the   *)
(* table is one step (AmuleConnection, the lock of the store), everything  *)
(* between them interleaves.                                               *)
(*                                                                         *)
(* Of aMule the model keeps what the service uses: a file is downloading   *)
(* ("queued"), downloading and already shared in part ("sharing"), shared  *)
(* only ("complete"), or still listed as shared though it was removed from *)
(* the disk ("gone").                                                      *)
(***************************************************************************)
EXTENDS Naturals, Sequences, FiniteSets, SequencesExt

CONSTANTS Threads,      \* worker threads
          Hashes,       \* files, known by their hash
          Categories,   \* Sonarr, Radarr, ...
          None,         \* no category
          Foreign,      \* a link that is not one of amarr's
          Kinds,        \* the routes that are asked
          MaxLinks      \* bound: links or hashes in a request

ASSUME HashesAssumption == IsFiniteSet(Hashes)
ASSUME NoneAssumption == None \notin Categories
ASSUME ForeignAssumption == Foreign \notin Hashes
ASSUME KindsAssumption == Kinds \subseteq {"info", "add", "delete", "deleteAll"}
ASSUME MaxLinksAssumption == MaxLinks \in Nat

VARIABLES at,          \* the next step of each thread, or "idle"
          arg,         \* category, links still to do and deleteFiles
          queueSeen,   \* downloading_hashes
          sharedSeen,  \* shared_files
          amule,       \* what aMule does with each file
          category,    \* table file_categories
          named,       \* history: the hashes a running request names
          sound,       \* history: no other request named them meanwhile, and
                       \* no file resisted its removal
          kept,        \* history: files listable since the listing began
          underway,    \* history: files downloading since the listing began
          owned,       \* history: category under which a file was added
          erased       \* history: files whose deletion was confirmed

requestVars == <<at, arg, queueSeen, sharedSeen>>
promiseVars == <<named, sound, owned, erased>>
vars == <<requestVars, amule, category, promiseVars, kept, underway>>
-----------------------------------------------------------------------------
Queue == {h \in Hashes : amule[h] \in {"queued", "sharing"}}
Shared == {h \in Hashes : amule[h] \in {"sharing", "complete", "gone"}}

NoArg == [category |-> None, todo |-> <<>>, files |-> FALSE]

Init ==
    /\ at = [t \in Threads |-> "idle"]
    /\ arg = [t \in Threads |-> NoArg]
    /\ queueSeen = [t \in Threads |-> {}]
    /\ sharedSeen = [t \in Threads |-> {}]
    /\ amule = [h \in Hashes |-> "absent"]
    /\ category = [h \in Hashes |-> None]
    /\ named = [t \in Threads |-> {}]
    /\ sound = [t \in Threads |-> TRUE]
    /\ kept = [t \in Threads |-> {}]
    /\ underway = [t \in Threads |-> {}]
    /\ owned = [h \in Hashes |-> None]
    /\ erased = {}
-----------------------------------------------------------------------------
(* A request starts; the promises about the hashes it names are off. *)
Begin(t, first, a, hashes) ==
    /\ at[t] = "idle"
    /\ at' = [at EXCEPT ![t] = first]
    /\ arg' = [arg EXCEPT ![t] = a]
    /\ named' = [named EXCEPT ![t] = hashes]
    /\ sound' = [u \in Threads |->
                   IF u = t THEN \A v \in Threads : named[v] \cap hashes = {}
                            ELSE sound[u] /\ named[u] \cap hashes = {}]
    /\ owned' = [h \in Hashes |-> IF h \in hashes THEN None ELSE owned[h]]
    /\ erased' = erased \ hashes
    /\ UNCHANGED <<queueSeen, sharedSeen, amule, category>>

(* The locals of the request are gone; confirmed: the reply is "Ok.". *)
End(t) ==
    /\ at' = [at EXCEPT ![t] = "idle"]
    /\ arg' = [arg EXCEPT ![t] = NoArg]
    /\ queueSeen' = [queueSeen EXCEPT ![t] = {}]
    /\ sharedSeen' = [sharedSeen EXCEPT ![t] = {}]
    /\ named' = [named EXCEPT ![t] = {}]
    /\ sound' = [sound EXCEPT ![t] = TRUE]

Raise(t) == End(t) /\ UNCHANGED <<owned, erased>>

Proceed(t, next) ==
    /\ at' = [at EXCEPT ![t] = next]
    /\ UNCHANGED <<sharedSeen, promiseVars>>

NextLink(t) == arg' = [arg EXCEPT ![t].todo = Tail(@)]

(* An EC request raises before it has had any effect. *)
RequestFails(t) ==
    /\ \/ at[t] \in {"queue", "shared", "snapshot", "all"}
       \/ at[t] \in {"link", "command"} /\ arg[t].todo # <<>>
    /\ Raise(t)
    /\ UNCHANGED <<amule, category>>
-----------------------------------------------------------------------------
(* GET info, and files and properties, which look for one hash in it. *)
InfoRequest(t) ==
    /\ "info" \in Kinds
    /\ \E c \in Categories \cup {None} :
           Begin(t, "queue", [NoArg EXCEPT !.category = c], {})

(* Mutant of ReadLists: the shared files are read first. *)
ReadListsSwapped(t) ==
    /\ UNCHANGED <<arg, amule, category, promiseVars>>
    /\ \/ /\ at[t] = "queue"
          /\ sharedSeen' = [sharedSeen EXCEPT ![t] = Shared]
          /\ at' = [at EXCEPT ![t] = "shared"]
          /\ UNCHANGED queueSeen
       \/ /\ at[t] = "shared"
          /\ queueSeen' = [queueSeen EXCEPT ![t] = Queue]
          /\ at' = [at EXCEPT ![t] = "list"]
          /\ UNCHANGED sharedSeen

(* get_torrent_info: the queue first, then the shared files. *)
ReadLists(t) ==
    /\ UNCHANGED <<arg, amule, category, promiseVars>>
    /\ \/ /\ at[t] = "queue"
          /\ queueSeen' = [queueSeen EXCEPT ![t] = Queue]
          /\ at' = [at EXCEPT ![t] = "shared"]
          /\ UNCHANGED sharedSeen
       \/ /\ at[t] = "shared"
          /\ sharedSeen' = [sharedSeen EXCEPT ![t] = Shared]
          /\ at' = [at EXCEPT ![t] = "list"]
          /\ UNCHANGED queueSeen

Wanted(t, h) == arg[t].category \in {None, category[h]}

(* Mutant of Listing: downloads are not taken out of the shared files. *)
ListingTwice(t) ==
    {f \in (sharedSeen[t] \X {"done"}) \cup (queueSeen[t] \X {"downloading"}) :
         Wanted(t, f[1])}

(* The listing: a file that is only shared counts as downloaded.  The      *)
(* categories are looked up one by one after both lists were read; seen    *)
(* from one file this is one moment, the step that replies.                *)
Listing(t) ==
    {f \in ((sharedSeen[t] \ queueSeen[t]) \X {"done"})
               \cup (queueSeen[t] \X {"downloading"}) :
         Wanted(t, f[1])}

InfoReply(t) ==
    /\ at[t] = "list"
    /\ Raise(t)
    /\ UNCHANGED <<amule, category>>
-----------------------------------------------------------------------------
Links == SeqOf(Hashes \cup {Foreign}, MaxLinks) \ {<<>>}
HashesOf(links) == {links[i] : i \in DOMAIN links} \cap Hashes

AddRequest(t) ==
    /\ "add" \in Kinds
    /\ \E links \in Links, c \in Categories \cup {None} :
           Begin(t, "link", [NoArg EXCEPT !.category = c, !.todo = links],
                 HashesOf(links))

(* Mutant of AddLink: a link is not checked for amarr's tracker. *)
AddLinkUnchecked(t) ==
    /\ at[t] = "link" /\ arg[t].todo # <<>>
    /\ amule' = [h \in Hashes |-> IF h = Head(arg[t].todo) /\ amule[h] \in {"absent", "gone"}
                                   THEN "queued" ELSE amule[h]]
    /\ IF arg[t].category = None
         THEN Proceed(t, "link") /\ NextLink(t)
         ELSE Proceed(t, "tag") /\ UNCHANGED arg
    /\ UNCHANGED <<queueSeen, category>>

(* add_torrent, one link: refused with 404 unless it is one of amarr's.    *)
(* aMule takes it, so that it has the file from then on, or refuses it     *)
(* (RequestFails); its answer may be lost.                                 *)
AddLink(t) ==
    /\ at[t] = "link" /\ arg[t].todo # <<>>
    /\ LET h == Head(arg[t].todo)
           Taken == amule' = [amule EXCEPT ![h] =
                                 IF @ \in {"absent", "gone"} THEN "queued" ELSE @]
       IN  \/ /\ h # Foreign /\ Taken
              /\ IF arg[t].category = None
                   THEN Proceed(t, "link") /\ NextLink(t)
                   ELSE Proceed(t, "tag") /\ UNCHANGED arg
              /\ UNCHANGED queueSeen
           \/ h # Foreign /\ Taken /\ Raise(t)
           \/ h = Foreign /\ Raise(t) /\ UNCHANGED amule
    /\ UNCHANGED category

(* CategoryStore.store *)
Tag(t) ==
    /\ at[t] = "tag"
    /\ category' = [category EXCEPT ![Head(arg[t].todo)] = arg[t].category]
    /\ Proceed(t, "link") /\ NextLink(t)
    /\ UNCHANGED <<queueSeen, amule>>

AddReply(t) ==
    /\ at[t] = "link" /\ arg[t].todo = <<>>
    /\ End(t)
    /\ owned' = [h \in Hashes |-> IF sound[t] /\ h \in named[t]
                                    THEN arg[t].category ELSE owned[h]]
    /\ UNCHANGED <<erased, amule, category>>
-----------------------------------------------------------------------------
DeleteRequest(t) ==
    /\ "delete" \in Kinds
    /\ \E S \in SUBSET Hashes \ {{}}, files \in BOOLEAN : \E hashes \in SetToSeqs(S) :
           /\ Cardinality(S) <= MaxLinks
           /\ Begin(t, "snapshot", [NoArg EXCEPT !.todo = hashes, !.files = files], S)

(* delete_all_torrents runs over the shared files, whatever deleteFiles. *)
DeleteAllRequest(t) ==
    /\ "deleteAll" \in Kinds
    /\ Begin(t, "all", NoArg, Hashes)

(* The snapshot deletion decides from: the queue, or, for "all", the       *)
(* shared files, each of which is then deleted as if it were in the queue. *)
Snapshot(t) ==
    /\ \/ /\ at[t] = "snapshot"
          /\ queueSeen' = [queueSeen EXCEPT ![t] = Queue]
          /\ UNCHANGED arg
       \/ /\ at[t] = "all"
          /\ queueSeen' = [queueSeen EXCEPT ![t] = Shared]
          /\ \E hashes \in SetToSeqs(Shared) :
                 arg' = [arg EXCEPT ![t].todo = hashes]
    /\ Proceed(t, "command")
    /\ UNCHANGED <<amule, category>>

(* Mutant of CancelDownload: a refusal is taken for success. *)
CancelDownloadUnchecked(t, h) ==
    /\ h \in queueSeen[t]
    /\ amule' = [amule EXCEPT ![h] = IF h \in Queue THEN "absent" ELSE @]
    /\ Proceed(t, "untag") /\ UNCHANGED <<arg, queueSeen>>

(* The DELETE command: refused when the file has left the queue since the  *)
(* snapshot; the answer may be lost.                                       *)
CancelDownload(t, h) ==
    /\ h \in queueSeen[t]
    /\ \/ /\ h \in Queue
          /\ amule' = [amule EXCEPT ![h] = "absent"]
          /\ \/ Proceed(t, "untag") /\ UNCHANGED <<arg, queueSeen>>
             \/ Raise(t)
       \/ h \notin Queue /\ Raise(t) /\ UNCHANGED amule

(* _delete_shared_file_by_hash.  The path of a file that is still          *)
(* downloading names no finished file.                                     *)
RemoveFile(t, h) ==
    /\ h \notin queueSeen[t] /\ arg[t].files
    /\ amule' = [amule EXCEPT ![h] = IF @ = "complete" THEN "gone" ELSE @]
    /\ Proceed(t, "untag") /\ UNCHANGED <<arg, queueSeen>>

(* os.remove raises OSError, which is only logged. *)
RemoveFileFails(t, h) ==
    /\ h \notin queueSeen[t] /\ arg[t].files
    /\ amule[h] = "complete"
    /\ at' = [at EXCEPT ![t] = "untag"]
    /\ sound' = [sound EXCEPT ![t] = FALSE]
    /\ UNCHANGED <<arg, queueSeen, sharedSeen, amule, named, owned, erased>>

LeaveFile(t, h) ==
    /\ h \notin queueSeen[t] /\ ~arg[t].files
    /\ Proceed(t, "untag") /\ UNCHANGED <<arg, queueSeen, amule>>

DeleteOne(t) ==
    /\ at[t] = "command" /\ arg[t].todo # <<>>
    /\ LET h == Head(arg[t].todo)
       IN  \/ CancelDownload(t, h)
           \/ RemoveFile(t, h) \/ RemoveFileFails(t, h) \/ LeaveFile(t, h)
    /\ UNCHANGED category

(* Mutant of Untag: DELETE without its WHERE clause. *)
UntagAll(t) ==
    /\ at[t] = "untag"
    /\ category' = [h \in Hashes |-> None]
    /\ Proceed(t, "command") /\ NextLink(t)
    /\ UNCHANGED <<queueSeen, amule>>

(* CategoryStore.delete *)
Untag(t) ==
    /\ at[t] = "untag"
    /\ category' = [category EXCEPT ![Head(arg[t].todo)] = None]
    /\ Proceed(t, "command") /\ NextLink(t)
    /\ UNCHANGED <<queueSeen, amule>>

DeleteReply(t) ==
    /\ at[t] = "command" /\ arg[t].todo = <<>>
    /\ End(t)
    /\ erased' = erased \cup {h \in named[t] : sound[t] /\ arg[t].files}
    /\ UNCHANGED <<owned, amule, category>>
-----------------------------------------------------------------------------
(* aMule: the first complete part, the last one, a rescan of the folders. *)
AmuleStep(h) ==
    /\ \/ amule[h] = "queued" /\ amule' = [amule EXCEPT ![h] = "sharing"]
       \/ amule[h] \in {"queued", "sharing"} /\ amule' = [amule EXCEPT ![h] = "complete"]
       \/ amule[h] = "gone" /\ amule' = [amule EXCEPT ![h] = "absent"]
    /\ UNCHANGED <<requestVars, category, promiseVars>>

(* amarr is killed and started again: aMule and amarr.db are still there. *)
Restart ==
    /\ at' = [t \in Threads |-> "idle"]
    /\ arg' = [t \in Threads |-> NoArg]
    /\ queueSeen' = [t \in Threads |-> {}]
    /\ sharedSeen' = [t \in Threads |-> {}]
    /\ named' = [t \in Threads |-> {}]
    /\ sound' = [t \in Threads |-> TRUE]
    /\ UNCHANGED <<amule, category, owned, erased>>

(* History: the files that exist and that a listing of t should show, and  *)
(* the files that are being downloaded, from its first step to its last.   *)
Listable(t) == {h \in Hashes : amule[h] \notin {"absent", "gone"} /\ Wanted(t, h)}

Track ==
    LET Tracked(old, t, now) ==
            IF at'[t] \notin {"queue", "shared", "list"} THEN {}
            ELSE IF at[t] = "idle" THEN now ELSE old \cap now
    IN  /\ kept' = [t \in Threads |-> Tracked(kept[t], t, Listable(t)')]
        /\ underway' = [t \in Threads |-> Tracked(underway[t], t, Queue')]

Next ==
    \/ \E t \in Threads :
           \/ InfoRequest(t) /\ Track
           \/ ReadLists(t) /\ Track
           \/ InfoReply(t) /\ Track
           \/ AddRequest(t) /\ Track
           \/ AddLink(t) /\ Track
           \/ Tag(t) /\ Track
           \/ AddReply(t) /\ Track
           \/ DeleteRequest(t) /\ Track
           \/ DeleteAllRequest(t) /\ Track
           \/ Snapshot(t) /\ Track
           \/ DeleteOne(t) /\ Track
           \/ Untag(t) /\ Track
           \/ DeleteReply(t) /\ Track
           \/ RequestFails(t) /\ Track
    \/ \E h \in Hashes : AmuleStep(h) /\ Track
    \/ Restart /\ Track

Spec == Init /\ [][Next]_vars
-----------------------------------------------------------------------------
TypeOK ==
    /\ at \in [Threads -> {"idle", "queue", "shared", "list", "link", "tag",
                           "snapshot", "all", "command", "untag"}]
    /\ arg \in [Threads -> [category : Categories \cup {None},
                            todo : Seq(Hashes \cup {Foreign}),
                            files : BOOLEAN]]
    /\ \A t \in Threads : at[t] \in {"tag", "untag"} =>
           arg[t].todo # <<>> /\ Head(arg[t].todo) \in Hashes
    /\ queueSeen \in [Threads -> SUBSET Hashes]
    /\ sharedSeen \in [Threads -> SUBSET Hashes]
    /\ amule \in [Hashes -> {"absent", "queued", "sharing", "complete", "gone"}]
    /\ category \in [Hashes -> Categories \cup {None}]
    /\ named \in [Threads -> SUBSET Hashes]
    /\ sound \in [Threads -> BOOLEAN]
    /\ kept \in [Threads -> SUBSET Hashes]
    /\ underway \in [Threads -> SUBSET Hashes]
    /\ owned \in [Hashes -> Categories \cup {None}]
    /\ erased \subseteq Hashes

(* A file that aMule has, under the category asked for, all the time a     *)
(* listing takes is in it, even if its download completes between the two  *)
(* lists.                                                                  *)
ListsWhatStays ==
    \A t \in Threads : at[t] = "list" =>
        \A h \in kept[t] : \E f \in Listing(t) : f[1] = h

(* A file that is being downloaded all that time is not listed as done, so *)
(* nobody imports it.                                                      *)
UnderwayIsNotDone ==
    \A t \in Threads : at[t] = "list" =>
        \A h \in underway[t] : <<h, "done">> \notin Listing(t)

(* Once an add that overlapped with no other request for the same files    *)
(* has replied "Ok.", they stay in aMule under their category, through     *)
(* other requests, failures, completion and restarts, until a new request  *)
(* names them.                                                             *)
AddedStaysListed ==
    \A h \in Hashes : owned[h] # None =>
        category[h] = owned[h] /\ h \in Queue \cup Shared

(* Once a deletion with deleteFiles that overlapped with no other request  *)
(* for the same files has replied "Ok.", they are neither downloaded nor   *)
(* on the disk, also when a download completed while it ran; only a file   *)
(* that resists its removal stays (lines 233-235).                         *)
DeletedIsGone == \A h \in erased : amule[h] \in {"absent", "gone"}
=============================================================================
