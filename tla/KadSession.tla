------------------------------ MODULE KadSession ------------------------------
(***************************************************************************)
(* The Kad session: KadSession of src/amarr/kad_session.py.  Each search   *)
(* runs its UDP lookup outside the lock; only its first and its last part, *)
(* the timer and close touch the pool, under the lock and without blocking *)
(* there, so each of these critical sections is one step.                  *)
(*                                                                         *)
(* The pool is a dict: a sequence of distinct contacts in insertion order. *)
(***************************************************************************)
EXTENDS Naturals, Sequences, FiniteSets, Functions, SequencesExt

CONSTANTS Threads,     \* callers of search
          Contacts,    \* Kad contacts, known by their id_int
          NodesDat,    \* the seeds parsed from nodes.dat
          Timers,      \* identities of the Timer objects alive at once
          None,        \* no timer
          MaxPool,     \* _MAX_POOL
          MaxSeeds     \* _MAX_SEEDS

ASSUME ContactsAssumption == IsFiniteSet(Contacts)
ASSUME NodesDatAssumption == NodesDat \subseteq Contacts /\ NodesDat # {}
ASSUME NoneAssumption == None \notin Timers
ASSUME BoundsAssumption == MaxPool \in Nat \ {0} /\ MaxSeeds \in Nat \ {0}

VARIABLES persistent, \* idle_seconds > 0, set by __init__
          running,    \* the threads whose lookup is under way
          seeds,      \* the seeds each lookup started from
          pool,       \* _pool, in insertion order
          timer,      \* the handle _timer, or None
          timers,     \* each Timer object: free, armed, or fired (waits for the lock)
          merged,     \* history: contacts merged since the pool was last discarded
          raised      \* history: a lookup has raised since a timer was last armed

timerVars == <<timer, timers>>
vars == <<persistent, running, seeds, pool, timerVars, merged, raised>>
-----------------------------------------------------------------------------
Init ==
    /\ persistent \in BOOLEAN
    /\ running = {}
    /\ seeds = [t \in Threads |-> {}]
    /\ pool = <<>>
    /\ timer = None
    /\ timers = [m \in Timers |-> "free"]
    /\ merged = {}
    /\ raised = FALSE

(* _cancel_timer: a timer that has already fired is not stopped by it. *)
CancelTimer ==
    /\ timer' = None
    /\ timers' = [m \in Timers |->
                     IF m = timer /\ timers[m] = "armed" THEN "free" ELSE timers[m]]

(* _schedule_timer: the handle of any other armed timer is overwritten.    *)
(* Bound: a search ends only while an identity for its timer is left.      *)
ScheduleTimer ==
    \E m \in Timers :
        /\ timers[m] = "free"
        /\ timer' = m
        /\ timers' = [timers EXCEPT ![m] = "armed"]

(* _seeds_for: the MaxSeeds contacts of nodes.dat and of the pool that are *)
(* nearest to the target; which ones that are depends on the query.        *)
SeedsFor ==
    LET combined == NodesDat \cup Range(pool)
    IN  {S \in SUBSET combined :
            Cardinality(S) = IF Cardinality(combined) < MaxSeeds
                               THEN Cardinality(combined) ELSE MaxSeeds}

(* Mutant of Newest: one contact too many is kept. *)
NewestPlusOne(s) ==
    IF Len(s) > MaxPool + 1 THEN SubSeq(s, Len(s) - MaxPool, Len(s)) ELSE s

(* The trimming of _merge_pool: the last MaxPool items. *)
Newest(s) ==
    IF Len(s) > MaxPool THEN SubSeq(s, Len(s) - MaxPool + 1, Len(s)) ELSE s

(* Mutant of Merge: the pool of the start of the search is written back. *)
MergeStale(t, told) ==
    \E f \in SetToSeqs(seeds[t] \ Range(pool)), l \in SetToSeqs(told \ seeds[t]) :
        pool' = Newest(SetToSeq(seeds[t] \cap Range(pool)) \o f \o l)

(* _merge_pool: a contact the dict knows keeps its place, the new ones go  *)
(* to its end in the order of the lookup: its seeds, then those it was     *)
(* told of.                                                                *)
Merge(t, told) ==
    \E f \in SetToSeqs(seeds[t] \ Range(pool)),
       l \in SetToSeqs(told \ (seeds[t] \cup Range(pool))) :
           pool' = Newest(pool \o f \o l)
-----------------------------------------------------------------------------
(* The first critical section of search. *)
BeginSearch(t) ==
    /\ t \notin running
    /\ CancelTimer
    /\ \E S \in SeedsFor : seeds' = [seeds EXCEPT ![t] = S]
    /\ running' = running \cup {t}
    /\ UNCHANGED <<persistent, pool, merged, raised>>

(* _merge_pool and _after_search, in one critical section. *)
AfterSearch(t, told) ==
    \/ /\ persistent
       /\ Merge(t, told)
       /\ merged' = merged \cup seeds[t] \cup told
       /\ ScheduleTimer
    \/ /\ ~persistent
       /\ pool' = <<>>
       /\ merged' = {}
       /\ UNCHANGED timerVars

(* The lookup is over: it knows its seeds and the contacts it was told of, *)
(* answering or not (KadClient.contacts).                                  *)
EndSearch(t) ==
    /\ t \in running
    /\ \E told \in SUBSET Contacts : AfterSearch(t, told)
    /\ raised' = FALSE
    /\ running' = running \ {t}
    /\ seeds' = [seeds EXCEPT ![t] = {}]
    /\ UNCHANGED persistent

(* The lookup raises: an unusable query, or a socket that cannot be opened. *)
SearchFails(t) ==
    /\ t \in running
    /\ running' = running \ {t}
    /\ seeds' = [seeds EXCEPT ![t] = {}]
    /\ raised' = TRUE
    /\ UNCHANGED <<persistent, pool, timerVars, merged>>

(* close *)
Close ==
    /\ CancelTimer
    /\ pool' = <<>>
    /\ merged' = {}
    /\ raised' = FALSE
    /\ UNCHANGED <<persistent, running, seeds>>

TimerFires(m) ==
    /\ timers[m] = "armed"
    /\ timers' = [timers EXCEPT ![m] = "fired"]
    /\ UNCHANGED <<persistent, running, seeds, pool, timer, merged, raised>>

(* Mutant of IdleClear: the pool is replaced only when a search runs. *)
IdleClearWhileBusy(m) ==
    /\ timers[m] = "fired"
    /\ timers' = [timers EXCEPT ![m] = "free"]
    /\ timer' = None
    /\ pool' = IF running = {} THEN pool ELSE <<>>
    /\ merged' = IF running = {} THEN merged ELSE {}
    /\ raised' = FALSE
    /\ UNCHANGED <<persistent, running, seeds>>

(* _idle_clear: discards the pool and forgets the handle, whosever it is. *)
IdleClear(m) ==
    /\ timers[m] = "fired"
    /\ timers' = [timers EXCEPT ![m] = "free"]
    /\ timer' = None
    /\ pool' = <<>>
    /\ merged' = {}
    /\ raised' = FALSE
    /\ UNCHANGED <<persistent, running, seeds>>
-----------------------------------------------------------------------------
Next ==
    \/ \E t \in Threads : BeginSearch(t) \/ EndSearch(t) \/ SearchFails(t)
    \/ \E m \in Timers : TimerFires(m) \/ IdleClear(m)
    \/ Close

Spec == Init /\ [][Next]_vars

(* A lookup is a fixed number of rounds with deadlines, so it ends; armed  *)
(* timers expire; the critical sections are short.                         *)
Fairness ==
    /\ \A t \in Threads : WF_vars(EndSearch(t) \/ SearchFails(t))
    /\ \A m \in Timers : WF_vars(TimerFires(m)) /\ WF_vars(IdleClear(m))

FairSpec == Spec /\ Fairness
-----------------------------------------------------------------------------
(* Types; the pool is a dict, cut to _MAX_POOL by every merge.              *)
TypeOK ==
    /\ persistent \in BOOLEAN
    /\ running \subseteq Threads
    /\ seeds \in [Threads -> SUBSET Contacts]
    /\ pool \in Seq(Contacts) /\ Len(pool) <= MaxPool /\ IsInjective(pool)
    /\ timer \in Timers \cup {None}
    /\ timers \in [Timers -> {"free", "armed", "fired"}]
    /\ merged \subseteq Contacts
    /\ raised \in BOOLEAN

(* Concurrent searches do not lose each other's contacts: as long as they  *)
(* fit, the pool holds everything merged since it was last discarded.      *)
NothingForgotten == Cardinality(merged) <= MaxPool => Range(pool) = merged

(* "After idle_seconds without searches the pool is discarded" (lines 6-7): *)
(* when the searches end, the last one not by raising, it is gone for good. *)
PoolDiscardedWhenIdle == <>[](running = {}) => <>[](pool = <<>> \/ raised)
=============================================================================
