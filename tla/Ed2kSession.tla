----------------------------- MODULE Ed2kSession -----------------------------
(***************************************************************************)
(* The persistent session with an eD2k server: Ed2kServerSession of        *)
(* src/amarr/ed2k_session.py, over Ed2kConnection of src/amarr/ed2k/       *)
(* server.py.  A search holds _lock from the cancelled timer to the next   *)
(* scheduled one; the timer thread takes the same lock to close the idle   *)
(* connection.  The server may refuse, drop, answer late or send a packet  *)
(* that cannot be parsed; packets the code reads and ignores are left out. *)
(***************************************************************************)
EXTENDS Naturals, Sequences, FiniteSets

CONSTANTS Threads,     \* callers of search and close
          Queries,     \* what they search for
          Timers,      \* identities of the threading.Timer objects alive at once
          None,        \* nobody, no timer, no query, no result
          Failures,    \* which failures the server shows, of those below
          MaxInFlight  \* bound: unread answers on the connection

ASSUME NoneAssumption == None \notin Threads \cup Queries \cup Timers
ASSUME FailuresAssumption ==
    Failures \subseteq {"refuse", "drop", "timeout", "malformed"}
ASSUME MaxInFlightAssumption == MaxInFlight \in Nat

VARIABLES persistent, \* idle_seconds > 0, set by __init__
          pc,         \* where each thread is in search
          query,      \* the query of its search
          attempt,    \* 1, or 2 after the one reconnection
          logins,     \* logins made by its search
          result,     \* the query whose results its last search returned
          lock,       \* the owner of _lock, or None
          conn,       \* _conn: "none" or "open"
          alive,      \* the server's end of the open connection
          inFlight,   \* queries sent on the connection, answers not yet read
          owing,      \* history: a search left this connection without its answer
          stranded,   \* history: the last search left by an exception nobody catches
          timer,      \* the handle _timer, or None
          timers      \* each Timer object: free, armed, or fired (waits for _lock)

threadVars == <<pc, query, attempt, logins, result>>
connVars == <<conn, alive, inFlight, owing, stranded>>
timerVars == <<timer, timers>>
vars == <<persistent, threadVars, lock, connVars, timerVars>>
-----------------------------------------------------------------------------
Init ==
    /\ persistent \in BOOLEAN
    /\ pc = [t \in Threads |-> "idle"]
    /\ query = [t \in Threads |-> None]
    /\ attempt = [t \in Threads |-> 1]
    /\ logins = [t \in Threads |-> 0]
    /\ result = [t \in Threads |-> None]
    /\ lock = None
    /\ conn = "none"
    /\ alive = FALSE
    /\ inFlight = <<>>
    /\ owing = FALSE
    /\ stranded = FALSE
    /\ timer = None
    /\ timers = [m \in Timers |-> "free"]

Goto(t, place) == pc' = [pc EXCEPT ![t] = place]

(* search is over: its local variables are gone, the lock is released. *)
Leave(t) ==
    /\ lock' = None
    /\ query' = [query EXCEPT ![t] = None]
    /\ Goto(t, "idle")

Live == {m \in Timers : timers[m] # "free"}

(* _cancel_timer: a timer that has already fired is not stopped by it. *)
CancelTimer ==
    /\ timer' = None
    /\ timers' = [m \in Timers |->
                     IF m = timer /\ timers[m] = "armed" THEN "free" ELSE timers[m]]

(* _schedule_timer: a new Timer object, and the handle points to it. *)
ScheduleTimer ==
    \E m \in Timers :
        /\ timers[m] = "free"
        /\ timer' = m
        /\ timers' = [timers EXCEPT ![m] = "armed"]

(* _close_conn: nothing happens when there is no connection. *)
CloseConn ==
    /\ conn' = "none"
    /\ alive' = FALSE
    /\ inFlight' = <<>>
    /\ owing' = FALSE
    /\ stranded' = FALSE
-----------------------------------------------------------------------------
(* search, up to the lock. *)
Search(t, q) ==
    /\ pc[t] = "idle"
    /\ query' = [query EXCEPT ![t] = q]
    /\ attempt' = [attempt EXCEPT ![t] = 1]
    /\ logins' = [logins EXCEPT ![t] = 0]
    /\ result' = [result EXCEPT ![t] = None]
    /\ Goto(t, "want")
    /\ UNCHANGED <<persistent, lock, connVars, timerVars>>

(* Mutant of BeginSearch: without the lock. *)
BeginSearchUnlocked(t) ==
    /\ pc[t] = "want"
    /\ lock' = t
    /\ CancelTimer
    /\ Goto(t, "ensure")
    /\ UNCHANGED <<persistent, query, attempt, logins, result, connVars>>

(* The lock is taken and the timer cancelled. *)
BeginSearch(t) ==
    /\ pc[t] = "want"
    /\ lock = None
    /\ lock' = t
    /\ CancelTimer
    /\ Goto(t, "ensure")
    /\ UNCHANGED <<persistent, query, attempt, logins, result, connVars>>

(* _ensure_connected finds the connection of an earlier search. *)
ReuseConn(t) ==
    /\ pc[t] = "ensure"
    /\ conn = "open"
    /\ Goto(t, "send")
    /\ UNCHANGED <<persistent, query, attempt, logins, result, lock, connVars, timerVars>>

(* A new connection, with login; IDCHANGE arrives or is given up waiting   *)
(* for ("searching anyway").                                               *)
Connect(t) ==
    /\ pc[t] = "ensure"
    /\ conn = "none"
    /\ logins' = [logins EXCEPT ![t] = @ + 1]
    /\ conn' = "open"
    /\ alive' = TRUE
    /\ inFlight' = <<>>
    /\ owing' = FALSE
    /\ stranded' = FALSE
    /\ Goto(t, "send")
    /\ UNCHANGED <<persistent, query, attempt, result, lock, timerVars>>

(* Mutant of Reconnect: the retry is not counted. *)
ReconnectForever(t) ==
    /\ attempt[t] = 1
    /\ CloseConn
    /\ Goto(t, "ensure")
    /\ UNCHANGED <<persistent, query, attempt, result, lock, timerVars>>

(* The handler of OSError and ConnectionError: close, then once again; the *)
(* second failure leaves search with the connection closed and no timer.   *)
Reconnect(t) ==
    /\ attempt[t] = 1
    /\ CloseConn
    /\ attempt' = [attempt EXCEPT ![t] = 2]
    /\ Goto(t, "ensure")
    /\ UNCHANGED <<persistent, query, result, lock, timerVars>>

(* Mutant of GiveUp: the exception leaves search with the lock held. *)
GiveUpKeepsLock(t) ==
    /\ attempt[t] = 2
    /\ CloseConn
    /\ Goto(t, "idle")
    /\ UNCHANGED <<persistent, query, attempt, result, lock, timerVars>>

GiveUp(t) ==
    /\ attempt[t] = 2
    /\ CloseConn
    /\ Leave(t)
    /\ UNCHANGED <<persistent, attempt, result, timerVars>>

OnError(t) == Reconnect(t) \/ GiveUp(t)

(* Nobody listens, or the login is answered by OP_REJECT or a close. *)
ConnectFails(t) ==
    /\ "refuse" \in Failures
    /\ pc[t] = "ensure"
    /\ conn = "none"
    /\ \E n \in {0, 1} : logins' = [logins EXCEPT ![t] = @ + n]
    /\ OnError(t)

SendQuery(t) ==
    /\ pc[t] = "send"
    /\ alive
    /\ inFlight' = Append(inFlight, query[t])
    /\ Goto(t, "await")
    /\ UNCHANGED <<persistent, query, attempt, logins, result, lock,
                    conn, alive, owing, stranded, timerVars>>

(* The server dropped the connection: the send or a read raises. *)
ConnDown(t) ==
    /\ pc[t] \in {"send", "await"}
    /\ ~alive
    /\ OnError(t)
    /\ UNCHANGED logins

(* Mutant of AfterSearch: no timer after a time-out, no close without idle. *)
AfterSearchSkipsTimer(unread, late) ==
    /\ \/ persistent /\ ~late /\ ScheduleTimer
       \/ (~persistent \/ late) /\ UNCHANGED timerVars
    /\ inFlight' = unread
    /\ owing' = late
    /\ stranded' = FALSE
    /\ UNCHANGED <<conn, alive>>

(* _after_search: keep the connection and arm the timer, or close it now. *)
AfterSearch(unread, late) ==
    \/ /\ persistent
       /\ ScheduleTimer
       /\ inFlight' = unread
       /\ owing' = late
       /\ stranded' = FALSE
       /\ UNCHANGED <<conn, alive>>
    \/ /\ ~persistent
       /\ CloseConn
       /\ UNCHANGED timerVars

(* search returns the results of query q and releases the lock. *)
Return(t, q) ==
    /\ result' = [result EXCEPT ![t] = q]
    /\ Leave(t)
    /\ UNCHANGED <<persistent, attempt, logins>>

(* The first OP_SEARCHRESULT that arrives ends the search. *)
ReceiveResults(t) ==
    /\ pc[t] = "await"
    /\ inFlight # <<>>
    /\ AfterSearch(Tail(inFlight), owing)
    /\ Return(t, Head(inFlight))

(* No result in time: an empty list, and the connection is kept.  Bound:   *)
(* the server is not that late for MaxInFlight queries on one connection.  *)
ReceiveTimesOut(t) ==
    /\ "timeout" \in Failures
    /\ pc[t] = "await"
    /\ Len(inFlight) < MaxInFlight
    /\ AfterSearch(inFlight, TRUE)
    /\ Return(t, None)

(* A packet that cannot be parsed: the struct.error, zlib.error, IndexError *)
(* or ValueError passes both except clauses, and neither _after_search nor  *)
(* _close_conn runs.  It may be the answer, or any other packet, with the   *)
(* answer still to come.  Bound: MaxInFlight.                               *)
ReceiveMalformed(t) ==
    /\ "malformed" \in Failures
    /\ pc[t] = "await"
    /\ \/ inFlight # <<>> /\ inFlight' = Tail(inFlight) /\ UNCHANGED owing
       \/ Len(inFlight) < MaxInFlight /\ owing' = TRUE /\ UNCHANGED inFlight
    /\ stranded' = TRUE
    /\ Leave(t)
    /\ UNCHANGED <<persistent, attempt, logins, result, conn, alive, timerVars>>

(* The same while the login is awaited: _conn has not been set yet. *)
LoginMalformed(t) ==
    /\ "malformed" \in Failures
    /\ pc[t] = "ensure"
    /\ conn = "none"
    /\ logins' = [logins EXCEPT ![t] = @ + 1]
    /\ Leave(t)
    /\ UNCHANGED <<persistent, attempt, result, connVars, timerVars>>
-----------------------------------------------------------------------------
(* close, called by the owner of the session. *)
Close ==
    /\ lock = None
    /\ CancelTimer
    /\ CloseConn
    /\ UNCHANGED <<persistent, threadVars, lock>>

(* A timer reaches its interval.  Bound: not all timers wait for the lock. *)
TimerFires(m) ==
    /\ timers[m] = "armed"
    /\ Cardinality({n \in Timers : timers[n] = "fired"}) + 2 < Cardinality(Timers)
    /\ timers' = [timers EXCEPT ![m] = "fired"]
    /\ UNCHANGED <<persistent, threadVars, lock, connVars, timer>>

(* Mutant of IdleClose: the timer does not wait for the lock. *)
IdleCloseUnlocked(m) ==
    /\ timers[m] = "fired"
    /\ CloseConn
    /\ timers' = [timers EXCEPT ![m] = "free"]
    /\ UNCHANGED <<persistent, threadVars, lock, timer>>

(* _idle_close, in the thread of the timer. *)
IdleClose(m) ==
    /\ timers[m] = "fired"
    /\ lock = None
    /\ CloseConn
    /\ timers' = [timers EXCEPT ![m] = "free"]
    /\ UNCHANGED <<persistent, threadVars, lock, timer>>

(* The server drops the connection; answers that arrived before are lost   *)
(* with it only if they are still unread when the drop is noticed.         *)
ServerDrops ==
    /\ "drop" \in Failures
    /\ conn = "open"
    /\ alive
    /\ alive' = FALSE
    /\ UNCHANGED <<persistent, threadVars, lock, conn, inFlight, owing, stranded, timerVars>>
-----------------------------------------------------------------------------
Step(t) ==
    \/ BeginSearch(t) \/ ReuseConn(t) \/ Connect(t) \/ ConnectFails(t)
    \/ SendQuery(t) \/ ConnDown(t)
    \/ ReceiveResults(t) \/ ReceiveTimesOut(t)
    \/ ReceiveMalformed(t) \/ LoginMalformed(t)

Next ==
    \/ \E t \in Threads : Step(t) \/ \E q \in Queries : Search(t, q)
    \/ \E m \in Timers : TimerFires(m) \/ IdleClose(m)
    \/ Close
    \/ ServerDrops

Spec == Init /\ [][Next]_vars

(* Threads run, reads return, armed timers expire, and whoever waits for a *)
(* lock that is released again and again gets it.                          *)
Fairness ==
    /\ \A t \in Threads : WF_vars(Step(t) /\ pc[t] # "want") /\ SF_vars(BeginSearch(t))
    /\ \A m \in Timers : WF_vars(TimerFires(m)) /\ SF_vars(IdleClose(m))

FairSpec == Spec /\ Fairness
-----------------------------------------------------------------------------
TypeOK ==
    /\ persistent \in BOOLEAN
    /\ pc \in [Threads -> {"idle", "want", "ensure", "send", "await"}]
    /\ query \in [Threads -> Queries \cup {None}]
    /\ attempt \in [Threads -> {1, 2}]
    /\ logins \in [Threads -> Nat]
    /\ result \in [Threads -> Queries \cup {None}]
    /\ lock \in Threads \cup {None}
    /\ conn \in {"none", "open"}
    /\ alive \in BOOLEAN
    /\ inFlight \in Seq(Queries)
    /\ owing \in BOOLEAN
    /\ stranded \in BOOLEAN
    /\ timer \in Timers \cup {None}
    /\ timers \in [Timers -> {"free", "armed", "fired"}]

Searching(t) == pc[t] \in {"ensure", "send", "await"}

(* Searches are serialised (ed2k_session.py:10-11): whoever is between the *)
(* cancelled timer and the scheduled one owns the lock.                    *)
SearchesSerialized == \A t \in Threads : Searching(t) => lock = t

(* A search never sends or reads on a connection that the timer, close or  *)
(* another search has closed.                                              *)
NoUseAfterClose == \A t \in Threads : pc[t] \in {"send", "await"} => conn = "open"

(* A timer that can still be cancelled is the one _timer names, and it is  *)
(* armed only while nobody searches: no search runs with an old idle timer *)
(* ticking, and none is orphaned.                                          *)
ArmedTimerIsCurrent ==
    \A m \in Timers : timers[m] = "armed" => m = timer /\ lock = None

(* The three together: one search at a time between the cancelled timer and *)
(* the next one, on a connection nobody closes under it, however many       *)
(* timers have fired and wait for the lock.                                 *)
SessionDiscipline == SearchesSerialized /\ NoUseAfterClose /\ ArmedTimerIsCurrent

(* "login only once" (line 3): a search logs in once, and a second time    *)
(* only after its first connection failed.                                 *)
LoginsPerSearch == \A t \in Threads : logins[t] <= attempt[t]

(* Results go to the query they answer, across reconnections and malformed *)
(* packets.  The one way to read another query's answer is a connection    *)
(* that still owes it: a search timed out on it, or left it by a packet it *)
(* could not parse, before its own answer came.  (What is read then still  *)
(* passes filter_by_query, line 80.)                                       *)
OwnResults ==
    [][\A t \in Threads :
           result'[t] # result[t] /\ ~owing => result'[t] \in {None, query[t]}]_vars

(* An open connection that nobody uses has a timer that will close it      *)
(* (lines 135-141), unless the last search left it by an exception that    *)
(* neither except clause catches.                                          *)
OpenConnectionHasTimer == lock = None /\ conn = "open" => Live # {} \/ stranded

(* "After idle_seconds without searches the connection is closed" (lines   *)
(* 5-6): when the searches end, the connection is closed for good; only    *)
(* the connection of a search that met a malformed packet stays open.      *)
IdleConnectionCloses ==
    <>[](\A t \in Threads : pc[t] = "idle") => <>[](conn = "none" \/ stranded)

(* Every search ends, by return or by exception. *)
SearchesEnd == \A t \in Threads : pc[t] # "idle" ~> pc[t] = "idle"

(* The session keeps the promise of ExclusiveSession: whoever holds _lock  *)
(* is its user, and only its user, or nobody, touches the connection.      *)
Promise == INSTANCE ExclusiveSession WITH
    Clients <- Threads, Nobody <- None, user <- lock, open <- (conn = "open")
KeepsPromise == Promise!Spec
=============================================================================
