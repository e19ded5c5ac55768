-------------------------- MODULE Ed2kSessionProofs --------------------------
(***************************************************************************)
(* Proofs about Ed2kSession for any threads, queries and timers, whatever  *)
(* subset of the failures the server shows.                                *)
(***************************************************************************)
EXTENDS Ed2kSession, TLAPS

(* Before it connects, a search has used fewer logins than attempts. *)
LoginInv == \A t \in Threads : pc[t] \in {"want", "ensure"} => logins[t] < attempt[t]

(* On a connection that owes no earlier search its answer, the only answer *)
(* outstanding is the one the searching thread waits for.                  *)
AwaitInv ==
    ~owing =>
        /\ \A t \in Threads : pc[t] = "await" => inFlight = <<query[t]>>
        /\ (\A t \in Threads : pc[t] # "await") => inFlight = <<>>

(* A thread past the call has a query. *)
QueryInv == \A t \in Threads : pc[t] # "idle" => query[t] \in Queries

(* First layer: types, and the query of a running search. *)
TypeInv == TypeOK /\ QueryInv

(* Second layer: the lock, the connection, the timers and the logins. *)
LockInv ==
    /\ SearchesSerialized
    /\ NoUseAfterClose
    /\ ArmedTimerIsCurrent
    /\ LoginsPerSearch
    /\ LoginInv

IInv == TypeInv /\ LockInv /\ AwaitInv
-----------------------------------------------------------------------------
(* The sequence operations of the model stay within sequences. *)
LEMMA SeqFacts ==
    ASSUME NEW S
    PROVE  /\ <<>> \in Seq(S)
           /\ \A s \in Seq(S), x \in S : Append(s, x) \in Seq(S)
           /\ \A s \in Seq(S) : s # <<>> => Head(s) \in S /\ Tail(s) \in Seq(S)
  OBVIOUS

(* The initial state satisfies every part of the invariant. *)
LEMMA InitInvariant == Init => IInv
<1> SUFFICES ASSUME Init PROVE IInv
  OBVIOUS
<1>1. TypeOK
  BY SeqFacts DEF Init, TypeOK
<1>2. SearchesSerialized /\ NoUseAfterClose /\ ArmedTimerIsCurrent
  BY DEF Init, SearchesSerialized, Searching, NoUseAfterClose, ArmedTimerIsCurrent
<1>3. LoginsPerSearch /\ LoginInv /\ QueryInv
  BY DEF Init, LoginsPerSearch, LoginInv, QueryInv
<1>4. AwaitInv
  BY DEF Init, AwaitInv
<1>5. QED
  BY <1>1, <1>2, <1>3, <1>4 DEF IInv, TypeInv, LockInv

(* _close_conn leaves well-typed variables. *)
LEMMA CloseConnTypes ==
    CloseConn => /\ conn' \in {"none", "open"} /\ alive' \in BOOLEAN
                 /\ inFlight' \in Seq(Queries) /\ owing' \in BOOLEAN
                 /\ stranded' \in BOOLEAN
  BY SeqFacts DEF CloseConn

(* So does the handler of a lost connection. *)
LEMMA OnErrorTypes ==
    ASSUME TypeInv, NEW t \in Threads, OnError(t), logins' \in [Threads -> Nat],
           query[t] \in Queries
    PROVE  TypeInv'
<1> USE CloseConnTypes DEF TypeInv, TypeOK, QueryInv, Goto, Leave, timerVars
<1>1. CASE Reconnect(t)
  BY <1>1 DEF Reconnect
<1>2. CASE GiveUp(t)
  BY <1>2 DEF GiveUp
<1>3. QED
  BY <1>1, <1>2 DEF OnError

(* And so does the end of a search. *)
LEMMA FinishTypes ==
    ASSUME TypeInv, NEW t \in Threads, NEW unread \in Seq(Queries), NEW late \in BOOLEAN,
           NEW q \in Queries \cup {None}, AfterSearch(unread, late), Return(t, q)
    PROVE  TypeInv'
<1> USE CloseConnTypes DEF TypeInv, TypeOK, QueryInv, Goto, Leave, Return, timerVars
<1>1. CASE persistent
  BY <1>1 DEF AfterSearch, ScheduleTimer
<1>2. CASE ~persistent
  BY <1>2 DEF AfterSearch
<1>3. QED
  BY <1>1, <1>2

(* Every step keeps the types. *)
LEMMA NextTypes == TypeInv /\ [Next]_vars => TypeInv'
<1> SUFFICES ASSUME TypeInv, [Next]_vars PROVE TypeInv'
  OBVIOUS
<1> USE NoneAssumption, SeqFacts
    DEF TypeInv, TypeOK, QueryInv, Goto, Leave, threadVars, connVars, timerVars
<1>1. ASSUME NEW t \in Threads, NEW q \in Queries, Search(t, q) PROVE TypeInv'
  BY <1>1 DEF Search
<1>2. ASSUME NEW t \in Threads, BeginSearch(t) PROVE TypeInv'
  BY <1>2 DEF BeginSearch, CancelTimer, Live
<1>3. ASSUME NEW t \in Threads, ReuseConn(t) PROVE TypeInv'
  BY <1>3 DEF ReuseConn
<1>4. ASSUME NEW t \in Threads, Connect(t) PROVE TypeInv'
  <2>1. logins' \in [Threads -> Nat]
    BY <1>4 DEF Connect
  <2>2. QED
    BY <1>4, <2>1 DEF Connect
<1>5. ASSUME NEW t \in Threads, ConnectFails(t) PROVE TypeInv'
  <2>1. logins' \in [Threads -> Nat]
    BY <1>5 DEF ConnectFails
  <2>2. QED
    BY <1>5, <2>1, OnErrorTypes DEF ConnectFails
<1>6. ASSUME NEW t \in Threads, SendQuery(t) PROVE TypeInv'
  BY <1>6 DEF SendQuery
<1>7. ASSUME NEW t \in Threads, ConnDown(t) PROVE TypeInv'
  BY <1>7, OnErrorTypes DEF ConnDown
<1>8. ASSUME NEW t \in Threads, ReceiveResults(t) PROVE TypeInv'
  <2>1. Head(inFlight) \in Queries \cup {None} /\ Tail(inFlight) \in Seq(Queries)
    BY <1>8 DEF ReceiveResults
  <2>2. owing \in BOOLEAN
    BY DEF TypeInv, TypeOK
  <2>3. AfterSearch(Tail(inFlight), owing) /\ Return(t, Head(inFlight))
    BY <1>8, Zenon DEF ReceiveResults
  <2>4. QED
    <3> HIDE DEF TypeInv
    <3> QED
      BY <2>1, <2>2, <2>3, FinishTypes
<1>9. ASSUME NEW t \in Threads, ReceiveTimesOut(t) PROVE TypeInv'
  BY <1>9, FinishTypes DEF ReceiveTimesOut
<1>10. ASSUME NEW t \in Threads, ReceiveMalformed(t) PROVE TypeInv'
  <2>1. inFlight # <<>> => Tail(inFlight) \in Seq(Queries)
    OBVIOUS
  <2>2. inFlight' \in {inFlight, Tail(inFlight)} /\ owing' \in {owing, TRUE}
    BY <1>10 DEF ReceiveMalformed
  <2>3. inFlight' = Tail(inFlight) => inFlight # <<>> \/ inFlight' = inFlight
    BY <1>10, Zenon DEF ReceiveMalformed
  <2>4. inFlight' \in Seq(Queries) /\ owing' \in BOOLEAN
    BY <2>1, <2>2, <2>3
  <2>5. QED
    BY <1>10, <2>4 DEF ReceiveMalformed
<1>10a. ASSUME NEW t \in Threads, LoginMalformed(t) PROVE TypeInv'
  BY <1>10a DEF LoginMalformed
<1>11. ASSUME NEW m \in Timers, TimerFires(m) PROVE TypeInv'
  BY <1>11 DEF TimerFires
<1>12. ASSUME NEW m \in Timers, IdleClose(m) PROVE TypeInv'
  BY <1>12 DEF IdleClose, CloseConn
<1>13. CASE Close
  BY <1>13 DEF Close, CancelTimer, CloseConn
<1>14. CASE ServerDrops
  BY <1>14 DEF ServerDrops
<1>15. CASE UNCHANGED vars
  BY <1>15 DEF vars
<1>16. QED
  BY <1>1, <1>2, <1>3, <1>4, <1>5, <1>6, <1>7, <1>8, <1>9, <1>10, <1>11, <1>12, <1>13, <1>14,
     <1>15, <1>10a DEF Next, Step

(* The handler of a lost connection keeps the lock until it gives up. *)
LEMMA OnErrorLock ==
    ASSUME TypeInv, LockInv, NEW t \in Threads, Searching(t), OnError(t),
           \/ UNCHANGED logins
           \/ pc[t] = "ensure" /\ \E n \in {0, 1} : logins' = [logins EXCEPT ![t] = @ + n]
    PROVE  LockInv'
<1> USE NoneAssumption
    DEF TypeInv, TypeOK, LockInv, SearchesSerialized, Searching, NoUseAfterClose,
        ArmedTimerIsCurrent, LoginsPerSearch, LoginInv, Goto, Leave, timerVars
<1>1. \A u \in Threads : u # t => ~Searching(u)
  OBVIOUS
<1>2. \A u \in Threads : logins'[u] <= attempt[u]
  <2>1. CASE UNCHANGED logins
    BY <2>1
  <2>2. CASE pc[t] = "ensure" /\ \E n \in {0, 1} : logins' = [logins EXCEPT ![t] = @ + n]
    <3>1. logins[t] \in Nat /\ attempt[t] \in {1, 2} /\ logins[t] < attempt[t]
      BY <2>2
    <3>2. PICK n \in {0, 1} : logins' = [logins EXCEPT ![t] = @ + n]
      BY <2>2
    <3>3. logins'[t] = logins[t] + n /\ \A u \in Threads : u # t => logins'[u] = logins[u]
      BY <3>2
    <3>4. QED
      BY <3>1, <3>3
  <2>3. QED
    BY <2>1, <2>2
<1>3. CASE Reconnect(t)
  <2>1. LoginsPerSearch' /\ LoginInv'
    BY <1>1, <1>2, <1>3 DEF Reconnect
  <2>2. (SearchesSerialized /\ NoUseAfterClose /\ ArmedTimerIsCurrent)'
    BY <1>1, <1>3 DEF Reconnect, CloseConn
  <2>3. QED
    BY <2>1, <2>2
<1>4. CASE GiveUp(t)
  <2>1. LoginsPerSearch' /\ LoginInv'
    BY <1>1, <1>2, <1>4 DEF GiveUp
  <2>2. (SearchesSerialized /\ NoUseAfterClose /\ ArmedTimerIsCurrent)'
    BY <1>1, <1>4 DEF GiveUp, CloseConn
  <2>3. QED
    BY <2>1, <2>2
<1>5. QED
  BY <1>3, <1>4 DEF OnError

(* Every step keeps the second layer. *)
LEMMA NextLock == TypeInv /\ LockInv /\ [Next]_vars => LockInv'
<1> SUFFICES ASSUME TypeInv, LockInv, [Next]_vars PROVE LockInv'
  OBVIOUS
<1> USE NoneAssumption
    DEF TypeInv, TypeOK, LockInv, SearchesSerialized, Searching, NoUseAfterClose,
        ArmedTimerIsCurrent, LoginsPerSearch, LoginInv, Goto, Leave, threadVars, connVars,
        timerVars
<1>1. ASSUME NEW t \in Threads, NEW q \in Queries, Search(t, q) PROVE LockInv'
  BY <1>1 DEF Search
<1>2. ASSUME NEW t \in Threads, BeginSearch(t) PROVE LockInv'
  BY <1>2 DEF BeginSearch, CancelTimer, Live
<1>3. ASSUME NEW t \in Threads, ReuseConn(t) PROVE LockInv'
  BY <1>3 DEF ReuseConn
<1>4. ASSUME NEW t \in Threads, Connect(t) PROVE LockInv'
  <2>1. \A u \in Threads : u # t => pc[u] \notin {"ensure", "send", "await"}
    BY <1>4 DEF Connect
  <2>2. logins[t] \in Nat /\ attempt[t] \in {1, 2} /\ logins[t] < attempt[t]
    BY <1>4 DEF Connect
  <2>3. logins'[t] = logins[t] + 1 /\ \A u \in Threads : u # t => logins'[u] = logins[u]
    BY <1>4 DEF Connect
  <2>4. LoginsPerSearch' /\ LoginInv'
    BY <1>4, <2>1, <2>2, <2>3 DEF Connect
  <2>5. QED
    BY <1>4, <2>1, <2>4 DEF Connect
<1>5. ASSUME NEW t \in Threads, ConnectFails(t) PROVE LockInv'
  BY <1>5, OnErrorLock DEF ConnectFails
<1>6. ASSUME NEW t \in Threads, SendQuery(t) PROVE LockInv'
  BY <1>6 DEF SendQuery
<1>7. ASSUME NEW t \in Threads, ConnDown(t) PROVE LockInv'
  BY <1>7, OnErrorLock DEF ConnDown
<1>8. ASSUME NEW t \in Threads, ReceiveResults(t) PROVE LockInv'
  BY <1>8 DEF ReceiveResults, AfterSearch, ScheduleTimer, CloseConn, Return
<1>9. ASSUME NEW t \in Threads, ReceiveTimesOut(t) PROVE LockInv'
  BY <1>9 DEF ReceiveTimesOut, AfterSearch, ScheduleTimer, CloseConn, Return
<1>10. ASSUME NEW t \in Threads, ReceiveMalformed(t) PROVE LockInv'
  BY <1>10 DEF ReceiveMalformed
<1>10a. ASSUME NEW t \in Threads, LoginMalformed(t) PROVE LockInv'
  BY <1>10a DEF LoginMalformed
<1>11. ASSUME NEW m \in Timers, TimerFires(m) PROVE LockInv'
  BY <1>11 DEF TimerFires
<1>12. ASSUME NEW m \in Timers, IdleClose(m) PROVE LockInv'
  BY <1>12 DEF IdleClose, CloseConn
<1>13. CASE Close
  BY <1>13 DEF Close, CancelTimer, CloseConn
<1>14. CASE ServerDrops
  BY <1>14 DEF ServerDrops
<1>15. CASE UNCHANGED vars
  BY <1>15 DEF vars
<1>16. QED
  BY <1>1, <1>2, <1>3, <1>4, <1>5, <1>6, <1>7, <1>8, <1>9, <1>10, <1>11, <1>12, <1>13, <1>14,
     <1>15, <1>10a DEF Next, Step

(* Every step keeps the third layer. *)
LEMMA NextAwait == TypeInv /\ LockInv /\ AwaitInv /\ [Next]_vars => AwaitInv'
<1> SUFFICES ASSUME TypeInv, LockInv, AwaitInv, [Next]_vars PROVE AwaitInv'
  OBVIOUS
<1> USE NoneAssumption
    DEF TypeInv, TypeOK, LockInv, SearchesSerialized, Searching, NoUseAfterClose,
        AwaitInv, Goto, Leave, threadVars, connVars, timerVars
<1>1. ASSUME NEW t \in Threads, NEW q \in Queries, Search(t, q) PROVE AwaitInv'
  BY <1>1 DEF Search
<1>2. ASSUME NEW t \in Threads, BeginSearch(t) PROVE AwaitInv'
  BY <1>2 DEF BeginSearch, CancelTimer, Live
<1>3. ASSUME NEW t \in Threads, ReuseConn(t) PROVE AwaitInv'
  BY <1>3 DEF ReuseConn
<1>4. ASSUME NEW t \in Threads, Connect(t) PROVE AwaitInv'
  BY <1>4 DEF Connect
<1>5. ASSUME NEW t \in Threads, ConnectFails(t) PROVE AwaitInv'
  BY <1>5 DEF ConnectFails, OnError, Reconnect, GiveUp, CloseConn
<1>6. ASSUME NEW t \in Threads, SendQuery(t) PROVE AwaitInv'
  <2>1. \A u \in Threads : u # t => pc[u] # "await"
    BY <1>6 DEF SendQuery
  <2>2. ~owing => inFlight = <<>>
    BY <1>6, <2>1 DEF SendQuery
  <2>3. Append(<<>>, query[t]) = <<query[t]>>
    OBVIOUS
  <2>4. ~owing' => inFlight' = <<query[t]>>
    BY <1>6, <2>2, <2>3, Zenon DEF SendQuery
  <2>5. QED
    BY <1>6, <2>1, <2>4 DEF SendQuery
<1>7. ASSUME NEW t \in Threads, ConnDown(t) PROVE AwaitInv'
  BY <1>7 DEF ConnDown, OnError, Reconnect, GiveUp, CloseConn
<1>8. ASSUME NEW t \in Threads, ReceiveResults(t) PROVE AwaitInv'
  BY <1>8 DEF ReceiveResults, AfterSearch, ScheduleTimer, CloseConn, Return
<1>9. ASSUME NEW t \in Threads, ReceiveTimesOut(t) PROVE AwaitInv'
  BY <1>9 DEF ReceiveTimesOut, AfterSearch, ScheduleTimer, CloseConn, Return
<1>10. ASSUME NEW t \in Threads, ReceiveMalformed(t) PROVE AwaitInv'
  BY <1>10 DEF ReceiveMalformed
<1>10a. ASSUME NEW t \in Threads, LoginMalformed(t) PROVE AwaitInv'
  BY <1>10a DEF LoginMalformed
<1>11. ASSUME NEW m \in Timers, TimerFires(m) PROVE AwaitInv'
  BY <1>11 DEF TimerFires
<1>12. ASSUME NEW m \in Timers, IdleClose(m) PROVE AwaitInv'
  BY <1>12 DEF IdleClose, CloseConn
<1>13. CASE Close
  BY <1>13 DEF Close, CancelTimer, CloseConn
<1>14. CASE ServerDrops
  BY <1>14 DEF ServerDrops
<1>15. CASE UNCHANGED vars
  BY <1>15 DEF vars
<1>16. QED
  BY <1>1, <1>2, <1>3, <1>4, <1>5, <1>6, <1>7, <1>8, <1>9, <1>10, <1>11, <1>12, <1>13, <1>14,
     <1>15, <1>10a DEF Next, Step

-----------------------------------------------------------------------------
(* The invariant holds in every reachable state. *)
THEOREM Invariance == Spec => []IInv
<1>1. IInv /\ [Next]_vars => IInv'
  BY NextTypes, NextLock, NextAwait DEF IInv
<1>2. QED
  BY <1>1, InitInvariant, PTL DEF Spec

(* The variables of the session keep their types; in particular attempt      *)
(* never exceeds two.                                                        *)
THEOREM TypeCorrect == Spec => []TypeOK
<1>1. IInv => TypeOK
  BY DEF IInv, TypeInv
<1>2. QED
  BY <1>1, Invariance, PTL

(* The lock serialises the searches.                                        *)
THEOREM Serialization == Spec => []SearchesSerialized
<1>1. IInv => SearchesSerialized
  BY DEF IInv, LockInv
<1>2. QED
  BY <1>1, Invariance, PTL

(* No search uses a connection that the timer or close has closed.          *)
THEOREM ConnectionHeld == Spec => []NoUseAfterClose
<1>1. IInv => NoUseAfterClose
  BY DEF IInv, LockInv
<1>2. QED
  BY <1>1, Invariance, PTL

(* The timer that can still be cancelled is the one _timer names, and it is *)
(* armed only between searches.                                             *)
THEOREM TimerDiscipline == Spec => []ArmedTimerIsCurrent
<1>1. IInv => ArmedTimerIsCurrent
  BY DEF IInv, LockInv
<1>2. QED
  BY <1>1, Invariance, PTL

(* The three promises about the shared connection, as one.                  *)
THEOREM SessionDisciplined == Spec => []SessionDiscipline
<1>1. IInv => SessionDiscipline
  BY DEF IInv, LockInv, SessionDiscipline
<1>2. QED
  BY <1>1, Invariance, PTL

(* A search logs in at most once per attempt.                               *)
THEOREM LoginsBounded == Spec => []LoginsPerSearch
<1>1. IInv => LoginsPerSearch
  BY DEF IInv, LockInv
<1>2. QED
  BY <1>1, Invariance, PTL

(* A search returns results of its own query, also when it had to reconnect *)
(* or met malformed packets, unless the connection still owes an earlier    *)
(* search its answer.                                                       *)
THEOREM ResultsOwn == Spec => OwnResults
<1>1. ASSUME IInv, [Next]_vars, NEW t \in Threads, result'[t] # result[t], ~owing
      PROVE  result'[t] \in {None, query[t]}
  <2> USE <1>1 DEF IInv, TypeInv, TypeOK
  <2>1. ASSUME NEW u \in Threads, Step(u) PROVE result'[t] \in {None, query[t]}
    <3>2. CASE ReceiveResults(u)
      <4>1. u = t /\ result'[t] = Head(inFlight)
        BY <3>2 DEF ReceiveResults, Return
      <4>2. inFlight = <<query[t]>>
        BY <3>2, <4>1 DEF ReceiveResults, AwaitInv
      <4>3. QED
        BY <4>1, <4>2
    <3>3. CASE ReceiveTimesOut(u)
      BY <3>3 DEF ReceiveTimesOut, Return
    <3>4. CASE ~(ReceiveResults(u) \/ ReceiveTimesOut(u))
      BY <2>1, <3>4 DEF Step, BeginSearch, ReuseConn, Connect, ConnectFails, SendQuery, ConnDown,
         OnError, Reconnect, GiveUp, Leave, ReceiveMalformed, LoginMalformed, threadVars
    <3>5. QED
      BY <3>2, <3>3, <3>4
  <2>2. ASSUME UNCHANGED threadVars PROVE FALSE
    BY <2>2 DEF threadVars
  <2>3. ASSUME NEW q \in Queries, NEW u \in Threads, Search(u, q)
        PROVE  result'[t] \in {None, query[t]}
    BY <2>3 DEF Search
  <2>4. QED
    BY <2>1, <2>2, <2>3 DEF Next, TimerFires, IdleClose, Close, ServerDrops, vars
<1>2. IInv /\ [Next]_vars =>
        [\A t \in Threads : result'[t] # result[t] /\ ~owing =>
             result'[t] \in {None, query[t]}]_vars
  BY <1>1
<1>3. QED
  BY <1>2, Invariance, PTL DEF Spec, OwnResults

(* A connection nobody uses always has a timer that will close it, whatever *)
(* the server shows, unless the last search on it met a malformed packet.   *)
THEOREM IdleHasTimer == Spec => []OpenConnectionHasTimer
<1>1. Init => OpenConnectionHasTimer
  BY DEF Init, OpenConnectionHasTimer
<1>2. ASSUME IInv, OpenConnectionHasTimer, [Next]_vars PROVE OpenConnectionHasTimer'
  <2> USE <1>2, NoneAssumption
      DEF IInv, TypeInv, TypeOK, LockInv, SearchesSerialized, Searching,
          OpenConnectionHasTimer, Live, Leave, threadVars, connVars, timerVars
  <2>1. ASSUME NEW t \in Threads, Step(t) PROVE OpenConnectionHasTimer'
    <3>1. CASE BeginSearch(t)
      BY <3>1 DEF BeginSearch
    <3>2. CASE ReuseConn(t) \/ Connect(t) \/ SendQuery(t)
      BY <3>2 DEF ReuseConn, Connect, SendQuery
    <3>3. CASE ConnectFails(t) \/ ConnDown(t)
      BY <3>3 DEF ConnectFails, ConnDown, OnError, Reconnect, GiveUp, CloseConn
    <3>4. CASE ReceiveResults(t) \/ ReceiveTimesOut(t)
      BY <3>4 DEF ReceiveResults, ReceiveTimesOut, AfterSearch, ScheduleTimer, CloseConn, Return
    <3>5. CASE ReceiveMalformed(t) \/ LoginMalformed(t)
      BY <3>5 DEF ReceiveMalformed, LoginMalformed
    <3>6. QED
      BY <2>1, <3>1, <3>2, <3>3, <3>4, <3>5 DEF Step
  <2>2. ASSUME NEW t \in Threads, NEW q \in Queries, Search(t, q)
        PROVE  OpenConnectionHasTimer'
    BY <2>2 DEF Search
  <2>3. ASSUME NEW m \in Timers, TimerFires(m) PROVE OpenConnectionHasTimer'
    BY <2>3 DEF TimerFires
  <2>4. ASSUME NEW m \in Timers, IdleClose(m) PROVE OpenConnectionHasTimer'
    BY <2>4 DEF IdleClose, CloseConn
  <2>5. CASE Close \/ ServerDrops \/ UNCHANGED vars
    BY <2>5 DEF Close, CloseConn, ServerDrops, vars
  <2>6. QED
    BY <2>1, <2>2, <2>3, <2>4, <2>5, <1>2 DEF Next
<1>3. QED
  BY <1>1, <1>2, Invariance, PTL DEF Spec
-----------------------------------------------------------------------------
(* Every step of the session is a step of ExclusiveSession, or leaves its   *)
(* user and its connection alone.                                           *)
LEMMA StepRefines == IInv /\ [Next]_vars => [Promise!Next]_(Promise!vars)
<1> SUFFICES ASSUME IInv, [Next]_vars PROVE [Promise!Next]_(Promise!vars)
  OBVIOUS
<1> USE NoneAssumption
    DEF IInv, TypeInv, TypeOK, LockInv, SearchesSerialized, Searching, NoUseAfterClose,
        Promise!Next, Promise!vars, Promise!Take, Promise!Connect, Promise!Drop,
        Promise!Leave, Promise!Retire, Leave, threadVars, connVars, timerVars
<1>1. ASSUME NEW t \in Threads, Step(t) PROVE [Promise!Next]_(Promise!vars)
  <2>1. CASE BeginSearch(t)
    BY <2>1 DEF BeginSearch
  <2>2. CASE ReuseConn(t) \/ Connect(t) \/ SendQuery(t)
    BY <2>2 DEF ReuseConn, Connect, SendQuery
  <2>3. CASE ConnectFails(t) \/ ConnDown(t)
    BY <2>3 DEF ConnectFails, ConnDown, OnError, Reconnect, GiveUp, CloseConn
  <2>4. CASE \/ ReceiveResults(t) \/ ReceiveTimesOut(t)
             \/ ReceiveMalformed(t) \/ LoginMalformed(t)
    BY <2>4 DEF ReceiveResults, ReceiveTimesOut, ReceiveMalformed, LoginMalformed,
       AfterSearch, CloseConn, Return
  <2>5. QED
    BY <1>1, <2>1, <2>2, <2>3, <2>4 DEF Step
<1>2. ASSUME NEW t \in Threads, NEW q \in Queries, Search(t, q)
      PROVE  [Promise!Next]_(Promise!vars)
  BY <1>2 DEF Search
<1>3. ASSUME NEW m \in Timers, TimerFires(m) \/ IdleClose(m)
      PROVE  [Promise!Next]_(Promise!vars)
  BY <1>3 DEF TimerFires, IdleClose, CloseConn
<1>4. CASE Close \/ ServerDrops \/ UNCHANGED vars
  BY <1>4 DEF Close, CloseConn, ServerDrops, vars
<1>5. QED
  BY <1>1, <1>2, <1>3, <1>4 DEF Next

(* Ed2kServerSession keeps the promise of an exclusive session: one user at *)
(* a time, and the connection is closed by its user or when there is none.  *)
THEOREM Refinement == Spec => KeepsPromise
<1>1. Init => Promise!Init
  BY DEF Init, Promise!Init
<1>2. QED
  BY <1>1, StepRefines, Invariance, PTL DEF Spec, KeepsPromise, Promise!Spec
=============================================================================
