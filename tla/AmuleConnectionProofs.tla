------------------------ MODULE AmuleConnectionProofs ------------------------
(***************************************************************************)
(* Proofs about AmuleConnection for any set of threads and any number of   *)
(* faults: the safety invariants, through one inductive invariant.         *)
(***************************************************************************)
EXTENDS AmuleConnection, TLAPS

(* The phase leaves "request" only inside reconnect. *)
PhaseInv ==
    \A t \in Threads :
        pc[t] \in {"idle", "reconnect", "build", "invalidate"} => phase[t] = "request"

(* Inside reconnect the flag is down; once the socket is built it is fresh. *)
ReconnectInv ==
    \A t \in Threads :
        InReconnect(t) =>
            /\ ~connected
            /\ pc[t] # "build" => sock = "open" /\ ~broken

(* Only a reader that timed out can have left an answer behind. *)
LateInv == late => timedOut

(* Without faults the current socket is good, or is being made. *)
FaultFreeInv ==
    faults = 0 =>
        /\ link = "up" /\ ~timedOut
        /\ sock = "none" \/ (sock = "open" /\ authed) \/ \E t \in Threads : InReconnect(t)
        /\ \A t \in Threads : pc[t] # "invalidate"

IInv ==
    /\ TypeOK
    /\ ExchangesExclusive
    /\ ConnectedIsAuthenticated
    /\ SocketBuiltBeforeUse
    /\ OwnAnswer
    /\ FailureInvalidates
    /\ NoDenialWithoutFault
    /\ PhaseInv
    /\ ReconnectInv
    /\ LateInv
    /\ FaultFreeInv
-----------------------------------------------------------------------------
(* The initial state satisfies every part of the invariant. *)
LEMMA InitInvariant == Init => IInv
<1> SUFFICES ASSUME Init PROVE IInv
  OBVIOUS
<1>1. TypeOK
  <2>1. faults \in 0..MaxFaults
    BY MaxFaultsAssumption DEF Init
  <2>2. QED
    BY <2>1, Zenon DEF Init, TypeOK, PCs, Phases, Outcomes
<1>2. \A t \in Threads : ~InReconnect(t) /\ ~InExchange(t) /\ pc[t] = "idle"
  BY DEF Init, InReconnect, InExchange
<1>3. ExchangesExclusive /\ SocketBuiltBeforeUse /\ PhaseInv /\ ReconnectInv
  BY <1>2 DEF Init, ExchangesExclusive, SocketBuiltBeforeUse, PhaseInv, ReconnectInv
<1>4. ConnectedIsAuthenticated /\ FailureInvalidates /\ LateInv
  BY DEF Init, ConnectedIsAuthenticated, FailureInvalidates, LateInv
<1>5. OwnAnswer /\ NoDenialWithoutFault
  BY DEF Init, OwnAnswer, NoDenialWithoutFault
<1>6. FaultFreeInv
  BY <1>2 DEF Init, FaultFreeInv
<1>7. QED
  BY <1>1, <1>3, <1>4, <1>5, <1>6 DEF IInv

(* An OSError in a failed exchange keeps the invariant, in either of the    *)
(* two places where it can be raised.                                       *)
LEMMA RaiseOSErrorInvariant ==
    ASSUME IInv, NEW t \in Threads,
           pc[t] \in {"send", "wait"}, lock \in {NoThread, t}, RaiseOSError(t),
           UNCHANGED <<sock, authed>>,
           link' \in {"up", "closed", "reset"}, timedOut' \in BOOLEAN,
           late' \in BOOLEAN, late' => timedOut',
           faults' \in 0..MaxFaults, faults' # 0
    PROVE  IInv'
<1> USE NoThreadAssumption, MaxFaultsAssumption
    DEF IInv, TypeOK, PCs, Phases, Outcomes, ExchangesExclusive, InReconnect,
        InExchange, ConnectedIsAuthenticated, SocketBuiltBeforeUse, OwnAnswer,
        FailureInvalidates, NoDenialWithoutFault, PhaseInv, ReconnectInv, LateInv,
        FaultFreeInv, RaiseOSError, Goto, Finish
<1>1. CASE phase[t] = "request"
  BY <1>1
<1>2. CASE phase[t] # "request"
  BY <1>2
<1>3. QED
  BY <1>1, <1>2

(* Every step of a thread, of the peer, and every stuttering step keeps it. *)
LEMMA NextInvariant == IInv /\ [Next]_vars => IInv'
<1> SUFFICES ASSUME IInv, [Next]_vars PROVE IInv'
  OBVIOUS
<1> USE NoThreadAssumption, TimeoutsAssumption, MaxFaultsAssumption
    DEF IInv, TypeOK, PCs, Phases, Outcomes, ExchangesExclusive, InReconnect,
        InExchange, ConnectedIsAuthenticated, SocketBuiltBeforeUse, OwnAnswer,
        FailureInvalidates, NoDenialWithoutFault, PhaseInv, ReconnectInv, LateInv,
        FaultFreeInv, Goto, Finish, Fault, RaiseOSError, socketVars, threadVars, CanSend, Readable
<1>1. ASSUME NEW t \in Threads, SendRequest(t) PROVE IInv'
  BY <1>1 DEF SendRequest
<1>2. ASSUME NEW t \in Threads, Reconnect(t) PROVE IInv'
  BY <1>2 DEF Reconnect
<1>3. ASSUME NEW t \in Threads, BuildSocket(t) PROVE IInv'
  BY <1>3 DEF BuildSocket
<1>4. ASSUME NEW t \in Threads, BuildFails(t) PROVE IInv'
  BY <1>4 DEF BuildFails
<1>5. ASSUME NEW t \in Threads, SendPacket(t) PROVE IInv'
  BY <1>5 DEF SendPacket
<1>6. ASSUME NEW t \in Threads, SendFails(t) PROVE IInv'
  <2>1. faults # 0
    BY <1>6 DEF SendFails
  <2>2. QED
    BY <1>6, <2>1, RaiseOSErrorInvariant DEF SendFails
<1>7. ASSUME NEW t \in Threads, ReceiveSalt(t) PROVE IInv'
  BY <1>7 DEF ReceiveSalt
<1>8. ASSUME NEW t \in Threads, ReceiveAuthOk(t) PROVE IInv'
  BY <1>8 DEF ReceiveAuthOk
<1>9. ASSUME NEW t \in Threads, ReceiveAnswer(t) PROVE IInv'
  BY <1>9 DEF ReceiveAnswer
<1>10. ASSUME NEW t \in Threads, ReceiveError(t) PROVE IInv'
  BY <1>10 DEF ReceiveError
<1>11. ASSUME NEW t \in Threads, ReceiveEof(t) PROVE IInv'
  BY <1>11 DEF ReceiveEof
<1>12. ASSUME NEW t \in Threads, ReceiveFails(t) PROVE IInv'
  <2>1. faults # 0
    BY <1>12 DEF ReceiveFails
  <2>2. QED
    BY <1>12, <2>1, RaiseOSErrorInvariant DEF ReceiveFails
<1>13. ASSUME NEW t \in Threads, ReceiveTimesOut(t) PROVE IInv'
  <2>1. faults' \in 0..MaxFaults /\ faults' # 0
    BY <1>13 DEF ReceiveTimesOut
  <2>2. QED
    BY <1>13, <2>1, RaiseOSErrorInvariant DEF ReceiveTimesOut
<1>14. ASSUME NEW t \in Threads, Invalidate(t) PROVE IInv'
  BY <1>14 DEF Invalidate
<1>15. CASE PeerCloses
  BY <1>15 DEF PeerCloses
<1>16. CASE UNCHANGED vars
  BY <1>16 DEF vars
<1>17. QED
  BY <1>1, <1>2, <1>3, <1>4, <1>5, <1>6, <1>7, <1>8, <1>9, <1>10, <1>11, <1>12, <1>13, <1>14, <1>15, <1>16 DEF Next, Step, Acquire, Receive
-----------------------------------------------------------------------------
(* The invariant holds in every reachable state. *)
THEOREM Invariance == Spec => []IInv
  BY InitInvariant, NextInvariant, PTL DEF Spec

(* The variables keep their types: no step of connection.py as modelled     *)
(* leaves a thread at an unknown place or the lock with a stranger.         *)
THEOREM TypeCorrect == Spec => []TypeOK
<1>1. IInv => TypeOK
  BY DEF IInv
<1>2. QED
  BY <1>1, Invariance, PTL

(* _lock serialises the exchanges: a thread that waits for an answer or is  *)
(* inside reconnect owns the lock (connection.py:81-92, 106-117).           *)
THEOREM Exclusion == Spec => []ExchangesExclusive
<1>1. IInv => ExchangesExclusive
  BY DEF IInv
<1>2. QED
  BY <1>1, Invariance, PTL

(* The flag _connected is set only on an open, authenticated socket,        *)
(* although it is read and cleared outside the lock.                        *)
THEOREM FlagIsHonest == Spec => []ConnectedIsAuthenticated
<1>1. IInv => ConnectedIsAuthenticated
  BY DEF IInv
<1>2. QED
  BY <1>1, Invariance, PTL

(* The assertion of _send_request_no_auth (connection.py:108) never fails.  *)
THEOREM AssertionHolds == Spec => []SocketBuiltBeforeUse
<1>1. IInv => SocketBuiltBeforeUse
  BY DEF IInv
<1>2. QED
  BY <1>1, Invariance, PTL

(* No caller is handed the late answer of a request that timed out.         *)
THEOREM AnswersMatch == Spec => []OwnAnswer
<1>1. IInv => OwnAnswer
  BY DEF IInv
<1>2. QED
  BY <1>1, Invariance, PTL

(* An OSError on the current socket always ends with the flag down.         *)
THEOREM FailuresInvalidate == Spec => []FailureInvalidates
<1>1. IInv => FailureInvalidates
  BY DEF IInv
<1>2. QED
  BY <1>1, Invariance, PTL

(* The three promises about the shared socket, as one.                      *)
THEOREM SocketDisciplined == Spec => []SocketDiscipline
<1>1. IInv => SocketDiscipline
  BY DEF IInv, SocketDiscipline
<1>2. QED
  BY <1>1, Invariance, PTL

(* The races alone hurt nobody: without faults every request is answered    *)
(* on an authenticated socket.                                              *)
THEOREM FaultFreeService == Spec => []NoDenialWithoutFault
<1>1. IInv => NoDenialWithoutFault
  BY DEF IInv
<1>2. QED
  BY <1>1, Invariance, PTL

(* A socket is never closed or replaced under the thread that uses it.      *)
THEOREM SocketHeld == Spec => SocketHeldDuringExchange
<1>1. ASSUME IInv, [Next]_vars, NEW t \in Threads, InExchange(t), InExchange(t)'
      PROVE  sock' = sock /\ authed' = authed
  <2> USE NoThreadAssumption, <1>1
      DEF IInv, TypeOK, ExchangesExclusive, InExchange, InReconnect, Goto, Finish
  <2>1. lock = t
    OBVIOUS
  <2>2. ASSUME NEW u \in Threads, Step(u) PROVE sock' = sock /\ authed' = authed
    <3>1. CASE SendRequest(u) \/ Invalidate(u)
      BY <3>1 DEF SendRequest, Invalidate, socketVars
    <3>2. CASE Acquire(u)
      BY <2>1, <3>2 DEF Acquire, Reconnect, SendPacket, SendFails
    <3>3. CASE BuildSocket(u) \/ BuildFails(u)
      BY <2>1, <3>3 DEF BuildSocket, BuildFails
    <3>4. CASE Receive(u)
      BY <2>1, <3>4 DEF Receive, Readable, ReceiveSalt, ReceiveAuthOk, ReceiveAnswer,
         ReceiveError, ReceiveEof, ReceiveFails, ReceiveTimesOut, socketVars
    <3>5. QED
      BY <2>2, <3>1, <3>2, <3>3, <3>4 DEF Step
  <2>3. CASE PeerCloses
    BY <2>3 DEF PeerCloses
  <2>4. CASE UNCHANGED vars
    BY <2>4 DEF vars, socketVars
  <2>5. QED
    BY <2>2, <2>3, <2>4, <1>1 DEF Next
<1>2. IInv /\ [Next]_vars =>
        [\A t \in Threads : InExchange(t) /\ InExchange(t)' =>
             sock' = sock /\ authed' = authed]_vars
  BY <1>1
<1>3. QED
  BY <1>2, Invariance, PTL DEF Spec, SocketHeldDuringExchange
=============================================================================
