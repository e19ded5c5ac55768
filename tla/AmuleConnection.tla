--------------------------- MODULE AmuleConnection ---------------------------
(***************************************************************************)
(* The shared connection to the aMule core: AmuleConnection of             *)
(* src/amarr/jamule/connection.py.  Several threads of the FastAPI         *)
(* threadpool call send_request on one object.  The flag _connected is     *)
(* read and cleared outside the lock; sockets are built, authenticated and *)
(* used under the lock.                                                    *)
(*                                                                         *)
(* A step of a thread is a piece of code between two points at which       *)
(* another thread can observe or disturb it: an access to the unlocked     *)
(* flag, taking the lock, a blocking socket call.                          *)
(***************************************************************************)
EXTENDS Naturals

CONSTANTS Threads,      \* the threadpool workers sharing the connection
          NoThread,     \* "nobody": the value of a free lock
          Timeouts,     \* TRUE when from_host was given a timeout > 0
          MaxFaults     \* bound: failures the environment may inject

ASSUME NoThreadAssumption == NoThread \notin Threads
ASSUME TimeoutsAssumption == Timeouts \in BOOLEAN
ASSUME MaxFaultsAssumption == MaxFaults \in Nat

VARIABLES pc,         \* where each thread is in send_request
          phase,      \* which packet _send_request_no_auth is exchanging
          out,        \* how the last send_request of a thread ended
          lock,       \* the owner of _lock (an RLock), or NoThread
          connected,  \* the flag _connected
          sock,       \* _socket and _reader: never built, open, or closed
          authed,     \* an EC_OP_AUTH_OK was read from the current socket
          link,       \* the peer's end of the current socket
          timedOut,   \* a read of _reader timed out: its raw file is unusable
          late,       \* an answer nobody waits for is still in the socket
          broken,     \* history: a request failed with OSError on this socket
          faults      \* failures injected so far

threadVars == <<pc, phase, out>>
socketVars == <<sock, authed, link, timedOut, late, broken>>
vars == <<threadVars, lock, connected, socketVars, faults>>

PCs == {"idle", "reconnect", "build", "send", "wait", "invalidate"}
Phases == {"salt", "auth", "request"}
Outcomes == {"none", "ok", "denied", "foreign", "oserror", "exception"}
-----------------------------------------------------------------------------
Init ==
    /\ pc = [t \in Threads |-> "idle"]
    /\ phase = [t \in Threads |-> "request"]
    /\ out = [t \in Threads |-> "none"]
    /\ lock = NoThread
    /\ connected = FALSE
    /\ sock = "none"
    /\ authed = FALSE
    /\ link = "up"
    /\ timedOut = FALSE
    /\ late = FALSE
    /\ broken = FALSE
    /\ faults = 0

Fault == faults < MaxFaults /\ faults' = faults + 1

Goto(t, place) == pc' = [pc EXCEPT ![t] = place]

(* send_request is left, by return or by an exception, with the lock free. *)
Finish(t, outcome) ==
    /\ Goto(t, "idle")
    /\ out' = [out EXCEPT ![t] = outcome]
    /\ phase' = [phase EXCEPT ![t] = "request"]
    /\ lock' = NoThread

(* Mutant of RaiseOSError: an acquire without a matching release. *)
RaiseOSErrorKeepsLock(t) ==
    /\ Goto(t, IF phase[t] = "request" THEN "invalidate" ELSE "idle")
    /\ phase' = [phase EXCEPT ![t] = "request"]
    /\ broken' = (broken \/ phase[t] = "request")
    /\ UNCHANGED <<out, lock, connected>>

(* An OSError in the exchange.  While authenticating it leaves reconnect,   *)
(* which send_request calls outside its try; in the request it is caught,   *)
(* the lock already released, and the flag is cleared in a later step.      *)
RaiseOSError(t) ==
    /\ \/ /\ phase[t] # "request"
          /\ Finish(t, "oserror")
          /\ UNCHANGED broken
       \/ /\ phase[t] = "request"
          /\ Goto(t, "invalidate")
          /\ lock' = NoThread
          /\ broken' = TRUE
          /\ UNCHANGED <<phase, out>>
    /\ UNCHANGED connected
-----------------------------------------------------------------------------
(* The unlocked test of _connected that opens send_request. *)
SendRequest(t) ==
    /\ pc[t] = "idle"
    /\ Goto(t, IF connected THEN "send" ELSE "reconnect")
    /\ out' = [out EXCEPT ![t] = "none"]
    /\ UNCHANGED <<phase, lock, connected, socketVars, faults>>

(* Mutants of Reconnect: without "with self._lock"; without clearing the    *)
(* flag first.                                                              *)
ReconnectUnlocked(t) ==
    /\ pc[t] = "reconnect"
    /\ lock' = t
    /\ connected' = FALSE
    /\ sock' = IF sock = "none" THEN "none" ELSE "closed"
    /\ Goto(t, "build")
    /\ UNCHANGED <<phase, out, authed, link, timedOut, late, broken, faults>>

ReconnectKeepsFlag(t) ==
    /\ pc[t] = "reconnect"
    /\ lock = NoThread
    /\ lock' = t
    /\ sock' = IF sock = "none" THEN "none" ELSE "closed"
    /\ Goto(t, "build")
    /\ UNCHANGED <<phase, out, connected, authed, link, timedOut, late, broken,
                   faults>>

(* reconnect takes the lock, clears the flag and closes the old socket. *)
Reconnect(t) ==
    /\ pc[t] = "reconnect"
    /\ lock = NoThread
    /\ lock' = t
    /\ connected' = FALSE
    /\ sock' = IF sock = "none" THEN "none" ELSE "closed"
    /\ Goto(t, "build")
    /\ UNCHANGED <<phase, out, authed, link, timedOut, late, broken, faults>>

(* The socket builder connects: a fresh socket and a fresh reader. *)
BuildSocket(t) ==
    /\ pc[t] = "build"
    /\ sock' = "open"
    /\ authed' = FALSE
    /\ link' = "up"
    /\ timedOut' = FALSE
    /\ late' = FALSE
    /\ broken' = FALSE
    /\ phase' = [phase EXCEPT ![t] = "salt"]
    /\ Goto(t, "send")
    /\ UNCHANGED <<out, lock, connected, faults>>

(* The builder raises: the closed socket and its reader stay in place. *)
BuildFails(t) ==
    /\ pc[t] = "build"
    /\ Fault
    /\ Finish(t, "oserror")
    /\ UNCHANGED <<connected, socketVars>>

(* Mutant of CanSend: the exchange does not wait for the lock. *)
CanSendUnlocked(t) == pc[t] = "send"

(* _send_request_no_auth up to sendall; authentication re-enters the lock. *)
CanSend(t) == pc[t] = "send" /\ lock \in {NoThread, t}

(* sendall on a socket the peer has closed succeeds once and draws a reset. *)
SendPacket(t) ==
    /\ CanSend(t)
    /\ sock = "open"
    /\ link # "reset"
    /\ lock' = t
    /\ link' = IF link = "closed" THEN "reset" ELSE link
    /\ Goto(t, "wait")
    /\ UNCHANGED <<phase, out, connected, sock, authed, timedOut, late, broken,
                   faults>>

(* EBADF or EPIPE.  SocketBuiltBeforeUse says that "not open" is "closed"   *)
(* here, so the assertion before sendall is not met.                        *)
SendFails(t) ==
    /\ CanSend(t)
    /\ sock # "open" \/ link = "reset"
    /\ RaiseOSError(t)
    /\ UNCHANGED <<sock, authed, link, timedOut, late, faults>>
-----------------------------------------------------------------------------
(* Mutant of Readable: a reader that survives its time-out. *)
ReadableAfterTimeout(t) == pc[t] = "wait" /\ link # "reset"

(* A read can still return an answer of the peer: the reader has not timed  *)
(* out and the peer answered before it closed.                              *)
Readable(t) == pc[t] = "wait" /\ ~timedOut /\ link # "reset"

(* EC_OP_AUTH_SALT: _authenticate goes on with the salted password. *)
ReceiveSalt(t) ==
    /\ Readable(t)
    /\ phase[t] = "salt"
    /\ phase' = [phase EXCEPT ![t] = "auth"]
    /\ Goto(t, "send")
    /\ UNCHANGED <<out, lock, connected, socketVars, faults>>

(* EC_OP_AUTH_OK: the flag is set, reconnect returns and releases the lock. *)
ReceiveAuthOk(t) ==
    /\ Readable(t)
    /\ phase[t] = "auth"
    /\ authed' = TRUE
    /\ connected' = TRUE
    /\ lock' = NoThread
    /\ phase' = [phase EXCEPT ![t] = "request"]
    /\ Goto(t, "send")
    /\ UNCHANGED <<out, sock, link, timedOut, late, broken, faults>>

(* The answer to a request.  The core answers a client it has not           *)
(* authenticated with EC_OP_AUTH_FAIL, which send_request returns.          *)
ReceiveAnswer(t) ==
    /\ Readable(t)
    /\ phase[t] = "request"
    /\ Finish(t, IF late THEN "foreign" ELSE IF authed THEN "ok" ELSE "denied")
    /\ UNCHANGED <<connected, socketVars, faults>>

(* An answer that raises something else than OSError: AUTH_FAIL or an       *)
(* unexpected packet while authenticating (ServerException,                 *)
(* CommunicationException), EC_OP_FAILED, or an InvalidECException.         *)
ReceiveError(t) ==
    /\ Readable(t)
    /\ Fault
    /\ Finish(t, "exception")
    /\ UNCHANGED <<connected, socketVars>>

(* _read_n meets the end of the stream: InvalidECException, not OSError. *)
ReceiveEof(t) ==
    /\ pc[t] = "wait"
    /\ ~timedOut
    /\ link # "up"
    /\ Finish(t, "exception")
    /\ UNCHANGED <<connected, socketVars, faults>>

(* ECONNRESET, or "cannot read from timed out object" of SocketIO. *)
ReceiveFails(t) ==
    /\ pc[t] = "wait"
    /\ timedOut \/ link = "reset"
    /\ RaiseOSError(t)
    /\ UNCHANGED <<sock, authed, link, timedOut, late, faults>>

(* settimeout expires before the answer, which then arrives unread. *)
ReceiveTimesOut(t) ==
    /\ Timeouts
    /\ Readable(t)
    /\ Fault
    /\ timedOut' = TRUE
    /\ late' = TRUE
    /\ RaiseOSError(t)
    /\ UNCHANGED <<sock, authed, link>>

(* Mutant of Invalidate: the exception is re-raised, the flag stays. *)
InvalidateForgets(t) ==
    /\ pc[t] = "invalidate"
    /\ Goto(t, "idle")
    /\ out' = [out EXCEPT ![t] = "oserror"]
    /\ UNCHANGED <<phase, lock, connected, socketVars, faults>>

(* The except clause of send_request: outside the lock, then re-raised. *)
Invalidate(t) ==
    /\ pc[t] = "invalidate"
    /\ connected' = FALSE
    /\ Goto(t, "idle")
    /\ out' = [out EXCEPT ![t] = "oserror"]
    /\ UNCHANGED <<phase, lock, socketVars, faults>>

(* The core goes away or restarts: its end of the socket is closed. *)
PeerCloses ==
    /\ sock = "open"
    /\ link = "up"
    /\ Fault
    /\ link' = "closed"
    /\ UNCHANGED <<threadVars, lock, connected, sock, authed, timedOut, late,
                   broken>>
-----------------------------------------------------------------------------
Acquire(t) == Reconnect(t) \/ SendPacket(t) \/ SendFails(t)

Receive(t) ==
    \/ ReceiveSalt(t) \/ ReceiveAuthOk(t) \/ ReceiveAnswer(t) \/ ReceiveError(t)
    \/ ReceiveEof(t) \/ ReceiveFails(t) \/ ReceiveTimesOut(t)

Step(t) ==
    \/ SendRequest(t) \/ Acquire(t) \/ BuildSocket(t) \/ BuildFails(t)
    \/ Receive(t) \/ Invalidate(t)

Next == PeerCloses \/ \E t \in Threads : Step(t)

Spec == Init /\ [][Next]_vars

(* A runnable thread runs and a socket call returns (the core answers, or   *)
(* its end closes); a thread that waits for the lock while it is released   *)
(* again and again gets it in the end.  Only callers start requests.        *)
Fairness ==
    \A t \in Threads :
        /\ WF_vars(BuildSocket(t) \/ BuildFails(t) \/ Receive(t) \/ Invalidate(t))
        /\ SF_vars(Acquire(t))

FairSpec == Spec /\ Fairness
BusySpec == FairSpec /\ \A t \in Threads : WF_vars(SendRequest(t))
-----------------------------------------------------------------------------
TypeOK ==
    /\ pc \in [Threads -> PCs]
    /\ phase \in [Threads -> Phases]
    /\ out \in [Threads -> Outcomes]
    /\ lock \in Threads \cup {NoThread}
    /\ connected \in BOOLEAN
    /\ sock \in {"none", "open", "closed"}
    /\ authed \in BOOLEAN
    /\ link \in {"up", "closed", "reset"}
    /\ timedOut \in BOOLEAN
    /\ late \in BOOLEAN
    /\ broken \in BOOLEAN
    /\ faults \in 0..MaxFaults

(* Whoever is between the two ends of the critical sections.  A thread in   *)
(* "send" is inside only while it authenticates.                            *)
InReconnect(t) == pc[t] = "build" \/ (pc[t] \in {"send", "wait"} /\ phase[t] # "request")
InExchange(t) == pc[t] = "wait"

(* One packet on the wire at a time: the thread that waits for an answer,   *)
(* or is anywhere inside reconnect, owns the lock, so no other thread can   *)
(* send, read, close or replace the socket under it (connection.py:3-6).    *)
ExchangesExclusive ==
    \A t \in Threads : InReconnect(t) \/ InExchange(t) => lock = t

(* The flag never promises more than the socket can keep: while it is set   *)
(* the current socket is open and its authentication was accepted, whoever  *)
(* cleared it, set it or reconnected in between (reconnect, lines 81-92).   *)
ConnectedIsAuthenticated == connected => sock = "open" /\ authed

(* A thread that passed the unlocked test never meets the assertion of      *)
(* _send_request_no_auth (line 108): the socket it tested for may have been *)
(* closed meanwhile, but there is one.                                      *)
SocketBuiltBeforeUse == \A t \in Threads : pc[t] \in {"send", "wait"} => sock # "none"

(* An answer goes to the request it answers: after a time-out the late      *)
(* answer is never handed to the next caller.                               *)
OwnAnswer == \A t \in Threads : out[t] # "foreign"

(* An I/O failure is never forgotten: if a request failed with OSError on   *)
(* the current socket, the flag is down or the failing thread is just about *)
(* to clear it, even if other threads reconnected meanwhile.                *)
FailureInvalidates ==
    connected /\ broken => \E t \in Threads : pc[t] = "invalidate"

(* The three together: nobody touches the socket of an exchange under way,  *)
(* a thread that passed the unlocked test finds a socket, and a failure on  *)
(* it brings the flag down, in whatever order the threads meet the lock.    *)
SocketDiscipline == ExchangesExclusive /\ SocketBuiltBeforeUse /\ FailureInvalidates

(* A request is refused for lack of authentication only if an attempt to    *)
(* authenticate failed: without faults no caller ever sees EC_OP_AUTH_FAIL. *)
NoDenialWithoutFault == faults = 0 => \A t \in Threads : out[t] \in {"none", "ok"}

(* While an exchange is under way, its socket stays in place: no step of    *)
(* another thread closes it or puts another one there.                      *)
SocketHeldDuringExchange ==
    [][\A t \in Threads : InExchange(t) /\ InExchange(t)' =>
           sock' = sock /\ authed' = authed]_vars

(* Every call of send_request ends, by return or exception, as long as the  *)
(* core answers or closes.                                                  *)
RequestsEnd == \A t \in Threads : pc[t] # "idle" ~> pc[t] = "idle"

(* When the failures stop, the connection repairs itself: busy callers come *)
(* to be answered, each of them again and again (lines 100-103).            *)
ServiceResumes ==
    \A t \in Threads : (faults = MaxFaults) ~> (out[t] = "ok")
=============================================================================
