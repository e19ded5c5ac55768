----------------------------- MODULE HighIdSearch -----------------------------
(***************************************************************************)
(* Searches on an eD2k server that try for a high id: ServerSearch of      *)
(* src/amarr/ed2k/server.py, with the listener the server calls back and   *)
(* the port mapping of src/amarr/ed2k/upnp.py.  Several searches run on    *)
(* one host (tools/ed2k_search.py), behind one router or on a public       *)
(* address.  The server is external and may send any packet at any time,   *)
(* or none; the router may be absent, refuse, or act and not be heard.     *)
(***************************************************************************)
EXTENDS Naturals

CONSTANTS
    Searches,
    Ports,      \* TCP ports of the host
    None        \* no port, no search

ASSUME NoneAssumption == None \notin Ports \cup Searches

VARIABLES
    public,     \* whether the host is reachable without a mapping
    pc,         \* where each search is
    port,       \* the port it advertises, None for a random one nobody listens on
    listener,   \* its callback listener: "none", "listening", "stopping" (stop is set), or
                \* "broken" (its accept has failed)
    holds,      \* whether open() has returned True: there is a mapping to close
    conn,       \* whether its connection is open
    id,         \* the id it has on that connection: "none", "low" or "high"
    overdue,    \* whether the deadline of the loop it is in has passed
    packets,    \* parity of the packets the loop it is in has read and ignored
    mapping,    \* the search whose mapping the router has for each port
    lost        \* history: the router's answer to this search was lost, or it refused to delete

vars == <<public, pc, port, listener, holds, conn, id, overdue, packets, mapping, lost>>

TypeOK ==
    /\ public \in BOOLEAN
    /\ pc \in [Searches -> {"idle", "listen", "discover", "upnp", "connect", "login", "results",
                            "closing", "stop", "unmap", "done"}]
    /\ port \in [Searches -> Ports \cup {None}]
    /\ listener \in [Searches -> {"none", "listening", "stopping", "broken"}]
    /\ holds \in [Searches -> BOOLEAN]
    /\ conn \in [Searches -> BOOLEAN]
    /\ id \in [Searches -> {"none", "low", "high"}]
    /\ overdue \in [Searches -> BOOLEAN]
    /\ packets \in [Searches -> {0, 1}]
    /\ mapping \in [Ports -> Searches \cup {None}]
    /\ lost \in [Searches -> BOOLEAN]

Init ==
    /\ public \in BOOLEAN
    /\ pc = [s \in Searches |-> "idle"]
    /\ port = [s \in Searches |-> None]
    /\ listener = [s \in Searches |-> "none"]
    /\ holds = [s \in Searches |-> FALSE]
    /\ conn = [s \in Searches |-> FALSE]
    /\ id = [s \in Searches |-> "none"]
    /\ overdue = [s \in Searches |-> FALSE]
    /\ packets = [s \in Searches |-> 0]
    /\ mapping = [p \in Ports |-> None]
    /\ lost = [s \in Searches |-> FALSE]

Goto(s, place) == pc' = [pc EXCEPT ![s] = place]

\* The ports whose listening socket is open.
Bound == {port[s] : s \in {r \in Searches : listener[r] \in {"listening", "stopping"}}}

-----------------------------------------------------------------------------
\* The listener

\* highid_port is None, 0 or a number.
Begin(s) ==
    /\ pc[s] = "idle"
    /\ pc' \in {[pc EXCEPT ![s] = "connect"], [pc EXCEPT ![s] = "listen"]}
    /\ UNCHANGED <<public, port, listener, holds, conn, id, overdue, packets, mapping, lost>>

\* start_callback_listener: the port by number, or a free one from the system.
Listen(s, p) ==
    /\ pc[s] = "listen"
    /\ p \notin Bound
    /\ port' = [port EXCEPT ![s] = p]
    /\ listener' = [listener EXCEPT ![s] = "listening"]
    /\ \E use_upnp \in BOOLEAN : Goto(s, IF use_upnp THEN "discover" ELSE "connect")
    /\ UNCHANGED <<public, holds, conn, id, overdue, packets, mapping, lost>>

\* The port is taken, by a search or another program: the search goes on with its number
\* and nothing of its own to answer there.
ListenFails(s, p) ==
    /\ pc[s] = "listen"
    /\ port' = [port EXCEPT ![s] = p]
    /\ Goto(s, "connect")
    /\ UNCHANGED <<public, listener, holds, conn, id, overdue, packets, mapping, lost>>

\* The loop sees stop when its accept times out or it has served a callback, or its
\* accept fails, and closes.
ListenerCloses(s) ==
    /\ listener[s] = "stopping"
    /\ listener' = [listener EXCEPT ![s] = "none"]
    /\ UNCHANGED <<public, pc, port, holds, conn, id, overdue, packets, mapping, lost>>

\* An accept that fails otherwise than by its time-out ends the loop before that, and
\* closes the socket; the search, and the server that called before, do not notice.
ListenerFails(s) ==
    /\ listener[s] = "listening"
    /\ listener' = [listener EXCEPT ![s] = "broken"]
    /\ UNCHANGED <<public, pc, port, holds, conn, id, overdue, packets, mapping, lost>>

-----------------------------------------------------------------------------
\* The mapping

\* The first router that answers and whose description, if it can be read, has a service
\* that maps ports; or none.
Discover(s, found) ==
    /\ pc[s] = "discover"
    /\ Goto(s, IF found THEN "upnp" ELSE "connect")
    /\ UNCHANGED <<public, port, listener, holds, conn, id, overdue, packets, mapping, lost>>

\* AddPortMapping is refused or does not reach the router.
MapFails(s) ==
    /\ pc[s] = "upnp"
    /\ Goto(s, "connect")
    /\ UNCHANGED <<public, port, listener, holds, conn, id, overdue, packets, mapping, lost>>

\* The router maps the port, to this search if it was another's, as the client is the
\* same host.  Without its answer open returns False; the call for the public address
\* that follows changes nothing, whatever comes of it.
MapPort(s, answered) ==
    /\ pc[s] = "upnp"
    /\ mapping' = [mapping EXCEPT ![port[s]] = s]
    /\ holds' = [holds EXCEPT ![s] = answered]
    /\ lost' = [lost EXCEPT ![s] = ~answered]
    /\ Goto(s, "connect")
    /\ UNCHANGED <<public, port, listener, conn, id, overdue, packets>>

-----------------------------------------------------------------------------
\* The search

Connect(s) ==
    /\ pc[s] = "connect"
    /\ conn' = [conn EXCEPT ![s] = TRUE]
    /\ overdue' = [overdue EXCEPT ![s] = FALSE]
    /\ Goto(s, "login")
    /\ UNCHANGED <<public, port, listener, holds, id, packets, mapping, lost>>

\* Mutant of AfterRefusal: nothing is released when there is no connection.
AfterRefusalNothing == "done"

AfterRefusal == "stop"

ConnectFails(s) ==
    /\ pc[s] = "connect"
    /\ Goto(s, AfterRefusal)
    /\ UNCHANGED <<public, port, listener, holds, conn, id, overdue, packets, mapping, lost>>

DeadlinePasses(s) ==
    /\ pc[s] \in {"login", "results"}
    /\ overdue' = [overdue EXCEPT ![s] = TRUE]
    /\ UNCHANGED <<public, pc, port, listener, holds, conn, id, packets, mapping, lost>>

\* Mutant of MayReceive: a loop that only a time-out ends.
MayReceiveForever(s) == TRUE

MayReceive(s) == ~overdue[s]

\* A packet that neither loop acts on; REJECT is one once the login is over.
ReceiveOther(s) ==
    /\ pc[s] \in {"login", "results"} /\ MayReceive(s)
    /\ packets' = [packets EXCEPT ![s] = 1 - @]
    /\ UNCHANGED <<public, pc, port, listener, holds, conn, id, overdue, mapping, lost>>

\* The server grants a high id when its call to the advertised port is accepted.
Reachable(s) ==
    /\ \E r \in Searches : listener[r] = "listening" /\ port[r] = port[s]
    /\ public \/ mapping[port[s]] # None

ReceiveIdChange(s, kind) ==
    /\ pc[s] = "login" /\ MayReceive(s)
    /\ kind = "high" => Reachable(s)
    /\ id' = [id EXCEPT ![s] = kind]
    /\ overdue' = [overdue EXCEPT ![s] = FALSE]
    /\ packets' = [packets EXCEPT ![s] = 0]
    /\ Goto(s, "results")
    /\ UNCHANGED <<public, port, listener, holds, conn, mapping, lost>>

\* A time-out or the deadline: searching anyway, then no results.
GiveUp(s) ==
    /\ pc[s] \in {"login", "results"}
    /\ overdue' = [overdue EXCEPT ![s] = FALSE]
    /\ packets' = [packets EXCEPT ![s] = 0]
    /\ Goto(s, IF pc[s] = "login" THEN "results" ELSE "closing")
    /\ UNCHANGED <<public, port, listener, holds, conn, id, mapping, lost>>

\* Mutant of Finish: the listener is stopped before the connection is closed.
FinishStopsListener(s) ==
    /\ pc[s] \in {"login", "results"} /\ MayReceive(s)
    /\ listener' = [listener EXCEPT ![s] = IF @ = "listening" THEN "stopping" ELSE @]
    /\ packets' = [packets EXCEPT ![s] = 0]
    /\ Goto(s, "closing")
    /\ UNCHANGED <<public, port, holds, conn, id, overdue, mapping, lost>>

\* The results, or an exception: REJECT, the end of the connection, a malformed packet.
Finish(s) ==
    /\ pc[s] \in {"login", "results"} /\ MayReceive(s)
    /\ packets' = [packets EXCEPT ![s] = 0]
    /\ Goto(s, "closing")
    /\ UNCHANGED <<public, port, listener, holds, conn, id, overdue, mapping, lost>>

-----------------------------------------------------------------------------
\* The two finally blocks

Disconnect(s) ==
    /\ pc[s] = "closing"
    /\ conn' = [conn EXCEPT ![s] = FALSE]
    /\ id' = [id EXCEPT ![s] = "none"]
    /\ Goto(s, "stop")
    /\ UNCHANGED <<public, port, listener, holds, overdue, packets, mapping, lost>>

StopListener(s) ==
    /\ pc[s] = "stop"
    /\ listener' = [listener EXCEPT ![s] = IF @ = "listening" THEN "stopping" ELSE @]
    /\ Goto(s, IF holds[s] THEN "unmap" ELSE "done")
    /\ UNCHANGED <<public, port, holds, conn, id, overdue, packets, mapping, lost>>

\* DeletePortMapping removes whatever the port is mapped to; a failure is ignored.
Unmap(s, deleted) ==
    /\ pc[s] = "unmap"
    /\ mapping' = [mapping EXCEPT ![port[s]] = IF deleted THEN None ELSE @]
    /\ lost' = [lost EXCEPT ![s] = ~deleted]
    /\ Goto(s, "done")
    /\ UNCHANGED <<public, port, listener, holds, conn, id, overdue, packets>>

-----------------------------------------------------------------------------
Step(s) ==
    \/ \E p \in Ports : Listen(s, p) \/ ListenFails(s, p)
    \/ \E found \in BOOLEAN : Discover(s, found)
    \/ MapFails(s)
    \/ \E answered \in BOOLEAN : MapPort(s, answered)
    \/ Connect(s)
    \/ ConnectFails(s)
    \/ ReceiveOther(s)
    \/ \E kind \in {"low", "high"} : ReceiveIdChange(s, kind)
    \/ GiveUp(s)
    \/ Finish(s)
    \/ Disconnect(s)
    \/ StopListener(s)
    \/ \E deleted \in BOOLEAN : Unmap(s, deleted)

Next ==
    \E s \in Searches :
        \/ Begin(s) \/ Step(s)
        \/ DeadlinePasses(s)
        \/ ListenerCloses(s) \/ ListenerFails(s)

\* A search runs on and every call in it ends, by its time-outs if nothing else; time
\* passes; the listener's accept times out every half second.
Fairness ==
    \A s \in Searches :
        WF_vars(Step(s)) /\ WF_vars(DeadlinePasses(s)) /\ WF_vars(ListenerCloses(s))

Spec == Init /\ [][Next]_vars /\ Fairness

-----------------------------------------------------------------------------
\* Properties

\* Whatever fails on the way, a search that is over has closed its connection and told
\* its listener to stop, and the router keeps nothing of it, except when the router has
\* mapped the port and its answer was lost, or it did not delete it (server.py:270-294,
\* upnp.py:159-193).
NothingLeftBehind ==
    \A s \in Searches : pc[s] = "done" =>
        /\ ~conn[s] /\ listener[s] # "listening"
        /\ \A p \in Ports : mapping[p] = s => lost[s]

\* As long as the server that has granted a search a high id is connected to it, the
\* search has not stopped its listener and its mapping is there: the connection is closed
\* first (server.py:288-294).  The server can call it back unless the listener has broken
\* by itself (lines 215-216), which the search does not notice.  This is for a search
\* alone on its port.
ReachableWhileHighId ==
    \A s \in Searches :
        /\ conn[s] /\ id[s] = "high"
        /\ \A r \in Searches \ {s} : port[r] # port[s]
        => listener[s] \in {"listening", "broken"} /\ (public \/ mapping[port[s]] = s)

\* A search ends even if the server never stops sending what it does not wait for, and
\* its listener gives the port back (server.py:300-301, 328-329, 210-225).
SearchesEnd ==
    \A s \in Searches :
        pc[s] # "idle" ~> pc[s] = "done" /\ listener[s] \in {"none", "broken"}

=============================================================================
