-------------------------- MODULE HighIdSearchProofs --------------------------
(***************************************************************************)
(* Proofs about HighIdSearch, for any number of searches and ports: what   *)
(* a search leaves behind, and that the server can call back as long as it *)
(* believes so.  That searches end is a liveness property and stays with   *)
(* the model checker.                                                      *)
(***************************************************************************)
EXTENDS HighIdSearch, TLAPS

Trying == {"connect", "login", "results", "closing", "stop", "unmap"}
Connected == {"login", "results", "closing"}

\* A search has a port once it has tried to listen, without one it is granted no high
\* id, and it listens until it stops its listener.
PortInv ==
    \A s \in Searches :
        /\ pc[s] \in {"idle", "listen"} => port[s] = None
        /\ pc[s] \in {"discover", "upnp"} => port[s] \in Ports
        /\ listener[s] # "none" => port[s] \in Ports
        /\ id[s] = "high" => port[s] \in Ports
        /\ listener[s] = "listening" => pc[s] \notin {"idle", "listen", "unmap", "done"}

\* The connection is open in its try block only, and has no id before the login.
ConnInv ==
    \A s \in Searches :
        /\ conn[s] => pc[s] \in Connected
        /\ id[s] # "none" => pc[s] \in Trying \cup {"done"} /\ pc[s] \notin {"connect", "login"}

\* A mapping is on the port its search advertises, and the search will delete it unless
\* the router has not told it that there is one.
MappingInv ==
    \A s \in Searches, p \in Ports :
        mapping[p] = s =>
            /\ p = port[s]
            /\ pc[s] \in Trying \cup {"done"}
            /\ lost[s] \/ (holds[s] /\ pc[s] # "done")

IInv == TypeOK /\ PortInv /\ ConnInv /\ MappingInv /\ ReachableWhileHighId
-----------------------------------------------------------------------------
(* The initial states satisfy the invariant. *)
LEMMA InitInvariant == Init => IInv
  BY NoneAssumption
  DEF Init, IInv, TypeOK, PortInv, ConnInv, MappingInv, ReachableWhileHighId, Trying, Connected

(* Every step keeps the types. *)
LEMMA StepTypes == TypeOK /\ [Next]_vars => TypeOK'
<1> SUFFICES ASSUME TypeOK, [Next]_vars PROVE TypeOK'
  OBVIOUS
<1> USE NoneAssumption DEF TypeOK, Goto, AfterRefusal
<1>1. CASE UNCHANGED vars
  BY <1>1 DEF vars
<1>2. ASSUME NEW s \in Searches, Begin(s) PROVE TypeOK'
  BY <1>2 DEF Begin
<1>3. ASSUME NEW s \in Searches, DeadlinePasses(s) PROVE TypeOK'
  BY <1>3 DEF DeadlinePasses
<1>4. ASSUME NEW s \in Searches, ListenerCloses(s) \/ ListenerFails(s) PROVE TypeOK'
  BY <1>4 DEF ListenerCloses, ListenerFails
<1>5. ASSUME NEW s \in Searches, Step(s) PROVE TypeOK'
  <2>1. ASSUME NEW p \in Ports, Listen(s, p) PROVE TypeOK'
    BY <2>1 DEF Listen
  <2>2. ASSUME NEW p \in Ports, ListenFails(s, p) PROVE TypeOK'
    BY <2>2 DEF ListenFails
  <2>3. ASSUME NEW found \in BOOLEAN, Discover(s, found) PROVE TypeOK'
    BY <2>3 DEF Discover
  <2>4. CASE MapFails(s)
    BY <2>4 DEF MapFails
  <2>5. ASSUME NEW answered \in BOOLEAN, MapPort(s, answered) PROVE TypeOK'
    BY <2>5 DEF MapPort
  <2>6. CASE Connect(s)
    BY <2>6 DEF Connect
  <2>7. CASE ConnectFails(s)
    BY <2>7 DEF ConnectFails
  <2>8. CASE ReceiveOther(s)
    BY <2>8 DEF ReceiveOther
  <2>9. ASSUME NEW kind \in {"low", "high"}, ReceiveIdChange(s, kind) PROVE TypeOK'
    BY <2>9 DEF ReceiveIdChange
  <2>10. CASE GiveUp(s)
    BY <2>10 DEF GiveUp
  <2>11. CASE Finish(s)
    BY <2>11 DEF Finish
  <2>12. CASE Disconnect(s)
    BY <2>12 DEF Disconnect
  <2>13. CASE StopListener(s)
    BY <2>13 DEF StopListener
  <2>14. ASSUME NEW deleted \in BOOLEAN, Unmap(s, deleted) PROVE TypeOK'
    BY <2>14 DEF Unmap
  <2> QED
    BY <1>5, <2>1, <2>2, <2>3, <2>4, <2>5, <2>6, <2>7, <2>8, <2>9, <2>10, <2>11, <2>12,
       <2>13, <2>14 DEF Step
<1> QED
  BY <1>1, <1>2, <1>3, <1>4, <1>5 DEF Next

(* Every step keeps the ports. *)
LEMMA StepPort == TypeOK /\ PortInv /\ [Next]_vars => PortInv'
<1> SUFFICES ASSUME TypeOK, PortInv, [Next]_vars PROVE PortInv'
  OBVIOUS
<1> USE NoneAssumption DEF TypeOK, Goto, AfterRefusal, PortInv
<1>1. CASE UNCHANGED vars
  BY <1>1 DEF vars
<1>2. ASSUME NEW s \in Searches, Begin(s) PROVE PortInv'
  BY <1>2 DEF Begin
<1>3. ASSUME NEW s \in Searches, DeadlinePasses(s) PROVE PortInv'
  BY <1>3 DEF DeadlinePasses
<1>4. ASSUME NEW s \in Searches, ListenerCloses(s) \/ ListenerFails(s) PROVE PortInv'
  BY <1>4 DEF ListenerCloses, ListenerFails
<1>5. ASSUME NEW s \in Searches, Step(s) PROVE PortInv'
  <2>1. ASSUME NEW p \in Ports, Listen(s, p) PROVE PortInv'
    BY <2>1 DEF Listen
  <2>2. ASSUME NEW p \in Ports, ListenFails(s, p) PROVE PortInv'
    BY <2>2 DEF ListenFails
  <2>3. ASSUME NEW found \in BOOLEAN, Discover(s, found) PROVE PortInv'
    BY <2>3 DEF Discover
  <2>4. CASE MapFails(s)
    BY <2>4 DEF MapFails
  <2>5. ASSUME NEW answered \in BOOLEAN, MapPort(s, answered) PROVE PortInv'
    BY <2>5 DEF MapPort
  <2>6. CASE Connect(s)
    BY <2>6 DEF Connect
  <2>7. CASE ConnectFails(s)
    BY <2>7 DEF ConnectFails
  <2>8. CASE ReceiveOther(s)
    BY <2>8 DEF ReceiveOther
  <2>9. ASSUME NEW kind \in {"low", "high"}, ReceiveIdChange(s, kind) PROVE PortInv'
    BY <2>9 DEF ReceiveIdChange, Reachable
  <2>10. CASE GiveUp(s)
    BY <2>10 DEF GiveUp
  <2>11. CASE Finish(s)
    BY <2>11 DEF Finish
  <2>12. CASE Disconnect(s)
    BY <2>12 DEF Disconnect
  <2>13. CASE StopListener(s)
    BY <2>13 DEF StopListener
  <2>14. ASSUME NEW deleted \in BOOLEAN, Unmap(s, deleted) PROVE PortInv'
    BY <2>14 DEF Unmap
  <2> QED
    BY <1>5, <2>1, <2>2, <2>3, <2>4, <2>5, <2>6, <2>7, <2>8, <2>9, <2>10, <2>11, <2>12,
       <2>13, <2>14 DEF Step
<1> QED
  BY <1>1, <1>2, <1>3, <1>4, <1>5 DEF Next

(* Every step keeps the connections and ids. *)
LEMMA StepConn == TypeOK /\ ConnInv /\ [Next]_vars => ConnInv'
<1> SUFFICES ASSUME TypeOK, ConnInv, [Next]_vars PROVE ConnInv'
  OBVIOUS
<1> USE NoneAssumption DEF TypeOK, Goto, AfterRefusal, ConnInv, Trying, Connected
<1>1. CASE UNCHANGED vars
  BY <1>1 DEF vars
<1>2. ASSUME NEW s \in Searches, Begin(s) PROVE ConnInv'
  BY <1>2 DEF Begin
<1>3. ASSUME NEW s \in Searches, DeadlinePasses(s) PROVE ConnInv'
  BY <1>3 DEF DeadlinePasses
<1>4. ASSUME NEW s \in Searches, ListenerCloses(s) \/ ListenerFails(s) PROVE ConnInv'
  BY <1>4 DEF ListenerCloses, ListenerFails
<1>5. ASSUME NEW s \in Searches, Step(s) PROVE ConnInv'
  <2>1. ASSUME NEW p \in Ports, Listen(s, p) PROVE ConnInv'
    BY <2>1 DEF Listen
  <2>2. ASSUME NEW p \in Ports, ListenFails(s, p) PROVE ConnInv'
    BY <2>2 DEF ListenFails
  <2>3. ASSUME NEW found \in BOOLEAN, Discover(s, found) PROVE ConnInv'
    BY <2>3 DEF Discover
  <2>4. CASE MapFails(s)
    BY <2>4 DEF MapFails
  <2>5. ASSUME NEW answered \in BOOLEAN, MapPort(s, answered) PROVE ConnInv'
    BY <2>5 DEF MapPort
  <2>6. CASE Connect(s)
    BY <2>6 DEF Connect
  <2>7. CASE ConnectFails(s)
    BY <2>7 DEF ConnectFails
  <2>8. CASE ReceiveOther(s)
    BY <2>8 DEF ReceiveOther
  <2>9. ASSUME NEW kind \in {"low", "high"}, ReceiveIdChange(s, kind) PROVE ConnInv'
    BY <2>9 DEF ReceiveIdChange
  <2>10. CASE GiveUp(s)
    BY <2>10 DEF GiveUp
  <2>11. CASE Finish(s)
    BY <2>11 DEF Finish
  <2>12. CASE Disconnect(s)
    BY <2>12 DEF Disconnect
  <2>13. CASE StopListener(s)
    BY <2>13 DEF StopListener
  <2>14. ASSUME NEW deleted \in BOOLEAN, Unmap(s, deleted) PROVE ConnInv'
    BY <2>14 DEF Unmap
  <2> QED
    BY <1>5, <2>1, <2>2, <2>3, <2>4, <2>5, <2>6, <2>7, <2>8, <2>9, <2>10, <2>11, <2>12,
       <2>13, <2>14 DEF Step
<1> QED
  BY <1>1, <1>2, <1>3, <1>4, <1>5 DEF Next

(* Every step keeps the mappings. *)
LEMMA StepMapping == TypeOK /\ PortInv /\ MappingInv /\ [Next]_vars => MappingInv'
<1> SUFFICES ASSUME TypeOK, PortInv, MappingInv, [Next]_vars PROVE MappingInv'
  OBVIOUS
<1> USE NoneAssumption DEF TypeOK, Goto, AfterRefusal, PortInv, MappingInv, Trying
<1>1. CASE UNCHANGED vars
  BY <1>1 DEF vars
<1>2. ASSUME NEW s \in Searches, Begin(s) PROVE MappingInv'
  BY <1>2 DEF Begin
<1>3. ASSUME NEW s \in Searches, DeadlinePasses(s) PROVE MappingInv'
  BY <1>3 DEF DeadlinePasses
<1>4. ASSUME NEW s \in Searches, ListenerCloses(s) \/ ListenerFails(s) PROVE MappingInv'
  BY <1>4 DEF ListenerCloses, ListenerFails
<1>5. ASSUME NEW s \in Searches, Step(s) PROVE MappingInv'
  <2>1. ASSUME NEW p \in Ports, Listen(s, p) PROVE MappingInv'
    BY <2>1 DEF Listen
  <2>2. ASSUME NEW p \in Ports, ListenFails(s, p) PROVE MappingInv'
    BY <2>2 DEF ListenFails
  <2>3. ASSUME NEW found \in BOOLEAN, Discover(s, found) PROVE MappingInv'
    BY <2>3 DEF Discover
  <2>4. CASE MapFails(s)
    BY <2>4 DEF MapFails
  <2>5. ASSUME NEW answered \in BOOLEAN, MapPort(s, answered) PROVE MappingInv'
    <3> SUFFICES ASSUME NEW r \in Searches, NEW p \in Ports, mapping'[p] = r
                 PROVE  /\ p = port'[r]
                        /\ pc'[r] \in Trying \cup {"done"}
                        /\ lost'[r] \/ (holds'[r] /\ pc'[r] # "done")
      BY DEF MappingInv
    <3>1. CASE r = s
      <4>1. port' = port /\ pc'[s] = "connect"
        BY <2>5 DEF MapPort
      <4>2. p = port[s]
        <5>1. ASSUME p # port[s] PROVE mapping'[p] = mapping[p]
          BY <2>5, <5>1 DEF MapPort
        <5>2. pc[s] = "upnp"
          BY <2>5 DEF MapPort
        <5> QED
          BY <3>1, <5>1, <5>2 DEF Trying
      <4>3. lost'[s] \/ holds'[s]
        <5>1. CASE answered = TRUE
          <6>1. holds' = [holds EXCEPT ![s] = TRUE]
            BY <2>5, <5>1 DEF MapPort
          <6> QED
            BY <6>1
        <5>2. CASE answered = FALSE
          <6>1. lost' = [lost EXCEPT ![s] = TRUE]
            BY <2>5, <5>2 DEF MapPort
          <6> QED
            BY <6>1
        <5> QED
          BY <5>1, <5>2
      <4> QED
        BY <3>1, <4>1, <4>2, <4>3 DEF Trying
    <3>2. CASE r # s
      <4>1. mapping[p] = r /\ UNCHANGED port
        BY <2>5, <3>2 DEF MapPort
      <4>2. pc'[r] = pc[r] /\ lost'[r] = lost[r] /\ holds'[r] = holds[r]
        BY <2>5, <3>2 DEF MapPort
      <4> QED
        BY <4>1, <4>2
    <3> QED
      BY <3>1, <3>2
  <2>6. CASE Connect(s)
    BY <2>6 DEF Connect
  <2>7. CASE ConnectFails(s)
    BY <2>7 DEF ConnectFails
  <2>8. CASE ReceiveOther(s)
    BY <2>8 DEF ReceiveOther
  <2>9. ASSUME NEW kind \in {"low", "high"}, ReceiveIdChange(s, kind) PROVE MappingInv'
    BY <2>9 DEF ReceiveIdChange
  <2>10. CASE GiveUp(s)
    BY <2>10 DEF GiveUp
  <2>11. CASE Finish(s)
    BY <2>11 DEF Finish
  <2>12. CASE Disconnect(s)
    BY <2>12 DEF Disconnect
  <2>13. CASE StopListener(s)
    BY <2>13 DEF StopListener
  <2>14. ASSUME NEW deleted \in BOOLEAN, Unmap(s, deleted) PROVE MappingInv'
    BY <2>14 DEF Unmap
  <2> QED
    BY <1>5, <2>1, <2>2, <2>3, <2>4, <2>5, <2>6, <2>7, <2>8, <2>9, <2>10, <2>11, <2>12,
       <2>13, <2>14 DEF Step
<1> QED
  BY <1>1, <1>2, <1>3, <1>4, <1>5 DEF Next

(* A server that has granted a high id stays able to call back. *)
LEMMA StepReachable == IInv /\ [Next]_vars => ReachableWhileHighId'
<1> SUFFICES ASSUME IInv, [Next]_vars PROVE ReachableWhileHighId'
  OBVIOUS
<1> USE NoneAssumption DEF TypeOK, Goto, AfterRefusal, IInv, PortInv, ConnInv, MappingInv,
                              ReachableWhileHighId, Connected
<1>1. CASE UNCHANGED vars
  BY <1>1 DEF vars
<1>2. ASSUME NEW s \in Searches, Begin(s) PROVE ReachableWhileHighId'
  BY <1>2 DEF Begin
<1>3. ASSUME NEW s \in Searches, DeadlinePasses(s) PROVE ReachableWhileHighId'
  BY <1>3 DEF DeadlinePasses
<1>4. ASSUME NEW s \in Searches, ListenerCloses(s) \/ ListenerFails(s) PROVE ReachableWhileHighId'
  BY <1>4 DEF ListenerCloses, ListenerFails
<1>5. ASSUME NEW s \in Searches, Step(s) PROVE ReachableWhileHighId'
  <2>1. ASSUME NEW p \in Ports, Listen(s, p) PROVE ReachableWhileHighId'
    <3> SUFFICES ASSUME NEW r \in Searches, conn'[r], id'[r] = "high",
                        \A u \in Searches \ {r} : port'[u] # port'[r]
                 PROVE  /\ listener'[r] \in {"listening", "broken"}
                        /\ (public' \/ mapping'[port'[r]] = r)
      BY DEF ReachableWhileHighId
    <3>1. r # s /\ conn[r] /\ id[r] = "high" /\ port'[r] = port[r] /\ listener'[r] = listener[r]
      BY <2>1 DEF Listen
    <3>2. \A u \in Searches \ {r} : port[u] # port[r]
      BY <2>1, <3>1 DEF Listen
    <3> QED
      BY <2>1, <3>1, <3>2 DEF Listen
  <2>2. ASSUME NEW p \in Ports, ListenFails(s, p) PROVE ReachableWhileHighId'
    <3> SUFFICES ASSUME NEW r \in Searches, conn'[r], id'[r] = "high",
                        \A u \in Searches \ {r} : port'[u] # port'[r]
                 PROVE  /\ listener'[r] \in {"listening", "broken"}
                        /\ (public' \/ mapping'[port'[r]] = r)
      BY DEF ReachableWhileHighId
    <3>1. r # s /\ conn[r] /\ id[r] = "high" /\ port'[r] = port[r] /\ listener'[r] = listener[r]
      BY <2>2 DEF ListenFails
    <3>2. \A u \in Searches \ {r} : port[u] # port[r]
      BY <2>2, <3>1 DEF ListenFails
    <3> QED
      BY <2>2, <3>1, <3>2 DEF ListenFails
  <2>3. ASSUME NEW found \in BOOLEAN, Discover(s, found) PROVE ReachableWhileHighId'
    BY <2>3 DEF Discover
  <2>4. CASE MapFails(s)
    BY <2>4 DEF MapFails
  <2>5. ASSUME NEW answered \in BOOLEAN, MapPort(s, answered) PROVE ReachableWhileHighId'
    BY <2>5 DEF MapPort
  <2>6. CASE Connect(s)
    BY <2>6 DEF Connect
  <2>7. CASE ConnectFails(s)
    BY <2>7 DEF ConnectFails
  <2>8. CASE ReceiveOther(s)
    BY <2>8 DEF ReceiveOther
  <2>9. ASSUME NEW kind \in {"low", "high"}, ReceiveIdChange(s, kind) PROVE ReachableWhileHighId'
    <3> SUFFICES ASSUME NEW r \in Searches, conn[r], id'[r] = "high",
                        \A u \in Searches \ {r} : port[u] # port[r]
                 PROVE  /\ listener[r] \in {"listening", "broken"}
                        /\ (public \/ mapping[port[r]] = r)
      BY <2>9 DEF ReceiveIdChange, ReachableWhileHighId
    <3>1. CASE r = s
      <4>1. Reachable(s)
        BY <2>9, <3>1 DEF ReceiveIdChange
      <4>2. listener[s] = "listening"
        BY <3>1, <4>1 DEF Reachable
      <4>3. port[s] \in Ports
        BY <4>2
      <4>4. public \/ mapping[port[s]] = s
        BY <3>1, <4>1, <4>3 DEF Reachable
      <4> QED
        BY <3>1, <4>2, <4>4
    <3>2. CASE r # s
      BY <2>9, <3>2 DEF ReceiveIdChange
    <3> QED
      BY <3>1, <3>2
  <2>10. CASE GiveUp(s)
    BY <2>10 DEF GiveUp
  <2>11. CASE Finish(s)
    BY <2>11 DEF Finish
  <2>12. CASE Disconnect(s)
    BY <2>12 DEF Disconnect
  <2>13. CASE StopListener(s)
    BY <2>13 DEF StopListener
  <2>14. ASSUME NEW deleted \in BOOLEAN, Unmap(s, deleted) PROVE ReachableWhileHighId'
    BY <2>14 DEF Unmap
  <2> QED
    BY <1>5, <2>1, <2>2, <2>3, <2>4, <2>5, <2>6, <2>7, <2>8, <2>9, <2>10, <2>11, <2>12,
       <2>13, <2>14 DEF Step
<1> QED
  BY <1>1, <1>2, <1>3, <1>4, <1>5 DEF Next

(* The invariant holds in every reachable state. *)
THEOREM Invariance == Spec => []IInv
<1>1. IInv /\ [Next]_vars => IInv'
  BY StepTypes, StepPort, StepConn, StepMapping, StepReachable DEF IInv
<1>2. QED
  BY <1>1, InitInvariant, PTL DEF Spec

(* The variables of the searches keep their types. *)
THEOREM TypeCorrect == Spec => []TypeOK
<1>1. IInv => TypeOK
  BY DEF IInv
<1>2. QED
  BY <1>1, Invariance, PTL

(* Whatever fails on the way, a search that is over has closed its connection, stopped  *)
(* its listener and deleted its mapping, unless the router hid it or refused.           *)
THEOREM LeavesNothingBehind == Spec => []NothingLeftBehind
<1>1. IInv => NothingLeftBehind
  BY DEF IInv, PortInv, ConnInv, MappingInv, NothingLeftBehind, Connected
<1>2. QED
  BY <1>1, Invariance, PTL

(* A search alone on its port keeps its listener and its mapping as long as the server   *)
(* that has granted it a high id is connected; only a failed accept can end the listener *)
(* before.                                                                               *)
THEOREM HighIdIsHonest == Spec => []ReachableWhileHighId
<1>1. IInv => ReachableWhileHighId
  BY DEF IInv
<1>2. QED
  BY <1>1, Invariance, PTL
=============================================================================
