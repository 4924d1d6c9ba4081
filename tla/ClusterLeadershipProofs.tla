---------------------- MODULE ClusterLeadershipProofs ----------------------
(***************************************************************************)
(* Proofs about ClusterLeadership, for every set of nodes, every timeout   *)
(* and every wait for the write lock.                                      *)
(***************************************************************************)
EXTENDS ClusterLeadership, FiniteSetTheorems, TLAPS

(* The row of the leader and the history tell the same story: up to the    *)
(* current term every term has its node, and a node that does the leader's *)
(* maintenance does it under a term that names it.                         *)
LeaderInv ==
    /\ leader.node = NoNode <=> leader.term = 0
    /\ leader.term > 0 => leader.node \in history[leader.term]

HistoryInv ==
    \A k \in Term :
        /\ k <= leader.term => \E n \in Node : history[k] = {n}
        /\ k > leader.term => history[k] = {}

ElectedInv == \A n \in Node : process[n].elected > 0 => n \in history[process[n].elected]

IndInv ==
    /\ TypeOK
    /\ LeaderInv
    /\ HistoryInv
    /\ ElectedInv

(* One step of the system, by what it writes.                              *)
LEMMA NextCases ==
    ASSUME Next
    PROVE  \/ \E n \in Node, lag \in Lags : Elect(n, lag)
           \/ \E n \in Node, lag \in Lags :
                 Heartbeat(n, lag) \/ Maintain(n, lag) \/ MarkOffline(n, lag)
           \/ \E n \in Node, lag \in Lags : Start(n, lag) \/ receive_peer_heartbeat(n, lag)
           \/ \E n \in Node : TestStop(n) \/ ElectRaises(n) \/ Exit(n) \/ Stop(n) \/ Crash(n)
           \/ \E n \in Node : SendHeartbeat(n) \/ LoseHeartbeat(n)
           \/ \E n \in Node, s \in Marks : SetState(n, s)
           \/ Tick
  BY DEF Next, LoopStep, Shutdown

(* What an election does to the leader's row and to the history.           *)
LEMMA ElectLeader ==
    ASSUME IndInv, NEW n \in Node, NEW lag \in Lags, elect_or_renew_leader(n, lag)
    PROVE  /\ leader' \in [node : Node \cup {NoNode}, term : 0..MaxTerm,
                           expires_in : -MaxLag..LeaseSeconds]
           /\ history' \in [Term -> SUBSET Node]
           /\ LeaderInv' /\ HistoryInv'
           /\ \A k \in Term : history[k] \subseteq history'[k]
           /\ leader'.term >= leader.term
           /\ leader'.node # leader.node /\ leader.node # NoNode =>
                 leader.expires_in <= 0 /\ leader'.term = leader.term + 1
  <1> USE ClusterAssumption DEF IndInv, Lags, Term
  <1>1. /\ leader \in [node : Node \cup {NoNode}, term : 0..MaxTerm,
                       expires_in : -MaxLag..LeaseSeconds]
        /\ history \in [Term -> SUBSET Node]
        /\ leader.term \in Nat /\ leader.expires_in \in Int
    BY DEF TypeOK
  <1>2. \A term \in 0..MaxTerm :
           Lease(n, term, lag) \in [node : Node \cup {NoNode}, term : 0..MaxTerm,
                                    expires_in : -MaxLag..LeaseSeconds]
    BY DEF Lease
  <1>3. ASSUME NEW term \in Term, term = leader.term + 1,
               leader' = Lease(n, term, lag),
               history' = [history EXCEPT ![term] = history[term] \cup {n}]
        PROVE  /\ leader' \in [node : Node \cup {NoNode}, term : 0..MaxTerm,
                               expires_in : -MaxLag..LeaseSeconds]
               /\ history' \in [Term -> SUBSET Node]
               /\ LeaderInv' /\ HistoryInv'
               /\ \A k \in Term : history[k] \subseteq history'[k]
    <2>1. leader'.term = term /\ leader'.node = n
      BY <1>3 DEF Lease
    <2>2. history[term] = {}
      BY <1>1, <1>3 DEF HistoryInv
    <2>3. /\ history'[term] = {n}
          /\ \A k \in Term : k # term => history'[k] = history[k]
      BY <1>1, <1>3, <2>2
    <2>4. LeaderInv'
      BY <2>1, <2>3 DEF LeaderInv
    <2>5. HistoryInv'
      <3> SUFFICES ASSUME NEW k \in Term
                   PROVE  /\ k <= term => \E m \in Node : history'[k] = {m}
                          /\ k > term => history'[k] = {}
        BY <2>1 DEF HistoryInv
      <3>1. CASE k = term
        BY <2>3, <3>1
      <3>2. CASE k # term
        BY <1>1, <1>3, <2>3, <3>2 DEF HistoryInv
      <3> QED  BY <3>1, <3>2
    <2>6. leader' \in [node : Node \cup {NoNode}, term : 0..MaxTerm,
                       expires_in : -MaxLag..LeaseSeconds]
      BY <1>2, <1>3
    <2>7. history' \in [Term -> SUBSET Node]
      BY <1>1, <1>3
    <2>8. \A k \in Term : history[k] \subseteq history'[k]
      BY <2>2, <2>3
    <2> QED  BY <2>4, <2>5, <2>6, <2>7, <2>8
  <1>4. CASE Elected(n, lag)
    <2>1. leader.term = 0 /\ 1 \in Term
      BY <1>4 DEF Elected, LeaderInv
    <2>2. leader' = Lease(n, 1, lag) /\ history' = [history EXCEPT ![1] = history[1] \cup {n}]
      BY <1>4 DEF Elected
    <2>3. leader'.term = 1
      BY <2>2 DEF Lease
    <2>4. 1 = leader.term + 1 /\ leader'.term >= leader.term
      BY <2>1, <2>3
    <2>5. leader.node = NoNode
      BY <1>4 DEF Elected
    <2> HIDE DEF IndInv, Term
    <2> QED  BY <1>3, <2>1, <2>2, <2>4, <2>5
  <1>5. CASE FailedOver(n, lag)
    <2>1. leader.term + 1 \in Term
      BY <1>1, <1>5 DEF FailedOver
    <2>2. /\ leader' = Lease(n, leader.term + 1, lag)
          /\ history' = [history EXCEPT ![leader.term + 1] = history[leader.term + 1] \cup {n}]
      BY <1>5 DEF FailedOver
    <2>3. leader'.term = leader.term + 1
      BY <2>2 DEF Lease
    <2>4. leader.expires_in <= 0
      BY <1>1, <1>5 DEF FailedOver, LapsedLease
    <2>5. leader'.term >= leader.term
      BY <1>1, <2>3
    <2> HIDE DEF IndInv, Term
    <2> QED  BY <1>3, <2>1, <2>2, <2>3, <2>4, <2>5
  <1>6. CASE Renewed(n, lag)
    <2>1. leader'.term = leader.term /\ leader'.node = leader.node /\ history' = history
      BY <1>6 DEF Renewed, Lease
    <2>2. LeaderInv' /\ HistoryInv'
      BY <2>1 DEF LeaderInv, HistoryInv
    <2>3. leader' \in [node : Node \cup {NoNode}, term : 0..MaxTerm,
                       expires_in : -MaxLag..LeaseSeconds]
      BY <1>1, <1>2, <1>6 DEF Renewed
    <2> QED  BY <1>1, <2>1, <2>2, <2>3
  <1>7. CASE OtherLeads(n, lag)
    BY <1>1, <1>7 DEF OtherLeads, LeaderInv, HistoryInv
  <1> QED
    BY <1>4, <1>5, <1>6, <1>7 DEF elect_or_renew_leader

(* An election, and what the node remembers of it.                         *)
LEMMA ElectStep ==
    ASSUME IndInv, NEW n \in Node, NEW lag \in Lags, Elect(n, lag)
    PROVE  IndInv'
  <1>1. elect_or_renew_leader(n, lag) /\ UNCHANGED <<nodes, inflight, starts>>
    BY DEF Elect
  <1>2. /\ process \in [Node -> Process] /\ Reaches(n, "elect")
        /\ process' = [process EXCEPT
              ![n].pc = IF leader'.node = n THEN "maintain" ELSE "test",
              ![n].elected = IF leader'.node = n THEN leader'.term ELSE 0]
    BY DEF Elect, IndInv, TypeOK
  <1>3. leader'.term \in 0..MaxTerm /\ (leader'.node = n => leader'.term > 0)
    BY <1>1, ElectLeader, ClusterAssumption DEF LeaderInv
  <1>4. /\ process'[n].up = process[n].up
        /\ process'[n].pc = IF leader'.node = n THEN "maintain" ELSE "test"
        /\ process'[n].elected = IF leader'.node = n THEN leader'.term ELSE 0
        /\ \A m \in Node \ {n} : process'[m] = process[m]
    BY <1>2 DEF Process
  <1>5. process' \in [Node -> Process]
    <2>1. 0 \in 0..MaxTerm
      BY ClusterAssumption
    <2>2. [process[n] EXCEPT !.pc = IF leader'.node = n THEN "maintain" ELSE "test",
                             !.elected = IF leader'.node = n THEN leader'.term ELSE 0]
             \in Process
      BY <1>2, <1>3, <2>1 DEF Process
    <2>3. process' = [process EXCEPT ![n] =
             [process[n] EXCEPT !.pc = IF leader'.node = n THEN "maintain" ELSE "test",
                                !.elected = IF leader'.node = n THEN leader'.term ELSE 0]]
      BY <1>2 DEF Process
    <2> QED  BY <1>2, <2>2, <2>3
  <1>6. \A m \in Node : process'[m].elected > 0 <=> Reaches(m, "maintain")'
    <2> SUFFICES ASSUME NEW m \in Node
                 PROVE  process'[m].elected > 0 <=> Reaches(m, "maintain")'
      OBVIOUS
    <2>1. CASE m = n
      BY <1>2, <1>3, <1>4, <2>1 DEF Reaches
    <2>2. CASE m # n
      BY <1>4, <2>2 DEF Reaches, IndInv, TypeOK
    <2> QED  BY <2>1, <2>2
  <1>7. TypeOK'
    BY <1>1, <1>5, <1>6, ElectLeader DEF IndInv, TypeOK
  <1>8. ElectedInv'
    <2> SUFFICES ASSUME NEW m \in Node, process'[m].elected > 0
                 PROVE  m \in history'[process'[m].elected]
      BY DEF ElectedInv
    <2>1. CASE m = n
      <3>1. leader'.node = n /\ process'[m].elected = leader'.term
        BY <1>4, <2>1
      <3>2. LeaderInv'
        BY <1>1, ElectLeader
      <3> QED  BY <1>3, <2>1, <3>1, <3>2 DEF LeaderInv
    <2>2. CASE m # n
      <3>1. process'[m] = process[m] /\ process[m].elected \in Term
        BY <1>2, <1>4, <2>2, ClusterAssumption DEF Process, Term
      <3>2. m \in history[process[m].elected]
        BY <3>1 DEF IndInv, ElectedInv
      <3> QED  BY <1>1, <3>1, <3>2, ElectLeader
    <2> QED  BY <2>1, <2>2
  <1> QED
    BY <1>1, <1>7, <1>8, ElectLeader DEF IndInv

(* A step that elects nobody leaves the leader's row and the history, and  *)
(* makes no node do the leader's maintenance.                              *)
LEMMA QuietStep ==
    ASSUME IndInv, UNCHANGED history,
           leader'.node = leader.node, leader'.term = leader.term,
           \A n \in Node : process'[n].elected \in {0, process[n].elected},
           TypeOK'
    PROVE  IndInv'
  BY DEF IndInv, LeaderInv, HistoryInv, ElectedInv

(* Every other step is quiet and keeps the types.                          *)
LEMMA OtherSteps ==
    ASSUME IndInv, [Next]_vars, ~\E n \in Node, lag \in Lags : Elect(n, lag)
    PROVE  IndInv' /\ leader'.node = leader.node /\ leader'.term = leader.term
  <1> USE ClusterAssumption DEF IndInv
  <1>1. /\ nodes \in [Node -> [state : NodeState,
                               heartbeat_age : 0..(HeartbeatTimeout + MaxLag + 1)]]
        /\ process \in [Node -> Process]
        /\ \A n \in Node : process[n].elected > 0 <=> Reaches(n, "maintain")
        /\ starts \in 0..MaxStarts
        /\ inflight \subseteq Node
        /\ NoProcess \in Process
    BY DEF TypeOK, NoProcess, Process
  <1>2. \A lag \in Lags : lag \in 0..(HeartbeatTimeout + MaxLag + 1)
    BY DEF Lags
  <1>3. Marks \subseteq NodeState
    BY DEF NodeState
  <1>4. CASE UNCHANGED vars
    BY <1>4, QuietStep DEF vars, TypeOK, Reaches
  <1>5. ASSUME NEW n \in Node, NEW lag \in Lags,
               register_node(n, lag) \/ heartbeat_node(n, lag) \/ set_node_state(n, "OFFLINE", lag)
               \/ expire_stale_nodes(lag) \/ \E s \in Marks : set_node_state(n, s, lag)
        PROVE  nodes' \in [Node -> [state : NodeState,
                                    heartbeat_age : 0..(HeartbeatTimeout + MaxLag + 1)]]
    <2>1. CASE register_node(n, lag)
      BY <1>1, <1>2, <2>1 DEF register_node, NodeState
    <2>2. CASE heartbeat_node(n, lag)
      BY <1>1, <1>2, <2>2 DEF heartbeat_node, StateAfterHeartbeat, NodeState
    <2>3. CASE set_node_state(n, "OFFLINE", lag)
      BY <1>1, <1>2, <2>3 DEF set_node_state, NodeState
    <2>4. CASE expire_stale_nodes(lag)
      <3>1. \A m \in Node : [nodes[m] EXCEPT !.state = "OFFLINE"] \in
               [state : NodeState, heartbeat_age : 0..(HeartbeatTimeout + MaxLag + 1)]
        BY <1>1 DEF NodeState
      <3> QED  BY <1>1, <2>4, <3>1 DEF expire_stale_nodes
    <2>5. ASSUME NEW s \in Marks, set_node_state(n, s, lag)
          PROVE  nodes' \in [Node -> [state : NodeState,
                                      heartbeat_age : 0..(HeartbeatTimeout + MaxLag + 1)]]
      BY <1>1, <1>2, <1>3, <2>5 DEF set_node_state
    <2> QED  BY <1>5, <2>1, <2>2, <2>3, <2>4, <2>5
  <1>6. ASSUME NEW n \in Node, NEW p \in Process, process' = [process EXCEPT ![n] = p],
               p.elected > 0 <=> (p.up /\ p.pc = "maintain")
        PROVE  /\ process' \in [Node -> Process]
               /\ \A m \in Node : process'[m].elected > 0 <=> Reaches(m, "maintain")'
               /\ \A m \in Node \ {n} : process'[m] = process[m]
               /\ process'[n] = p
    BY <1>1, <1>6 DEF Reaches
  <1>7. ASSUME NEW n \in Node, NEW lag \in Lags, Heartbeat(n, lag) PROVE IndInv'
    <2>1. nodes' \in [Node -> [state : NodeState,
                               heartbeat_age : 0..(HeartbeatTimeout + MaxLag + 1)]]
      BY <1>5, <1>7 DEF Heartbeat
    <2> DEFINE p == [process[n] EXCEPT !.pc = "elect"]
    <2>2. p \in Process /\ p.elected = process[n].elected /\ p.pc = "elect"
      BY <1>1 DEF Process
    <2>3. process' = [process EXCEPT ![n] = p] /\ ~(process[n].elected > 0)
      BY <1>1, <1>7 DEF Heartbeat, Goes, Reaches
    <2> HIDE DEF p
    <2>4. TypeOK'
      BY <1>6, <1>7, <2>1, <2>2, <2>3 DEF Heartbeat, TypeOK
    <2> QED  BY <1>6, <1>7, <2>2, <2>3, <2>4, QuietStep DEF Heartbeat
  <1>8. ASSUME NEW n \in Node, NEW lag \in Lags, Maintain(n, lag) PROVE IndInv'
    <2>1. nodes' \in [Node -> [state : NodeState,
                               heartbeat_age : 0..(HeartbeatTimeout + MaxLag + 1)]]
      BY <1>5, <1>8 DEF Maintain
    <2> DEFINE p == [process[n] EXCEPT !.pc = "test", !.elected = 0]
    <2>2. p \in Process /\ p.elected = 0 /\ p.pc = "test"
      <3>1. 0 \in 0..MaxTerm
        OBVIOUS
      <3> QED  BY <1>1, <3>1 DEF Process
    <2>3. p.elected > 0 <=> (p.up /\ p.pc = "maintain")
      BY <2>2
    <2>4. process' = [process EXCEPT ![n] = p]
      BY <1>1, <1>8 DEF Maintain, Process
    <2> HIDE DEF p
    <2>5. TypeOK'
      BY <1>6, <1>8, <2>1, <2>2, <2>4, <2>3 DEF Maintain, TypeOK
    <2> QED  BY <1>6, <1>8, <2>2, <2>4, <2>5, <2>3, QuietStep DEF Maintain
  <1>9. ASSUME NEW n \in Node, NEW lag \in Lags, Start(n, lag) PROVE IndInv'
    <2>1. nodes' \in [Node -> [state : NodeState,
                               heartbeat_age : 0..(HeartbeatTimeout + MaxLag + 1)]]
      BY <1>5, <1>9 DEF Start
    <2> DEFINE p == [NoProcess EXCEPT !.up = TRUE]
    <2>2. p \in Process /\ p.elected = 0 /\ p.pc = "test"
      <3>1. 0 \in 0..MaxTerm
        OBVIOUS
      <3> QED  BY <1>1, <3>1 DEF Process, NoProcess
    <2>3. p.elected > 0 <=> (p.up /\ p.pc = "maintain")
      BY <2>2
    <2>4. process' = [process EXCEPT ![n] = p] /\ starts' \in 0..MaxStarts
      BY <1>1, <1>9 DEF Start
    <2> HIDE DEF p
    <2>5. TypeOK'
      BY <1>6, <1>9, <2>1, <2>2, <2>4, <2>3 DEF Start, TypeOK
    <2> QED  BY <1>6, <1>9, <2>2, <2>4, <2>5, <2>3, QuietStep DEF Start
  <1>10. ASSUME NEW n \in Node, NEW lag \in Lags, MarkOffline(n, lag) PROVE IndInv'
    <2>1. nodes' \in [Node -> [state : NodeState,
                               heartbeat_age : 0..(HeartbeatTimeout + MaxLag + 1)]]
      BY <1>5, <1>10 DEF MarkOffline
    <2> DEFINE p == [process[n] EXCEPT !.stop = "marked"]
    <2>2. p \in Process /\ p.elected = process[n].elected
          /\ p.pc = process[n].pc /\ p.up = process[n].up
      BY <1>1 DEF Process
    <2>3. process' = [process EXCEPT ![n] = p]
          /\ (process[n].elected > 0 <=> (process[n].up /\ process[n].pc = "maintain"))
      BY <1>1, <1>10 DEF MarkOffline, Reaches
    <2> HIDE DEF p
    <2>4. TypeOK'
      BY <1>6, <1>10, <2>1, <2>2, <2>3 DEF MarkOffline, TypeOK
    <2> QED  BY <1>6, <1>10, <2>2, <2>3, <2>4, QuietStep DEF MarkOffline
  <1>11. ASSUME NEW n \in Node, NEW lag \in Lags, receive_peer_heartbeat(n, lag) PROVE IndInv'
    <2>1. nodes' \in [Node -> [state : NodeState,
                               heartbeat_age : 0..(HeartbeatTimeout + MaxLag + 1)]]
      BY <1>5, <1>11 DEF receive_peer_heartbeat
    <2>2. TypeOK'
      BY <1>11, <2>1 DEF receive_peer_heartbeat, TypeOK, Reaches
    <2> QED  BY <1>11, <2>2, QuietStep DEF receive_peer_heartbeat
  <1>12. ASSUME NEW n \in Node, TestStop(n) \/ ElectRaises(n) \/ Stop(n) PROVE IndInv'
    <2> DEFINE p == IF TestStop(n) THEN [process[n] EXCEPT !.pc = "heartbeat"]
                    ELSE IF ElectRaises(n) THEN [process[n] EXCEPT !.pc = "test"]
                    ELSE [process[n] EXCEPT !.stop = "set"]
    <2>1. p \in Process /\ p.elected = process[n].elected
      BY <1>1 DEF Process
    <2>2. p.elected > 0 <=> (p.up /\ p.pc = "maintain")
      BY <1>1 DEF Process, TestStop, ElectRaises, Reaches
    <2>3. process' = [process EXCEPT ![n] = p]
      BY <1>12 DEF TestStop, ElectRaises, Stop, Goes
    <2>4. UNCHANGED <<nodes, leader, history, inflight, starts>>
      BY <1>12 DEF TestStop, ElectRaises, Stop
    <2> HIDE DEF p
    <2>5. TypeOK'
      BY <1>6, <2>1, <2>2, <2>3, <2>4 DEF TypeOK
    <2> QED  BY <1>6, <2>1, <2>2, <2>3, <2>4, <2>5, QuietStep
  <1>13. ASSUME NEW n \in Node, Exit(n) \/ Crash(n) PROVE IndInv'
    <2>1. NoProcess.elected = 0 /\ ~NoProcess.up
      BY DEF NoProcess
    <2>2. process' = [process EXCEPT ![n] = NoProcess]
      BY <1>13 DEF Exit, Crash, Gone
    <2>3. UNCHANGED <<nodes, leader, history, inflight, starts>>
      BY <1>13 DEF Exit, Crash
    <2>4. NoProcess.elected > 0 <=> (NoProcess.up /\ NoProcess.pc = "maintain")
      BY <2>1
    <2>5. TypeOK'
      BY <1>1, <1>6, <2>2, <2>3, <2>4 DEF TypeOK
    <2> QED  BY <1>1, <1>6, <2>1, <2>2, <2>3, <2>5, <2>4, QuietStep
  <1>14. ASSUME NEW n \in Node, SendHeartbeat(n) \/ LoseHeartbeat(n) PROVE IndInv'
    <2>1. inflight' \subseteq Node /\ UNCHANGED <<nodes, leader, history, process, starts>>
      BY <1>1, <1>14 DEF SendHeartbeat, LoseHeartbeat
    <2>2. TypeOK'
      BY <2>1 DEF TypeOK, Reaches
    <2> QED  BY <2>1, <2>2, QuietStep
  <1>15. ASSUME NEW n \in Node, NEW s \in Marks, SetState(n, s) PROVE IndInv'
    <2>1. nodes' \in [Node -> [state : NodeState,
                               heartbeat_age : 0..(HeartbeatTimeout + MaxLag + 1)]]
      BY <1>5, <1>15 DEF SetState
    <2>2. TypeOK'
      BY <1>15, <2>1 DEF SetState, TypeOK, Reaches
    <2> QED  BY <1>15, <2>2, QuietStep DEF SetState
  <1>16. CASE Tick
    <2>1. nodes' \in [Node -> [state : NodeState,
                               heartbeat_age : 0..(HeartbeatTimeout + MaxLag + 1)]]
      <3> SUFFICES ASSUME NEW n \in Node
                   PROVE  nodes'[n] \in [state : NodeState,
                                         heartbeat_age : 0..(HeartbeatTimeout + MaxLag + 1)]
        BY <1>16 DEF Tick
      <3>1. nodes'[n] = [nodes[n] EXCEPT !.heartbeat_age =
               IF nodes[n].state # "absent" /\ nodes[n].heartbeat_age <= HeartbeatTimeout + MaxLag
               THEN nodes[n].heartbeat_age + 1 ELSE nodes[n].heartbeat_age]
        BY <1>1, <1>16 DEF Tick
      <3>2. (IF nodes[n].state # "absent" /\ nodes[n].heartbeat_age <= HeartbeatTimeout + MaxLag
             THEN nodes[n].heartbeat_age + 1 ELSE nodes[n].heartbeat_age)
               \in 0..(HeartbeatTimeout + MaxLag + 1)
        BY <1>1
      <3> QED  BY <1>1, <3>1, <3>2
    <2>2. leader' = [leader EXCEPT !.expires_in =
             IF leader.node # NoNode /\ leader.expires_in > -MaxLag
             THEN leader.expires_in - 1 ELSE leader.expires_in]
      BY <1>16 DEF Tick, TypeOK
    <2>3. leader \in [node : Node \cup {NoNode}, term : 0..MaxTerm,
                      expires_in : -MaxLag..LeaseSeconds]
      BY DEF TypeOK
    <2>4. /\ leader' \in [node : Node \cup {NoNode}, term : 0..MaxTerm,
                          expires_in : -MaxLag..LeaseSeconds]
          /\ leader'.node = leader.node /\ leader'.term = leader.term
      BY <2>2, <2>3
    <2>5. TypeOK'
      BY <1>16, <2>1, <2>4 DEF Tick, TypeOK, Reaches
    <2> QED  BY <1>16, <2>4, <2>5, QuietStep DEF Tick
  <1>17. leader'.node = leader.node /\ leader'.term = leader.term
    <2>1. CASE Tick
      BY <2>1 DEF Tick, TypeOK
    <2>2. CASE ~Tick
      <3>1. leader' = leader
        BY <2>2, NextCases DEF vars, Heartbeat, Maintain, MarkOffline, Start,
           receive_peer_heartbeat, TestStop, ElectRaises, Exit, Stop, Crash,
           SendHeartbeat, LoseHeartbeat, SetState
      <3> QED  BY <3>1
    <2> QED  BY <2>1, <2>2
  <1> QED
    BY <1>4, <1>7, <1>8, <1>9, <1>10, <1>11, <1>12, <1>13, <1>14, <1>15, <1>16, <1>17, NextCases

-----------------------------------------------------------------------------
(* The initial states satisfy the invariant.                               *)
LEMMA InitIndInv == Init => IndInv
  <1> SUFFICES ASSUME Init PROVE IndInv
    OBVIOUS
  <1> USE ClusterAssumption
  <1>1. TypeOK
    <2>1. NoProcess \in Process /\ NoProcess.elected = 0 /\ ~NoProcess.up
      BY DEF NoProcess, Process
    <2> QED  BY <2>1 DEF Init, TypeOK, NodeState, Reaches, Term
  <1>2. LeaderInv /\ HistoryInv
    BY DEF Init, LeaderInv, HistoryInv, Term
  <1>3. ElectedInv
    BY DEF Init, ElectedInv, NoProcess
  <1> QED
    BY <1>1, <1>2, <1>3 DEF IndInv

(* Every step preserves it.                                                *)
LEMMA NextIndInv == IndInv /\ [Next]_vars => IndInv'
  BY ElectStep, OtherSteps

(* The invariant holds in every reachable state.                           *)
THEOREM Invariance == Spec => []IndInv
  BY InitIndInv, NextIndInv, PTL DEF Spec

(* Type correctness: however late an operation's transaction runs, ages,   *)
(* terms and the lease stay in their ranges, and exactly the nodes that    *)
(* are about to do the leader's maintenance hold a term.                   *)
THEOREM TypeCorrect == Spec => []TypeOK
  <1>1. IndInv => TypeOK
    BY DEF IndInv
  <1> QED
    BY <1>1, Invariance, PTL

(* One leader per term, for any number of nodes and terms.                 *)
THEOREM LeaderPerTerm == Spec => []OneLeaderPerTerm
  <1>1. IndInv => OneLeaderPerTerm
    <2> SUFFICES ASSUME IndInv PROVE OneLeaderPerTerm
      OBVIOUS
    <2>1. ASSUME NEW k \in Term
          PROVE  Cardinality(history[k]) = IF k <= leader.term THEN 1 ELSE 0
      <3>1. CASE k <= leader.term
        <4>1. PICK n \in Node : history[k] = {n}
          BY <3>1 DEF IndInv, HistoryInv
        <4> QED  BY <3>1, <4>1, FS_Singleton
      <3>2. CASE ~(k <= leader.term)
        <4>1. k > leader.term
          BY <3>2, ClusterAssumption DEF IndInv, TypeOK, Term
        <4>2. history[k] = {}
          BY <4>1 DEF IndInv, HistoryInv
        <4> QED  BY <3>2, <4>2, FS_EmptySet
      <3> QED  BY <3>1, <3>2
    <2> QED  BY <2>1 DEF IndInv, LeaderInv, ElectedInv, OneLeaderPerTerm
  <1> QED
    BY <1>1, Invariance, PTL

(* A lease in force is never taken over, and terms never go back.          *)
THEOREM LeaseHolds == Spec => NoPreemption
  <1>1. IndInv /\ [Next]_vars =>
           [/\ leader'.node # leader.node /\ leader.node # NoNode =>
                  leader.expires_in <= 0 /\ leader'.term = leader.term + 1
            /\ leader'.term >= leader.term]_vars
    <2> SUFFICES ASSUME IndInv, [Next]_vars
                 PROVE  /\ leader'.node # leader.node /\ leader.node # NoNode =>
                              leader.expires_in <= 0 /\ leader'.term = leader.term + 1
                        /\ leader'.term >= leader.term
      OBVIOUS
    <2>1. CASE \E n \in Node, lag \in Lags : Elect(n, lag)
      BY <2>1, ElectLeader DEF Elect
    <2>2. CASE ~\E n \in Node, lag \in Lags : Elect(n, lag)
      <3>1. leader.term \in Int
        BY ClusterAssumption DEF IndInv, TypeOK
      <3> QED  BY <2>2, <3>1, OtherSteps
    <2> QED  BY <2>1, <2>2
  <1> QED
    BY <1>1, Invariance, PTL DEF Spec, NoPreemption

=============================================================================
