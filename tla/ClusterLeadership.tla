------------------------- MODULE ClusterLeadership -------------------------
(***************************************************************************)
(* Membership and leader election of the multi-node runtime: the cluster   *)
(* database of src/src/aios/cluster_runtime/state.py and the heartbeat and *)
(* shutdown threads of src/src/aios/cluster_runtime/node.py that use it.   *)
(* Each store operation is one transaction.  What the same loop does to    *)
(* the execution fabric (heartbeat_worker, expire_stale_workers,           *)
(* recover_expired_leases) are operations of ExecutionFabricStore, where   *)
(* any client may call them at any time; they touch no variable here.      *)
(*                                                                         *)
(* Time is relative as in ExecutionFabricStore: rows keep ages and         *)
(* countdowns, and lag is how old an operation's timestamp is when its     *)
(* transaction runs.                                                       *)
(***************************************************************************)
EXTENDS Integers, FiniteSets

CONSTANTS
    Node, NoNode,
    LeaseSeconds, HeartbeatTimeout,
    Marks,         \* the states other clients mark nodes with
    MaxLag,        \* bound: the longest wait for the write lock
    MaxTerm,       \* bound: leader terms
    MaxStarts      \* bound: starts of node processes in a behaviour

ASSUME ClusterAssumption ==
    /\ NoNode \notin Node
    /\ LeaseSeconds \in Nat \ {0}
    /\ HeartbeatTimeout \in Nat \ {0}
    /\ Marks \subseteq {"DRAINING", "FAILED"}
    /\ MaxLag \in Nat /\ MaxTerm \in Nat \ {0} /\ MaxStarts \in Nat

VARIABLES
    nodes,      \* [Node -> [state, heartbeat_age]]: table cluster_nodes
    leader,     \* [node, term, expires_in]: the row of cluster_leader
    history,    \* [term -> the nodes cluster_leader_history names for it]
    process,    \* [Node -> [up, stop, pc, elected]]: the node processes
    inflight,   \* the nodes with a heartbeat request under way to a peer
    starts      \* starts so far

vars == <<nodes, leader, history, process, inflight, starts>>

NodeState == {"absent", "ONLINE", "DRAINING", "OFFLINE", "FAILED"}
Term == 1..MaxTerm
Lags == 0..MaxLag

(***************************************************************************)
(* pc is where the heartbeat loop is: "test" reads _stop; the store calls  *)
(* follow one another; elected is the term under which the node does the   *)
(* leader's maintenance, 0 when it does none.  stop is how far stop() has  *)
(* got: "no", "set" (the event is set), "marked" (the row is OFFLINE).     *)
(***************************************************************************)
Process == [up : BOOLEAN, stop : {"no", "set", "marked"},
            pc : {"test", "heartbeat", "elect", "maintain"},
            elected : 0..MaxTerm]

NoProcess == [up |-> FALSE, stop |-> "no", pc |-> "test", elected |-> 0]

Init ==
    /\ nodes = [n \in Node |-> [state |-> "absent", heartbeat_age |-> 0]]
    /\ leader = [node |-> NoNode, term |-> 0, expires_in |-> 0]
    /\ history = [k \in Term |-> {}]
    /\ process = [n \in Node |-> NoProcess]
    /\ inflight = {}
    /\ starts = 0

-----------------------------------------------------------------------------
(* The cluster database (state.py). *)

register_node(n, lag) ==
    nodes' = [nodes EXCEPT ![n] = [state |-> "ONLINE", heartbeat_age |-> lag]]

StateAfterHeartbeat(n) ==
    IF nodes[n].state \in {"DRAINING", "FAILED"} THEN nodes[n].state ELSE "ONLINE"

heartbeat_node(n, lag) ==
    /\ nodes[n].state # "absent"
    /\ nodes' = [nodes EXCEPT ![n] =
          [state |-> StateAfterHeartbeat(n), heartbeat_age |-> lag]]

set_node_state(n, state, lag) ==
    /\ nodes[n].state # "absent"
    /\ nodes' = [nodes EXCEPT ![n] = [state |-> state, heartbeat_age |-> lag]]

StaleNode_NeverOnline(n, lag) == FALSE                              \* mutant

StaleNode(n, lag) ==
    nodes[n].state = "ONLINE" /\ nodes[n].heartbeat_age - lag > HeartbeatTimeout

expire_stale_nodes(lag) ==
    nodes' = [n \in Node |->
        IF StaleNode(n, lag) THEN [nodes[n] EXCEPT !.state = "OFFLINE"] ELSE nodes[n]]

(* elect_or_renew_leader, alternative by alternative.  A node renews its   *)
(* own lease even after it has expired, and then keeps its term.           *)
Lease(n, term, lag) == [node |-> n, term |-> term, expires_in |-> LeaseSeconds - lag]

LapsedLease_Always(lag) == TRUE                                     \* mutant

LapsedLease(lag) == leader.expires_in <= -lag

Elected(n, lag) ==
    /\ leader.node = NoNode
    /\ leader' = Lease(n, 1, lag)
    /\ history' = [history EXCEPT ![1] = @ \cup {n}]

Renewed(n, lag) ==
    /\ leader.node = n
    /\ leader' = Lease(n, leader.term, lag)
    /\ UNCHANGED history

FailedOver_KeepsTerm(n, lag) ==                                     \* mutant
    /\ leader.node \notin {NoNode, n} /\ LapsedLease(lag)
    /\ leader' = Lease(n, leader.term, lag)
    /\ history' = [history EXCEPT ![leader.term] = @ \cup {n}]

FailedOver_KeepsNode(n, lag) ==                                     \* mutant
    /\ leader.node \notin {NoNode, n} /\ LapsedLease(lag)
    /\ leader.term < MaxTerm
    /\ leader' = Lease(leader.node, leader.term + 1, lag)
    /\ history' = [history EXCEPT ![leader.term + 1] = @ \cup {n}]

FailedOver(n, lag) ==
    /\ leader.node \notin {NoNode, n} /\ LapsedLease(lag)
    /\ leader.term < MaxTerm
    /\ leader' = Lease(n, leader.term + 1, lag)
    /\ history' = [history EXCEPT ![leader.term + 1] = @ \cup {n}]

OtherLeads(n, lag) ==
    /\ leader.node \notin {NoNode, n} /\ ~LapsedLease(lag)
    /\ UNCHANGED <<leader, history>>

elect_or_renew_leader(n, lag) ==
    /\ nodes[n].state = "ONLINE"
    /\ \/ Elected(n, lag) \/ Renewed(n, lag) \/ FailedOver(n, lag) \/ OtherLeads(n, lag)

-----------------------------------------------------------------------------
(* A node's process (node.py). *)

Goes(n, pc) == process' = [process EXCEPT ![n].pc = pc]
Reaches(n, pc) == process[n].up /\ process[n].pc = pc

Start(n, lag) ==
    /\ ~process[n].up /\ starts < MaxStarts
    /\ register_node(n, lag)
    /\ process' = [process EXCEPT ![n] = [NoProcess EXCEPT !.up = TRUE]]
    /\ starts' = starts + 1
    /\ UNCHANGED <<leader, history, inflight>>

(* while not self._stop.is_set() *)
TestStop(n) ==
    /\ Reaches(n, "test") /\ process[n].stop = "no"
    /\ Goes(n, "heartbeat")
    /\ UNCHANGED <<nodes, leader, history, inflight, starts>>

Heartbeat(n, lag) ==
    /\ Reaches(n, "heartbeat")
    /\ heartbeat_node(n, lag)
    /\ Goes(n, "elect")
    /\ UNCHANGED <<leader, history, inflight, starts>>

Elect(n, lag) ==
    /\ Reaches(n, "elect")
    /\ elect_or_renew_leader(n, lag)
    /\ process' = [process EXCEPT
          ![n].pc = IF leader'.node = n THEN "maintain" ELSE "test",
          ![n].elected = IF leader'.node = n THEN leader'.term ELSE 0]
    /\ UNCHANGED <<nodes, inflight, starts>>

(* the election raises: the exception is logged and the loop goes on       *)
ElectRaises(n) ==
    /\ Reaches(n, "elect") /\ nodes[n].state # "ONLINE"
    /\ Goes(n, "test")
    /\ UNCHANGED <<nodes, leader, history, inflight, starts>>

Maintain_StaysElected(n, lag) ==                                    \* mutant
    /\ Reaches(n, "maintain")
    /\ expire_stale_nodes(lag)
    /\ Goes(n, "test")
    /\ UNCHANGED <<leader, history, inflight, starts>>

Maintain(n, lag) ==
    /\ Reaches(n, "maintain")
    /\ expire_stale_nodes(lag)
    /\ process' = [process EXCEPT ![n].pc = "test", ![n].elected = 0]
    /\ UNCHANGED <<leader, history, inflight, starts>>

(* _discovery_loop posts a heartbeat to a peer, which records it in the    *)
(* same database; the request may be slow, and outlive its sender.         *)
SendHeartbeat(n) ==
    /\ process[n].up /\ process[n].stop = "no" /\ n \notin inflight
    /\ inflight' = inflight \cup {n}
    /\ UNCHANGED <<nodes, leader, history, process, starts>>

receive_peer_heartbeat(n, lag) ==
    /\ n \in inflight
    /\ \E peer \in Node \ {n} : process[peer].up
    /\ IF nodes[n].state = "absent" THEN register_node(n, lag) ELSE heartbeat_node(n, lag)
    /\ inflight' = inflight \ {n}
    /\ UNCHANGED <<leader, history, process, starts>>

LoseHeartbeat(n) ==
    /\ n \in inflight
    /\ inflight' = inflight \ {n}
    /\ UNCHANGED <<nodes, leader, history, process, starts>>

(* stop(): the other threads go on until the process exits                 *)
Stop(n) ==
    /\ process[n].up /\ process[n].stop = "no"
    /\ process' = [process EXCEPT ![n].stop = "set"]
    /\ UNCHANGED <<nodes, leader, history, inflight, starts>>

MarkOffline(n, lag) ==
    /\ process[n].up /\ process[n].stop = "set"
    /\ set_node_state(n, "OFFLINE", lag)
    /\ process' = [process EXCEPT ![n].stop = "marked"]
    /\ UNCHANGED <<leader, history, inflight, starts>>

Gone(n) == [process EXCEPT ![n] = NoProcess]

Exit(n) ==
    /\ process[n].up /\ process[n].stop = "marked"
    /\ process' = Gone(n)
    /\ UNCHANGED <<nodes, leader, history, inflight, starts>>

Crash(n) ==
    /\ process[n].up
    /\ process' = Gone(n)
    /\ UNCHANGED <<nodes, leader, history, inflight, starts>>

(* another client of the database marks a node, as the project cycle's     *)
(* tests do to take one out of service                                     *)
SetState(n, state) ==
    /\ \E lag \in Lags : set_node_state(n, state, lag)
    /\ UNCHANGED <<leader, history, process, inflight, starts>>

(* One second passes; clocks stop where no comparison can tell them apart. *)
Tick ==
    /\ nodes' = [n \in Node |->
          [nodes[n] EXCEPT !.heartbeat_age =
              IF nodes[n].state # "absent" /\ @ <= HeartbeatTimeout + MaxLag
              THEN @ + 1 ELSE @]]
    /\ leader' = [leader EXCEPT !.expires_in =
          IF leader.node # NoNode /\ @ > -MaxLag THEN @ - 1 ELSE @]
    /\ UNCHANGED <<history, process, inflight, starts>>

LoopStep(n) ==
    \/ TestStop(n) \/ ElectRaises(n)
    \/ \E lag \in Lags : Heartbeat(n, lag) \/ Elect(n, lag) \/ Maintain(n, lag)

Shutdown(n) == Exit(n) \/ \E lag \in Lags : MarkOffline(n, lag)

Next ==
    \/ \E n \in Node :
          \/ LoopStep(n) \/ Shutdown(n) \/ Stop(n) \/ Crash(n)
          \/ SendHeartbeat(n) \/ LoseHeartbeat(n)
          \/ \E lag \in Lags : Start(n, lag) \/ receive_peer_heartbeat(n, lag)
          \/ \E s \in Marks : SetState(n, s)
    \/ Tick

(* The loops and shutdowns go on until the process has gone, and time      *)
(* passes.  Nodes need not start, stop, or get their requests through.     *)
Fairness ==
    /\ \A n \in Node : WF_vars(LoopStep(n)) /\ WF_vars(Shutdown(n))
    /\ WF_vars(Tick)

Spec == Init /\ [][Next]_vars /\ Fairness

-----------------------------------------------------------------------------
(* Properties. *)

TypeOK ==
    /\ nodes \in [Node -> [state : NodeState,
                          heartbeat_age : 0..(HeartbeatTimeout + MaxLag + 1)]]
    /\ leader \in [node : Node \cup {NoNode}, term : 0..MaxTerm,
                   expires_in : -MaxLag..LeaseSeconds]
    /\ history \in [Term -> SUBSET Node]
    /\ process \in [Node -> Process]
    /\ \A n \in Node : process[n].elected > 0 <=> Reaches(n, "maintain")
    /\ starts \in 0..MaxStarts
    /\ inflight \subseteq Node

(* "leader leases and monotonically increasing leader terms" (phase 24A):  *)
(* every term up to the current one was given to exactly one node, none    *)
(* beyond it, and a node that acts as leader acts for a term of its own.   *)
OneLeaderPerTerm ==
    /\ \A k \in Term : Cardinality(history[k]) = IF k <= leader.term THEN 1 ELSE 0
    /\ leader.term > 0 => leader.node \in history[leader.term]
    /\ \A n \in Node : process[n].elected > 0 => n \in history[process[n].elected]

(* "leader renewal, non-preemption, and failover term changes" (phase      *)
(* 24A): a lease in force is never taken over, and the leader changes only *)
(* together with the term.                                                 *)
NoPreemption ==
    [][/\ leader'.node # leader.node /\ leader.node # NoNode =>
             leader.expires_in <= 0 /\ leader'.term = leader.term + 1
       /\ leader'.term >= leader.term]_vars

(* n has gone while m serves: m is neither stopping, marked nor expired.   *)
Outlives(m, n) ==
    /\ ~process[n].up
    /\ process[m].up /\ process[m].stop = "no" /\ nodes[m].state = "ONLINE"

(* the bound on terms leaves m a term to lead under *)
MayLead(m) == leader.node = m \/ leader.term < MaxTerm

(* A leader whose process has gone for good is replaced as long as another *)
(* node serves on: its lease runs out and an election takes it over.       *)
LeaderIsReplaced ==
    \A n, m \in Node : n # m =>
        [](leader.node = n /\ MayLead(m) /\ []Outlives(m, n) => <>(leader.node # n))

(* A node that is gone for good ends up OFFLINE as long as another serves  *)
(* on, although delayed peer heartbeats and its own last loop may have put *)
(* it back to ONLINE.                                                      *)
GoneNodesExpire ==
    \A n, m \in Node : n # m =>
        [](MayLead(m) /\ []Outlives(m, n) => <>(nodes[n].state # "ONLINE"))
=============================================================================
