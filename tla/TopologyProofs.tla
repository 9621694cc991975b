---------------------------- MODULE TopologyProofs ----------------------------
(***************************************************************************)
(* Proofs about the topology manager, for any number of nodes, requests,   *)
(* redirections and changes of the cluster: the entry points follow the    *)
(* snapshot, no trigger is lost, and the pools of removed nodes go.        *)
(***************************************************************************)
EXTENDS Topology, TLAPS

ViewType == [nodes : SUBSET Nodes, owner : Nodes \cup {None}]

Types ==
    /\ members \subseteq Nodes /\ owner \in Nodes
    /\ view \in [Nodes -> ViewType]
    /\ snap \in ViewType

\* A node lists itself, so that no snapshot that was read is empty.
SelfListed ==
    /\ \A n \in Nodes : n \in view[n].nodes
    /\ snap # NoSnap => snap.nodes # {}
    /\ loop = "changed" => snap # NoSnap

\* The entry points lag behind the snapshot only while onTopologyChanged runs.
EntryPointsInv ==
    /\ entryPoints # {}
    /\ loop # "changed" /\ snap # NoSnap => entryPoints = snap.nodes

\* A pool that was made for a node of the snapshot is of a node that still is in
\* it, or that the hook has yet to be called for.
PoolsInv ==
    IF loop = "changed" THEN pools \ late \subseteq snap.nodes \cup removed
    ELSE pools \ late \subseteq snap.nodes

IInv == Types /\ SelfListed /\ EntryPointsInv /\ PoolsInv /\ TriggerNotLost

\* The invariant holds as the manager starts.
LEMMA InitIInv == Init => IInv
<1> SUFFICES ASSUME Init PROVE IInv
  OBVIOUS
<1>1. Types
  BY TopologyAssumption DEF Init, Types, ViewType, NoSnap
<1>2. SelfListed
  BY DEF Init, SelfListed
<1>3. EntryPointsInv /\ PoolsInv /\ TriggerNotLost
  BY TopologyAssumption DEF Init, EntryPointsInv, PoolsInv, TriggerNotLost
<1> QED BY <1>1, <1>2, <1>3 DEF IInv

\* What parseClusterNodes makes of a node's report is of the type of a report,
\* and lists the same nodes.
LEMMA ParsedView ==
    ASSUME NEW v \in ViewType
    PROVE  ParseClusterNodes(v) \in ViewType /\ ParseClusterNodes(v).nodes = v.nodes
  BY DEF ViewType, ParseClusterNodes

\* The refresh loop keeps the invariant.
LEMMA RefreshIInv == ASSUME IInv, Refresh PROVE IInv'
<1> USE DEF IInv
<1>1. ASSUME NEW trigger \in BOOLEAN, Begin(trigger) PROVE IInv'
  BY <1>1 DEF Begin, cluster, Types, SelfListed, EntryPointsInv, PoolsInv, TriggerNotLost
<1>2. ASSUME NEW ep \in Nodes, RefreshFrom(ep) PROVE IInv'
  <2> DEFINE next == ParseClusterNodes(view[ep])
  <2>1. next \in ViewType /\ next.nodes = view[ep].nodes /\ ep \in next.nodes
    BY ParsedView DEF Types, SelfListed
  <2>2. /\ loop = "try" /\ snap' = next
        /\ \/ next = snap /\ loop' = "idle" /\ removed' = removed
           \/ loop' = "changed" /\ removed' = snap.nodes \ next.nodes
        /\ UNCHANGED <<members, owner, view, entryPoints, refreshCh, pools, owes, late>>
    BY <1>2 DEF RefreshFrom, Turn, TopoFingerprint, cluster
  <2>3. next # NoSnap
    BY <2>1 DEF NoSnap
  <2> HIDE DEF next
  <2>4. Types' /\ SelfListed' /\ TriggerNotLost'
    BY <2>1, <2>2, <2>3 DEF Types, SelfListed, TriggerNotLost
  <2>5. EntryPointsInv'
    BY <2>2, <2>3 DEF EntryPointsInv
  <2>6. PoolsInv'
    BY <2>2 DEF PoolsInv
  <2> QED BY <2>4, <2>5, <2>6
<1>3. ASSUME NEW ep \in Nodes, RefreshFail(ep) PROVE IInv'
  BY <1>3 DEF RefreshFail, Turn, cluster, Types, SelfListed, EntryPointsInv, PoolsInv,
              TriggerNotLost
<1>4. ASSUME NEW a \in Nodes, Hook(a) PROVE IInv'
  BY <1>4 DEF Hook, cluster, Types, SelfListed, EntryPointsInv, PoolsInv, TriggerNotLost
<1>5. CASE SetEntryPoints
  BY <1>5 DEF SetEntryPoints, cluster, Types, SelfListed, EntryPointsInv, PoolsInv,
              TriggerNotLost
<1> QED BY <1>1, <1>2, <1>3, <1>4, <1>5 DEF Refresh

\* The requests of the router keep it.
LEMMA RequestIInv ==
    ASSUME IInv, NEW r \in Requests, Route(r) \/ GetPool(r) \/ Executed(r) \/ Moved(r)
    PROVE  IInv'
<1> USE DEF IInv, Types, SelfListed, EntryPointsInv, PoolsInv, TriggerNotLost
<1>1. CASE Route(r)
  BY <1>1 DEF Route, cluster, manager
<1>2. CASE GetPool(r)
  BY <1>2 DEF GetPool, cluster, manager
<1>3. CASE Executed(r)
  BY <1>3 DEF Executed, cluster, manager
<1>4. CASE Moved(r)
  BY <1>4 DEF Moved, cluster, manager
<1> QED BY <1>1, <1>2, <1>3, <1>4

\* So do the changes of the cluster, which only touch what the nodes report.
LEMMA ClusterIInv == ASSUME IInv, Cluster PROVE IInv'
<1>1. UNCHANGED <<entryPoints, snap, refreshCh, loop, removed, pools, owes, late>>
  BY DEF Cluster, Reshard, Crash, Detect, Restart, Leave, Gossip, Others, manager
<1>2. EntryPointsInv' /\ PoolsInv' /\ TriggerNotLost'
  BY <1>1 DEF IInv, EntryPointsInv, PoolsInv, TriggerNotLost
<1> USE DEF IInv, Types, SelfListed, ViewType
<1>3. ASSUME NEW n \in Nodes, Reshard(n) PROVE Types' /\ SelfListed'
  BY <1>1, <1>3 DEF Reshard
<1>4. ASSUME NEW n \in Nodes, Crash(n) \/ Detect(n) \/ Restart(n) PROVE Types' /\ SelfListed'
  BY <1>1, <1>4 DEF Crash, Detect, Restart
<1>5. ASSUME NEW n \in Nodes, Leave(n) PROVE Types' /\ SelfListed'
  BY <1>1, <1>5 DEF Leave
<1>6. ASSUME NEW n \in Nodes, Gossip(n) PROVE Types' /\ SelfListed'
  BY <1>1, <1>6 DEF Gossip
<1> QED BY <1>2, <1>3, <1>4, <1>5, <1>6 DEF Cluster

\* The manager's invariant, of every behaviour.
THEOREM TopologyInvariance == Spec => []IInv
<1>1. IInv /\ [Next]_vars => IInv'
  <2> SUFFICES ASSUME IInv, [Next]_vars PROVE IInv'
    OBVIOUS
  <2>1. CASE UNCHANGED vars
    BY <2>1 DEF vars, cluster, manager, IInv, Types, SelfListed, EntryPointsInv, PoolsInv,
                TriggerNotLost
  <2> QED BY <2>1, RefreshIInv, RequestIInv, ClusterIInv DEF Next
<1> QED BY <1>1, InitIInv, PTL DEF Spec

\* The manager always has an entry point to ask, and between refreshes its entry
\* points are the nodes of the snapshot (onTopologyChanged).
THEOREM EntryPointsKept == Spec => []EntryPointsFollow
<1>1. IInv => EntryPointsFollow
  BY DEF IInv, EntryPointsInv, EntryPointsFollow
<1> QED BY <1>1, TopologyInvariance, PTL

\* A TriggerRefresh leaves a token until a refresh has begun after it.
THEOREM TriggersKept == Spec => []TriggerNotLost
<1>1. IInv => TriggerNotLost
  BY DEF IInv
<1> QED BY <1>1, TopologyInvariance, PTL

\* Between refreshes there is no pool of a node that left the snapshot, except
\* one made after it had left (nodeRemovedHook, GetPool).
THEOREM PoolsGone == Spec => []PoolsRemoved
<1>1. IInv => PoolsRemoved
  BY DEF IInv, PoolsInv, PoolsRemoved
<1> QED BY <1>1, TopologyInvariance, PTL
===============================================================================
