------------------------------- MODULE Topology -------------------------------
(***************************************************************************)
(* The topology manager of pkg/cluster/topology.go: the refresh loop, the  *)
(* snapshot it publishes, the entry points it asks next time and the hook  *)
(* that removes the pools of nodes that are gone (pkg/server/server.go);   *)
(* beside it the router's requests, which read the snapshot, make pools    *)
(* and, when they are redirected, trigger a refresh.                       *)
(*                                                                         *)
(* The cluster is external.  It has one slot; each node reports the nodes  *)
(* and the owner it knows of, which is what CLUSTER NODES parses to.       *)
(***************************************************************************)
EXTENDS Integers, FiniteSets

CONSTANTS Nodes,       \* their addresses, as numbers: sort.Strings orders them
          Members,     \* the nodes of the cluster at the start
          Seeds,       \* cfg.EntryPoints
          Requests,    \* goroutines of the router
          MaxRedirects,
          Changes,     \* what happens to the cluster
          MaxChange,   \* how often
          None

ASSUME TopologyAssumption ==
    /\ Nodes \subseteq Nat /\ Members \subseteq Nodes /\ Seeds \subseteq Members /\ Seeds # {} /\ None \notin Nodes
    /\ Changes \subseteq {"reshard", "crash", "leave"}
    /\ MaxRedirects \in Nat /\ MaxChange \in Nat

VARIABLES members, owner, alive, failed, \* the cluster
          view,        \* per node, what it reports: [nodes, owner]
          changes,     \* changes so far
          entryPoints, \* m.entryPoints
          snap,        \* m.topo.snap: [nodes, owner]
          refreshCh,   \* whether a token is in m.refreshCh
          loop,        \* where refreshLoop is
          todo,        \* entry points the refresh has not tried
          removed,     \* the nodes the hook is called for
          pools,       \* nodes the registries hold a pool for
          req,         \* per request: [at, addr, n]
          owes,        \* TriggerRefresh was called, and no refresh begun since
          late         \* pools made for a node that was not in the snapshot

cluster == <<members, owner, alive, failed, view, changes>>
manager == <<entryPoints, snap, refreshCh, loop, todo, removed>>
vars == <<cluster, manager, pools, req, owes, late>>

NoSnap == [nodes |-> {}, owner |-> None]

Idle == [at |-> "idle", addr |-> None, n |-> 0]

\* The first refresh is the one of Start.
Init ==
    /\ members = Members /\ owner \in Members
    /\ alive = Nodes /\ failed = {} /\ changes = 0
    /\ view = [n \in Nodes |-> [nodes |-> Members \cup {n}, owner |-> owner]]
    /\ entryPoints = Seeds /\ snap = NoSnap /\ refreshCh = FALSE
    /\ loop = "try" /\ todo = Seeds /\ removed = {}
    /\ pools = {} /\ owes = FALSE /\ late = {}
    /\ req = [r \in Requests |-> Idle]

------------------------------------------------------------------------------
\* refreshLoop.

\* The ticker fires, or the token is taken.
Begin(trigger) ==
    /\ loop = "idle"
    /\ trigger => refreshCh
    /\ refreshCh' = IF trigger THEN FALSE ELSE refreshCh
    /\ loop' = "try" /\ todo' = entryPoints /\ owes' = FALSE
    /\ UNCHANGED <<cluster, entryPoints, snap, removed, pools, req, late>>

\* parseClusterNodes: the slots of a node that is left out have no owner.
ParseClusterNodes(v) ==
    [nodes |-> v.nodes, owner |-> IF v.owner \in v.nodes THEN v.owner ELSE None]

\* Mutated form: only the slots are compared.
TopoFingerprint_Owner(s) == s.owner

\* topoFingerprint: addresses, roles and slots.
TopoFingerprint(s) == s

\* refresh tries the entry points in their order, which is sorted (the seeds are
\* taken to be).
Turn(ep) == loop = "try" /\ ep \in todo /\ \A e \in todo : ep <= e

\* Mutated form: the snapshot is only replaced when the nodes are others.
RefreshFrom_SameNodes(ep) ==
    LET next == ParseClusterNodes(view[ep]) IN
    /\ Turn(ep) /\ ep \in alive
    /\ IF next.nodes = snap.nodes
       THEN loop' = "idle" /\ UNCHANGED <<snap, removed>>
       ELSE snap' = next /\ loop' = "changed" /\ removed' = snap.nodes \ next.nodes
    /\ todo' = {}
    /\ UNCHANGED <<cluster, entryPoints, refreshCh, pools, req, owes, late>>

\* refreshFrom an entry point that answers: Update, and onTopologyChanged up to
\* the hook if the fingerprint changed.
RefreshFrom(ep) ==
    LET next == ParseClusterNodes(view[ep]) IN
    /\ Turn(ep) /\ ep \in alive
    /\ snap' = next
    /\ IF TopoFingerprint(next) = TopoFingerprint(snap)
       THEN loop' = "idle" /\ UNCHANGED removed
       ELSE loop' = "changed" /\ removed' = snap.nodes \ next.nodes
    /\ todo' = {}
    /\ UNCHANGED <<cluster, entryPoints, refreshCh, pools, req, owes, late>>

\* refreshFrom an entry point that does not answer.
RefreshFail(ep) ==
    /\ Turn(ep) /\ ep \notin alive
    /\ todo' = todo \ {ep}
    /\ loop' = IF todo' = {} THEN "idle" ELSE "try"
    /\ UNCHANGED <<cluster, entryPoints, snap, refreshCh, removed, pools, req, owes, late>>

\* Mutated form: the pools stay.
Hook_None(a) ==
    /\ loop = "changed" /\ a \in removed
    /\ removed' = removed \ {a}
    /\ UNCHANGED <<cluster, entryPoints, snap, refreshCh, loop, todo, pools, req, owes, late>>

\* nodeRemovedHook: RemovePool of both registries, one node after the other.
Hook(a) ==
    /\ loop = "changed" /\ a \in removed
    /\ removed' = removed \ {a}
    /\ pools' = pools \ {a}
    /\ late' = late \ {a}
    /\ UNCHANGED <<cluster, entryPoints, snap, refreshCh, loop, todo, req, owes>>

\* Mutated form: what was triggered during the refresh is dropped.
SetEntryPoints_Drained ==
    /\ loop = "changed" /\ removed = {}
    /\ entryPoints' = snap.nodes
    /\ loop' = "idle"
    /\ refreshCh' = FALSE
    /\ UNCHANGED <<cluster, snap, todo, removed, pools, req, owes, late>>

\* The end of onTopologyChanged.
SetEntryPoints ==
    /\ loop = "changed" /\ removed = {}
    /\ entryPoints' = snap.nodes
    /\ loop' = "idle"
    /\ UNCHANGED <<cluster, snap, refreshCh, todo, removed, pools, req, owes, late>>

Refresh ==
    \/ \E trigger \in BOOLEAN : Begin(trigger)
    \/ \E n \in Nodes : RefreshFrom(n) \/ RefreshFail(n) \/ Hook(n)
    \/ SetEntryPoints

------------------------------------------------------------------------------
\* Requests.

\* nodeAddrForSlot; without an owner the request fails.
Route(r) ==
    /\ req[r].at = "idle" /\ snap.owner # None
    /\ req' = [req EXCEPT ![r] = [at |-> "pool", addr |-> snap.owner, n |-> 0]]
    /\ UNCHANGED <<cluster, manager, pools, owes, late>>

\* GetPool of the node that was looked up
GetPool(r) ==
    LET a == req[r].addr IN
    /\ req[r].at = "pool"
    /\ pools' = pools \cup {a}
    /\ late' = IF a \in pools \cup snap.nodes THEN late ELSE late \cup {a}
    /\ req' = [req EXCEPT ![r].at = "exec"]
    /\ UNCHANGED <<cluster, manager, owes>>

\* The node answers, or nothing does.
Executed(r) ==
    /\ req[r].at = "exec"
    /\ \/ req[r].addr \notin alive
       \/ view[req[r].addr].owner \in {req[r].addr, None}
    /\ req' = [req EXCEPT ![r] = Idle]
    /\ UNCHANGED <<cluster, manager, pools, owes, late>>

\* executeRedirect on MOVED: TriggerRefresh, then the node that was named, or an
\* error when there were MaxRedirects already.
Moved(r) ==
    LET a == req[r].addr IN
    /\ req[r].at = "exec" /\ a \in alive
    /\ view[a].owner \notin {a, None}
    /\ refreshCh' = TRUE
    /\ owes' = TRUE
    /\ req' = [req EXCEPT ![r] = IF @.n = MaxRedirects THEN Idle
                                 ELSE [at |-> "pool", addr |-> view[a].owner, n |-> @.n + 1]]
    /\ UNCHANGED <<cluster, entryPoints, snap, loop, todo, removed, pools, late>>

------------------------------------------------------------------------------
\* The cluster.

Change(kind) == kind \in Changes /\ changes < MaxChange /\ changes' = changes + 1

Others == <<manager, pools, req, owes, late>>

\* The slot moves to another node, which knows at once.
Reshard(n) ==
    /\ Change("reshard") /\ n \in (members \cap alive) \ {owner}
    /\ owner' = n
    /\ view' = [view EXCEPT ![n].owner = n]
    /\ UNCHANGED <<members, alive, failed, Others>>

Crash(n) ==
    /\ Change("crash") /\ n \in members \cap alive
    /\ alive' = alive \ {n}
    /\ UNCHANGED <<members, owner, failed, view, Others>>

\* The others agree that a node has failed.
Detect(n) ==
    /\ n \notin alive \cup failed
    /\ failed' = failed \cup {n}
    /\ UNCHANGED <<members, owner, alive, view, changes, Others>>

\* It comes back with the configuration it had.
Restart(n) ==
    /\ n \notin alive
    /\ alive' = alive \cup {n}
    /\ failed' = failed \ {n}
    /\ UNCHANGED <<members, owner, view, changes, Others>>

\* A node without slots is reset and forgotten; it stays up, by itself.
Leave(n) ==
    /\ Change("leave") /\ n \in (members \cap alive) \ {owner} /\ Cardinality(members) > 2
    /\ members' = members \ {n}
    /\ view' = [view EXCEPT ![n] = [nodes |-> {n}, owner |-> None]]
    /\ UNCHANGED <<owner, alive, failed, Others>>

\* The node hears of the current configuration.
Gossip(n) ==
    LET now == [nodes |-> (members \ failed) \cup {n}, owner |-> owner] IN
    /\ n \in members \cap alive /\ view[n] # now
    /\ view' = [view EXCEPT ![n] = now]
    /\ UNCHANGED <<members, owner, alive, failed, changes, Others>>

Cluster == \E n \in Nodes : Reshard(n) \/ Crash(n) \/ Detect(n) \/ Restart(n) \/ Leave(n) \/ Gossip(n)

------------------------------------------------------------------------------
Next ==
    \/ Refresh
    \/ \E r \in Requests : Route(r) \/ GetPool(r) \/ Executed(r) \/ Moved(r)
    \/ Cluster

\* The refresh loop runs and its ticker fires; nodes gossip and come back, and one
\* that accepted a connection answers or drops it (the read has no deadline).
Fairness ==
    /\ WF_vars(Refresh)
    /\ \A n \in Nodes : WF_vars(Restart(n)) /\ WF_vars(Gossip(n))

Spec == Init /\ [][Next]_vars /\ Fairness

------------------------------------------------------------------------------
\* Properties.

\* The manager never runs out of entry points, and between refreshes they are the
\* nodes of the snapshot that was published, although onTopologyChanged only runs
\* when the fingerprint differs.
EntryPointsFollow ==
    /\ entryPoints # {}
    /\ loop = "idle" /\ snap # NoSnap => entryPoints = snap.nodes

\* A TriggerRefresh is never lost: until a refresh has begun after it there is a
\* token, however it falls into a running refresh or onto another trigger.
TriggerNotLost == owes => refreshCh

\* Between refreshes the registries have no pool of a node that has left the
\* snapshot, except one that a request made after the node had left.
PoolsRemoved == loop = "idle" => pools \ late \subseteq snap.nodes

\* Once the cluster no longer changes, the proxy comes to know the owner of the
\* slot and stays with it, provided that no node has left: one that was reset
\* and is still asked lists itself alone, and becomes the only entry point.
Converges == [](members = Members) => <>[](snap.owner = owner)
===============================================================================
