-------------------------------- MODULE Router --------------------------------
(***************************************************************************)
(* One call of Router.Execute or ExecScript (pkg/router/router.go), or a   *)
(* client's whole SCAN loop, while the cluster changes underneath.         *)
(*                                                                         *)
(* The call is split into sub-requests, one per slot of its keys or one    *)
(* per master, each run by a goroutine that follows MOVED and ASK; when    *)
(* all are done their results are merged.  Slots migrate key by key and    *)
(* masters join or leave the topology between any two steps.               *)
(*                                                                         *)
(* A value is [t, x]: its kind and, as a sequence, what it holds.  "err"   *)
(* is a Go error, "error" an error reply of a node.                        *)
(***************************************************************************)
EXTENDS HashTags, SequencesExt

CONSTANTS Nodes,        \* addresses, as numbers: their order is the order of masters
          Jobs,         \* the calls: [cmd, keys, len]; len is, per node, how many SCAN
                        \* calls go through its keys
          Existing,     \* the keys that exist at first
          Crc(_),       \* CRC16 % ClusterSlots of a sequence of characters
          Slots, Layouts, \* slots, and who may serve them at first
          MaxRedirects,
          MaxRetry,     \* pipeRetryMax
          IdxBits, Bits,  \* scanNodeIndexBits, and the width of a cursor
          MaxEvents     \* bound: failed attempts, errors of nodes and changes of the cluster

Keyed == {"GET", "MGET", "MSET", "MSETNX", "DEL", "EXISTS", "EVAL", "SINTER"}
AllMasters == {"DBSIZE", "KEYS", "FLUSHALL", "SCRIPT LOAD", "SCRIPT EXISTS",
               "CONFIG GET", "CONFIG SET", "BROADCAST"}

ASSUME RouterAssumption ==
    /\ Nodes \subseteq Nat \ {0} /\ Nodes # {}
    /\ \A j \in Jobs : j.cmd \in Keyed \cup AllMasters \cup {"PING", "SCAN"}
    /\ \A k \in Existing : Crc(k) \in Slots
    /\ Layouts \subseteq [Slots -> Nodes]
    /\ MaxRedirects \in Nat /\ MaxRetry \in Nat /\ MaxEvents \in Nat
    /\ IdxBits \in Nat /\ Bits \in Nat /\ IdxBits < Bits
    /\ Cardinality(Nodes) <= 2^IdxBits

VARIABLES job,
          owner, importing,   \* the cluster: who serves a slot, who it moves to (0: nobody)
          home,               \* the node a key is stored at (0: it does not exist)
          did,                \* nodes that carried the command of an all-masters call out
          view, up,           \* the topology: owner of each slot, the masters
          subs, list,         \* sub-requests of the call; the masters it saw
          reply,
          cursor, scanned,    \* the client's cursor; per node the positions scanned
          events,             \* counts faults and changes of the cluster
          resent,             \* history: an attempt failed after the node had done it
          start, left         \* history: the masters as the call began; one left since

cluster == <<owner, importing, home, did>>
call == <<subs, list, reply, cursor, scanned>>
vars == <<job, cluster, view, up, call, events, resent, start, left>>

Val(t, x) == [t |-> t, x |-> x]
None == Val("none", <<>>)
Ok == Val("ok", <<>>)
Err == Val("err", <<>>)
Error == Val("error", <<>>)
Nil == <<"nil">>
Failed(v) == v.t \in {"err", "error"}

HashSlot(key) == Crc(Hashed(key))
ClusterSlot(key) == Crc(ClusterHashed(key))

\* AllMasters: Update sorts them by address.
Masters == SetToSortSeq(up, <)

Sub(keys, addr, redirects) ==
    [keys |-> keys,            \* indices into job.keys
     addr |-> addr,            \* 0: nodeAddrForSlot has still to be asked
     redirects |-> redirects,  \* executeRedirect, or execOnNode alone
     asking |-> FALSE, depth |-> 0, attempt |-> 0, v |-> None]

Init ==
    /\ job \in Jobs
    /\ owner \in Layouts
    /\ \/ view = owner /\ up \in IF job.cmd = "SCAN" THEN SUBSET Nodes \ {{}} ELSE {Nodes}
       \/ view = [s \in Slots |-> 0] /\ up = {}   \* CLUSTER NODES was never read
    /\ start = up
    /\ importing = [s \in Slots |-> 0]
    /\ home = [k \in Existing \cup Range(job.keys) |->
                 IF k \in Existing THEN owner[ClusterSlot(k)] ELSE 0]
    /\ did \in IF job.cmd = "SCRIPT EXISTS" THEN SUBSET Nodes ELSE {{}}
    /\ subs = <<>> /\ list = <<>> /\ reply = None
    /\ cursor = 0 /\ scanned = [n \in Nodes |-> {}]
    /\ events = 0 /\ resent = FALSE /\ left = FALSE

------------------------------------------------------------------------------
\* Execute: the sub-requests of the call.

Indices == [i \in DOMAIN job.keys |-> i]

\* executeMGET, executeMSET, fanOutInteger: the keys of each slot, in order;
\* other commands on several keys go where their first key is.
Groups ==
    LET slots == {HashSlot(job.keys[i]) : i \in DOMAIN job.keys}
    IN  IF job.cmd = "SINTER" THEN [s \in {HashSlot(job.keys[1])} |-> Indices]
        ELSE [s \in slots |-> SelectSeq(Indices, LAMBDA i : HashSlot(job.keys[i]) = s)]

\* Refused before any node is asked: MSETNX and scripts over several slots.
Refused ==
    /\ job.cmd \in {"MSETNX", "EVAL"}
    /\ Cardinality(DOMAIN Groups) > 1

\* nodeIdx and realCursor of executeSCAN.
ScanNode(c, n) == IF c % 2^IdxBits >= n THEN 0 ELSE c % 2^IdxBits
ScanCursor(c, n) == IF c % 2^IdxBits >= n THEN 0 ELSE c \div 2^IdxBits

Begin ==
    /\ subs = <<>> /\ reply = None
    /\ list' = Masters
    /\ CASE Refused -> reply' = Error /\ UNCHANGED subs
         [] up = {} /\ (job.cmd \notin Keyed \/ job.keys = <<>>) ->
               reply' = Err /\ UNCHANGED subs
         [] OTHER ->
              /\ UNCHANGED reply
              /\ \/ /\ job.cmd \in Keyed /\ job.keys # <<>>
                    /\ subs' = [s \in DOMAIN Groups |-> Sub(Groups[s], 0, TRUE)]
                 \/ /\ job.cmd \in AllMasters
                    /\ subs' = [i \in DOMAIN Masters |-> Sub(<<>>, Masters[i], FALSE)]
                 \/ \* executeOnAnyNode: rrCounter, which every caller moves
                    /\ job.cmd = "PING" \/ (job.cmd \in Keyed /\ job.keys = <<>>)
                    /\ \E n \in up : subs' = <<Sub(<<>>, n, FALSE)>>
                 \/ /\ job.cmd = "SCAN"
                    /\ subs' = <<Sub(<<>>, Masters[ScanNode(cursor, Len(Masters)) + 1], FALSE)>>
    /\ UNCHANGED <<job, cluster, view, up, cursor, scanned, events, resent, start, left>>

------------------------------------------------------------------------------
\* A sub-request: executeRedirect and execOnNode.

Running(s) == s \in DOMAIN subs /\ subs[s].v = None

\* nodeAddrForSlot, from the topology of the moment.
Route(s) ==
    /\ Running(s) /\ subs[s].addr = 0
    /\ subs' = [subs EXCEPT ![s] = IF view[s] = 0 THEN [@ EXCEPT !.v = Err]
                                   ELSE [@ EXCEPT !.addr = view[s]]]
    /\ UNCHANGED <<job, cluster, view, up, list, reply, cursor, scanned, events, resent,
                   start, left>>

KeysOf(s) == [i \in DOMAIN subs[s].keys |-> job.keys[subs[s].keys[i]]]

\* What the node does with a command it serves, and what it answers.
Stored(k) == home[k] # 0

Effect(s, n) ==
    LET ks == Range(KeysOf(s)) IN
    /\ home' = [k \in DOMAIN home |->
                  IF k \notin ks THEN home[k]
                  ELSE CASE job.cmd = "MSET" -> n
                         [] job.cmd = "MSETNX" -> IF \E j \in ks : Stored(j) THEN home[k] ELSE n
                         [] job.cmd = "DEL" -> 0
                         [] OTHER -> home[k]]
    /\ did' = IF job.cmd \in {"FLUSHALL", "SCRIPT LOAD", "CONFIG SET"} THEN did \cup {n} ELSE did

Answer(s, n) ==
    LET ks == KeysOf(s)
        stored == {k \in Range(ks) : Stored(k)}
    IN  CASE job.cmd \in {"GET", "MGET"} ->
               Val("arr", [i \in DOMAIN ks |-> IF Stored(ks[i]) THEN ks[i] ELSE Nil])
          [] job.cmd = "MSETNX" -> Val("int", <<IF stored = {} THEN 1 ELSE 0>>)
          [] job.cmd = "DEL" -> Val("int", <<Cardinality(stored)>>)
          [] job.cmd = "EXISTS" -> Val("int", <<Len(SelectSeq(ks, Stored))>>)
          [] job.cmd = "DBSIZE" -> Val("int", <<n>>)
          [] job.cmd \in {"KEYS", "CONFIG GET"} -> Val("arr", <<n>>)
          [] job.cmd = "SCRIPT EXISTS" -> Val("arr", <<IF n \in did THEN 1 ELSE 0>>)
          [] OTHER -> Ok

Missing(n, ks) == {k \in ks : home[k] # n}

\* What node n answers, not counting faults.  A node that does not serve the
\* slot may itself be behind, so its MOVED names any other node.
Answers(s, n) ==
    LET ks == Range(KeysOf(s))
        slots == {ClusterSlot(k) : k \in ks}
        slot == CHOOSE x \in slots : TRUE
        missing == Missing(n, ks)
    IN  IF ks = {} THEN {Answer(s, n)}
        ELSE IF Cardinality(slots) > 1 THEN {Val("error", <<"CROSSSLOT">>)}
        ELSE IF owner[slot] = n THEN
             IF importing[slot] = 0 \/ missing = {} THEN {Answer(s, n)}
             ELSE IF missing = ks THEN {Val("ask", <<importing[slot]>>)}
             ELSE {Error}
        ELSE IF importing[slot] = n /\ subs[s].asking THEN
             IF missing = {} \/ Len(KeysOf(s)) = 1 THEN {Answer(s, n)} ELSE {Error}
        ELSE {Val("moved", <<m>>) : m \in Nodes \ {n}}

\* Mutated form: the depth is not passed on.
Redirected_Forever(sub, v) ==
    [sub EXCEPT !.addr = v.x[1], !.asking = (v.t = "ask"), !.attempt = 0]

\* The recursive call of executeRedirect; past MaxRedirects it is an error.
Redirected(sub, v) ==
    IF sub.depth + 1 > MaxRedirects THEN [sub EXCEPT !.v = Err]
    ELSE [sub EXCEPT !.addr = v.x[1], !.asking = (v.t = "ask"), !.attempt = 0,
                     !.depth = @ + 1]

Exec(s) ==
    /\ Running(s) /\ subs[s].addr # 0 /\ job.cmd # "SCAN"
    /\ \E v \in Answers(s, subs[s].addr) :
          /\ subs' = [subs EXCEPT ![s] =
                        IF @.redirects /\ v.t \in {"moved", "ask"} THEN Redirected(@, v)
                        ELSE [@ EXCEPT !.v = v]]
          /\ IF v.t \in {"moved", "ask", "error"} THEN UNCHANGED <<home, did>>
             ELSE Effect(s, subs[s].addr)
    /\ UNCHANGED <<job, owner, importing, view, up, list, reply, cursor, scanned, events, resent, start, left>>

\* An attempt fails; the node may have carried the command out.  execOnNode
\* tries again pipeRetryMax times.
ExecFail(s, done) ==
    /\ Running(s) /\ subs[s].addr # 0 /\ events < MaxEvents
    /\ done => \A v \in Answers(s, subs[s].addr) : v.t \notin {"moved", "ask", "error"}
    /\ events' = events + 1
    /\ resent' = (resent \/ done)
    /\ subs' = [subs EXCEPT ![s] = IF @.attempt < MaxRetry THEN [@ EXCEPT !.attempt = @ + 1]
                                   ELSE [@ EXCEPT !.v = Err]]
    /\ IF done THEN Effect(s, subs[s].addr) ELSE UNCHANGED <<home, did>>
    /\ UNCHANGED <<job, owner, importing, view, up, list, reply, cursor, scanned, start, left>>

\* The node answers an error to the end of execOnNode's attempts.
ExecError(s) ==
    /\ Running(s) /\ subs[s].addr # 0 /\ events < MaxEvents
    /\ events' = events + 1
    /\ subs' = [subs EXCEPT ![s].v = Error]
    /\ UNCHANGED <<job, cluster, view, up, list, reply, cursor, scanned, resent, start, left>>

\* A node's SCAN: its cursors are positions, and any number is accepted.
ExecScan ==
    LET n == subs[1].addr
        p == ScanCursor(cursor, Len(list)) % job.len[n]
    IN
    /\ job.cmd = "SCAN" /\ subs # <<>> /\ Running(1)
    /\ scanned' = [scanned EXCEPT ![n] = @ \cup {p}]
    /\ subs' = [subs EXCEPT ![1].v = Val("int", <<(p + 1) % job.len[n]>>)]
    /\ UNCHANGED <<job, cluster, view, up, list, reply, cursor, events, resent, start, left>>

------------------------------------------------------------------------------
\* The merges, of the sequence or function of results.

Some(rs, t) == \E i \in DOMAIN rs : rs[i].t = t
Of(rs, t) == {i \in DOMAIN rs : rs[i].t = t}
FailedOf(rs) == {i \in DOMAIN rs : Failed(rs[i])}

\* mergeIntegerSum and fanOutInteger: an error reply counts as nothing.
mergeIntegerSum(rs) ==
    IF Some(rs, "err") THEN Err
    ELSE Val("int", <<MapThenSumSet(LAMBDA i : rs[i].x[1], Of(rs, "int"))>>)

mergeArrayConcat(rs) ==
    IF Some(rs, "err") THEN Err
    ELSE Val("arr", FoldLeft(LAMBDA all, v : IF v.t = "arr" THEN all \o v.x ELSE all, <<>>, rs))

\* Mutated form: an error reply is taken for success.
mergeOK_Blind(rs) == IF Some(rs, "err") THEN Err ELSE Ok

\* The first error or error reply, in the order of the masters.
mergeOK(rs) == IF FailedOf(rs) = {} THEN Ok ELSE rs[Min(FailedOf(rs))]

\* SCRIPT LOAD, FLUSH: one node's success is enough.
mergeFirstNonError(rs) ==
    IF FailedOf(rs) # DOMAIN rs THEN rs[Min(DOMAIN rs \ FailedOf(rs))]
    ELSE IF Some(rs, "err") THEN Err ELSE rs[1]

\* A script exists when it does on every master.
mergeScriptExists(rs) ==
    IF Some(rs, "err") THEN Err
    ELSE Val("arr", <<IF \A i \in DOMAIN rs : rs[i] = Val("arr", <<1>>) THEN 1 ELSE 0>>)

\* mergeConfigGet: the first node's value of a parameter.
mergeConfigGet(rs) == IF FailedOf(rs) = {} THEN rs[1] ELSE rs[Min(FailedOf(rs))]

\* Mutated form: the values come in the order of the groups.
mergeMGET_ByGroup(rs) ==
    IF FailedOf(rs) # {} THEN Err
    ELSE Val("arr", FoldLeft(LAMBDA all, s : all \o rs[s].x, <<>>, SetToSeq(DOMAIN rs)))

\* executeMGET: each value goes to the place of its key.
mergeMGET(rs) ==
    IF FailedOf(rs) # {} THEN Err
    ELSE Val("arr", [i \in DOMAIN job.keys |->
                       LET s == HashSlot(job.keys[i])
                       IN  rs[s].x[CHOOSE j \in DOMAIN subs[s].keys : subs[s].keys[j] = i]])

\* executeMSET: an error or an error reply of any slot is the reply.
mergeMSET(rs) ==
    IF FailedOf(rs) # {} THEN Err
    ELSE IF job.cmd = "MSET" THEN Ok
    ELSE Val("int", <<IF \E s \in DOMAIN rs : rs[s] = Val("int", <<0>>) THEN 0 ELSE 1>>)

Merge(rs) ==
    CASE job.cmd = "MGET" -> mergeMGET(rs)
      [] job.cmd \in {"MSET", "MSETNX"} -> mergeMSET(rs)
      [] job.cmd \in {"DEL", "EXISTS", "DBSIZE"} -> mergeIntegerSum(rs)
      [] job.cmd = "KEYS" -> mergeArrayConcat(rs)
      [] job.cmd \in {"FLUSHALL", "CONFIG SET"} -> mergeOK(rs)
      [] job.cmd = "SCRIPT LOAD" -> mergeFirstNonError(rs)
      [] job.cmd = "SCRIPT EXISTS" -> mergeScriptExists(rs)
      [] job.cmd = "CONFIG GET" -> mergeConfigGet(rs)
      [] job.cmd = "BROADCAST" -> Val("arr", [i \in DOMAIN rs |-> <<list[i], rs[i].t>>])
      [] OTHER -> rs[CHOOSE s \in DOMAIN rs : TRUE]

AllDone == subs # <<>> /\ \A s \in DOMAIN subs : subs[s].v # None

\* wg.Wait() and the merge.
Finish ==
    /\ job.cmd # "SCAN" /\ reply = None /\ AllDone
    /\ reply' = IF job.keys = <<>> /\ job.cmd \notin AllMasters THEN subs[1].v
                ELSE Merge([s \in DOMAIN subs |-> subs[s].v])
    /\ UNCHANGED <<job, cluster, view, up, subs, list, cursor, scanned, events, resent,
                   start, left>>

\* Mutated form: the last master is forgotten.
NextCursor_Short(returned, idx, n) ==
    IF returned # 0 THEN ((returned * 2^IdxBits) % 2^Bits) + idx
    ELSE IF idx + 1 < n - 1 THEN idx + 1 ELSE 0

\* nextClientCursor: shifted out of its width when the node's cursor is large.
NextCursor(returned, idx, n) ==
    IF returned # 0 THEN ((returned * 2^IdxBits) % 2^Bits) + idx
    ELSE IF idx + 1 < n THEN idx + 1 ELSE 0

\* The reply to a SCAN: the client goes on with the cursor it is given, and
\* tries the same one again after an error.
FinishScan ==
    /\ job.cmd = "SCAN" /\ reply = None /\ AllDone
    /\ subs' = <<>>
    /\ cursor' = IF Failed(subs[1].v) THEN cursor
                 ELSE NextCursor(subs[1].v.x[1], ScanNode(cursor, Len(list)), Len(list))
    /\ reply' = IF ~Failed(subs[1].v) /\ cursor' = 0 THEN Ok ELSE None
    /\ UNCHANGED <<job, cluster, view, up, list, scanned, events, resent, start, left>>

------------------------------------------------------------------------------
\* The cluster, and the topology manager's refresh (Topology.tla).

Changes(A) == reply = None /\ events < MaxEvents /\ events' = events + 1 /\ A

StartMigration(s, m) ==
    /\ job.cmd \in Keyed /\ importing[s] = 0 /\ m # owner[s]
    /\ importing' = [importing EXCEPT ![s] = m]
    /\ UNCHANGED <<owner, home, did, view, up, left>>

\* MIGRATE of one key.
MoveKey(k) ==
    LET s == ClusterSlot(k) IN
    /\ job.cmd \in Keyed /\ Stored(k) /\ importing[s] # 0 /\ home[k] # importing[s]
    /\ home' = [home EXCEPT ![k] = importing[s]]
    /\ UNCHANGED <<owner, importing, did, view, up, left>>

EndMigration(s) ==
    /\ importing[s] # 0
    /\ \A k \in DOMAIN home : Stored(k) /\ ClusterSlot(k) = s => home[k] = importing[s]
    /\ owner' = [owner EXCEPT ![s] = importing[s]]
    /\ importing' = [importing EXCEPT ![s] = 0]
    /\ UNCHANGED <<home, did, view, up, left>>

Refresh ==
    /\ view # owner /\ job.cmd \in Keyed
    /\ view' = owner /\ up' = Nodes
    /\ UNCHANGED <<cluster, left>>

\* A master joins the list, or leaves it.
Join(n) ==
    /\ job.cmd \notin Keyed /\ n \notin up
    /\ up' = up \cup {n}
    /\ UNCHANGED <<cluster, view, left>>

Leave(n) ==
    /\ job.cmd \notin Keyed /\ n \in up
    /\ up' = up \ {n} /\ left' = TRUE
    /\ UNCHANGED <<cluster, view>>

Cluster ==
    /\ Changes(\/ \E s \in Slots : EndMigration(s) \/ \E m \in Nodes : StartMigration(s, m)
               \/ \E k \in DOMAIN home : MoveKey(k)
               \/ Refresh
               \/ \E n \in Nodes : Join(n) \/ Leave(n))
    /\ UNCHANGED <<job, call, resent, start>>

Work ==
    \/ Begin \/ Finish \/ ExecScan \/ FinishScan
    \/ \E s \in DOMAIN subs : Route(s) \/ Exec(s) \/ ExecError(s)
                              \/ \E done \in BOOLEAN : ExecFail(s, done)

Next == Work \/ Cluster

\* The goroutines of the call run, and every exchange with a node ends: that is
\* assumed of the nodes, since reads have no deadline.
Spec == Init /\ [][Next]_vars /\ WF_vars(Work)

------------------------------------------------------------------------------
\* Properties.

SomeResult(t) == \E s \in DOMAIN subs : subs[s].v.t = t

\* A successful reply to a command on keys is true of every key, however the
\* groups finish: MGET has each value in the place of its key, MSET has written
\* every pair, MSETNX all or none; DEL and EXISTS have counted every key unless
\* a node answered an error (fanOutInteger passes over it) or had already
\* carried out an attempt that failed.
KeyedReplyTrue ==
    job.keys # <<>> /\ reply # None /\ ~Failed(reply) =>
        LET keys == Range(job.keys) IN
        CASE job.cmd \in {"GET", "MGET"} ->
               reply.x = [i \in DOMAIN job.keys |->
                            IF job.keys[i] \in Existing THEN job.keys[i] ELSE Nil]
          [] job.cmd = "MSET" -> \A k \in keys : Stored(k)
          [] job.cmd = "MSETNX" ->
               IF reply.x[1] = 1 THEN \A k \in keys : Stored(k) /\ k \notin Existing
               ELSE resent \/ \E k \in keys : k \in Existing
          [] job.cmd = "DEL" ->
               SomeResult("error") \/ resent
               \/ (reply.x[1] = Cardinality(keys \cap Existing) /\ \A k \in keys : ~Stored(k))
          [] job.cmd = "EXISTS" ->
               SomeResult("error")
               \/ reply.x[1] = Cardinality({i \in DOMAIN job.keys : job.keys[i] \in Existing})
          [] OTHER -> TRUE

\* A successful reply to a command for all masters speaks for every master the
\* call saw: FLUSHALL and CONFIG SET were done on each, SCRIPT EXISTS is 1 only
\* if each has it; DBSIZE and KEYS hold each one's share unless a node answered
\* an error, and SCRIPT LOAD is everywhere unless a node failed.
AllMastersReplyTrue ==
    job.cmd \in AllMasters /\ reply # None /\ ~Failed(reply) =>
        LET seen == Range(list) IN
        CASE job.cmd \in {"FLUSHALL", "CONFIG SET"} -> seen \subseteq did
          [] job.cmd = "SCRIPT LOAD" ->
               seen \cap did # {} /\ (seen \subseteq did \/ SomeResult("error") \/ SomeResult("err"))
          [] job.cmd = "SCRIPT EXISTS" -> reply.x[1] = 1 => seen \subseteq did
          [] job.cmd = "DBSIZE" -> SomeResult("error") \/ reply.x[1] = SumSet(seen)
          [] job.cmd = "KEYS" -> SomeResult("error") \/ reply.x = list
          [] OTHER -> TRUE

\* The groups the router makes are groups for the cluster too: no node refuses a
\* sub-request as CROSSSLOT, unless one of its keys has nested or empty tags,
\* on which hashTag departs from the rule of the cluster.
GroupsOfOneSlot ==
    job.cmd # "SINTER" => \A s \in DOMAIN subs :
        subs[s].v.t = "error" /\ subs[s].v.x # <<>> => \E k \in Range(KeysOf(s)) : Nested(k)

Fits == \A n \in Nodes : job.len[n] <= 2^(Bits - IdxBits)

\* A client that follows the cursors to 0 has gone through all keys of every
\* master that was in the list from the start, though others join meanwhile;
\* provided that none leaves, and that the nodes' cursors fit beside the index.
ScanComplete ==
    job.cmd = "SCAN" /\ reply = Ok /\ ~left /\ Fits =>
        \A n \in start : scanned[n] = 0..(job.len[n] - 1)

\* Every call returns, whatever the nodes' redirections are; so does a client's
\* SCAN loop, if the nodes' cursors fit.
Replies == (job.cmd = "SCAN" => Fits) => <>(reply # None)
===============================================================================
