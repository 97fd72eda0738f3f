---------------------------- MODULE PodResolver ----------------------------
(***************************************************************************)
(* k8s.rs: PodResolver names the pod of a process.  cgroup_cache maps a    *)
(* cgroup id to a container, pod_store a container to its pod, each behind *)
(* an RwLock.  Three kinds of threads use them: the ring buffers' readers  *)
(* call resolve, one task applies the API server's pod events, one evicts  *)
(* stale cache entries.                                                    *)
(*                                                                         *)
(* A thread's steps are cut where it takes a lock.  What it holds and what *)
(* it waits for follow from where it is, so the locks are no variables:    *)
(* a reader waits for writers that hold or wait for the lock (the futex    *)
(* RwLock of std prefers writers), a writer for whoever holds it.          *)
(***************************************************************************)
EXTENDS Naturals, Sequences, FiniteSets, TLC, SequencesExt, Functions

CONSTANTS
    Pods,        \* pod names on this node
    JobPods,     \* those owned by a batch Job
    Containers,  \* container ids, each used once
    Pids,        \* process ids, used again and again
    Resolvers,   \* the ring buffers' reader threads
    MaxEvents,   \* pod events in flight
    MaxRelists   \* times the watch is lost and pods are listed again

Host == "host"      \* the cgroup of processes outside containers; no container

Dead == "dead"      \* no process has this id

ASSUME ResolverAssumption ==
    /\ IsFiniteSet(Pods) /\ JobPods \subseteq Pods
    /\ {Host, Dead} \cap Containers = {}
    /\ MaxEvents \in Nat /\ MaxRelists \in Nat
    /\ {"watcher", "evictor"} \cap Resolvers = {}

VARIABLES
    v2,        \* the host has a unified cgroup hierarchy
    pods,      \* the containers in each pod's status
    owner,     \* the pod each container was started for
    procs,     \* the cgroup of each process
    stream,    \* pod events not yet handled
    relists,
    cache,     \* cgroup_cache
    store,     \* pod_store
    resolver,  \* what each reader thread is doing
    watcher,   \* what the pod watcher is doing
    evictor    \* "idle", or "waits" for its first lock, or "holds" it

vars == <<v2, pods, owner, procs, stream, relists, cache, store, resolver, watcher, evictor>>

world == <<v2, pods, owner, procs, stream, relists>>

Threads == Resolvers \cup {"watcher", "evictor"}

Empty == [x \in {} |-> Host]

(* HashMap::insert, of one value for each key. *)
Inserted(map, keys, value) ==
    [k \in DOMAIN map \cup keys |-> IF k \in keys THEN value ELSE map[k]]

(* What bpf_get_current_cgroup_id reports: on cgroup v1 the root for all. *)
CgroupOf(c) == IF v2 THEN c ELSE Host

(* Mutant: cgroup v1 is not told apart. *)
AssumesCgroupIds == TRUE

(* Whether cgroup ids tell containers apart: the agent's own finding. *)
HasCgroupIds == v2

Idle == [pc |-> "idle", pid |-> Dead, home |-> Host, found |-> Host]

Resting == [pc |-> "idle", pod |-> Host, cids |-> {}, left |-> {}, workload |-> Host]

Init ==
    /\ v2 \in BOOLEAN
    /\ pods = [p \in Pods |-> {}]
    /\ owner = Empty
    /\ procs = [i \in Pids |-> Dead]
    /\ stream = <<>>
    /\ relists = 0
    /\ cache = Empty
    /\ store = Empty
    /\ resolver = [r \in Resolvers |-> Idle]
    /\ watcher = Resting
    /\ evictor = "idle"

(***************************************************************************)
(* The locks.                                                              *)
(***************************************************************************)
(* Mutant: the eviction task locks pod_store first. *)
EvictStoreFirst == << <<"store", "read">>, <<"cache", "write">> >>

(* The eviction task holds the first while it waits for the second. *)
EvictLocks == << <<"cache", "write">>, <<"store", "read">> >>

ResolverWants(pc) ==
    CASE pc = "lookup"          -> {<<"cache", "read">>}
      [] pc = "insert"          -> {<<"cache", "write">>}
      [] pc \in {"hit", "find"} -> {<<"store", "read">>}
      [] OTHER                  -> {}

WatcherWants(pc) ==
    CASE pc \in {"put", "remove"}    -> {<<"store", "write">>}
      [] pc \in {"warm", "uncache"}  -> {<<"cache", "write">>}
      [] OTHER                       -> {}

EvictorWants ==
    CASE evictor = "waits" -> {EvictLocks[1]}
      [] evictor = "holds" -> {EvictLocks[2]}
      [] OTHER             -> {}

Wants(t) ==
    CASE t = "watcher" -> WatcherWants(watcher.pc)
      [] t = "evictor" -> EvictorWants
      [] OTHER         -> ResolverWants(resolver[t].pc)

(* A cache hit keeps the read lock while it looks up the pod. *)
Holds(t) ==
    CASE t = "watcher" -> {}
      [] t = "evictor" -> IF evictor = "holds" THEN {EvictLocks[1]} ELSE {}
      [] OTHER         -> IF resolver[t].pc = "hit" THEN {<<"cache", "read">>} ELSE {}

Excludes(held, wanted) == held[1] = wanted[1] /\ "write" \in {held[2], wanted[2]}

BlockedBy(t) ==
    {u \in Threads \ {t} : \E w \in Wants(t) :
        \/ \E h \in Holds(u) : Excludes(h, w)
        \/ w[2] = "read" /\ <<w[1], "write">> \in Wants(u)}

Free(t) == BlockedBy(t) = {}

(***************************************************************************)
(* Pods and processes.                                                     *)
(***************************************************************************)
Event(t, p, cids) == [t |-> t, pod |-> p, cids |-> cids]

Unused == Containers \ DOMAIN owner

Agent == <<cache, store, resolver, watcher, evictor>>

(* A container starts in a pod, beside its others or in place of one.  The *)
(* pod's status then lists it, and the one it replaces no more.            *)
Start(p) ==
    /\ Len(stream) < MaxEvents
    /\ \E c \in Unused, gone \in {{}} \cup {{x} : x \in pods[p]} :
        LET cids == (pods[p] \ gone) \cup {c}
        IN  /\ pods' = [pods EXCEPT ![p] = cids]
            /\ owner' = Inserted(owner, {c}, p)
            /\ procs' = [i \in Pids |-> IF procs[i] \in gone THEN Dead ELSE procs[i]]
            /\ stream' = Append(stream, Event("apply", p, cids))
    /\ UNCHANGED <<v2, relists, Agent>>

(* Some other change of the pod. *)
Change(p) ==
    /\ Len(stream) < MaxEvents /\ pods[p] # {}
    /\ stream' = Append(stream, Event("apply", p, pods[p]))
    /\ UNCHANGED <<v2, pods, owner, procs, relists, Agent>>

(* The event of a deletion carries the last status only. *)
Delete(p) ==
    /\ Len(stream) < MaxEvents /\ pods[p] # {}
    /\ stream' = Append(stream, Event("delete", p, pods[p]))
    /\ procs' = [i \in Pids |-> IF procs[i] \in pods[p] THEN Dead ELSE procs[i]]
    /\ pods' = [pods EXCEPT ![p] = {}]
    /\ UNCHANGED <<v2, owner, relists, Agent>>

(* The watch is lost: kube lists the pods that there are.  What was to     *)
(* come is not told any more; Init and InitDone are ignored.               *)
Relist ==
    /\ relists < MaxRelists
    /\ relists' = relists + 1
    /\ stream' = SetToSeq({Event("apply", p, pods[p]) : p \in {q \in Pods : pods[q] # {}}})
    /\ UNCHANGED <<v2, pods, owner, procs, Agent>>

(* An id is not used again while a record of its last process waits.  *)
Spawn(i) ==
    /\ procs[i] = Dead /\ \A r \in Resolvers : resolver[r].pid # i
    /\ \E c \in {Host} \cup UNION {pods[p] : p \in Pods} : procs' = [procs EXCEPT ![i] = c]
    /\ UNCHANGED <<v2, pods, owner, stream, relists, Agent>>

Exit(i) ==
    /\ procs[i] # Dead
    /\ procs' = [procs EXCEPT ![i] = Dead]
    /\ UNCHANGED <<v2, pods, owner, stream, relists, Agent>>

(***************************************************************************)
(* resolve.                                                                *)
(***************************************************************************)
(* A record of a process is read from a ring; the process may be gone      *)
(* before the next step.                                                   *)
Resolve(r) ==
    /\ resolver[r].pc = "idle"
    /\ \E i \in Pids :
        /\ procs[i] # Dead
        /\ resolver' = [resolver EXCEPT ![r] =
               [pc |-> IF HasCgroupIds THEN "lookup" ELSE "proc", pid |-> i, home |-> procs[i], found |-> Host]]
    /\ UNCHANGED <<world, cache, store, watcher, evictor>>

(* A hit goes on under the cache's read lock. *)
Lookup(r) ==
    /\ resolver[r].pc = "lookup" /\ Free(r)
    /\ resolver' = [resolver EXCEPT ![r].pc =
           IF CgroupOf(resolver[r].home) \in DOMAIN cache THEN "hit" ELSE "proc"]
    /\ UNCHANGED <<world, cache, store, watcher, evictor>>

PodOf(cid) == IF cid \in DOMAIN store THEN store[cid].pod ELSE Host

(* What a lookup in one of its last steps returns. *)
Answer(r) ==
    LET s == resolver[r]
    IN  CASE s.pc = "hit"  -> PodOf(cache[CgroupOf(s.home)])
          [] s.pc = "find" -> PodOf(s.found)
          [] OTHER         -> Host

Return(r) ==
    /\ resolver[r].pc \in {"hit", "find"} /\ Free(r)
    /\ resolver' = [resolver EXCEPT ![r] = Idle]
    /\ UNCHANGED <<world, cache, store, watcher, evictor>>

(* Only a container found is cached, and only where cgroup ids tell        *)
(* containers apart.                                                       *)
Caches(cid) == HasCgroupIds /\ cid # Host

ReadProc(r) ==
    /\ resolver[r].pc = "proc"
    /\ LET s   == resolver[r]
           now == procs[s.pid]
           cid == IF now = Dead THEN Host ELSE now
       IN  resolver' = [resolver EXCEPT ![r].found = cid,
                                        ![r].pc = IF Caches(cid) THEN "insert" ELSE "find"]
    /\ UNCHANGED <<world, cache, store, watcher, evictor>>

InsertFound(r) ==
    /\ resolver[r].pc = "insert" /\ Free(r)
    /\ cache' = Inserted(cache, {CgroupOf(resolver[r].home)}, resolver[r].found)
    /\ resolver' = [resolver EXCEPT ![r].pc = "find"]
    /\ UNCHANGED <<world, store, watcher, evictor>>

(***************************************************************************)
(* The pod watcher.                                                        *)
(***************************************************************************)
(* stored_info: any entry of the pod, in the order of a HashMap. *)
StoredInfo(p) == {store[c].workload : c \in {x \in DOMAIN store : store[x].pod = p}}

WorkloadOf(p, cronjob) ==
    IF p \notin JobPods THEN "other" ELSE IF cronjob THEN "CronJob" ELSE "Job"

(* The workload stored before, if any, is kept unless a lookup finds the   *)
(* pod's CronJob.  Only a Job pod with containers is looked up, and only   *)
(* while it is stored as a Job; the API server may not answer.             *)
Workloads(p, cids) ==
    IF StoredInfo(p) = {} THEN {WorkloadOf(p, FALSE)} \cup {WorkloadOf(p, TRUE) : c \in cids}
    ELSE StoredInfo(p) \cup {WorkloadOf(p, TRUE) : w \in StoredInfo(p) \cap {"Job"}}

(* The next pod event.  Only this task writes the store, so the workload   *)
(* may be settled here, before the insert.                                 *)
TakeEvent ==
    /\ watcher.pc = "idle" /\ stream # <<>>
    /\ stream' = Tail(stream)
    /\ LET e == Head(stream)
       IN  IF e.t = "delete"
           THEN watcher' = [Resting EXCEPT !.pc = "remove", !.pod = e.pod, !.cids = e.cids]
           ELSE \E w \in Workloads(e.pod, e.cids) :
                  watcher' = [pc |-> IF HasCgroupIds THEN "warm" ELSE "put", pod |-> e.pod, cids |-> e.cids,
                              left |-> e.cids, workload |-> w]
    /\ UNCHANGED <<v2, pods, owner, procs, relists, cache, store, resolver, evictor>>

(* A container's cgroup may be found on disk while it runs, and is cached  *)
(* then so that its short-lived processes can be named after they exit.    *)
Warm ==
    /\ watcher.pc = "warm" /\ Free("watcher")
    /\ \E c \in watcher.left :
        /\ \/ (\E p \in Pods : c \in pods[p]) /\ cache' = Inserted(cache, {c}, c)
           \/ UNCHANGED cache
        /\ watcher' = [watcher EXCEPT !.left = @ \ {c},
                                      !.pc = IF watcher.left = {c} THEN "put" ELSE "warm"]
    /\ UNCHANGED <<world, store, resolver, evictor>>

Put ==
    /\ watcher.pc = "put" /\ Free("watcher")
    /\ store' = Inserted(store, watcher.cids, [pod |-> watcher.pod, workload |-> watcher.workload])
    /\ watcher' = Resting
    /\ UNCHANGED <<world, cache, resolver, evictor>>

Unstore ==
    /\ watcher.pc = "remove" /\ Free("watcher")
    /\ store' = Restrict(store, DOMAIN store \ watcher.cids)
    /\ watcher' = [watcher EXCEPT !.pc = "uncache"]
    /\ UNCHANGED <<world, cache, resolver, evictor>>

Kept(cids) == {g \in DOMAIN cache : cache[g] \notin cids}

Uncache ==
    /\ watcher.pc = "uncache" /\ Free("watcher")
    /\ cache' = Restrict(cache, Kept(watcher.cids))
    /\ watcher' = Resting
    /\ UNCHANGED <<world, store, resolver, evictor>>

(***************************************************************************)
(* The eviction task.                                                      *)
(***************************************************************************)
Tick ==
    /\ evictor = "idle"
    /\ evictor' = "waits"
    /\ UNCHANGED <<world, cache, store, resolver, watcher>>

TakeFirst ==
    /\ evictor = "waits" /\ Free("evictor")
    /\ evictor' = "holds"
    /\ UNCHANGED <<world, cache, store, resolver, watcher>>

(* Mutant: nothing is stale once no pod is left. *)
StaleUnlessNoPods ==
    {g \in DOMAIN cache : DOMAIN store # {} /\ cache[g] \notin DOMAIN store}

Stale == {g \in DOMAIN cache : cache[g] \notin DOMAIN store}

EvictStaleCgroups ==
    /\ evictor = "holds" /\ Free("evictor")
    /\ evictor' = "idle"
    /\ cache' = Restrict(cache, DOMAIN cache \ Stale)
    /\ UNCHANGED <<world, store, resolver, watcher>>

World ==
    \/ \E p \in Pods : Start(p) \/ Change(p) \/ Delete(p)
    \/ Relist
    \/ \E i \in Pids : Spawn(i) \/ Exit(i)

Resolving(r) == Lookup(r) \/ ReadProc(r) \/ InsertFound(r) \/ Return(r)

Watching == TakeEvent \/ Warm \/ Put \/ Unstore \/ Uncache

Evicting == Tick \/ TakeFirst \/ EvictStaleCgroups

Next ==
    \/ World
    \/ \E r \in Resolvers : Resolve(r) \/ Resolving(r)
    \/ Watching
    \/ Evicting

Spec == Init /\ [][Next]_vars

(* A lookup in progress and the eviction task go on when their locks       *)
(* allow, and no lock is kept from the watcher for ever: the others leave  *)
(* it free for most of a minute.  Nothing makes a process call or a pod    *)
(* change.                                                                 *)
Fairness ==
    /\ \A r \in Resolvers : WF_vars(Resolving(r))
    /\ SF_vars(Watching)
    /\ WF_vars(Evicting)

FairSpec == Spec /\ Fairness

(***************************************************************************)
(* Properties.                                                             *)
(***************************************************************************)
WorkloadNames == {"other", "Job", "CronJob"}

(* A cached container is one, and a stored one was listed for its pod.     *)
TypeOK ==
    /\ DOMAIN cache \subseteq Containers \cup {Host} /\ Range(cache) \subseteq Containers
    /\ DOMAIN store \subseteq DOMAIN owner
    /\ \A c \in DOMAIN store : store[c] \in [pod : Pods, workload : WorkloadNames]
    /\ \A r \in Resolvers : resolver[r].pc \in {"idle", "lookup", "hit", "proc", "insert", "find"}
    /\ watcher.pc \in {"idle", "warm", "put", "remove", "uncache"}
    /\ evictor \in {"idle", "waits", "holds"}

(* No threads wait for one another: the eviction task takes the locks in   *)
(* the order a cache hit does, and a writer queued between two readers of  *)
(* one lock closes no circle.                                              *)
NoWaitCycle ==
    ~\E S \in (SUBSET Threads) \ {{}} : \A t \in S : BlockedBy(t) \cap S # {}

(* A lookup names the pod its process belonged to, or none: whatever was   *)
(* cached, evicted or deleted meanwhile, and on cgroup v1 too, where all   *)
(* processes share an id.                                                  *)
AnswersAreRight ==
    \A r \in Resolvers :
        LET home == resolver[r].home
        IN  Answer(r) # Host => home # Host /\ Answer(r) = owner[home]

Running == UNION {pods[p] : p \in Pods}

(* The cached cgroup of a running container whose pod is stored is not     *)
(* dropped: its processes can be named after they exit.                    *)
RunningStaysCached ==
    [][\A c \in Running \cap DOMAIN store : c \in DOMAIN cache => c \in DOMAIN cache']_vars

(* A pod whose CronJob is known keeps it, whatever later events find.      *)
CronJobIsKept ==
    [][\A p \in Pods : StoredInfo(p) = {"CronJob"} => StoredInfo(p)' \subseteq {"CronJob"}]_vars

(* k8s.rs: a pod's owner does not change; the stored workload is kept.     *)
(* The code breaks it: README, "Findings without a run".                   *)
WorkloadIsKept ==
    [][\A c \in DOMAIN store : store[c].workload = "CronJob" /\ c \in DOMAIN store'
            => store'[c].workload = "CronJob"]_vars

(* k8s.rs: the watcher keeps pod_store in sync with the pods on the node.  *)
(* The code breaks it: README, "Findings without a run".                   *)
StoreIsInSync ==
    stream = <<>> /\ watcher.pc = "idle" =>
        \A c \in DOMAIN store : pods[store[c].pod] # {}

IsStale(g) == g \in DOMAIN cache /\ cache[g] \notin DOMAIN store

(* A cached container that belongs to no stored pod is dropped in the end. *)
StaleEntryLeaves == \A g \in Containers : IsStale(g) ~> ~IsStale(g)

(* A running container gets into the pod store, however lookups and the    *)
(* eviction task use the locks.                                            *)
RunningIsStored ==
    \A c \in Containers : c \in Running ~> c \in DOMAIN store \/ c \notin Running
=============================================================================
