-------------------------- MODULE PodResolverProofs --------------------------
(***************************************************************************)
(* Proofs about PodResolver for any pods, processes and ring buffers'      *)
(* readers: no threads wait in a circle, and no process is named after     *)
(* another's pod.                                                          *)
(*                                                                         *)
(* The second needs the whole agent: a cache entry is right because it was *)
(* made of a container that the process itself was in (CacheIsIdentity),   *)
(* which rests on its id not being used again while its record waits       *)
(* (ReadersAreRight); a stored pod is right because events carry the       *)
(* containers started for it (EventsAreOwned); and an entry found under    *)
(* the cache's read lock is still there when it is read (HitsAreLocked).   *)
(***************************************************************************)
EXTENDS PodResolver, FiniteSetTheorems, FunctionTheorems, SequenceTheorems, TLAPS

(***************************************************************************)
(* The locks.                                                              *)
(***************************************************************************)
Locks == {<<"cache", "read">>, <<"cache", "write">>, <<"store", "read">>, <<"store", "write">>}

(* A thread waits for one lock at a time. *)
LEMMA OneLock ==
    ASSUME NEW t
    PROVE  Wants(t) \subseteq Locks /\ \A v, w \in Wants(t) : v = w
BY DEF Wants, WatcherWants, EvictorWants, ResolverWants, EvictLocks, Locks

(* Who holds a lock holds cgroup_cache and waits for pod_store. *)
LEMMA HoldersWaitForStore ==
    ASSUME NEW t, Holds(t) # {}
    PROVE  (\A h \in Holds(t) : h[1] = "cache") /\ <<"store", "read">> \in Wants(t)
BY DEF Holds, Wants, EvictorWants, ResolverWants, EvictLocks

(* pod_store is held by no thread that waits: in a circle nobody waits for *)
(* it, then nobody holds cgroup_cache, and nobody waits for that either.   *)
THEOREM NoCircle == NoWaitCycle
PROOF
<1> SUFFICES ASSUME NEW S \in SUBSET Threads, S # {},
                    \A t \in S : BlockedBy(t) \cap S # {}
             PROVE  FALSE
  BY DEF NoWaitCycle
<1>1. ASSUME NEW t \in S
      PROVE  \E u \in S, w \in Wants(t) :
                \/ \E h \in Holds(u) : Excludes(h, w)
                \/ w[2] = "read" /\ <<w[1], "write">> \in Wants(u)
  BY DEF BlockedBy
<1>2. ASSUME NEW t \in S, <<"store", "write">> \in Wants(t) PROVE FALSE
  <2>1. PICK u \in S, w \in Wants(t) :
            \/ \E h \in Holds(u) : Excludes(h, w)
            \/ w[2] = "read" /\ <<w[1], "write">> \in Wants(u)
    BY <1>1
  <2>2. w = <<"store", "write">>
    BY <1>2, OneLock
  <2> QED
    BY <2>1, <2>2, HoldersWaitForStore DEF Excludes
<1>3. ASSUME NEW t \in S, <<"store", "read">> \in Wants(t) PROVE FALSE
  <2>1. PICK u \in S, w \in Wants(t) :
            \/ \E h \in Holds(u) : Excludes(h, w)
            \/ w[2] = "read" /\ <<w[1], "write">> \in Wants(u)
    BY <1>1
  <2>2. w = <<"store", "read">>
    BY <1>3, OneLock
  <2> QED
    BY <1>2, <2>1, <2>2, HoldersWaitForStore DEF Excludes
<1>4. ASSUME NEW t \in S PROVE Holds(t) = {}
  BY <1>3, HoldersWaitForStore
<1>5. ASSUME NEW t \in S, <<"cache", "write">> \in Wants(t) PROVE FALSE
  <2>1. PICK u \in S, w \in Wants(t) : w[2] = "read"
    BY <1>1, <1>4
  <2> QED
    BY <1>5, <2>1, OneLock
<1>6. ASSUME NEW t \in S, <<"cache", "read">> \in Wants(t) PROVE FALSE
  <2>1. PICK u \in S, w \in Wants(t) : <<w[1], "write">> \in Wants(u)
    BY <1>1, <1>4
  <2>2. w = <<"cache", "read">>
    BY <1>6, OneLock
  <2> QED
    BY <1>5, <2>1, <2>2
<1>7. ASSUME NEW t \in S PROVE Wants(t) = {}
  BY <1>2, <1>3, <1>5, <1>6, OneLock DEF Locks
<1> QED
  BY <1>1, <1>7

(* No threads ever wait for one another. *)
THEOREM LocksNeverDeadlock == Spec => []NoWaitCycle
BY NoCircle, PTL

(***************************************************************************)
(* The invariant.                                                          *)
(***************************************************************************)
Stored == [pod : Pods, workload : WorkloadNames]

Reader == [pc : {"idle", "lookup", "hit", "proc", "insert", "find"}, pid : Pids \cup {Dead},
           home : Containers \cup {Host}, found : Containers \cup {Host}]

Watcher == [pc : {"idle", "warm", "put", "remove", "uncache"}, pod : Pods \cup {Host},
            cids : SUBSET Containers, left : SUBSET Containers,
            workload : WorkloadNames \cup {Host}]

PodEvent == [t : {"apply", "delete"}, pod : Pods, cids : SUBSET Containers]

Types ==
    /\ v2 \in BOOLEAN
    /\ pods \in [Pods -> SUBSET Containers]
    /\ DOMAIN owner \subseteq Containers
    /\ procs \in [Pids -> Containers \cup {Host, Dead}]
    /\ stream \in Seq(PodEvent)
    /\ \A c \in DOMAIN store : store[c] \in Stored
    /\ resolver \in [Resolvers -> Reader]
    /\ watcher \in Watcher
    /\ evictor \in {"idle", "waits", "holds"}

Owned(cids, p) == \A c \in cids : c \in DOMAIN owner /\ owner[c] = p

(* A pod's status, an event, the watcher and the store list containers     *)
(* only with the pod they were started for.                                *)
EventsAreOwned ==
    /\ \A p \in Pods : Owned(pods[p], p)
    /\ \A i \in DOMAIN stream : Owned(stream[i].cids, stream[i].pod)
    /\ watcher.pc # "idle" => watcher.pod \in Pods /\ Owned(watcher.cids, watcher.pod)
    /\ watcher.pc \in {"warm", "put"} => watcher.workload \in WorkloadNames
    /\ watcher.left \subseteq watcher.cids
    /\ \A c \in DOMAIN store : Owned({c}, store[c].pod)

(* The process of a record is the one it was, or gone, for as long as the  *)
(* record is looked up: so what /proc says is its container or nothing.    *)
ReadersAreRight ==
    /\ \A i \in Pids : procs[i] \in DOMAIN owner \cup {Host, Dead}
    /\ \A r \in Resolvers : LET s == resolver[r] IN
          /\ s.home \in DOMAIN owner \cup {Host} /\ s.found \in {s.home, Host}
          /\ s.pc # "idle" => s.pid \in Pids /\ procs[s.pid] \in {s.home, Dead}
          /\ s.pc \in {"lookup", "hit", "insert"} => v2
          /\ s.pc = "insert" => s.found # Host

CacheIsIdentity ==
    /\ \A g \in DOMAIN cache : g \in Containers /\ cache[g] = g
    /\ DOMAIN cache # {} \/ watcher.pc = "warm" => v2

(* A hit holds the cache's read lock: its entry is not taken away.         *)
HitsAreLocked ==
    \A r \in Resolvers : resolver[r].pc = "hit" =>
        resolver[r].home \in DOMAIN cache /\ evictor # "holds"

Inv == Types /\ EventsAreOwned /\ ReadersAreRight /\ CacheIsIdentity /\ HitsAreLocked

(* The invariant names every process rightly. *)
LEMMA InvAnswers == Inv => AnswersAreRight
PROOF
<1> SUFFICES ASSUME Inv, NEW r \in Resolvers, Answer(r) # Host
             PROVE  resolver[r].home # Host /\ Answer(r) = owner[resolver[r].home]
  BY DEF AnswersAreRight
<1> DEFINE cid == IF resolver[r].pc = "hit" THEN cache[CgroupOf(resolver[r].home)] ELSE resolver[r].found
<1>1. Answer(r) = PodOf(cid) /\ resolver[r].pc \in {"hit", "find"}
  BY DEF Answer
<1>2. cid \in {resolver[r].home, Host}
  BY <1>1 DEF Inv, ReadersAreRight, HitsAreLocked, CacheIsIdentity, CgroupOf
<1>3. cid \in DOMAIN store /\ Answer(r) = store[cid].pod
  BY <1>1 DEF PodOf
<1>4. cid \in DOMAIN owner /\ owner[cid] = store[cid].pod
  BY <1>3 DEF Inv, EventsAreOwned, Owned
<1>5. cid # Host
  BY <1>4, ResolverAssumption DEF Inv, Types
<1> QED
  BY <1>2, <1>3, <1>4, <1>5

(* At the start nothing is stored, cached or in flight. *)
LEMMA InvInit == Init => Inv
PROOF
<1> SUFFICES ASSUME Init PROVE Inv
  OBVIOUS
<1> USE DEF Init, Idle, Resting, Empty
<1>1. Types
  BY DEF Types, Reader, Watcher, PodEvent, Stored
<1>2. EventsAreOwned
  BY DEF EventsAreOwned, Owned
<1>3. ReadersAreRight
  BY DEF ReadersAreRight
<1>4. CacheIsIdentity /\ HitsAreLocked
  BY DEF CacheIsIdentity, HitsAreLocked
<1> QED
  BY <1>1, <1>2, <1>3, <1>4 DEF Inv

(***************************************************************************)
(* Pods and processes.                                                     *)
(***************************************************************************)
LEMMA StartInv ==
    ASSUME Inv, NEW p \in Pods, Start(p)
    PROVE  Inv'
PROOF
<1> USE DEF Inv
<1>1. PICK c \in Unused, gone \in {{}} \cup {{x} : x \in pods[p]} :
        /\ pods' = [pods EXCEPT ![p] = (pods[p] \ gone) \cup {c}]
        /\ owner' = Inserted(owner, {c}, p)
        /\ procs' = [j \in Pids |-> IF procs[j] \in gone THEN Dead ELSE procs[j]]
        /\ stream' = Append(stream, Event("apply", p, (pods[p] \ gone) \cup {c}))
  BY DEF Start
<1>2. UNCHANGED <<v2, relists, cache, store, resolver, watcher, evictor>>
  BY DEF Start, Agent
<1>3. c \in Containers /\ c \notin DOMAIN owner
  BY DEF Unused
<1>4. /\ DOMAIN owner' = DOMAIN owner \cup {c} /\ owner'[c] = p
      /\ \A x \in DOMAIN owner : owner'[x] = owner[x]
  BY <1>1, <1>3 DEF Inserted
<1>5. /\ Event("apply", p, (pods[p] \ gone) \cup {c}) \in PodEvent
      /\ \A x \in (pods[p] \ gone) \cup {c} : x \in DOMAIN owner' /\ owner'[x] = p
  BY <1>1, <1>3, <1>4 DEF Event, PodEvent, Types, EventsAreOwned, Owned
<1>6. Types'
  BY <1>1, <1>2, <1>3, <1>4, <1>5 DEF Types
<1>7. EventsAreOwned'
  <2>1. \A q \in Pods : Owned(pods[q], q)'
    BY <1>1, <1>4, <1>5 DEF EventsAreOwned, Owned, Types
  <2>2. ASSUME NEW k \in DOMAIN stream' PROVE Owned(stream[k].cids, stream[k].pod)'
    <3>1. CASE k \in DOMAIN stream
      <4>1. stream'[k] = stream[k]
        BY <1>1, <3>1 DEF Types
      <4> QED
        BY <1>4, <3>1, <4>1 DEF EventsAreOwned, Owned
    <3>2. CASE k \notin DOMAIN stream
      <4>1. stream'[k] = Event("apply", p, (pods[p] \ gone) \cup {c})
        BY <1>1, <1>5, <3>2 DEF Types
      <4> QED
        BY <1>5, <4>1 DEF Event, Owned
    <3> QED
      BY <3>1, <3>2
  <2> QED
    BY <2>1, <2>2, <1>2, <1>4 DEF EventsAreOwned, Owned
<1>8. ReadersAreRight'
  BY <1>1, <1>2, <1>4 DEF ReadersAreRight, Types
<1>9. CacheIsIdentity' /\ HitsAreLocked'
  BY <1>2 DEF CacheIsIdentity, HitsAreLocked
<1> QED
  BY <1>6, <1>7, <1>8, <1>9

(* An event of a changed pod names the pod's own workloads. *)
LEMMA ChangeInv ==
    ASSUME Inv, NEW p \in Pods, Change(p)
    PROVE  Inv'
PROOF
<1> USE DEF Inv
<1>1. UNCHANGED <<v2, pods, owner, procs, cache, store, resolver, watcher, evictor>>
  BY DEF Change, Agent
<1>2. stream' = Append(stream, Event("apply", p, pods[p])) /\ Event("apply", p, pods[p]) \in PodEvent
  BY DEF Change, Event, PodEvent, Types
<1>3. Types'
  BY <1>1, <1>2 DEF Types
<1>4. EventsAreOwned'
  BY <1>1, <1>2 DEF EventsAreOwned, Owned, Types, Event
<1>5. ReadersAreRight' /\ CacheIsIdentity' /\ HitsAreLocked'
  BY <1>1 DEF ReadersAreRight, CacheIsIdentity, HitsAreLocked
<1> QED
  BY <1>3, <1>4, <1>5

(* A deleted pod's containers stay its own: their ids are not used again. *)
LEMMA DeleteInv ==
    ASSUME Inv, NEW p \in Pods, Delete(p)
    PROVE  Inv'
PROOF
<1> USE DEF Inv
<1>1. /\ UNCHANGED <<v2, owner, cache, store, resolver, watcher, evictor>>
      /\ procs' = [j \in Pids |-> IF procs[j] \in pods[p] THEN Dead ELSE procs[j]]
      /\ pods' = [pods EXCEPT ![p] = {}]
  BY DEF Delete, Agent
<1>2. stream' = Append(stream, Event("delete", p, pods[p])) /\ Event("delete", p, pods[p]) \in PodEvent
  BY DEF Delete, Event, PodEvent, Types
<1>3. Types'
  BY <1>1, <1>2 DEF Types
<1>4. EventsAreOwned'
  BY <1>1, <1>2 DEF EventsAreOwned, Owned, Types, Event
<1>5. ReadersAreRight'
  BY <1>1 DEF ReadersAreRight, Types
<1>6. CacheIsIdentity' /\ HitsAreLocked'
  BY <1>1 DEF CacheIsIdentity, HitsAreLocked
<1> QED
  BY <1>3, <1>4, <1>5, <1>6

(* The sequence of a finite set's elements has no others. *)
LEMMA SeqOfSet ==
    ASSUME NEW S, IsFiniteSet(S)
    PROVE  SetToSeq(S) \in Seq(S)
PROOF
<1>1. Cardinality(S) \in Nat /\ ExistsBijection(1..Cardinality(S), S)
  BY FS_CardinalityType
<1>2. \E f \in [1..Cardinality(S) -> S] : IsInjective(f)
  BY <1>1 DEF ExistsBijection, Bijection, Injection, IsInjective
<1>3. SetToSeq(S) \in [1..Cardinality(S) -> S]
  BY <1>2 DEF SetToSeq
<1> QED
  BY <1>1, <1>3

(* What is listed again are pods as they are. *)
LEMMA RelistInv ==
    ASSUME Inv, Relist
    PROVE  Inv'
PROOF
<1> USE DEF Inv
<1> DEFINE listed == {q \in Pods : pods[q] # {}}
           told == {Event("apply", p, pods[p]) : p \in listed}
           tell == [p \in listed |-> Event("apply", p, pods[p])]
<1>1. UNCHANGED <<v2, pods, owner, procs, cache, store, resolver, watcher, evictor>>
  BY DEF Relist, Agent
<1>2. IsFiniteSet(told)
  <2>1. IsFiniteSet(listed)
    BY ResolverAssumption, FS_Subset
  <2>2. tell \in Surjection(listed, told)
    BY DEF Surjection
  <2> QED
    BY <2>1, <2>2, FS_Surjection
<1>3. stream' \in Seq(told)
  BY <1>2, SeqOfSet DEF Relist
<1>4. told \subseteq PodEvent
  BY DEF Event, PodEvent, Types
<1>5. \A e \in told : Owned(e.cids, e.pod)
  BY DEF Event, EventsAreOwned
<1>6. \A k \in DOMAIN stream' : stream'[k] \in told
  BY <1>3
<1>7. Types'
  BY <1>1, <1>3, <1>4 DEF Types
<1>8. EventsAreOwned'
  BY <1>1, <1>5, <1>6 DEF EventsAreOwned, Owned
<1>9. ReadersAreRight' /\ CacheIsIdentity' /\ HitsAreLocked'
  BY <1>1 DEF ReadersAreRight, CacheIsIdentity, HitsAreLocked
<1> QED
  BY <1>7, <1>8, <1>9

(* A process starts in a container of its pod, and its pid is free when it *)
(* ends.                                                                   *)
LEMMA ProcessInv ==
    ASSUME Inv, NEW i \in Pids, Spawn(i) \/ Exit(i)
    PROVE  Inv'
PROOF
<1> USE DEF Inv
<1>1. UNCHANGED <<v2, pods, owner, stream, cache, store, resolver, watcher, evictor>>
  BY DEF Spawn, Exit, Agent
<1>2. PICK c \in DOMAIN owner \cup {Host, Dead} :
        /\ procs' = [procs EXCEPT ![i] = c]
        /\ c # Dead => \A r \in Resolvers : resolver[r].pid # i
  <2>1. CASE Spawn(i)
    <3>1. PICK c \in {Host} \cup UNION {pods[p] : p \in Pods} : procs' = [procs EXCEPT ![i] = c]
      BY <2>1 DEF Spawn
    <3>2. c \in DOMAIN owner \cup {Host}
      BY DEF EventsAreOwned, Owned
    <3>3. \A r \in Resolvers : resolver[r].pid # i
      BY <2>1 DEF Spawn
    <3> QED
      BY <3>1, <3>2, <3>3
  <2>2. CASE Exit(i)
    BY <2>2 DEF Exit
  <2> QED
    BY <2>1, <2>2
<1>3. c \in Containers \cup {Host, Dead}
  BY DEF Types
<1>4. Types'
  BY <1>1, <1>2, <1>3 DEF Types
<1>5. ReadersAreRight'
  BY <1>1, <1>2, <1>3 DEF ReadersAreRight, Types
<1>6. EventsAreOwned' /\ CacheIsIdentity' /\ HitsAreLocked'
  BY <1>1 DEF EventsAreOwned, Owned, CacheIsIdentity, HitsAreLocked
<1> QED
  BY <1>4, <1>5, <1>6

(***************************************************************************)
(* resolve.                                                                *)
(***************************************************************************)
LEMMA ResolveInv ==
    ASSUME Inv, NEW r \in Resolvers, Resolve(r)
    PROVE  Inv'
PROOF
<1> USE DEF Inv
<1>1. UNCHANGED <<v2, pods, owner, procs, stream, cache, store, watcher, evictor>>
  BY DEF Resolve, world
<1>2. PICK i \in Pids :
        /\ procs[i] # Dead
        /\ resolver' = [resolver EXCEPT ![r] =
               [pc |-> IF HasCgroupIds THEN "lookup" ELSE "proc", pid |-> i, home |-> procs[i], found |-> Host]]
  BY DEF Resolve
<1> DEFINE next == [pc |-> IF HasCgroupIds THEN "lookup" ELSE "proc", pid |-> i,
                    home |-> procs[i], found |-> Host]
<1>3. next \in Reader /\ procs[i] \in DOMAIN owner \cup {Host}
  BY <1>2 DEF Reader, Types, ReadersAreRight
<1>4. Types'
  BY <1>1, <1>2, <1>3 DEF Types
<1>5. ReadersAreRight'
  BY <1>1, <1>2, <1>3 DEF ReadersAreRight, Types, HasCgroupIds
<1>6. HitsAreLocked'
  BY <1>1, <1>2 DEF HitsAreLocked, Types
<1>7. EventsAreOwned' /\ CacheIsIdentity'
  BY <1>1 DEF EventsAreOwned, Owned, CacheIsIdentity
<1> QED
  BY <1>4, <1>5, <1>6, <1>7

(* The evictor's lock keeps every lookup that wants to read out. *)
LEMMA LookupInv ==
    ASSUME Inv, NEW r \in Resolvers, Lookup(r)
    PROVE  Inv'
PROOF
<1> USE DEF Inv
<1>1. /\ UNCHANGED <<v2, pods, owner, procs, stream, cache, store, watcher, evictor>>
      /\ resolver[r].pc = "lookup" /\ BlockedBy(r) = {}
      /\ resolver' = [resolver EXCEPT ![r].pc =
            IF CgroupOf(resolver[r].home) \in DOMAIN cache THEN "hit" ELSE "proc"]
  BY DEF Lookup, world, Free
<1>2. v2 /\ CgroupOf(resolver[r].home) = resolver[r].home
  BY <1>1 DEF ReadersAreRight, CgroupOf
<1>3. evictor # "holds"
  <2>1. r # "evictor" /\ r # "watcher" /\ "evictor" \in Threads
    BY ResolverAssumption DEF Threads
  <2>2. <<"cache", "read">> \in Wants(r)
    BY <1>1, <2>1 DEF Wants, ResolverWants
  <2>3. ASSUME evictor = "holds" PROVE "evictor" \in BlockedBy(r)
    <3>1. <<"cache", "write">> \in Holds("evictor")
      BY <2>3 DEF Holds, EvictLocks
    <3> QED
      BY <2>1, <2>2, <3>1 DEF BlockedBy, Excludes
  <2> QED
    BY <1>1, <2>3
<1>4. Types'
  BY <1>1, SMTT(30) DEF Types, Reader
<1>5. ReadersAreRight'
  BY <1>1, <1>2 DEF ReadersAreRight, Types, Reader
<1>6. HitsAreLocked'
  BY <1>1, <1>2, <1>3 DEF HitsAreLocked, Types, Reader
<1>7. EventsAreOwned' /\ CacheIsIdentity'
  BY <1>1 DEF EventsAreOwned, Owned, CacheIsIdentity
<1> QED
  BY <1>4, <1>5, <1>6, <1>7

(* Who may write to the cache is not inside a hit of any lookup. *)
LEMMA WriterExcludesHits ==
    ASSUME Types, NEW t \in Threads, <<"cache", "write">> \in Wants(t), Free(t)
    PROVE  \A r \in Resolvers : resolver[r].pc # "hit"
PROOF
<1> SUFFICES ASSUME NEW r \in Resolvers, resolver[r].pc = "hit"
             PROVE  r \in BlockedBy(t)
  BY DEF Free
<1>1. r # "evictor" /\ r # "watcher" /\ r \in Threads
  BY ResolverAssumption DEF Threads
<1>2. <<"cache", "read">> \in Holds(r)
  BY <1>1 DEF Holds
<1>3. t # r
  BY <1>1 DEF Wants, ResolverWants
<1> QED
  BY <1>1, <1>2, <1>3 DEF BlockedBy, Excludes

(* A reader finds the container its process is in, or none. *)
LEMMA ReadProcInv ==
    ASSUME Inv, NEW r \in Resolvers, ReadProc(r)
    PROVE  Inv'
PROOF
<1> USE DEF Inv
<1> DEFINE now == procs[resolver[r].pid]
           cid == IF now = Dead THEN Host ELSE now
<1>1. /\ UNCHANGED <<v2, pods, owner, procs, stream, cache, store, watcher, evictor>>
      /\ resolver[r].pc = "proc"
      /\ resolver' = [resolver EXCEPT ![r].found = cid,
                                     ![r].pc = IF Caches(cid) THEN "insert" ELSE "find"]
  BY DEF ReadProc, world
<1>2. cid \in {resolver[r].home, Host} /\ cid \in Containers \cup {Host}
  BY <1>1 DEF ReadersAreRight, Types
<1>3. Types'
  BY <1>1, <1>2 DEF Types, Reader
<1>4. ReadersAreRight'
  BY <1>1, <1>2 DEF ReadersAreRight, Types, Reader, Caches, HasCgroupIds
<1>5. HitsAreLocked'
  BY <1>1 DEF HitsAreLocked, Types, Reader
<1>6. EventsAreOwned' /\ CacheIsIdentity'
  BY <1>1 DEF EventsAreOwned, Owned, CacheIsIdentity
<1> QED
  BY <1>3, <1>4, <1>5, <1>6

(* What a reader caches is the container of that cgroup. *)
LEMMA InsertFoundInv ==
    ASSUME Inv, NEW r \in Resolvers, InsertFound(r)
    PROVE  Inv'
PROOF
<1> USE DEF Inv
<1>1. /\ UNCHANGED <<v2, pods, owner, procs, stream, store, watcher, evictor>>
      /\ resolver[r].pc = "insert"
      /\ cache' = Inserted(cache, {CgroupOf(resolver[r].home)}, resolver[r].found)
      /\ resolver' = [resolver EXCEPT ![r].pc = "find"]
  BY DEF InsertFound, world
<1>2. v2 /\ resolver[r].found = resolver[r].home /\ CgroupOf(resolver[r].home) = resolver[r].home
      /\ resolver[r].home \in Containers
  BY <1>1 DEF ReadersAreRight, CgroupOf, Types, Reader
<1>3. DOMAIN cache \subseteq DOMAIN cache'
  BY <1>1 DEF Inserted
<1>4. Types'
  BY <1>1 DEF Types, Reader
<1>5. ReadersAreRight'
  BY <1>1 DEF ReadersAreRight, Types, Reader
<1>6. HitsAreLocked'
  BY <1>1, <1>3 DEF HitsAreLocked, Types, Reader
<1>7. CacheIsIdentity'
  BY <1>1, <1>2 DEF CacheIsIdentity, Inserted
<1>8. EventsAreOwned'
  BY <1>1 DEF EventsAreOwned, Owned
<1> QED
  BY <1>4, <1>5, <1>6, <1>7, <1>8

(* A reader answers from the store, which names its container's pod. *)
LEMMA ReturnInv ==
    ASSUME Inv, NEW r \in Resolvers, Return(r)
    PROVE  Inv'
PROOF
<1> USE DEF Inv
<1>1. /\ UNCHANGED <<v2, pods, owner, procs, stream, cache, store, watcher, evictor>>
      /\ resolver' = [resolver EXCEPT ![r] = Idle]
  BY DEF Return, world
<1>2. Types'
  BY <1>1 DEF Types, Reader, Idle
<1>3. ReadersAreRight' /\ HitsAreLocked'
  BY <1>1 DEF ReadersAreRight, HitsAreLocked, Types, Idle
<1>4. EventsAreOwned' /\ CacheIsIdentity'
  BY <1>1 DEF EventsAreOwned, Owned, CacheIsIdentity
<1> QED
  BY <1>2, <1>3, <1>4

(***************************************************************************)
(* The pod watcher.                                                        *)
(***************************************************************************)
(* A pod's workload has a name. *)
LEMMA WorkloadsAreNames ==
    ASSUME Types, NEW p, NEW cids
    PROVE  Workloads(p, cids) \subseteq WorkloadNames
BY DEF Workloads, StoredInfo, WorkloadOf, WorkloadNames, Types, Stored

(* The watcher takes an event as it was sent. *)
LEMMA TakeEventInv ==
    ASSUME Inv, TakeEvent
    PROVE  Inv'
PROOF
<1> USE DEF Inv
<1> DEFINE e == Head(stream)
<1>1. /\ UNCHANGED <<v2, pods, owner, procs, cache, store, resolver, evictor>>
      /\ stream # <<>> /\ stream' = Tail(stream) /\ watcher.pc = "idle"
  BY DEF TakeEvent
<1>2. e \in PodEvent /\ Owned(e.cids, e.pod) /\ stream' \in Seq(PodEvent)
  BY <1>1 DEF Types, EventsAreOwned
<1>3. \A i \in DOMAIN stream' : i + 1 \in DOMAIN stream /\ stream'[i] = stream[i + 1]
  BY <1>1 DEF Types
<1>4. PICK pc \in {"warm", "put", "remove"}, left \in {{}, e.cids}, w \in WorkloadNames \cup {Host} :
        /\ watcher' = [pc |-> pc, pod |-> e.pod, cids |-> e.cids, left |-> left, workload |-> w]
        /\ pc \in {"warm", "put"} => w \in WorkloadNames
        /\ pc = "warm" => v2
  <2>1. CASE e.t = "delete"
    BY <2>1 DEF TakeEvent, Resting
  <2>2. CASE e.t # "delete"
    <3>1. PICK w \in Workloads(e.pod, e.cids) :
            watcher' = [pc |-> IF HasCgroupIds THEN "warm" ELSE "put", pod |-> e.pod, cids |-> e.cids,
                        left |-> e.cids, workload |-> w]
      BY <2>2 DEF TakeEvent
    <3>2. w \in WorkloadNames
      BY WorkloadsAreNames
    <3> QED
      BY <3>1, <3>2 DEF HasCgroupIds
  <2> QED
    BY <2>1, <2>2
<1>5. Types'
  BY <1>1, <1>2, <1>4 DEF Types, Watcher, PodEvent
<1>6. EventsAreOwned'
  BY <1>1, <1>2, <1>3, <1>4 DEF EventsAreOwned, Owned, PodEvent
<1>7. ReadersAreRight' /\ CacheIsIdentity' /\ HitsAreLocked'
  BY <1>1, <1>4 DEF ReadersAreRight, CacheIsIdentity, HitsAreLocked
<1> QED
  BY <1>5, <1>6, <1>7

(* Warming writes to the cache, so no hit is under way; it adds only what  *)
(* is its own container.                                                   *)
LEMMA WarmInv ==
    ASSUME Inv, Warm
    PROVE  Inv'
PROOF
<1> USE DEF Inv
<1>1. /\ UNCHANGED <<v2, pods, owner, procs, stream, store, resolver, evictor>>
      /\ watcher.pc = "warm"
  BY DEF Warm, world
<1>2. PICK c \in watcher.left :
        /\ cache' = Inserted(cache, {c}, c) \/ UNCHANGED cache
        /\ watcher' = [watcher EXCEPT !.left = @ \ {c},
                                      !.pc = IF watcher.left = {c} THEN "put" ELSE "warm"]
  BY DEF Warm
<1>3. /\ DOMAIN cache \subseteq DOMAIN cache'
      /\ \A g \in DOMAIN cache' : g \in Containers /\ cache'[g] = g
  BY <1>2 DEF Inserted, CacheIsIdentity, Types, Watcher
<1>4. v2
  BY <1>1 DEF CacheIsIdentity
<1>5. /\ watcher'.pc \in {"put", "warm"} /\ watcher'.left = watcher.left \ {c}
      /\ watcher'.cids = watcher.cids /\ watcher'.pod = watcher.pod
      /\ watcher'.workload = watcher.workload /\ watcher' \in Watcher
  BY <1>2 DEF Types, Watcher
<1>6. Types'
  BY <1>1, <1>5 DEF Types
<1>7. EventsAreOwned'
  BY <1>1, <1>5 DEF EventsAreOwned, Owned
<1>8. ReadersAreRight'
  BY <1>1 DEF ReadersAreRight
<1>9. CacheIsIdentity'
  BY <1>1, <1>3, <1>4 DEF CacheIsIdentity
<1>10. HitsAreLocked'
  BY <1>1, <1>3 DEF HitsAreLocked
<1> QED
  BY <1>6, <1>7, <1>8, <1>9, <1>10

(* What is stored are the containers of the event's pod. *)
LEMMA PutInv ==
    ASSUME Inv, Put
    PROVE  Inv'
PROOF
<1> USE DEF Inv
<1> DEFINE info == [pod |-> watcher.pod, workload |-> watcher.workload]
<1>1. /\ UNCHANGED <<v2, pods, owner, procs, stream, cache, resolver, evictor>>
      /\ watcher.pc = "put" /\ watcher' = Resting
      /\ store' = Inserted(store, watcher.cids, info)
  BY DEF Put, world
<1>2. info \in Stored /\ Owned(watcher.cids, watcher.pod)
  BY <1>1 DEF EventsAreOwned, Stored
<1>3. \A c \in DOMAIN store' : store'[c] \in Stored /\ Owned({c}, store'[c].pod)
  <2> SUFFICES ASSUME NEW c \in DOMAIN store'
               PROVE  store'[c] \in Stored /\ Owned({c}, store'[c].pod)
    OBVIOUS
  <2>1. CASE c \in watcher.cids
    <3>1. store'[c] = info
      BY <1>1, <2>1 DEF Inserted
    <3> QED
      BY <1>2, <2>1, <3>1 DEF Owned
  <2>2. CASE c \notin watcher.cids
    <3>1. c \in DOMAIN store /\ store'[c] = store[c]
      BY <1>1, <2>2 DEF Inserted
    <3> QED
      BY <3>1 DEF Types, EventsAreOwned
  <2> QED
    BY <2>1, <2>2
<1>4. Resting \in Watcher /\ Resting.pc = "idle" /\ Resting.left = {} /\ Resting.cids = {}
  BY DEF Resting, Watcher
<1>5. Types'
  BY <1>1, <1>3, <1>4 DEF Types
<1>6. EventsAreOwned'
  BY <1>1, <1>3, <1>4 DEF EventsAreOwned, Owned
<1>7. ReadersAreRight' /\ CacheIsIdentity' /\ HitsAreLocked'
  BY <1>1, <1>4 DEF ReadersAreRight, CacheIsIdentity, HitsAreLocked
<1> QED
  BY <1>5, <1>6, <1>7

(* Removing containers leaves the others'. *)
LEMMA UnstoreInv ==
    ASSUME Inv, Unstore
    PROVE  Inv'
PROOF
<1> USE DEF Inv
<1>1. /\ UNCHANGED <<v2, pods, owner, procs, stream, cache, resolver, evictor>>
      /\ watcher.pc = "remove" /\ watcher' = [watcher EXCEPT !.pc = "uncache"]
      /\ store' = Restrict(store, DOMAIN store \ watcher.cids)
  BY DEF Unstore, world
<1>2. \A c \in DOMAIN store' : c \in DOMAIN store /\ store'[c] = store[c]
  BY <1>1 DEF Restrict
<1>3. /\ watcher'.pc = "uncache" /\ watcher'.left = watcher.left
      /\ watcher'.cids = watcher.cids /\ watcher'.pod = watcher.pod
      /\ watcher' \in Watcher
  BY <1>1 DEF Types, Watcher
<1>4. Types'
  BY <1>1, <1>2, <1>3 DEF Types
<1>5. EventsAreOwned'
  BY <1>1, <1>2, <1>3 DEF EventsAreOwned, Owned
<1>6. ReadersAreRight' /\ CacheIsIdentity' /\ HitsAreLocked'
  BY <1>1, <1>3 DEF ReadersAreRight, CacheIsIdentity, HitsAreLocked
<1> QED
  BY <1>4, <1>5, <1>6

(* Removing cgroups leaves the others'. *)
LEMMA UncacheInv ==
    ASSUME Inv, Uncache
    PROVE  Inv'
PROOF
<1> USE DEF Inv
<1>1. /\ UNCHANGED <<v2, pods, owner, procs, stream, store, resolver, evictor>>
      /\ watcher.pc = "uncache" /\ watcher' = Resting /\ Free("watcher")
      /\ cache' = Restrict(cache, Kept(watcher.cids))
  BY DEF Uncache, world
<1>2. \A r \in Resolvers : resolver[r].pc # "hit"
  <2>1. "watcher" \in Threads /\ <<"cache", "write">> \in Wants("watcher")
    BY <1>1 DEF Threads, Wants, WatcherWants
  <2> QED
    BY <1>1, <2>1, WriterExcludesHits
<1>3. \A g \in DOMAIN cache' : g \in DOMAIN cache /\ cache'[g] = cache[g]
  BY <1>1 DEF Restrict, Kept
<1>4. Resting \in Watcher /\ Resting.pc = "idle" /\ Resting.left = {} /\ Resting.cids = {}
  BY DEF Resting, Watcher
<1>5. Types'
  BY <1>1, <1>4 DEF Types
<1>6. EventsAreOwned'
  BY <1>1, <1>4 DEF EventsAreOwned, Owned
<1>7. ReadersAreRight' /\ CacheIsIdentity'
  BY <1>1, <1>3, <1>4 DEF ReadersAreRight, CacheIsIdentity
<1>8. HitsAreLocked'
  BY <1>1, <1>2 DEF HitsAreLocked
<1> QED
  BY <1>5, <1>6, <1>7, <1>8

(***************************************************************************)
(* The eviction task.                                                      *)
(***************************************************************************)
(* It takes the cache's lock when no hit is under way, and no hit begins   *)
(* while it holds it.                                                      *)
LEMMA EvictingInv ==
    ASSUME Inv, Evicting
    PROVE  Inv'
PROOF
<1> USE DEF Inv
<1>1. /\ UNCHANGED <<v2, pods, owner, procs, stream, store, resolver, watcher>>
      /\ evictor' \in {"idle", "waits", "holds"}
  BY DEF Evicting, Tick, TakeFirst, EvictStaleCgroups, world
<1>2. \A g \in DOMAIN cache' : g \in DOMAIN cache /\ cache'[g] = cache[g]
  BY DEF Evicting, Tick, TakeFirst, EvictStaleCgroups, Restrict
<1>3. Types' /\ EventsAreOwned' /\ ReadersAreRight' /\ CacheIsIdentity'
  BY <1>1, <1>2 DEF Types, EventsAreOwned, Owned, ReadersAreRight, CacheIsIdentity
<1>4. HitsAreLocked'
  <2>1. CASE Tick
    BY <1>1, <2>1 DEF Tick, HitsAreLocked
  <2>2. CASE TakeFirst
    <3>1. "evictor" \in Threads /\ <<"cache", "write">> \in Wants("evictor") /\ Free("evictor")
      BY <2>2 DEF TakeFirst, Threads, Wants, EvictorWants, EvictLocks
    <3>2. \A r \in Resolvers : resolver[r].pc # "hit"
      BY <3>1, WriterExcludesHits
    <3> QED
      BY <1>1, <3>2 DEF HitsAreLocked
  <2>3. CASE EvictStaleCgroups
    <3>1. \A r \in Resolvers : resolver[r].pc # "hit"
      BY <2>3 DEF EvictStaleCgroups, HitsAreLocked
    <3> QED
      BY <1>1, <3>1 DEF HitsAreLocked
  <2> QED
    BY <2>1, <2>2, <2>3 DEF Evicting
<1> QED
  BY <1>3, <1>4

(* Every step keeps the invariant. *)
LEMMA InvStep == Inv /\ [Next]_vars => Inv'
PROOF
<1> SUFFICES ASSUME Inv, [Next]_vars PROVE Inv'
  OBVIOUS
<1>1. CASE World
  BY <1>1, StartInv, ChangeInv, DeleteInv, RelistInv, ProcessInv DEF World
<1>2. ASSUME NEW r \in Resolvers, Resolve(r) \/ Resolving(r) PROVE Inv'
  BY <1>2, ResolveInv, LookupInv, ReadProcInv, InsertFoundInv, ReturnInv DEF Resolving
<1>3. CASE Watching
  BY <1>3, TakeEventInv, WarmInv, PutInv, UnstoreInv, UncacheInv DEF Watching
<1>4. CASE Evicting
  BY <1>4, EvictingInv
<1>5. CASE UNCHANGED vars
  BY <1>5 DEF vars, Inv, Types, EventsAreOwned, Owned, ReadersAreRight, CacheIsIdentity, HitsAreLocked
<1> QED
  BY <1>1, <1>2, <1>3, <1>4, <1>5 DEF Next

(* The invariant has the types in it. *)
LEMMA InvTypes == Inv => TypeOK
PROOF
<1> SUFFICES ASSUME Inv PROVE TypeOK
  OBVIOUS
<1> USE DEF Inv
<1>1. DOMAIN cache \subseteq Containers \cup {Host} /\ Range(cache) \subseteq Containers
  BY DEF CacheIsIdentity, Range
<1>2. DOMAIN store \subseteq DOMAIN owner
  BY DEF EventsAreOwned, Owned
<1> QED
  BY <1>1, <1>2 DEF TypeOK, Types, Stored, Reader, Watcher

(* Every cached container is one, and every stored one was started for a   *)
(* pod.                                                                    *)
THEOREM PodTypesCorrect == Spec => []TypeOK
BY InvInit, InvStep, InvTypes, PTL DEF Spec

(* Whatever is cached, evicted, deleted or listed again meanwhile, a       *)
(* lookup names the pod its process was in, or none.                       *)
THEOREM AnswersBelong == Spec => []AnswersAreRight
BY InvInit, InvStep, InvAnswers, PTL DEF Spec
=============================================================================
