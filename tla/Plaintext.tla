----------------------------- MODULE Plaintext -----------------------------
(***************************************************************************)
(* Plaintext capture: LLM calls to in-cluster services that speak plain    *)
(* HTTP.  plaintext.rs resolves the configured hosts to IP:port endpoints  *)
(* every half minute and writes them into a map of the kernel's; there the *)
(* sockops program watches connections to them, sends and receives of      *)
(* which go into a ring that a StreamProcessor per connection reads.  What *)
(* a stream makes of its bytes is StreamProcessor's: here a stream is the  *)
(* set of the connections whose bytes it has seen.                         *)
(***************************************************************************)
EXTENDS Naturals, Sequences, FiniteSets, FiniteSetsExt, Functions

CONSTANTS
    Hosts,      \* configured hosts, each in one spec
    External,   \* those resolved by DNS; the others are Services
    Addrs,      \* IP:port endpoints, numbers in their order
    V6,         \* those of IPv6
    Services,   \* what a host may have in the cluster
    Capacity,   \* MAX_ENDPOINTS, and the entries PLAIN_ENDPOINTS has
    Pids,
    LocalIp(_), \* the address a process connects from
    Ports,      \* local ports
    Sockets,    \* connections, each made once
    ConnsSize,  \* PLAIN_CONNS_ENTRIES, and PLAIN_SOCKS_ENTRIES
    RingSize,   \* records PLAIN_EVENTS has room for
    MaxChanges, \* changes of the cluster
    MaxFailures \* lookups that fail

VARIABLES
    phase,     \* how far start got; "failed" when plaintext capture is off
    sockops,   \* the sockops program is attached
    cluster,   \* what each host has: [ip, pods, ports]
    changes,
    failures,
    pass,      \* the resolver's pass: [pc, todo, host, port, set]
    last,      \* the set it pushed last, in a set
    keys,      \* the sink's view of the endpoint map
    endpoints, \* PLAIN_ENDPOINTS
    refused,   \* history: endpoints a full map had no room for, wanted ever since
    socket,    \* connections that were made: [flow, pid, open]
    socks,     \* PLAIN_SOCKS
    conns,     \* PLAIN_CONNS: flow -> [pid, of]
    ring,      \* PLAIN_EVENTS
    lost,      \* flows of which a close record found no room
    streams    \* the parser's streams: key -> the connections in it

setup == <<phase, sockops>>

outside == <<cluster, changes>>

pushed == <<last, keys, endpoints, refused>>

resolving == <<failures, pass, pushed>>

sockets == <<socket, socks, conns>>

reading == <<ring, lost, streams>>

vars == <<setup, outside, resolving, sockets, reading>>

Empty == [x \in {} |-> {}]

(* A map's insert: a new entry, or another value in one it has. *)
Inserted(map, key, value) ==
    [k \in DOMAIN map \cup {key} |-> IF k = key THEN value ELSE map[k]]

None == 0   \* no address

(* A Service has a ClusterIP unless it is headless; its pods listen on one *)
(* port or on several, which the Service's port names tell apart.          *)
ASSUME PlaintextAssumption ==
    /\ Addrs \subseteq Nat \ {None} /\ V6 \subseteq Addrs
    /\ \A a \in V6, b \in Addrs \ V6 : b < a
    /\ Services \subseteq [ip : (Addrs \ V6) \cup {None}, pods : SUBSET Addrs, ports : {"one", "many"}]
    /\ External \subseteq Hosts
    /\ RingSize \in Nat

Resting == [pc |-> "asleep", todo |-> {}, host |-> None, named |-> FALSE, set |-> {}]

Init ==
    /\ phase = "off" /\ sockops = FALSE
    /\ cluster \in [Hosts -> Services]
    /\ changes = 0 /\ failures = 0
    /\ pass = Resting /\ last = {} /\ keys = {} /\ endpoints = {} /\ refused = {}
    /\ socket = Empty /\ socks = {} /\ conns = Empty
    /\ ring = <<>> /\ lost = {} /\ streams = Empty

Change(h) ==
    /\ changes < MaxChanges
    /\ changes' = changes + 1
    /\ \E s \in Services : cluster' = [cluster EXCEPT ![h] = s]
    /\ UNCHANGED <<setup, resolving, sockets, reading>>

(***************************************************************************)
(* start.                                                                  *)
(***************************************************************************)
(* The kernel is too old, there is no cgroup v2, a program is rejected;    *)
(* or the sockops program is attached.                                     *)
Attach ==
    /\ phase = "off"
    /\ \/ phase' = "failed" /\ UNCHANGED sockops
       \/ phase' = "attached" /\ sockops' = TRUE
    /\ UNCHANGED <<outside, resolving, sockets, reading>>

(* The other programs and the reader, or the sockops program goes again.   *)
AttachProgramsAndRead ==
    /\ phase = "attached"
    /\ \/ phase' = "failed" /\ sockops' = FALSE
       \/ phase' = "reading" /\ UNCHANGED sockops
    /\ UNCHANGED <<outside, resolving, sockets, reading>>

(* The endpoint map and a client for the API server; the resolver starts.  *)
Connect ==
    /\ phase = "reading"
    /\ \/ phase' = "failed" /\ UNCHANGED pass
       \/ phase' = "on" /\ pass' = [Resting EXCEPT !.pc = "next", !.todo = Hosts]
    /\ UNCHANGED <<sockops, outside, failures, pushed, sockets, reading>>

(***************************************************************************)
(* The resolver.                                                           *)
(***************************************************************************)
(* The addresses that the EndpointSlices of a Service give, if the port's  *)
(* name is known or not needed.                                            *)
SliceEndpoints(s, named) == IF named \/ s.ports = "one" THEN s.pods ELSE {}

Resolution(h) ==
    IF h \in External THEN cluster[h].pods ELSE ({cluster[h].ip} \ {None}) \cup cluster[h].pods

Fails == failures < MaxFailures /\ failures' = failures + 1

(* One host after the other; a lookup that fails leaves it out, or some of *)
(* its endpoints, and never the rest.                                      *)
LookupHost(h) ==
    /\ pass.pc = "next" /\ h \in pass.todo \cap External
    /\ \/ /\ pass' = [pass EXCEPT !.todo = @ \ {h}, !.set = @ \cup Resolution(h)]
          /\ UNCHANGED failures
       \/ Fails /\ pass' = [pass EXCEPT !.todo = @ \ {h}]
    /\ UNCHANGED <<setup, outside, pushed, sockets, reading>>

GetService(h) ==
    /\ pass.pc = "next" /\ h \in pass.todo \ External
    /\ \/ /\ pass' = [pass EXCEPT !.pc = "slices", !.host = h, !.named = TRUE,
                                  !.set = @ \cup ({cluster[h].ip} \ {None})]
          /\ UNCHANGED failures
       \/ Fails /\ pass' = [pass EXCEPT !.pc = "slices", !.host = h, !.named = FALSE]
    /\ UNCHANGED <<setup, outside, pushed, sockets, reading>>

ListSlices ==
    /\ pass.pc = "slices"
    /\ LET after == [pass EXCEPT !.pc = "next", !.todo = @ \ {pass.host}, !.host = None]
       IN  \/ /\ pass' = [after EXCEPT !.set = @ \cup SliceEndpoints(cluster[pass.host], pass.named)]
              /\ UNCHANGED failures
           \/ Fails /\ pass' = after
    /\ UNCHANGED <<setup, outside, pushed, sockets, reading>>

(* The first MAX_ENDPOINTS. *)
Cap(S) == {a \in S : Cardinality({b \in S : b < a}) < Capacity}

EndpointKeys(S) == S \ V6

Smallest(S, n) == {a \in S : Cardinality({b \in S : b < a}) < n}

(* Mutant: keys that are gone are not removed. *)
ReplacedByNew(map, had, want) == map \cup Smallest(want \ had, Capacity - Cardinality(map))

(* First the new ones are inserted, as many as the map has room for, then  *)
(* those gone are removed.                                                 *)
Replaced(map, had, want) ==
    (map \cup Smallest(want \ had, Capacity - Cardinality(map))) \ (had \ want)

Push ==
    /\ pass.pc = "next" /\ pass.todo = {}
    /\ pass' = Resting
    /\ LET set == Cap(pass.set)
           want == EndpointKeys(set)
           new == want \ keys
           over == Cardinality(endpoints \cup new) > Capacity
       IN  /\ last' = {set}
           /\ IF last = {set} THEN UNCHANGED <<keys, endpoints, refused>>
              ELSE /\ endpoints' = Replaced(endpoints, keys, want)
                   /\ keys' = want
                   /\ refused' = want \cap (refused \cup IF over THEN new ELSE {})
    /\ UNCHANGED <<setup, outside, failures, sockets, reading>>

Wake ==
    /\ phase = "on" /\ pass = Resting
    /\ pass' = [Resting EXCEPT !.pc = "next", !.todo = Hosts]
    /\ UNCHANGED <<setup, outside, failures, pushed, sockets, reading>>

(***************************************************************************)
(* Connections, and the programs they run.                                 *)
(***************************************************************************)
Flow(p, port, a) == [ip |-> LocalIp(p), port |-> port, remote |-> a]

(* plain_stream_id: the local address is left out. *)
StreamId(f) == <<f.remote, f.port>>

OpenSockets == {c \in DOMAIN socket : socket[c].open}

(* The handshake ends, in whatever task the last packet interrupted.       *)
Establish(p) ==
    /\ \E c \in Sockets \ DOMAIN socket, port \in Ports, a \in Addrs \ V6, task \in Pids :
        LET f == Flow(p, port, a)
        IN  /\ \A d \in OpenSockets : socket[d].flow # f
            /\ socket' = Inserted(socket, c, [flow |-> f, pid |-> p, open |-> TRUE])
            /\ IF sockops /\ a \in endpoints
               THEN /\ conns' = IF f \in DOMAIN conns \/ Cardinality(DOMAIN conns) < ConnsSize
                                THEN Inserted(conns, f, [pid |-> task, of |-> c]) ELSE conns
                    /\ socks' = IF Cardinality(socks) < ConnsSize THEN socks \cup {c} ELSE socks
               ELSE task = p /\ UNCHANGED <<conns, socks>>
    /\ UNCHANGED <<setup, outside, resolving, reading>>

Pushed(r) == IF Len(ring) < RingSize THEN Append(ring, r) ELSE ring

(* A send or a receive; a full ring loses it. *)
Transfer(c) ==
    /\ c \in OpenSockets /\ c \in socks
    /\ LET f == socket[c].flow
       IN  /\ f \in DOMAIN conns
           /\ ring' = Pushed([key |-> <<conns[f].pid, StreamId(f)>>, of |-> c, closed |-> FALSE])
    /\ UNCHANGED <<setup, outside, resolving, sockets, lost, streams>>

Kept(f) == DOMAIN conns \ {f}

(* Mutant: the entry is removed before it is read. *)
ForgetsFirst(f) == FALSE

(* The entry is read, for its close record, before it is removed.          *)
EmitsClose(f) == f \in DOMAIN conns

Close(c) ==
    /\ c \in OpenSockets
    /\ socket' = [socket EXCEPT ![c].open = FALSE]
    /\ LET f == socket[c].flow
           full == Len(ring) = RingSize
       IN  /\ conns' = Restrict(conns, Kept(f))
           /\ IF EmitsClose(f)
              THEN /\ ring' = Pushed([key |-> <<conns[f].pid, StreamId(f)>>, of |-> c, closed |-> TRUE])
                   /\ lost' = IF full THEN lost \cup {f} ELSE lost
              ELSE UNCHANGED <<ring, lost>>
    /\ socks' = socks \ {c}
    /\ UNCHANGED <<setup, outside, resolving, streams>>

(* route_event, for the ring's first record. *)
Handle ==
    /\ ring # <<>>
    /\ ring' = Tail(ring)
    /\ LET r == Head(ring)
       IN  streams' = IF r.closed THEN Restrict(streams, DOMAIN streams \ {r.key})
                      ELSE LET had == IF r.key \in DOMAIN streams THEN streams[r.key] ELSE {}
                           IN  Inserted(streams, r.key, had \cup {r.of})
    /\ UNCHANGED <<setup, outside, resolving, sockets, lost>>

(* The cleanup task drops a stream that was idle for long. *)
Sweep ==
    /\ \E k \in DOMAIN streams : streams' = Restrict(streams, DOMAIN streams \ {k})
    /\ UNCHANGED <<setup, outside, resolving, sockets, ring, lost>>

Starting == Attach \/ AttachProgramsAndRead \/ Connect

Resolving == (\E h \in Hosts : LookupHost(h) \/ GetService(h)) \/ ListSlices \/ Push \/ Wake

Next ==
    \/ \E h \in Hosts : Change(h)
    \/ Starting \/ Resolving
    \/ \E p \in Pids : Establish(p)
    \/ \E c \in Sockets : Transfer(c) \/ Close(c)
    \/ Handle \/ Sweep

Spec == Init /\ [][Next]_vars

(* Start goes on, the resolver keeps making passes and the reader reads.   *)
Fairness == WF_vars(Starting) /\ WF_vars(Resolving) /\ WF_vars(Handle)

FairSpec == Spec /\ Fairness

(***************************************************************************)
(* Properties.                                                             *)
(***************************************************************************)
TypeOK ==
    /\ keys \subseteq Addrs \ V6 /\ endpoints \subseteq keys
    /\ Cardinality(endpoints) <= Capacity
    /\ \A S \in last : S \subseteq Addrs /\ Cardinality(S) <= Capacity
    /\ Len(ring) <= RingSize
    /\ socks \subseteq OpenSockets
    /\ Cardinality(DOMAIN conns) <= ConnsSize
    /\ phase # "on" => pass = Resting /\ endpoints = {}

(* PLAIN_CONNS keeps nothing of a closed connection, so its slots are not  *)
(* used up, and no later connection is captured under an old entry.        *)
ConnsAreOpen ==
    \A f \in DOMAIN conns :
        LET c == conns[f].of IN c \in OpenSockets /\ socket[c].flow = f

(* Two connections that used the same addresses and ports one after the    *)
(* other are parsed as two streams, unless the first one's close record    *)
(* found the ring full.                                                    *)
ReusedFlowIsNewStream ==
    \A k \in DOMAIN streams : \A c, d \in streams[k] :
        c # d /\ socket[c].flow = socket[d].flow => socket[c].flow \in lost

Closed == DOMAIN socket \ OpenSockets

Streamed == UNION {streams[k] : k \in DOMAIN streams}

(* The stream of a closed connection ends, unless its record was lost.     *)
ClosedStreamEnds ==
    \A c \in Sockets :
        c \in Closed /\ c \in Streamed ~> c \notin Streamed \/ (c \in Closed /\ socket[c].flow \in lost)

(* Whatever lookups failed and pods came and went, the kernel watches in   *)
(* the end what the hosts resolve to, and nothing else.  Endpoints may be  *)
(* missing of those that came in one pass when the map had no room for     *)
(* them beside the old ones, as these are removed only after, and as long  *)
(* as they stay wanted they are not inserted again.                        *)
KernelFollowsCluster ==
    LET current == EndpointKeys(Cap(UNION {Resolution(h) : h \in Hosts}))
    IN  <>(phase = "on") =>
            <>[](endpoints \subseteq current /\ current \ refused \subseteq endpoints)

(* plaintext.rs: the kernel always watches exactly the current endpoints.  *)
(* The code breaks it: README, "Findings without a run".                   *)
WatchesCurrent == pass.pc = "asleep" => endpoints = keys

(* plaintext.rs: a failure after the sockops attach undoes it.             *)
(* The code breaks it: README, "Findings without a run".                   *)
FailureUndoesAttach == phase = "failed" => ~sockops

(* lib.rs (common): within one pid the remote address and the ports        *)
(* identify the connection, so a stream is one connection's.               *)
(* The code breaks it: README, "Findings without a run".                   *)
StreamIsOneConnection ==
    \A k \in DOMAIN streams : \A c, d \in streams[k] :
        socket[c].flow.ip = socket[d].flow.ip

(* plaintext.rs (eBPF): a socket's pid is recorded for it. *)
(* The code breaks it: README, "Findings without a run".                   *)
AttributedToItsProcess == \A f \in DOMAIN conns : conns[f].pid = socket[conns[f].of].pid
=============================================================================
