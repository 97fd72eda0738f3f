--------------------------- MODULE PlaintextProofs ---------------------------
(***************************************************************************)
(* Proofs about Plaintext for any hosts, endpoints, processes, ports, map  *)
(* and ring sizes: the kernel's map of captured connections keeps nothing  *)
(* of a closed one, and two connections that used the same addresses and   *)
(* ports one after the other are parsed as two streams.                    *)
(*                                                                         *)
(* Neither property is inductive.  The first needs that open connections   *)
(* differ in their addresses or ports (FlowsApart); the second, that what  *)
(* was captured of a connection is in the ring and the streams in order:   *)
(* once it is closed, its close record is behind all of it, unless the     *)
(* ring had no room for that record (ClosedIsEnded), and what a later      *)
(* connection sends under the same key is behind the record (ReusedIsApart)*)
(***************************************************************************)
EXTENDS Plaintext, SequenceTheorems, TLAPS

Flows == [ip : {LocalIp(p) : p \in Pids}, port : Ports, remote : Addrs]

Keys == Pids \X (Addrs \X Ports)

Rec == [key : Keys, of : Sockets, closed : BOOLEAN]

Types ==
    /\ \A c \in DOMAIN socket : c \in Sockets /\ socket[c] \in [flow : Flows, pid : Pids, open : BOOLEAN]
    /\ \A f \in DOMAIN conns : f \in Flows /\ conns[f] \in [pid : Pids, of : Sockets]
    /\ ring \in Seq(Rec) /\ Len(ring) <= RingSize
    /\ \A k \in DOMAIN streams : k \in Keys /\ streams[k] \subseteq Sockets

(* A connection is known by its addresses and ports while it is open. *)
FlowsApart == \A c, d \in OpenSockets : socket[c].flow = socket[d].flow => c = d

(* What was captured of connection c under key k: in place 0 what its      *)
(* stream has seen, then what the ring holds.                              *)
Places == 0 .. Len(ring)

Seen(i, k, c) ==
    IF i = 0 THEN k \in DOMAIN streams /\ c \in streams[k]
    ELSE ~ring[i].closed /\ ring[i].key = k /\ ring[i].of = c

(* The ring ends stream k between two places. *)
Ends(k, i, j) == \E m \in DOMAIN ring : i < m /\ m < j /\ ring[m].closed /\ ring[m].key = k

(* It is captured under the key its entry gives, while it is open; *)
SeenIsCaptured ==
    \A k \in Keys, c \in Sockets : \A i \in Places : Seen(i, k, c) =>
        /\ c \in DOMAIN socket
        /\ c \in OpenSockets =>
              socket[c].flow \in DOMAIN conns /\ k = <<conns[socket[c].flow].pid, StreamId(socket[c].flow)>>

(* its stream ends behind it, once it is closed; *)
ClosedIsEnded ==
    \A k \in Keys, c \in Sockets : \A i \in Places : Seen(i, k, c) =>
        c \in OpenSockets \/ socket[c].flow \in lost \/ Ends(k, i, Len(ring) + 1)

(* and before what another connection with its addresses and ports sends. *)
ReusedIsApart ==
    \A k \in Keys, c, d \in Sockets : \A i, j \in Places :
        i <= j /\ Seen(i, k, c) /\ Seen(j, k, d) /\ c # d /\ socket[c].flow = socket[d].flow =>
            socket[c].flow \in lost \/ Ends(k, i, j)

Inv ==
    /\ Types /\ FlowsApart /\ ConnsAreOpen
    /\ SeenIsCaptured /\ ClosedIsEnded /\ ReusedIsApart

(* The streams are place 0, which no close record lies before. *)
LEMMA InvReused == Inv => ReusedFlowIsNewStream
PROOF
<1> SUFFICES ASSUME Inv, NEW k \in DOMAIN streams, NEW c \in streams[k], NEW d \in streams[k],
                    c # d, socket[c].flow = socket[d].flow
             PROVE  socket[c].flow \in lost
  BY DEF ReusedFlowIsNewStream
<1>1. k \in Keys /\ c \in Sockets /\ d \in Sockets /\ Len(ring) \in Nat
  BY DEF Inv, Types
<1>2. 0 \in Places /\ Seen(0, k, c) /\ Seen(0, k, d)
  BY <1>1 DEF Places, Seen
<1>3. ~Ends(k, 0, 0)
  BY <1>1 DEF Ends, Inv, Types
<1> QED
  BY <1>1, <1>2, <1>3 DEF Inv, ReusedIsApart

(* At first nothing is connected or captured. *)
LEMMA InvInit ==
    ASSUME Init
    PROVE  Inv
PROOF
<1> USE DEF Init, Empty
<1>1. ring = <<>> /\ Len(ring) = 0 /\ RingSize \in Nat /\ \A i \in DOMAIN ring : FALSE
  BY PlaintextAssumption
<1>2. Types /\ FlowsApart /\ ConnsAreOpen
  BY <1>1 DEF Types, FlowsApart, ConnsAreOpen, OpenSockets
<1>3. \A k, c : \A i \in Places : ~Seen(i, k, c)
  BY <1>1 DEF Places, Seen
<1> QED
  BY <1>2, <1>3 DEF Inv, SeenIsCaptured, ClosedIsEnded, ReusedIsApart

(* Neither the resolver nor the loader touches what is captured. *)
LEMMA SameInv ==
    ASSUME Inv, UNCHANGED <<sockets, reading>>
    PROVE  Inv'
BY DEF Inv, Types, FlowsApart, ConnsAreOpen, OpenSockets, SeenIsCaptured, ClosedIsEnded, ReusedIsApart,
       Places, Seen, Ends, sockets, reading

(* A stream that is dropped, or that nothing of a connection is left in,   *)
(* leaves less that was captured.                                          *)
LEMMA SweepInv ==
    ASSUME Inv, Sweep
    PROVE  Inv'
PROOF
<1> USE DEF Inv
<1>1. /\ UNCHANGED <<sockets, ring, lost>>
      /\ \A k \in DOMAIN streams' : k \in DOMAIN streams /\ streams'[k] = streams[k]
  BY DEF Sweep, Restrict
<1>2. Types' /\ FlowsApart' /\ ConnsAreOpen' /\ Places' = Places
  BY <1>1 DEF Types, FlowsApart, ConnsAreOpen, OpenSockets, Places, sockets
<1>3. \A i, k, c : Seen(i, k, c)' => Seen(i, k, c)
  BY <1>1 DEF Seen
<1>4. SeenIsCaptured' /\ ClosedIsEnded' /\ ReusedIsApart'
  BY <1>1, <1>2, <1>3 DEF SeenIsCaptured, ClosedIsEnded, ReusedIsApart, OpenSockets, Ends, sockets
<1> QED
  BY <1>2, <1>4

(* A connection that is made is new, and there is no other with its        *)
(* addresses and ports, nor an entry of one.                               *)
LEMMA EstablishInv ==
    ASSUME Inv, NEW p \in Pids, Establish(p)
    PROVE  Inv'
PROOF
<1> USE DEF Inv
<1>1. PICK c \in Sockets \ DOMAIN socket, port \in Ports, a \in Addrs, task \in Pids :
         LET f == Flow(p, port, a)
         IN  /\ \A d \in OpenSockets : socket[d].flow # f
             /\ socket' = Inserted(socket, c, [flow |-> f, pid |-> p, open |-> TRUE])
             /\ conns' \in {conns, Inserted(conns, f, [pid |-> task, of |-> c])}
  BY DEF Establish
<1> DEFINE f == Flow(p, port, a)
           made == [flow |-> f, pid |-> p, open |-> TRUE]
           entry == [pid |-> task, of |-> c]
<1>2. UNCHANGED <<ring, lost, streams>>
  BY DEF Establish, reading
<1>3. f \in Flows /\ \A d \in OpenSockets : socket[d].flow # f
  BY <1>1 DEF Flow, Flows
<1>4. socket' = Inserted(socket, c, made) /\ conns' \in {conns, Inserted(conns, f, entry)}
  BY <1>1
<1>5. /\ made \in [flow : Flows, pid : Pids, open : BOOLEAN] /\ made.flow = f /\ made.open
      /\ entry \in [pid : Pids, of : Sockets] /\ entry.of = c
  BY <1>3
<1> HIDE DEF f, made, entry
<1>6. /\ DOMAIN socket' = DOMAIN socket \cup {c} /\ socket'[c] = made
      /\ \A d \in DOMAIN socket : d # c /\ socket'[d] = socket[d]
  BY <1>4 DEF Inserted
<1>7. OpenSockets' = OpenSockets \cup {c} /\ \A d \in OpenSockets : d \in DOMAIN socket
  BY <1>5, <1>6 DEF OpenSockets
<1>8. f \notin DOMAIN conns
  BY <1>3 DEF ConnsAreOpen
<1>9. /\ DOMAIN conns' \subseteq DOMAIN conns \cup {f}
      /\ f \in DOMAIN conns' => conns'[f] = entry
      /\ \A g \in DOMAIN conns : g \in DOMAIN conns' /\ conns'[g] = conns[g]
  <2>1. CASE conns' = conns
    BY <1>8, <2>1
  <2>2. CASE conns' = Inserted(conns, f, entry)
    BY <1>8, <2>2 DEF Inserted
  <2> QED
    BY <1>4, <2>1, <2>2
<1>10. Types'
  <2>1. \A d \in DOMAIN socket' : d \in Sockets /\ socket'[d] \in [flow : Flows, pid : Pids, open : BOOLEAN]
    BY <1>5, <1>6 DEF Types
  <2>2. \A g \in DOMAIN conns' : g \in Flows /\ conns'[g] \in [pid : Pids, of : Sockets]
    BY <1>3, <1>5, <1>9 DEF Types
  <2> QED
    BY <1>2, <2>1, <2>2 DEF Types
<1>11. FlowsApart'
  BY <1>3, <1>5, <1>6, <1>7 DEF FlowsApart
<1>12. ConnsAreOpen'
  BY <1>5, <1>6, <1>7, <1>9 DEF ConnsAreOpen
<1>13. /\ Places' = Places /\ \A i, k, d : Seen(i, k, d)' = Seen(i, k, d)
       /\ \A i, k, j : Ends(k, i, j)' = Ends(k, i, j)
  BY <1>2 DEF Places, Seen, Ends
<1>14. \A k \in Keys, d \in Sockets : \A i \in Places :
           Seen(i, k, d) => d \in DOMAIN socket /\ socket'[d] = socket[d] /\ d # c
  BY <1>6 DEF SeenIsCaptured
<1>15. SeenIsCaptured'
  BY <1>6, <1>7, <1>9, <1>13, <1>14 DEF SeenIsCaptured
<1>16. ClosedIsEnded'
  BY <1>2, <1>7, <1>13, <1>14 DEF ClosedIsEnded
<1>17. ReusedIsApart'
  BY <1>2, <1>13, <1>14 DEF ReusedIsApart
<1> QED
  BY <1>10, <1>11, <1>12, <1>15, <1>16, <1>17

(* A record that the ring has room for is in a place of its own behind all *)
(* others, and what was seen and ended before stays.                       *)
LEMMA Appended ==
    ASSUME Inv, NEW n \in Nat, n = Len(ring), NEW r \in Rec, ring' = Pushed(r), ring' # ring, UNCHANGED streams
    PROVE  /\ n < RingSize /\ Len(ring') = n + 1
           /\ ring' \in Seq(Rec) /\ Len(ring') <= RingSize
           /\ Places' = Places \cup {n + 1} /\ n + 1 \notin Places
           /\ \A k, c : \A i \in Places : Seen(i, k, c)' = Seen(i, k, c)
           /\ \A k, c : Seen(n + 1, k, c)' = (~r.closed /\ r.key = k /\ r.of = c)
           /\ \A k, i, j : Ends(k, i, j) => Ends(k, i, j)'
           /\ \A k, i : Ends(k, i, n + 1) => Ends(k, i, Len(ring) + 1)'
           /\ \A k, i : i \in Places /\ r.closed /\ r.key = k => Ends(k, i, Len(ring) + 1)'
PROOF
<1> USE DEF Inv, Types
<1>1. RingSize \in Nat /\ DOMAIN ring = 1 .. n
  BY PlaintextAssumption
<1>2. n < RingSize /\ ring' = Append(ring, r)
  BY DEF Pushed
<1>3. /\ ring' \in Seq(Rec) /\ Len(ring') = n + 1 /\ ring'[n + 1] = r
      /\ \A i \in 1 .. n : ring'[i] = ring[i]
  BY <1>2, AppendProperties
<1>4. DOMAIN ring' = 1 .. n + 1
  BY <1>3
<1>5. Len(ring') <= RingSize /\ Places' = Places \cup {n + 1} /\ n + 1 \notin Places
  BY <1>1, <1>2, <1>3 DEF Places
<1>6. \A k, c : \A i \in Places : Seen(i, k, c)' = Seen(i, k, c)
  BY <1>1, <1>3 DEF Places, Seen
<1>7. \A k, c : Seen(n + 1, k, c)' = (~r.closed /\ r.key = k /\ r.of = c)
  BY <1>1, <1>3 DEF Seen
<1>8. \A k, i, j : Ends(k, i, j) => Ends(k, i, j)'
  BY <1>1, <1>3, <1>4 DEF Ends
<1>9. \A k, i : Ends(k, i, n + 1) => Ends(k, i, Len(ring) + 1)'
  BY <1>1, <1>3, <1>4 DEF Ends
<1>10. \A k, i : i \in Places /\ r.closed /\ r.key = k => Ends(k, i, Len(ring) + 1)'
  BY <1>1, <1>3, <1>4 DEF Places, Ends
<1> QED
  BY <1>1, <1>2, <1>3, <1>5, <1>6, <1>7, <1>8, <1>9, <1>10

(* What an open connection sends is behind what was captured of every      *)
(* other with its addresses and ports, which is closed: so behind the      *)
(* close record of that one.                                               *)
LEMMA TransferInv ==
    ASSUME Inv, NEW c \in Sockets, Transfer(c)
    PROVE  Inv'
PROOF
<1> USE DEF Inv
<1> DEFINE f == socket[c].flow
           key == <<conns[f].pid, StreamId(f)>>
           r == [key |-> key, of |-> c, closed |-> FALSE]
<1>1. /\ c \in OpenSockets /\ f \in DOMAIN conns /\ ring' = Pushed(r)
      /\ UNCHANGED <<sockets, lost, streams>>
  BY DEF Transfer
<1>2. c \in DOMAIN socket /\ f \in Flows /\ conns[f].pid \in Pids
  BY <1>1 DEF OpenSockets, Types
<1>3. key \in Keys /\ r \in Rec
  BY <1>2 DEF Keys, Rec, Flows, StreamId
<1>4. ~r.closed /\ r.key = key /\ r.of = c
  OBVIOUS
<1> HIDE DEF r, key
<1>5. CASE ring' = ring
  BY <1>1, <1>5, SameInv DEF reading
<1>6. CASE ring' # ring
  <2> PICK n \in Nat : n = Len(ring)
    BY DEF Types
  <2>1. /\ ring' \in Seq(Rec) /\ Len(ring') <= RingSize
        /\ Places' = Places \cup {n + 1} /\ n + 1 \notin Places
        /\ \A k, d : \A i \in Places : Seen(i, k, d)' = Seen(i, k, d)
        /\ \A k, d : Seen(n + 1, k, d)' = (key = k /\ c = d)
        /\ \A k, i, j : Ends(k, i, j) => Ends(k, i, j)'
        /\ \A k, i : Ends(k, i, n + 1) => Ends(k, i, Len(ring) + 1)'
    BY <1>1, <1>3, <1>4, <1>6, Appended
  <2>2. Types' /\ FlowsApart' /\ ConnsAreOpen' /\ OpenSockets' = OpenSockets
    BY <1>1, <2>1 DEF Types, FlowsApart, ConnsAreOpen, OpenSockets, sockets
  <2>3. ASSUME NEW k \in Keys, NEW d \in Sockets, NEW i \in Places', Seen(i, k, d)'
        PROVE  \/ i \in Places /\ Seen(i, k, d)
               \/ k = key /\ d = c
    BY <2>1, <2>3
  <2>4. SeenIsCaptured'
    BY <1>1, <1>2, <2>2, <2>3 DEF SeenIsCaptured, sockets, key
  <2>5. ClosedIsEnded'
    BY <1>1, <2>1, <2>2, <2>3 DEF ClosedIsEnded, sockets
  <2>6. ASSUME NEW k \in Keys, NEW d \in Sockets, NEW i \in Places, Seen(i, k, d), d # c, socket[d].flow = f
        PROVE  f \in lost \/ Ends(k, i, n + 1)
    <3>1. d \in DOMAIN socket /\ d \notin OpenSockets
      BY <1>1, <2>6 DEF SeenIsCaptured, FlowsApart
    <3> QED
      BY <2>6, <3>1 DEF ClosedIsEnded
  <2>7. \A i, j \in Places' : i <= j /\ j \in Places => i \in Places
    BY <2>1 DEF Places
  <2>8. ASSUME NEW k \in Keys, NEW d \in Sockets, NEW e \in Sockets, NEW i \in Places', NEW j \in Places',
               i <= j, Seen(i, k, d)', Seen(j, k, e)', d # e, socket[d].flow = socket[e].flow
        PROVE  socket[d].flow \in lost \/ Ends(k, i, j)'
    <3>1. CASE j \in Places
      <4>1. i \in Places
        BY <2>7, <2>8, <3>1
      <4> QED
        BY <2>1, <2>8, <3>1, <4>1 DEF ReusedIsApart
    <3>2. CASE j = n + 1
      <4>1. e = c /\ i # n + 1
        BY <2>1, <2>8, <3>2
      <4>2. i \in Places /\ Seen(i, k, d)
        BY <2>1, <2>8, <4>1
      <4> QED
        BY <2>1, <2>6, <2>8, <3>2, <4>1, <4>2
    <3> QED
      BY <2>1, <3>1, <3>2
  <2>9. ReusedIsApart'
    BY <1>1, <2>8 DEF ReusedIsApart, sockets
  <2> QED
    BY <2>2, <2>4, <2>5, <2>9
<1> QED
  BY <1>5, <1>6

(* What was captured of a connection that closes is behind its close       *)
(* record, or there was no room for that one.  Without an entry nothing of *)
(* it was.                                                                 *)
LEMMA CloseInv ==
    ASSUME Inv, NEW c \in Sockets, Close(c)
    PROVE  Inv'
PROOF
<1> USE DEF Inv
<1> PICK f : f = socket[c].flow
  OBVIOUS
<1> PICK key : key = <<conns[f].pid, StreamId(f)>>
  OBVIOUS
<1> DEFINE r == [key |-> key, of |-> c, closed |-> TRUE]
<1>1. /\ c \in OpenSockets /\ c \in DOMAIN socket
      /\ socket' = [socket EXCEPT ![c].open = FALSE]
      /\ conns' = Restrict(conns, Kept(f)) /\ UNCHANGED streams
  BY DEF Close, OpenSockets
<1>2. \/ f \in DOMAIN conns /\ ring' = Pushed(r) /\ lost' = IF Len(ring) = RingSize THEN lost \cup {f} ELSE lost
      \/ f \notin DOMAIN conns /\ ring' = ring /\ lost' = lost
  BY DEF Close, EmitsClose
<1>3. socket[c] \in [flow : Flows, pid : Pids, open : BOOLEAN]
  BY <1>1 DEF Types
<1>4. /\ DOMAIN socket' = DOMAIN socket
      /\ socket'[c] \in [flow : Flows, pid : Pids, open : BOOLEAN] /\ socket'[c].flow = f /\ ~socket'[c].open
      /\ \A d \in DOMAIN socket : d # c => socket'[d] = socket[d]
  BY <1>1, <1>3
<1>5. OpenSockets' = OpenSockets \ {c} /\ \A d \in OpenSockets : d \in DOMAIN socket
  BY <1>4 DEF OpenSockets
<1>6. DOMAIN conns' = DOMAIN conns \ {f} /\ \A g \in DOMAIN conns' : conns'[g] = conns[g]
  BY <1>1 DEF Restrict, Kept
<1>7. f \in DOMAIN conns => key \in Keys /\ r \in Rec
  BY <1>3 DEF Types, Keys, Rec, Flows, StreamId
<1>8. r.closed /\ r.key = key
  OBVIOUS
<1>9. \A d \in DOMAIN socket : socket'[d].flow = socket[d].flow
  BY <1>4
<1> HIDE DEF r
<1>10. lost \subseteq lost'
  BY <1>2
<1>11. /\ ring' \in Seq(Rec) /\ Len(ring') <= RingSize
       /\ \A k, i, j : Ends(k, i, j) => Ends(k, i, j)'
       /\ \A k, d : \A i \in Places' : Seen(i, k, d)' => i \in Places /\ Seen(i, k, d)
       /\ \A k, i : Ends(k, i, Len(ring) + 1) => Ends(k, i, Len(ring) + 1)'
       /\ \A i \in Places : f \in DOMAIN conns => f \in lost' \/ Ends(key, i, Len(ring) + 1)'
  <2>1. CASE ring' = ring
    <3>1. f \in DOMAIN conns => f \in lost'
      <4>1. CASE Len(ring) = RingSize
        BY <1>2, <4>1
      <4>2. CASE Len(ring) # RingSize
        BY <1>2, <1>7, <2>1, <4>2, AppendProperties, PlaintextAssumption DEF Types, Pushed
      <4> QED
        BY <4>1, <4>2
    <3> QED
      BY <1>1, <2>1, <3>1 DEF Types, Ends, Places, Seen
  <2>2. CASE ring' # ring
    <3> PICK n \in Nat : n = Len(ring)
      BY DEF Types
    <3>1. f \in DOMAIN conns /\ ring' = Pushed(r) /\ r \in Rec
      BY <1>2, <1>7, <2>2
    <3>2. /\ ring' \in Seq(Rec) /\ Len(ring') <= RingSize
          /\ Places' = Places \cup {n + 1}
          /\ \A k, d : \A i \in Places : Seen(i, k, d)' = Seen(i, k, d)
          /\ \A k, d : ~Seen(n + 1, k, d)'
          /\ \A k, i, j : Ends(k, i, j) => Ends(k, i, j)'
          /\ \A k, i : Ends(k, i, n + 1) => Ends(k, i, Len(ring) + 1)'
          /\ \A i \in Places : Ends(key, i, Len(ring) + 1)'
      BY <1>1, <1>8, <2>2, <3>1, Appended
    <3>3. \A k, d : \A i \in Places' : Seen(i, k, d)' => i \in Places /\ Seen(i, k, d)
      BY <3>2
    <3> QED
      BY <3>2, <3>3
  <2> QED
    BY <2>1, <2>2
<1>12. Types'
  <2>1. \A d \in DOMAIN socket' : d \in Sockets /\ socket'[d] \in [flow : Flows, pid : Pids, open : BOOLEAN]
    BY <1>4 DEF Types
  <2>2. \A g \in DOMAIN conns' : g \in Flows /\ conns'[g] \in [pid : Pids, of : Sockets]
    BY <1>6 DEF Types
  <2> QED
    BY <1>1, <1>11, <2>1, <2>2 DEF Types
<1>13. FlowsApart'
  BY <1>5, <1>9 DEF FlowsApart
<1>14. ConnsAreOpen'
  BY <1>5, <1>6, <1>9 DEF ConnsAreOpen
<1>15. ASSUME NEW k \in Keys, NEW d \in Sockets, NEW i \in Places', Seen(i, k, d)'
       PROVE  /\ i \in Places /\ Seen(i, k, d) /\ d \in DOMAIN socket
              /\ d \in OpenSockets =>
                    /\ socket[d].flow \in DOMAIN conns
                    /\ k = <<conns[socket[d].flow].pid, StreamId(socket[d].flow)>>
  BY <1>11, <1>15 DEF SeenIsCaptured
<1>16. SeenIsCaptured'
  <2> SUFFICES ASSUME NEW k \in Keys, NEW d \in Sockets, NEW i \in Places', Seen(i, k, d)'
               PROVE  /\ d \in DOMAIN socket'
                      /\ d \in OpenSockets' =>
                            /\ socket'[d].flow \in DOMAIN conns'
                            /\ k = <<conns'[socket'[d].flow].pid, StreamId(socket'[d].flow)>>
    BY DEF SeenIsCaptured
  <2>1. d \in OpenSockets' => d \in OpenSockets /\ socket[d].flow # f
    BY <1>1, <1>5 DEF FlowsApart
  <2>2. d \in DOMAIN socket' /\ socket'[d].flow = socket[d].flow
    BY <1>4, <1>9, <1>15
  <2> QED
    BY <1>6, <1>15, <2>1, <2>2
<1>17. ClosedIsEnded'
  <2> SUFFICES ASSUME NEW k \in Keys, NEW d \in Sockets, NEW i \in Places', Seen(i, k, d)'
               PROVE  d \in OpenSockets' \/ socket'[d].flow \in lost' \/ Ends(k, i, Len(ring) + 1)'
    BY DEF ClosedIsEnded
  <2>1. socket'[d].flow = socket[d].flow
    BY <1>9, <1>15
  <2>2. CASE d = c
    BY <1>1, <1>11, <1>15, <2>1, <2>2
  <2>3. CASE d # c
    BY <1>5, <1>10, <1>11, <1>15, <2>1, <2>3 DEF ClosedIsEnded
  <2> QED
    BY <2>2, <2>3
<1>18. ReusedIsApart'
  <2> SUFFICES ASSUME NEW k \in Keys, NEW d \in Sockets, NEW e \in Sockets, NEW i \in Places', NEW j \in Places',
                      i <= j, Seen(i, k, d)', Seen(j, k, e)', d # e, socket'[d].flow = socket'[e].flow
               PROVE  socket'[d].flow \in lost' \/ Ends(k, i, j)'
    BY DEF ReusedIsApart
  <2>1. socket'[d].flow = socket[d].flow /\ socket'[e].flow = socket[e].flow
    BY <1>9, <1>15
  <2> QED
    BY <1>10, <1>11, <1>15, <2>1 DEF ReusedIsApart
<1> QED
  BY <1>12, <1>13, <1>14, <1>16, <1>17, <1>18

(* When the ring's first record is handled, every other one moves a place  *)
(* nearer, and the stream becomes what it and that record were.            *)
LEMMA HandleInv ==
    ASSUME Inv, Handle
    PROVE  Inv'
PROOF
<1> USE DEF Inv
<1> PICK n \in Nat : n = Len(ring)
  BY DEF Types
<1> PICK r : r = ring[1]
  OBVIOUS
<1>1. /\ ring # <<>> /\ ring' = Tail(ring) /\ UNCHANGED <<sockets, lost>>
      /\ Head(ring) = r /\ ring \in Seq(Rec)
  BY DEF Handle, Types
<1>2. /\ n >= 1 /\ ring' \in Seq(Rec) /\ Len(ring') = n - 1
      /\ \A i \in 1 .. n - 1 : ring'[i] = ring[i + 1]
  BY <1>1, HeadTailProperties, EmptySeq
<1>3. DOMAIN ring = 1 .. n /\ DOMAIN ring' = 1 .. n - 1 /\ r \in Rec
  BY <1>1, <1>2
<1>4. r.key \in Keys /\ r.of \in Sockets
  BY <1>3 DEF Rec
<1>5. streams' = IF r.closed THEN Restrict(streams, DOMAIN streams \ {r.key})
                 ELSE LET had == IF r.key \in DOMAIN streams THEN streams[r.key] ELSE {}
                      IN  Inserted(streams, r.key, had \cup {r.of})
  BY <1>1 DEF Handle
<1>6. /\ \A k \in DOMAIN streams' : k \in Keys /\ streams'[k] \subseteq Sockets
      /\ \A k \in DOMAIN streams' : \A c \in streams'[k] :
            \/ ~r.closed /\ r.key = k /\ r.of = c
            \/ k \in DOMAIN streams /\ c \in streams[k] /\ ~(r.closed /\ r.key = k)
  <2>1. CASE r.closed
    BY <1>5, <2>1 DEF Types, Restrict
  <2>2. CASE ~r.closed
    BY <1>4, <1>5, <2>2 DEF Types, Inserted
  <2> QED
    BY <2>1, <2>2
<1>7. Types' /\ FlowsApart' /\ ConnsAreOpen' /\ OpenSockets' = OpenSockets
  <2>1. Len(ring') <= RingSize
    BY <1>2, PlaintextAssumption DEF Types
  <2>2. Types'
    BY <1>1, <1>2, <1>6, <2>1 DEF Types, sockets
  <2> QED
    BY <1>1, <2>2 DEF FlowsApart, ConnsAreOpen, OpenSockets, sockets
(* Where it was in the ring before. *)
<1> DEFINE Before(i, k, b) ==
             \/ i > 0 /\ b = i + 1
             \/ i = 0 /\ b = 1
             \/ i = 0 /\ b = 0 /\ ~(r.closed /\ r.key = k)
<1>8. ASSUME NEW i \in Places', NEW k \in Keys, NEW c \in Sockets, Seen(i, k, c)'
      PROVE  \E b \in Places : Seen(b, k, c) /\ Before(i, k, b)
  <2>1. CASE i = 0
    <3>1. k \in DOMAIN streams' /\ c \in streams'[k]
      BY <1>8, <2>1 DEF Seen
    <3>2. CASE ~r.closed /\ r.key = k /\ r.of = c
      <4>1. 1 \in Places /\ Seen(1, k, c)
        BY <1>2, <3>2 DEF Places, Seen
      <4> QED
        BY <2>1, <4>1
    <3>3. CASE k \in DOMAIN streams /\ c \in streams[k] /\ ~(r.closed /\ r.key = k)
      <4>1. 0 \in Places /\ Seen(0, k, c)
        BY <3>3 DEF Places, Seen
      <4> QED
        BY <2>1, <3>3, <4>1
    <3> QED
      BY <1>6, <3>1, <3>2, <3>3
  <2>2. CASE i # 0
    <3>1. i \in 1 .. n - 1 /\ ~ring'[i].closed /\ ring'[i].key = k /\ ring'[i].of = c
      BY <1>2, <1>8, <2>2 DEF Places, Seen
    <3>2. i + 1 \in Places /\ Seen(i + 1, k, c)
      BY <1>2, <3>1 DEF Places, Seen
    <3> QED
      BY <3>1, <3>2
  <2> QED
    BY <2>1, <2>2
<1>9. ASSUME NEW i \in Nat, NEW j \in Nat, NEW b \in Nat, NEW k, Before(i, k, b), Ends(k, b, j + 1)
      PROVE  Ends(k, i, j)'
  <2>1. PICK m \in 1 .. n : b < m /\ m < j + 1 /\ ring[m].closed /\ ring[m].key = k
    BY <1>3, <1>9 DEF Ends
  <2>2. m - 1 \in 1 .. n - 1 /\ i < m - 1 /\ m - 1 < j
    BY <1>9, <2>1
  <2>3. ring'[m - 1] = ring[m]
    BY <1>2, <2>1, <2>2
  <2> QED
    BY <1>3, <2>1, <2>2, <2>3 DEF Ends
<1>10. Places \subseteq Nat /\ Places' \subseteq Nat
  BY DEF Places
<1> HIDE DEF Before
<1>11. SeenIsCaptured'
  BY <1>1, <1>7, <1>8 DEF SeenIsCaptured, sockets
<1>12. ClosedIsEnded'
  <2>1. ASSUME NEW k \in Keys, NEW c \in Sockets, NEW i \in Places', Seen(i, k, c)'
        PROVE  c \in OpenSockets \/ socket[c].flow \in lost \/ Ends(k, i, n)'
    <3>1. PICK b \in Places : Seen(b, k, c) /\ Before(i, k, b)
      BY <1>8, <2>1
    <3>2. c \in OpenSockets \/ socket[c].flow \in lost \/ Ends(k, b, n + 1)
      BY <3>1 DEF ClosedIsEnded
    <3> QED
      BY <1>9, <1>10, <3>1, <3>2
  <2>2. \A k, i : Ends(k, i, n)' => Ends(k, i, Len(ring) + 1)'
    BY <1>2, <1>3 DEF Ends
  <2> QED
    BY <1>1, <1>7, <2>1, <2>2 DEF ClosedIsEnded, sockets
<1>13. ASSUME NEW k \in Keys, NEW c \in Sockets, NEW d \in Sockets, NEW i \in Places', NEW j \in Places',
              i <= j, Seen(i, k, c)', Seen(j, k, d)', c # d, socket[c].flow = socket[d].flow
       PROVE  socket[c].flow \in lost \/ Ends(k, i, j)'
  <2>1. PICK b \in Places : Seen(b, k, c) /\ Before(i, k, b)
    BY <1>8, <1>13
  <2>2. PICK e \in Places : Seen(e, k, d) /\ Before(j, k, e)
    BY <1>8, <1>13
  <2>3. CASE b <= e /\ j > 0
    <3>1. e = j + 1
      BY <1>10, <2>2, <2>3 DEF Before
    <3>2. socket[c].flow \in lost \/ Ends(k, b, j + 1)
      BY <1>13, <2>1, <2>2, <2>3, <3>1 DEF ReusedIsApart
    <3> QED
      BY <1>9, <1>10, <2>1, <3>2
  <2>4. CASE ~(b <= e /\ j > 0)
    (* Both are in the stream: no record is between its two places. *)
    <3>1. b \in {0, 1} /\ e \in {0, 1}
      BY <1>10, <1>13, <2>1, <2>2, <2>4 DEF Before
    <3>2. ~Ends(k, b, e) /\ ~Ends(k, e, b)
      BY <1>3, <3>1 DEF Ends
    <3>3. socket[c].flow \in lost
      BY <1>13, <2>1, <2>2, <3>1, <3>2 DEF ReusedIsApart
    <3> QED
      BY <3>3
  <2> QED
    BY <2>3, <2>4
<1>14. ReusedIsApart'
  BY <1>1, <1>13 DEF ReusedIsApart, sockets
<1> QED
  BY <1>7, <1>11, <1>12, <1>14

(* Every step keeps the invariant. *)
LEMMA InvStep ==
    ASSUME Inv, [Next]_vars
    PROVE  Inv'
PROOF
<1>1. CASE \E h \in Hosts : Change(h)
  BY <1>1, SameInv DEF Change
<1>2. CASE Starting
  BY <1>2, SameInv DEF Starting, Attach, AttachProgramsAndRead, Connect
<1>3. CASE Resolving
  BY <1>3, SameInv DEF Resolving, LookupHost, GetService, ListSlices, Push, Wake
<1>4. CASE \E p \in Pids : Establish(p)
  BY <1>4, EstablishInv
<1>5. CASE \E c \in Sockets : Transfer(c)
  BY <1>5, TransferInv
<1>6. CASE \E c \in Sockets : Close(c)
  BY <1>6, CloseInv
<1>7. CASE Handle
  BY <1>7, HandleInv
<1>8. CASE Sweep
  BY <1>8, SweepInv
<1>9. CASE UNCHANGED vars
  BY <1>9, SameInv DEF vars
<1> QED
  BY <1>1, <1>2, <1>3, <1>4, <1>5, <1>6, <1>7, <1>8, <1>9 DEF Next

(* All that is captured keeps to the invariant. *)
LEMMA InvAlways == Spec => []Inv
PROOF
<1>1. Init => Inv
  BY InvInit
<1>2. Inv /\ [Next]_vars => Inv'
  BY InvStep
<1> QED
  BY <1>1, <1>2, PTL DEF Spec

(* An entry of PLAIN_CONNS is an open connection's with its addresses and  *)
(* ports: a closed one takes up no slot, and nothing is captured under the *)
(* entry of another.                                                       *)
THEOREM ConnsStayOpen == Spec => []ConnsAreOpen
PROOF
<1>1. Inv => ConnsAreOpen
  BY DEF Inv
<1> QED
  BY <1>1, InvAlways, PTL

(* Two connections that used the same addresses and ports one after the    *)
(* other are parsed as two streams, unless the ring had no room for the    *)
(* first one's close record.                                               *)
THEOREM ReusedFlowsAreApart == Spec => []ReusedFlowIsNewStream
PROOF
<1>1. Inv => ReusedFlowIsNewStream
  BY InvReused
<1> QED
  BY <1>1, InvAlways, PTL
=============================================================================
