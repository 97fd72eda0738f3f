--------------------------- MODULE SslCaptureProofs ---------------------------
(***************************************************************************)
(* Proofs about SslCapture for any threads, connections, library, map      *)
(* sizes and pattern of calls: a record carries the buffer, the connection *)
(* and the start of the call whose return sent it.  Then, that bytes that  *)
(* are missing are counted, that the session maps keep no entry of a call  *)
(* that is over, and that a record has the length of its call.             *)
(*                                                                         *)
(* The first rests on the order in which probes are attached.  A session  *)
(* belongs to the thread, so a call made inside another overwrites the     *)
(* outer one's.  That is harmless when the inner call's return is probed   *)
(* as well, for it then clears the session (SessionsAreProbed).  A return  *)
(* is probed after its entry, and a library's functions in the order in    *)
(* which they call one another (ProbedInOrder): so an inner call whose     *)
(* entry alone is probed is inside none whose return is (CallsAreNested),  *)
(* but for the handshake, which leaves no buffer.                          *)
(***************************************************************************)
EXTENDS SslCapture, SequenceTheorems, TLAPS

Handshake == "SSL_do_handshake"

(* How many functions were tried. *)
Tried == Len(Exported) - Len(todo)

Call == [func : STRING, ssl : Conns, size : Sizes \cup {1}, thread : Threads]

Session == [buf : Nat, ssl : Conns \cup {0}]

Emission == [pc : {"emit"}, call : Nat, dir : {"Read", "Write", "Handshake"}, len : Sizes \cup {0, 1}, i : Nat,
             began : Nat, stray : BOOLEAN, buf : Nat, ssl : Conns \cup {0}]

Clearing == [pc |-> "clear"]

Record == [call : Nat, ssl : Conns \cup {0}, buf : Nat, len : Sizes \cup {0, 1}, began : Nat, stray : BOOLEAN,
           offset : Int, n : Int]

Types ==
    /\ calls \in Seq(Call)
    /\ alive \subseteq Threads
    /\ stack \in [Threads -> Seq([call : Nat, hooked : BOOLEAN])]
    /\ \A t \in Threads : \A i \in DOMAIN stack[t] : stack[t][i].call \in DOMAIN calls
    /\ probe \in [Threads -> {NoProbe, Clearing} \cup Emission]
    /\ records \in Seq(Record)

(* Functions are probed in turn, each one's entry and then its return. *)
ProbedInOrder ==
    /\ todo \in Seq(STRING) /\ Len(todo) <= Len(Exported)
    /\ \A i \in 1..Len(todo) : todo[i] = Exported[Tried + i]
    /\ \A f \in returning : f \in entering /\ \E i \in 1..Tried : Exported[i] = f
    /\ \A i \in 1..Tried : Exported[i] \in entering => Exported[i] \in returning

Func(t, i) == calls[stack[t][i].call].func

(* A call whose return is probed is of a function that was probed, and     *)
(* what is called inside another was probed before it.                     *)
CallsAreNested ==
    \A t \in Threads :
        /\ \A i \in DOMAIN stack[t] : stack[t][i].hooked => Func(t, i) \in returning
        /\ \A i, j \in DOMAIN stack[t] : i < j =>
              Func(t, i) # Handshake /\ (Func(t, j) = Handshake \/ Precedes(Func(t, j), Func(t, i)))

(* What a session's buffer tells: a call, its connection and its start. *)
SessionsAreCalls ==
    /\ DOMAIN starts = DOMAIN bufs
    /\ \A t \in DOMAIN bufs :
        /\ bufs[t] \in Session /\ starts[t] \in Nat
        /\ bufs[t].buf # 0 =>
              bufs[t].buf \in DOMAIN calls /\ bufs[t].ssl = calls[bufs[t].buf].ssl /\ starts[t] = bufs[t].buf

(* Below a probed call the session is that of a probed call, perhaps its own. *)
SessionsAreProbed ==
    \A t \in Threads : t \in DOMAIN bufs /\ bufs[t].buf # 0 /\ probe[t] = NoProbe =>
        \A i \in DOMAIN stack[t] : stack[t][i].hooked =>
            \E k \in DOMAIN stack[t] : i <= k /\ stack[t][k].hooked /\ stack[t][k].call = bufs[t].buf

IsOf(r) == r.buf # 0 =>
    r.call \in DOMAIN calls /\ r.buf = r.call /\ r.ssl = calls[r.call].ssl /\ r.began \in {0, r.call}

EmissionsAreRight == \A t \in Threads : probe[t].pc = "emit" => IsOf(probe[t])

RecordsAreRight == \A i \in DOMAIN records : IsOf(records[i])

Inv ==
    /\ Types /\ ProbedInOrder /\ CallsAreNested /\ SessionsAreCalls /\ SessionsAreProbed
    /\ EmissionsAreRight /\ RecordsAreRight

(* The records' part of the invariant is the property. *)
LEMMA InvRecords == Inv => RecordIsOfItsCall
BY DEF Inv, RecordsAreRight, RecordIsOfItsCall, IsOf, Range

(* At the start no probe is attached and nobody is in a call. *)
LEMMA InvInit ==
    ASSUME Init
    PROVE  Inv
PROOF
<1> USE DEF Init, Empty
<1>1. Types
  BY DEF Types
<1>2. ProbedInOrder
  BY CaptureAssumption DEF ProbedInOrder, Tried
<1>3. CallsAreNested /\ SessionsAreCalls /\ SessionsAreProbed
  BY DEF CallsAreNested, SessionsAreCalls, SessionsAreProbed
<1>4. EmissionsAreRight /\ RecordsAreRight
  BY DEF EmissionsAreRight, RecordsAreRight, NoProbe
<1> QED
  BY <1>1, <1>2, <1>3, <1>4 DEF Inv

(***************************************************************************)
(* Probes are attached.                                                    *)
(***************************************************************************)
(* A function's index among those exported is its own. *)
LEMMA HeadIsNext ==
    ASSUME ProbedInOrder, todo # <<>>
    PROVE  /\ Tried \in Nat /\ Tried + 1 \in 1..Len(Exported)
           /\ Head(todo) = Exported[Tried + 1]
           /\ \A i \in 1..Tried : Exported[i] # Head(todo)
           /\ Tail(todo) \in Seq(STRING) /\ Len(Tail(todo)) = Len(todo) - 1
           /\ \A i \in 1..Len(Tail(todo)) : Tail(todo)[i] = Exported[Tried + 1 + i]
PROOF
<1>1. /\ Tried \in Nat /\ Len(todo) \in Nat /\ Len(Exported) \in Nat /\ Len(todo) > 0
      /\ DOMAIN Exported = 1..Len(Exported) /\ Tried + 1 \in 1..Len(Exported)
  BY CaptureAssumption DEF ProbedInOrder, Tried
<1>2. Head(todo) = Exported[Tried + 1]
  BY <1>1 DEF ProbedInOrder
<1>3. \A i \in 1..Tried : Exported[i] # Head(todo)
  BY <1>1, <1>2, CaptureAssumption
<1>4. Tail(todo) \in Seq(STRING) /\ Len(Tail(todo)) = Len(todo) - 1
  BY <1>1 DEF ProbedInOrder
<1>5. ASSUME NEW i \in 1..Len(Tail(todo)) PROVE Tail(todo)[i] = Exported[Tried + 1 + i]
  <2>1. Tail(todo)[i] = todo[i + 1] /\ i + 1 \in 1..Len(todo)
    BY <1>1, <1>4 DEF ProbedInOrder
  <2>2. Tried + (i + 1) = Tried + 1 + i
    BY <1>1
  <2> QED
    BY <2>1, <2>2 DEF ProbedInOrder
<1> QED
  BY <1>1, <1>2, <1>3, <1>4, <1>5

(* What attaching leaves alone. *)
LEMMA HooksInv ==
    ASSUME Inv, ProbedInOrder', returning \subseteq returning',
           UNCHANGED <<program, session, probe, records>>
    PROVE  Inv'
PROOF
<1> USE DEF Inv, program, session
<1>1. Types' /\ SessionsAreCalls' /\ SessionsAreProbed' /\ EmissionsAreRight' /\ RecordsAreRight'
  BY DEF Types, SessionsAreCalls, SessionsAreProbed, EmissionsAreRight, RecordsAreRight, IsOf
<1>2. CallsAreNested'
  BY DEF CallsAreNested, Func
<1> QED
  BY <1>1, <1>2

(* The loader attaches in the order of Exported, and no session changes. *)
LEMMA AttachInv ==
    ASSUME Inv, AttachEnter \/ AttachReturn \/ AttachFails
    PROVE  Inv'
PROOF
<1> USE DEF Inv
<1>1. todo # <<>> /\ ProbedInOrder /\ UNCHANGED <<program, session, probe, records>>
  BY DEF AttachEnter, AttachReturn, AttachFails
<1>2. /\ Tried \in Nat /\ Tried + 1 \in 1..Len(Exported)
      /\ Head(todo) = Exported[Tried + 1]
      /\ \A i \in 1..Tried : Exported[i] # Head(todo)
      /\ Tail(todo) \in Seq(STRING) /\ Len(Tail(todo)) = Len(todo) - 1
      /\ \A i \in 1..Len(Tail(todo)) : Tail(todo)[i] = Exported[Tried + 1 + i]
  BY <1>1, HeadIsNext
<1>3. Len(todo) \in Nat /\ Len(Exported) \in Nat
  BY CaptureAssumption DEF ProbedInOrder
<1>4. CASE AttachEnter
  <2>1. UNCHANGED <<todo, returning>> /\ entering' = entering \cup {Head(todo)} /\ Tried' = Tried
    BY <1>4 DEF AttachEnter, Tried
  <2>2. ProbedInOrder'
    BY <1>2, <2>1 DEF ProbedInOrder
  <2> QED
    BY <1>1, <2>1, <2>2, HooksInv
<1>5. CASE AttachReturn \/ AttachFails
  <2>1. /\ todo' = Tail(todo)
        /\ \/ /\ UNCHANGED entering /\ returning' = returning \cup {Head(todo)} /\ Head(todo) \in entering
           \/ entering' = entering \ {Head(todo)} /\ UNCHANGED returning
    BY <1>5 DEF AttachReturn, AttachFails
  <2>2. Tried' = Tried + 1 /\ Len(todo') <= Len(Exported)
    BY <1>2, <1>3, <2>1 DEF Tried, ProbedInOrder
  <2>3. \A f \in returning' : f \in entering' /\ \E i \in 1..Tried' : Exported[i] = f
    <3> SUFFICES ASSUME NEW f \in returning'
                 PROVE  f \in entering' /\ \E i \in 1..(Tried + 1) : Exported[i] = f
      BY <2>2
    <3>1. CASE f \in returning
      <4>1. PICK i \in 1..Tried : Exported[i] = f
        BY <3>1 DEF ProbedInOrder
      <4>2. f \in entering /\ f # Head(todo) /\ i \in 1..(Tried + 1)
        BY <1>2, <3>1, <4>1 DEF ProbedInOrder
      <4> QED
        BY <2>1, <4>1, <4>2
    <3>2. CASE f \notin returning
      <4>1. f = Head(todo) /\ f \in entering'
        BY <2>1, <3>2
      <4> QED
        BY <1>2, <4>1
    <3> QED
      BY <3>1, <3>2
  <2>4. \A i \in 1..Tried' : Exported[i] \in entering' => Exported[i] \in returning'
    <3> SUFFICES ASSUME NEW i \in 1..(Tried + 1), Exported[i] \in entering'
                 PROVE  Exported[i] \in returning'
      BY <2>2
    <3>1. CASE i = Tried + 1
      BY <1>2, <2>1, <3>1
    <3>2. CASE i # Tried + 1
      <4>1. i \in 1..Tried
        BY <1>2, <3>2
      <4> QED
        BY <2>1, <4>1 DEF ProbedInOrder
    <3> QED
      BY <3>1, <3>2
  <2>5. ProbedInOrder'
    BY <1>2, <2>1, <2>2, <2>3, <2>4 DEF ProbedInOrder
  <2> QED
    BY <1>1, <2>1, <2>5, HooksInv
<1> QED
  BY <1>4, <1>5

(***************************************************************************)
(* A call begins.                                                          *)
(***************************************************************************)
LEMMA PrecedesTransitive ==
    ASSUME NEW f, NEW g, NEW h, Precedes(h, g), Precedes(g, f)
    PROVE  Precedes(h, f)
PROOF
<1>1. PICK i, j \in DOMAIN Exported : i < j /\ Exported[i] = h /\ Exported[j] = g
  BY DEF Precedes
<1>2. PICK k, m \in DOMAIN Exported : k < m /\ Exported[k] = g /\ Exported[m] = f
  BY DEF Precedes
<1>3. j = k /\ DOMAIN Exported \subseteq Nat
  BY <1>1, <1>2, CaptureAssumption
<1>4. i < m
  BY <1>1, <1>2, <1>3
<1> QED
  BY <1>1, <1>2, <1>4 DEF Precedes

(* Inside a function whose return is probed, none has its entry alone      *)
(* probed that was to be probed before.                                    *)
LEMMA EarlierIsProbed ==
    ASSUME ProbedInOrder, NEW f \in returning, NEW g \in entering, Precedes(g, f)
    PROVE  g \in returning
PROOF
<1>1. PICK i, j \in DOMAIN Exported : i < j /\ Exported[i] = g /\ Exported[j] = f
  BY DEF Precedes
<1>2. PICK k \in 1..Tried : Exported[k] = f
  BY DEF ProbedInOrder
<1>3. /\ DOMAIN Exported = 1..Len(Exported) /\ Len(Exported) \in Nat /\ Len(todo) \in Nat
      /\ Tried \in Nat /\ Tried <= Len(Exported)
  BY CaptureAssumption DEF ProbedInOrder, Tried
<1>4. k = j
  BY <1>1, <1>2, <1>3, CaptureAssumption
<1>5. i \in 1..Tried
  BY <1>1, <1>2, <1>3, <1>4
<1> QED
  BY <1>1, <1>5 DEF ProbedInOrder

(* What a call made inside others is to each of them. *)
LEMMA InnerIsEarlier ==
    ASSUME Inv, NEW t \in Threads, NEW f, NEW ssl, CanCall(t, f, ssl),
           NEW i \in DOMAIN stack[t]
    PROVE  Func(t, i) # Handshake /\ (f = Handshake \/ Precedes(f, Func(t, i)))
PROOF
<1> DEFINE n == Len(stack[t])
<1>1. stack[t] \in Seq([call : Nat, hooked : BOOLEAN]) /\ n \in Nat /\ i \in 1..n
  BY DEF Inv, Types
<1>2. Last(stack[t]) = stack[t][n] /\ stack[t] # <<>> /\ n \in DOMAIN stack[t]
  BY <1>1 DEF Last
<1>3. <<Func(t, n), f>> \in Nested
  BY <1>2 DEF CanCall, Func
<1>4. Func(t, n) # Handshake /\ (f = Handshake \/ Precedes(f, Func(t, n)))
  BY <1>3, CaptureAssumption DEF Handshake
<1>5. CASE i = n
  BY <1>4, <1>5
<1>6. CASE i < n
  <2>1. Func(t, i) # Handshake /\ Precedes(Func(t, n), Func(t, i))
    BY <1>2, <1>4, <1>6 DEF Inv, CallsAreNested
  <2> QED
    BY <1>4, <2>1, PrecedesTransitive
<1> QED
  BY <1>1, <1>5, <1>6

(* What Start leaves: the new call's session, or, when the maps are full,  *)
(* none.                                                                   *)
LEMMA StartLeaves ==
    ASSUME SessionsAreCalls, NEW t \in Threads, NEW ssl, NEW buf, NEW len, Start(t, ssl, buf, len)
    PROVE  /\ DOMAIN starts' = DOMAIN bufs' /\ DOMAIN bufs' \subseteq DOMAIN bufs \cup {t}
           /\ DOMAIN lens' \subseteq DOMAIN lens \cup {t}
           /\ \A u \in DOMAIN bufs' : u # t => bufs'[u] = bufs[u] /\ starts'[u] = starts[u]
           /\ t \in DOMAIN bufs' => bufs'[t] = [buf |-> buf, ssl |-> ssl] /\ starts'[t] = Len(calls')
PROOF
<1>1. DOMAIN starts = DOMAIN bufs
  BY DEF SessionsAreCalls
<1>2. CASE t \in DOMAIN bufs \/ Cardinality(DOMAIN bufs) < Entries
  BY <1>1, <1>2 DEF Start, Inserted, With
<1>3. CASE ~(t \in DOMAIN bufs \/ Cardinality(DOMAIN bufs) < Entries)
  BY <1>1, <1>3 DEF Start, Inserted, With
<1> QED
  BY <1>2, <1>3

(* A call's session is its own; one made inside another was probed before  *)
(* it.                                                                     *)
LEMMA EnterInv ==
    ASSUME Inv, NEW t \in Threads, NEW f \in Range(Exported), NEW ssl \in Conns, Enter(t, f, ssl)
    PROVE  Inv'
PROOF
<1> USE DEF Inv
<1> PICK n : n = Len(stack[t])
  OBVIOUS
<1> DEFINE c == Len(calls')
           buf == IF f = "SSL_do_handshake" THEN 0 ELSE c
<1>1. /\ Idle(t) /\ CanCall(t, f, ssl) /\ UNCHANGED <<todo, entering, returning, alive, probe, records>>
      /\ stack' = [stack EXCEPT ![t] = Append(@, [call |-> c, hooked |-> f \in returning])]
  BY DEF Enter, hooks
<1>2. PICK size \in Sizes \cup {1} :
        calls' = Append(calls, [func |-> f, ssl |-> ssl, size |-> size, thread |-> t])
  BY DEF Enter
<1>3. f \in STRING
  BY CaptureAssumption DEF Range
<1>4. /\ calls' \in Seq(Call) /\ c = Len(calls) + 1 /\ c \in DOMAIN calls' /\ c \in Nat /\ c # 0
      /\ DOMAIN calls \subseteq DOMAIN calls' /\ \A k \in DOMAIN calls : calls'[k] = calls[k]
      /\ calls'[c].func = f /\ calls'[c].ssl = ssl
  BY <1>2, <1>3 DEF Types, Call
<1>5. /\ n \in Nat /\ DOMAIN stack[t] = 1..n /\ DOMAIN stack'[t] = 1..(n + 1)
      /\ \A i \in 1..n : stack'[t][i] = stack[t][i]
      /\ stack'[t][n + 1] = [call |-> c, hooked |-> f \in returning]
      /\ stack'[t] \in Seq([call : Nat, hooked : BOOLEAN])
      /\ \A u \in Threads \ {t} : stack'[u] = stack[u]
      /\ stack' \in [Threads -> Seq([call : Nat, hooked : BOOLEAN])]
  BY <1>1, <1>4 DEF Types
<1>6. Types'
  <2>1. ASSUME NEW u \in Threads, NEW i \in DOMAIN stack'[u] PROVE stack'[u][i].call \in DOMAIN calls'
    <3>1. CASE u = t /\ i = n + 1
      BY <1>4, <1>5, <3>1
    <3>2. CASE ~(u = t /\ i = n + 1)
      <4>1. i \in DOMAIN stack[u] /\ stack'[u][i] = stack[u][i]
        BY <1>5, <3>2
      <4> QED
        BY <1>4, <4>1 DEF Types
    <3> QED
      BY <3>1, <3>2
  <2> QED
    BY <1>1, <1>4, <1>5, <2>1 DEF Types
<1>7. ProbedInOrder'
  BY <1>1 DEF ProbedInOrder, Tried
<1>8. /\ \A u \in Threads : \A i \in DOMAIN stack[u] : stack'[u][i] = stack[u][i] /\ Func(u, i)' = Func(u, i)
      /\ Func(t, n + 1)' = f
  <2>1. ASSUME NEW u \in Threads, NEW i \in DOMAIN stack[u]
        PROVE  stack'[u][i] = stack[u][i] /\ calls'[stack[u][i].call] = calls[stack[u][i].call]
    <3>1. stack'[u][i] = stack[u][i]
      BY <1>5
    <3>2. stack[u][i].call \in DOMAIN calls
      BY DEF Types
    <3> QED
      BY <1>4, <3>1, <3>2
  <2>2. stack'[t][n + 1].call = c
    BY <1>5
  <2> QED
    BY <1>4, <2>1, <2>2 DEF Func
<1>9. CallsAreNested'
  <2> SUFFICES ASSUME NEW u \in Threads
               PROVE  /\ \A i \in DOMAIN stack'[u] : stack'[u][i].hooked => Func(u, i)' \in returning'
                      /\ \A i, j \in DOMAIN stack'[u] : i < j =>
                            Func(u, i)' # Handshake /\ (Func(u, j)' = Handshake \/ Precedes(Func(u, j)', Func(u, i)'))
    BY DEF CallsAreNested, Precedes
  <2>1. CASE u # t
    BY <1>1, <1>5, <1>8, <2>1 DEF CallsAreNested
  <2>2. CASE u = t
    <3>1. ASSUME NEW i \in DOMAIN stack'[t], stack'[t][i].hooked PROVE Func(t, i)' \in returning'
      <4>1. CASE i = n + 1
        <5>1. f \in returning
          BY <1>5, <3>1, <4>1
        <5>2. Func(t, i)' = f
          BY <1>8, <4>1 DEF Func
        <5> QED
          BY <1>1, <5>1, <5>2
      <4>2. CASE i # n + 1
        <5>1. i \in DOMAIN stack[t]
          BY <1>5, <4>2
        <5> QED
          BY <1>1, <1>8, <3>1, <5>1 DEF CallsAreNested
      <4> QED
        BY <4>1, <4>2
    <3>2. ASSUME NEW i \in DOMAIN stack'[t], NEW j \in DOMAIN stack'[t], i < j
          PROVE  Func(t, i)' # Handshake /\ (Func(t, j)' = Handshake \/ Precedes(Func(t, j)', Func(t, i)'))
      <4>1. i \in DOMAIN stack[t]
        BY <1>5, <3>2
      <4>2. CASE j = n + 1
        BY <1>1, <1>8, <4>1, <4>2, InnerIsEarlier DEF Func
      <4>3. CASE j # n + 1
        <5>1. j \in DOMAIN stack[t]
          BY <1>5, <4>3
        <5> QED
          BY <1>8, <3>2, <4>1, <5>1 DEF CallsAreNested
      <4> QED
        BY <4>2, <4>3
    <3> QED
      BY <2>2, <3>1, <3>2
  <2> QED
    BY <2>1, <2>2
<1>10. CASE f \in entering
  <2>1. PICK len : Start(t, ssl, buf, len)
    BY <1>10 DEF Enter
  <2>2. /\ DOMAIN starts' = DOMAIN bufs' /\ DOMAIN bufs' \subseteq DOMAIN bufs \cup {t}
        /\ DOMAIN lens' \subseteq DOMAIN lens \cup {t}
        /\ \A u \in DOMAIN bufs' : u # t => bufs'[u] = bufs[u] /\ starts'[u] = starts[u]
        /\ t \in DOMAIN bufs' => bufs'[t] = [buf |-> buf, ssl |-> ssl] /\ starts'[t] = c
    BY <2>1, StartLeaves
  <2>3. SessionsAreCalls'
    BY <1>4, <2>2 DEF SessionsAreCalls, Session
  <2>4. ASSUME NEW i \in DOMAIN stack'[t], stack'[t][i].hooked, f # Handshake PROVE f \in returning
    <3>1. CASE i = n + 1
      BY <1>5, <2>4, <3>1
    <3>2. CASE i # n + 1
      <4>1. i \in DOMAIN stack[t] /\ Func(t, i) \in returning
        BY <1>5, <2>4, <3>2 DEF CallsAreNested
      <4> QED
        BY <1>1, <1>10, <2>4, <4>1, InnerIsEarlier, EarlierIsProbed
    <3> QED
      BY <3>1, <3>2
  <2>5. SessionsAreProbed'
    <3> SUFFICES ASSUME NEW u \in Threads, u \in DOMAIN bufs', bufs'[u].buf # 0, probe'[u] = NoProbe,
                        NEW i \in DOMAIN stack'[u], stack'[u][i].hooked
                 PROVE  \E k \in DOMAIN stack'[u] : i <= k /\ stack'[u][k].hooked /\ stack'[u][k].call = bufs'[u].buf
      BY DEF SessionsAreProbed
    <3>1. CASE u # t
      BY <1>1, <1>5, <2>2, <3>1 DEF SessionsAreProbed
    <3>2. CASE u = t
      <4>1. bufs'[t].buf = c /\ f # Handshake
        BY <2>2, <3>2 DEF Handshake
      <4>2. stack'[t][n + 1].hooked /\ stack'[t][n + 1].call = c
        BY <1>5, <2>4, <3>2, <4>1
      <4>3. n + 1 \in DOMAIN stack'[t] /\ i <= n + 1
        BY <1>5, <3>2
      <4> QED
        BY <3>2, <4>1, <4>2, <4>3
    <3> QED
      BY <3>1, <3>2
  <2> QED
    BY <2>3, <2>5, <1>1, <1>4, <1>6, <1>7, <1>9 DEF EmissionsAreRight, RecordsAreRight, IsOf
<1>11. CASE f \notin entering
  <2>1. UNCHANGED <<starts, bufs, lens>>
    BY <1>11 DEF Enter, session
  <2>2. SessionsAreCalls'
    BY <1>4, <2>1 DEF SessionsAreCalls
  <2>3. f \notin returning
    BY <1>11 DEF ProbedInOrder
  <2>4. SessionsAreProbed'
    <3> SUFFICES ASSUME NEW u \in Threads, u \in DOMAIN bufs, bufs[u].buf # 0, probe[u] = NoProbe,
                        NEW i \in DOMAIN stack'[u], stack'[u][i].hooked
                 PROVE  \E k \in DOMAIN stack'[u] : i <= k /\ stack'[u][k].hooked /\ stack'[u][k].call = bufs[u].buf
      BY <1>1, <2>1, SMTT(30) DEF SessionsAreProbed
    <3>1. CASE u # t
      <4>1. stack'[u] = stack[u]
        BY <1>5, <3>1
      <4> QED
        BY <4>1 DEF SessionsAreProbed
    <3>2. CASE u = t
      <4>1. i \in DOMAIN stack[t] /\ stack[t][i].hooked
        BY <1>5, <2>3, <3>2
      <4>2. PICK k \in DOMAIN stack[t] : i <= k /\ stack[t][k].hooked /\ stack[t][k].call = bufs[t].buf
        BY <3>2, <4>1 DEF SessionsAreProbed
      <4> QED
        BY <1>5, <3>2, <4>2
    <3> QED
      BY <3>1, <3>2
  <2> QED
    BY <2>1, <2>2, <2>4, <1>1, <1>4, <1>6, <1>7, <1>9
    DEF EmissionsAreRight, RecordsAreRight, IsOf
<1> QED
  BY <1>10, <1>11

(***************************************************************************)
(* A call returns.                                                         *)
(***************************************************************************)
LEMMA FrontOfSeq ==
    ASSUME NEW S, NEW s \in Seq(S), NEW n, n = Len(s), n > 0
    PROVE  /\ SubSeq(s, 1, n - 1) \in Seq(S) /\ DOMAIN SubSeq(s, 1, n - 1) = 1..(n - 1)
           /\ \A i \in 1..(n - 1) : SubSeq(s, 1, n - 1)[i] = s[i]
PROOF
<1>1. n \in Nat /\ n - 1 <= Len(s) /\ 1 <= n
  OBVIOUS
<1> QED
  BY <1>1, SubSeqProperties

(* A return takes the innermost call from its thread's stack. *)
LEMMA LeaveLeaves ==
    ASSUME Types, NEW t \in Threads, stack[t] # <<>>, Leave(t), NEW n, n = Len(stack[t])
    PROVE  /\ n \in DOMAIN stack[t] /\ Last(stack[t]) = stack[t][n]
           /\ stack' \in [Threads -> Seq([call : Nat, hooked : BOOLEAN])]
           /\ \A u \in Threads \ {t} : stack'[u] = stack[u]
           /\ DOMAIN stack'[t] = DOMAIN stack[t] \ {n}
           /\ \A u \in Threads : \A i \in DOMAIN stack'[u] : i \in DOMAIN stack[u] /\ stack'[u][i] = stack[u][i]
PROOF
<1>1. /\ stack[t] \in Seq([call : Nat, hooked : BOOLEAN]) /\ n \in Nat /\ n > 0
      /\ DOMAIN stack[t] = 1..n
  BY DEF Types
<1>2. stack' = [stack EXCEPT ![t] = SubSeq(stack[t], 1, n - 1)]
  BY DEF Leave, Front
<1> DEFINE rest == SubSeq(stack[t], 1, n - 1)
<1>3. /\ rest \in Seq([call : Nat, hooked : BOOLEAN]) /\ DOMAIN rest = 1..(n - 1)
      /\ \A i \in 1..(n - 1) : rest[i] = stack[t][i]
  BY <1>1, FrontOfSeq
<1>4. stack'[t] = rest /\ \A u \in Threads \ {t} : stack'[u] = stack[u]
  BY <1>2 DEF Types
<1>5. stack' \in [Threads -> Seq([call : Nat, hooked : BOOLEAN])]
  BY <1>2, <1>3 DEF Types
<1>6. DOMAIN stack'[t] = DOMAIN stack[t] \ {n}
  BY <1>1, <1>3, <1>4
<1>7. Last(stack[t]) = stack[t][n]
  BY DEF Last
<1>8. ASSUME NEW u \in Threads, NEW i \in DOMAIN stack'[u]
      PROVE  i \in DOMAIN stack[u] /\ stack'[u][i] = stack[u][i]
  <2>1. CASE u = t
    <3>1. i \in 1..(n - 1)
      BY <1>3, <1>4, <2>1
    <3> QED
      BY <1>1, <1>3, <1>4, <2>1, <3>1
  <2>2. CASE u # t
    BY <1>4, <2>2
  <2> QED
    BY <2>1, <2>2
<1> QED
  BY <1>1, <1>4, <1>5, <1>6, <1>7, <1>8

(* A return changes the thread's probe and stack.  Unless a probe sees it  *)
(* the call was not probed, and the session is not the call's.             *)
LEMMA ReturnInv ==
    ASSUME Inv, NEW t \in Threads, stack[t] # <<>>, Leave(t),
           UNCHANGED <<hooks, alive, calls, session, records>>,
           NEW p \in {NoProbe, Clearing} \cup Emission, probe' = [probe EXCEPT ![t] = p],
           p = NoProbe => ~Last(stack[t]).hooked /\ probe[t] = NoProbe,
           p.pc = "emit" => IsOf(p)
    PROVE  Inv'
PROOF
<1> USE DEF Inv, hooks, session
<1> PICK n : n = Len(stack[t])
  OBVIOUS
<1>1. /\ n \in DOMAIN stack[t] /\ Last(stack[t]) = stack[t][n]
      /\ stack' \in [Threads -> Seq([call : Nat, hooked : BOOLEAN])]
      /\ \A u \in Threads \ {t} : stack'[u] = stack[u]
      /\ DOMAIN stack'[t] = DOMAIN stack[t] \ {n}
      /\ \A u \in Threads : \A i \in DOMAIN stack'[u] : i \in DOMAIN stack[u] /\ stack'[u][i] = stack[u][i]
  BY LeaveLeaves
<1>2. probe'[t] = p /\ \A u \in Threads \ {t} : probe'[u] = probe[u]
  BY DEF Types
<1>3. Types'
  BY <1>1 DEF Types
<1>4. ProbedInOrder' /\ SessionsAreCalls' /\ RecordsAreRight'
  BY DEF ProbedInOrder, Tried, SessionsAreCalls, RecordsAreRight, IsOf
<1>5. CallsAreNested'
  <2>1. \A u \in Threads : \A i \in DOMAIN stack'[u] : i \in DOMAIN stack[u] /\ Func(u, i)' = Func(u, i)
    BY <1>1 DEF Func
  <2>2. \A u \in Threads : \A i \in DOMAIN stack'[u] : stack'[u][i].hooked => Func(u, i)' \in returning'
    BY <1>1, <2>1, SMTT(30) DEF CallsAreNested
  <2>3. \A u \in Threads : \A i, j \in DOMAIN stack'[u] : i < j =>
           Func(u, i)' # Handshake /\ (Func(u, j)' = Handshake \/ Precedes(Func(u, j)', Func(u, i)'))
    BY <2>1 DEF CallsAreNested
  <2> QED
    BY <2>2, <2>3 DEF CallsAreNested, Precedes
<1>6. EmissionsAreRight'
  BY <1>2 DEF EmissionsAreRight, IsOf
<1>7. SessionsAreProbed'
  <2> SUFFICES ASSUME NEW u \in Threads, u \in DOMAIN bufs, bufs[u].buf # 0, probe'[u] = NoProbe,
                      NEW i \in DOMAIN stack'[u], stack'[u][i].hooked
               PROVE  \E k \in DOMAIN stack'[u] : i <= k /\ stack'[u][k].hooked /\ stack'[u][k].call = bufs[u].buf
    BY DEF SessionsAreProbed
  <2>1. probe[u] = NoProbe /\ i \in DOMAIN stack[u] /\ stack[u][i].hooked
    BY <1>1, <1>2
  <2>2. PICK k \in DOMAIN stack[u] : i <= k /\ stack[u][k].hooked /\ stack[u][k].call = bufs[u].buf
    BY <2>1 DEF SessionsAreProbed
  <2>3. k \in DOMAIN stack'[u]
    BY <1>1, <1>2, <2>2
  <2> QED
    BY <1>1, <2>2, <2>3
<1> QED
  BY <1>3, <1>4, <1>5, <1>6, <1>7

(* The session is the returning call's, or none's. *)
LEMMA SessionIsOfTheReturning ==
    ASSUME Inv, NEW t \in Threads, stack[t] # <<>>, Last(stack[t]).hooked, probe[t] = NoProbe,
           t \in DOMAIN bufs, bufs[t].buf # 0
    PROVE  bufs[t].buf = Last(stack[t]).call
PROOF
<1> PICK n : n = Len(stack[t])
  OBVIOUS
<1>1. DOMAIN stack[t] = 1..n /\ n \in 1..n /\ n \in Nat /\ Last(stack[t]) = stack[t][n]
  BY DEF Inv, Types, Last
<1>2. PICK k \in DOMAIN stack[t] : n <= k /\ stack[t][k].hooked /\ stack[t][k].call = bufs[t].buf
  BY <1>1 DEF Inv, SessionsAreProbed
<1>3. k = n
  BY <1>1, <1>2
<1> QED
  BY <1>1, <1>2, <1>3

(* The return probe takes up the session of the call that returns. *)
LEMMA CaptureInv ==
    ASSUME Inv, NEW t \in Threads, Capture(t)
    PROVE  Inv'
PROOF
<1> USE DEF Inv
<1> DEFINE c == Last(stack[t]).call
           dir == Direction(calls[c].func)
<1>1. /\ probe[t] = NoProbe /\ stack[t] # <<>> /\ Last(stack[t]).hooked /\ Leave(t)
      /\ UNCHANGED <<hooks, alive, calls, session, records>>
  BY DEF Capture, Idle
<1>2. c \in DOMAIN calls /\ calls[c] \in Call /\ c \in Nat
  <2> PICK n : n = Len(stack[t])
    OBVIOUS
  <2>1. c = stack[t][n].call /\ n \in DOMAIN stack[t]
    BY <1>1, LeaveLeaves
  <2> QED
    BY <2>1 DEF Types
<1>3. CASE probe' = [probe EXCEPT ![t] = Clearing]
  BY <1>1, <1>3, ReturnInv DEF Clearing, NoProbe
<1>4. ASSUME NEW len \in Lengths(t, c),
             probe' = [probe EXCEPT ![t] =
                 [pc |-> "emit", call |-> c, dir |-> dir, len |-> len, i |-> 0,
                  began |-> IF t \in DOMAIN starts THEN starts[t] ELSE 0,
                  stray |-> t \in strays, buf |-> Buffer(t).buf, ssl |-> Buffer(t).ssl]]
      PROVE  Inv'
  <2> DEFINE began == IF t \in DOMAIN starts THEN starts[t] ELSE 0
             p == [pc |-> "emit", call |-> c, dir |-> dir, len |-> len, i |-> 0, began |-> began,
                   stray |-> t \in strays, buf |-> Buffer(t).buf, ssl |-> Buffer(t).ssl]
  <2>1. len \in Sizes \cup {0, 1}
    BY <1>2 DEF Lengths, Pointed, Ret, Fault, Call
  <2>2. dir \in {"Read", "Write", "Handshake"}
    BY DEF Direction
  <2>3. Buffer(t) \in Session
    BY DEF Buffer, SessionsAreCalls, Session
  <2>4. began \in Nat
    BY DEF SessionsAreCalls
  <2>5. p \in Emission
    BY <1>2, <2>1, <2>2, <2>3, <2>4 DEF Emission, Session
  <2>6. IsOf(p)
    <3> SUFFICES ASSUME p.buf # 0
                 PROVE  c \in DOMAIN calls /\ p.buf = c /\ p.ssl = calls[c].ssl /\ began \in {0, c}
      BY DEF IsOf
    <3>1. t \in DOMAIN bufs /\ bufs[t].buf # 0 /\ p.buf = bufs[t].buf /\ p.ssl = bufs[t].ssl
      BY DEF Buffer
    <3>2. bufs[t].buf = c
      BY <1>1, <3>1, SessionIsOfTheReturning
    <3> QED
      BY <1>2, <3>1, <3>2 DEF SessionsAreCalls
  <2> QED
    BY <1>1, <1>4, <2>5, <2>6, ReturnInv DEF NoProbe
<1> QED
  BY <1>3, <1>4 DEF Capture, Clearing

(* A return without a record leaves the sessions to those below it. *)
LEMMA NotSeenInv ==
    ASSUME Inv, NEW t \in Threads, ReturnUnseen(t) \/ Discard(t)
    PROVE  Inv'
PROOF
<1>1. CASE ReturnUnseen(t)
  <2>1. /\ probe[t] = NoProbe /\ stack[t] # <<>> /\ ~Last(stack[t]).hooked /\ Leave(t)
        /\ UNCHANGED <<hooks, alive, calls, session, records, probe>>
    BY <1>1 DEF ReturnUnseen, Idle
  <2>2. probe' = [probe EXCEPT ![t] = NoProbe]
    BY <2>1 DEF Inv, Types
  <2> QED
    BY <2>1, <2>2, ReturnInv DEF NoProbe
<1>2. CASE Discard(t)
  BY <1>2, ReturnInv DEF Discard, Idle, Clearing, NoProbe
<1> QED
  BY <1>1, <1>2

(***************************************************************************)
(* A record is sent and the session cleared; threads end and begin.        *)
(***************************************************************************)
LEMMA AppendedTo ==
    ASSUME NEW S, NEW s \in Seq(S), NEW e \in S
    PROVE  /\ Append(s, e) \in Seq(S)
           /\ \A i \in DOMAIN Append(s, e) : Append(s, e)[i] = e \/ (i \in DOMAIN s /\ Append(s, e)[i] = s[i])
PROOF
<1>1. /\ Append(s, e) \in Seq(S) /\ Len(s) \in Nat /\ DOMAIN s = 1..Len(s)
      /\ DOMAIN Append(s, e) = 1..(Len(s) + 1)
      /\ Append(s, e)[Len(s) + 1] = e /\ \A i \in 1..Len(s) : Append(s, e)[i] = s[i]
  BY AppendProperties
<1>2. ASSUME NEW i \in DOMAIN Append(s, e)
      PROVE  Append(s, e)[i] = e \/ (i \in DOMAIN s /\ Append(s, e)[i] = s[i])
  <2>1. CASE i = Len(s) + 1
    <3>1. Append(s, e)[Len(s) + 1] = e
      BY <1>1
    <3> QED
      BY <2>1, <3>1
  <2>2. CASE i # Len(s) + 1
    <3>1. i \in 1..Len(s)
      BY <1>1, <2>2
    <3> QED
      BY <1>1, <3>1
  <2> QED
    BY <2>1, <2>2
<1> QED
  BY <1>1, <1>2

(* What is submitted of a fragment. *)
Fragment(p) ==
    [call |-> p.call, ssl |-> p.ssl, buf |-> p.buf, len |-> p.len, began |-> p.began,
     stray |-> p.stray, offset |-> p.i * BufSize,
     n |-> IF p.buf = 0 THEN 0 ELSE Least(p.len - p.i * BufSize, BufSize)]

(* It carries what its emission carries. *)
LEMMA FragmentIsRecord ==
    ASSUME NEW p \in Emission, IsOf(p)
    PROVE  Fragment(p) \in Record /\ IsOf(Fragment(p))
PROOF
<1>1. p.i \in Nat /\ p.len \in Sizes \cup {0, 1}
  BY DEF Emission
<1>2. BufSize \in Nat /\ \A z \in Sizes \cup {0, 1} : z \in Nat
  BY CaptureAssumption
<1>3. p.i \in Nat /\ p.len \in Nat /\ BufSize \in Nat
  BY <1>1, <1>2
<1>4. \A i, b \in Nat : i * b \in Nat
  OBVIOUS
<1>5. p.i * BufSize \in Int
  BY <1>3, <1>4
<1>6. \A a, b \in Int : Least(a, b) \in Int /\ a - b \in Int
  BY DEF Least
<1>7. p.len - p.i * BufSize \in Int /\ BufSize \in Int
  BY <1>3, <1>5
<1>8. Least(p.len - p.i * BufSize, BufSize) \in Int
  BY <1>6, <1>7
<1>9. Fragment(p) \in Record
  BY <1>5, <1>8 DEF Emission, Record, Fragment
<1> QED
  BY <1>9 DEF IsOf, Fragment

(* The fragment is appended; the emission goes on, or the session is next. *)
LEMMA EmitOneInv ==
    ASSUME Inv, NEW t \in Threads, EmitOne(t)
    PROVE  Inv'
PROOF
<1> USE DEF Inv
<1> DEFINE p == probe[t]
           sent == Fragment(p)
           next == [p EXCEPT !.i = @ + 1]
<1>1. /\ p.pc = "emit" /\ UNCHANGED <<hooks, program, session>>
      /\ records' \in {records, Append(records, sent)}
      /\ \/ probe' = [probe EXCEPT ![t] = Clearing]
         \/ probe' = [probe EXCEPT ![t].i = @ + 1]
  BY DEF EmitOne, Clearing, Fragment
<1>2. p \in Emission /\ IsOf(p) /\ p # NoProbe
  BY <1>1 DEF Types, EmissionsAreRight, NoProbe, Clearing
<1>3. next \in Emission /\ next.pc = "emit" /\ IsOf(next) /\ next # NoProbe
  BY <1>2 DEF Emission, IsOf, NoProbe
<1>4. /\ probe' \in [Threads -> {NoProbe, Clearing} \cup Emission] /\ probe'[t] # NoProbe
      /\ probe'[t].pc = "emit" => IsOf(probe'[t])
      /\ \A u \in Threads \ {t} : probe'[u] = probe[u]
  <2>1. CASE probe' = [probe EXCEPT ![t] = Clearing]
    BY <2>1 DEF Types, Clearing, NoProbe
  <2>2. CASE probe' = [probe EXCEPT ![t].i = @ + 1]
    <3>1. probe' = [probe EXCEPT ![t] = next]
      BY <2>2
    <3> QED
      BY <1>3, <3>1 DEF Types
  <2> QED
    BY <1>1, <2>1, <2>2
<1>5. sent \in Record /\ IsOf(sent)
  BY <1>2, FragmentIsRecord
<1>11. records' \in Seq(Record) /\ \A i \in DOMAIN records' : records'[i] = sent \/ (i \in DOMAIN records /\ records'[i] = records[i])
  <2> HIDE DEF sent
  <2>1. records \in Seq(Record) /\ records' \in {records, Append(records, sent)}
    BY <1>1 DEF Types
  <2> QED
    BY <1>5, <2>1, AppendedTo
<1>6. Types'
  BY <1>1, <1>4, <1>11 DEF Types, program
<1>7. RecordsAreRight'
  <2> SUFFICES ASSUME NEW i \in DOMAIN records' PROVE IsOf(records[i])'
    BY DEF RecordsAreRight
  <2>1. IsOf(records'[i])
    BY <1>5, <1>11 DEF RecordsAreRight
  <2>2. UNCHANGED calls
    BY <1>1 DEF program
  <2> QED
    BY <2>1, <2>2 DEF IsOf
<1>8. ProbedInOrder' /\ SessionsAreCalls' /\ CallsAreNested'
  BY <1>1 DEF ProbedInOrder, Tried, SessionsAreCalls, CallsAreNested, Func, Precedes,
              hooks, program, session
<1>9. SessionsAreProbed'
  BY <1>1, <1>4 DEF SessionsAreProbed, program, session
<1>10. EmissionsAreRight'
  BY <1>1, <1>4 DEF EmissionsAreRight, IsOf, program
<1> QED
  BY <1>6, <1>7, <1>8, <1>9, <1>10

(* Clearing takes a thread's entries and no other's. *)
LEMMA Cleared ==
    ASSUME NEW t, Clear(t)
    PROVE  /\ DOMAIN starts' = DOMAIN starts \ {t} /\ DOMAIN bufs' = DOMAIN bufs \ {t}
           /\ DOMAIN lens' = DOMAIN lens \ {t}
           /\ \A u \in DOMAIN starts' : starts'[u] = starts[u]
           /\ \A u \in DOMAIN bufs' : bufs'[u] = bufs[u]
BY DEF Clear, Removed, Restrict

(* Without its session, a thread may have any probe and stack; with one it *)
(* left when it was killed, an empty stack.                                *)
LEMMA ClearedInv ==
    ASSUME Inv, NEW t \in Threads, Clear(t) \/ (UNCHANGED session /\ stack' = [stack EXCEPT ![t] = <<>>]),
           UNCHANGED <<hooks, calls, records>>,
           alive' \in {alive, alive \ {t}}, stack' \in {stack, [stack EXCEPT ![t] = <<>>]},
           probe' \in {probe, [probe EXCEPT ![t] = NoProbe]}
    PROVE  Inv'
PROOF
<1> USE DEF Inv, hooks
<1>1. /\ DOMAIN starts' = DOMAIN bufs'
      /\ \A u \in DOMAIN bufs' : u \in DOMAIN bufs /\ bufs'[u] = bufs[u] /\ starts'[u] = starts[u]
      /\ t \in DOMAIN bufs' => stack'[t] = <<>>
  <2>1. CASE Clear(t)
    BY <2>1, Cleared DEF SessionsAreCalls
  <2>2. CASE UNCHANGED session /\ stack' = [stack EXCEPT ![t] = <<>>]
    BY <2>2 DEF session, SessionsAreCalls, Types
  <2> QED
    BY <2>1, <2>2
<1>2. /\ \A u \in Threads \ {t} : stack'[u] = stack[u] /\ probe'[u] = probe[u]
      /\ stack'[t] \in {stack[t], <<>>} /\ probe'[t] \in {probe[t], NoProbe}
  BY DEF Types
<1>3. Types'
  <2>1. stack' \in [Threads -> Seq([call : Nat, hooked : BOOLEAN])]
    <3>1. stack \in [Threads -> Seq([call : Nat, hooked : BOOLEAN])] /\ <<>> \in Seq([call : Nat, hooked : BOOLEAN])
      BY DEF Types
    <3> QED
      BY <3>1
  <2>2. probe' \in [Threads -> {NoProbe, Clearing} \cup Emission]
    BY DEF Types
  <2>3. \A u \in Threads : \A i \in DOMAIN stack'[u] : i \in DOMAIN stack[u] /\ stack'[u][i] = stack[u][i]
    BY <1>2
  <2> QED
    BY <2>1, <2>2, <2>3 DEF Types
<1>4. ProbedInOrder' /\ RecordsAreRight'
  BY DEF ProbedInOrder, Tried, RecordsAreRight, IsOf
<1>5. CallsAreNested'
  <2>1. \A u \in Threads : stack'[u] \in {stack[u], <<>>}
    BY <1>2
  <2> SUFFICES ASSUME NEW u \in Threads, stack'[u] = stack[u]
               PROVE  /\ \A i \in DOMAIN stack'[u] : stack'[u][i].hooked => Func(u, i)' \in returning'
                      /\ \A i, j \in DOMAIN stack'[u] : i < j =>
                            Func(u, i)' # Handshake /\ (Func(u, j)' = Handshake \/ Precedes(Func(u, j)', Func(u, i)'))
    BY <2>1 DEF CallsAreNested, Precedes
  <2> QED
    BY DEF CallsAreNested, Func
<1>6. SessionsAreCalls'
  BY <1>1 DEF SessionsAreCalls
<1>7. SessionsAreProbed'
  BY <1>1, <1>2 DEF SessionsAreProbed
<1>8. EmissionsAreRight'
  BY <1>2 DEF EmissionsAreRight, IsOf, NoProbe
<1> QED
  BY <1>3, <1>4, <1>5, <1>6, <1>7, <1>8

(* A thread that starts is in no call. *)
LEMMA SpawnInv ==
    ASSUME Inv, NEW t \in Threads, Spawn(t)
    PROVE  Inv'
PROOF
<1> USE DEF Inv
<1>1. alive' = alive \cup {t} /\ UNCHANGED <<hooks, stack, calls, session, probe, records>>
  BY DEF Spawn
<1>2. Types'
  BY <1>1 DEF Types, session
<1>3. ProbedInOrder' /\ CallsAreNested' /\ SessionsAreCalls' /\ SessionsAreProbed' /\ EmissionsAreRight'
      /\ RecordsAreRight'
  BY <1>1 DEF ProbedInOrder, Tried, CallsAreNested, Func, Precedes, SessionsAreCalls, SessionsAreProbed,
              EmissionsAreRight, RecordsAreRight, IsOf, hooks, session
<1> QED
  BY <1>2, <1>3

(***************************************************************************)
(* The theorems.                                                           *)
(***************************************************************************)
LEMMA InvStep == Inv /\ [Next]_vars => Inv'
PROOF
<1> SUFFICES ASSUME Inv, [Next]_vars PROVE Inv'
  OBVIOUS
<1>1. CASE AttachEnter \/ AttachReturn \/ AttachFails
  BY <1>1, AttachInv
<1>2. ASSUME NEW t \in Threads, Returning(t) PROVE Inv'
  <2>1. CASE End(t)
    BY <2>1, ClearedInv DEF End, program
  <2> QED
    BY <1>2, <2>1, NotSeenInv, CaptureInv, EmitOneInv DEF Returning
<1>3. ASSUME NEW t \in Threads, Exit(t) PROVE Inv'
  BY <1>3, ClearedInv DEF Exit, TaskExit
<1>4. ASSUME NEW t \in Threads, Spawn(t) PROVE Inv'
  BY <1>4, SpawnInv
<1>5. ASSUME NEW t \in Threads, NEW f \in Range(Exported), NEW ssl \in Conns, Enter(t, f, ssl) PROVE Inv'
  BY <1>5, EnterInv
<1>6. CASE UNCHANGED vars
  <2>1. UNCHANGED <<hooks, program, session, probe, records>>
    BY <1>6 DEF vars
  <2>2. UNCHANGED returning /\ (ProbedInOrder => ProbedInOrder')
    BY <2>1 DEF hooks, ProbedInOrder, Tried
  <2> QED
    BY <2>1, <2>2, HooksInv DEF Inv
<1> QED
  BY <1>1, <1>2, <1>3, <1>4, <1>5, <1>6 DEF Next

(* The invariant holds of every behaviour. *)
LEMMA Invariance == Spec => []Inv
BY InvInit, InvStep, PTL DEF Spec

(* Whatever calls are made inside others, while which probes are attached, *)
(* and however full the session maps are: a record carries the buffer, the *)
(* connection and the start of the call whose return sent it.              *)
THEOREM RecordsAreOfTheirCalls == Spec => []RecordIsOfItsCall
BY Invariance, InvRecords, PTL

(***************************************************************************)
(* What was sent of a call, and what was counted.  A call is emitted once: *)
(* it is on its thread's stack with no record of it, or in its probe, or   *)
(* over (CallsAreApart, StackedIsUnsent).  While it is emitted, its        *)
(* records end where the next fragment begins (EmissionsFollow), and a     *)
(* fragment is not the last but for one of three reasons, each of which    *)
(* completes the call or counts it as truncated.                           *)
(***************************************************************************)
Stats == {"enter", "discard", "filtered", "submit", "fragment", "handshake", "empty", "truncated", "reserve_fail"}

CountsAreKept == counted \in Seq(SUBSET Stats) /\ DOMAIN counted = DOMAIN calls

CallsAreApart ==
    \A t \in Threads :
        /\ \A i \in DOMAIN stack[t] : calls[stack[t][i].call].thread = t
        /\ \A i, j \in DOMAIN stack[t] : i # j => stack[t][i].call # stack[t][j].call
        /\ probe[t].pc = "emit" =>
              /\ probe[t].call \in DOMAIN calls /\ calls[probe[t].call].thread = t
              /\ \A i \in DOMAIN stack[t] : stack[t][i].call # probe[t].call

StackedIsUnsent ==
    /\ \A k \in DOMAIN records : records[k].call \in DOMAIN calls
    /\ \A t \in Threads : \A i \in DOMAIN stack[t] : \A k \in DOMAIN records : records[k].call # stack[t][i].call

(* A handshake has no buffer. *)
BuffersAreData ==
    /\ \A t \in DOMAIN bufs : bufs[t].buf # 0 => Direction(calls[bufs[t].buf].func) # "Handshake"
    /\ \A t \in Threads : probe[t].pc = "emit" => (probe[t].buf = 0 <=> probe[t].dir = "Handshake")

Reached(p) == p.i * BufSize

Follows(p) ==
    /\ p.len \in Nat /\ p.len # 0
    /\ \A j \in DOMAIN records : WithData(j) /\ records[j].call = p.call => EndOf(records[j]) <= Reached(p)
    /\ p.i = 0 => \A j \in DOMAIN records : WithData(j) => records[j].call # p.call
    /\ p.i # 0 => \E j \in DOMAIN records : WithData(j) /\ records[j].call = p.call /\ EndOf(records[j]) = Reached(p)
    /\ p.dir = "Handshake" => p.i = 0
    /\ p.i # 0 => BufSize # 0
    /\ Reached(p) < p.len
    /\ p.i # 0 /\ Truncated(p) => "truncated" \in counted[p.call]

EmissionsFollow == \A t \in Threads : probe[t].pc = "emit" => Follows(probe[t])

LossInv ==
    /\ CountsAreKept /\ CallsAreApart /\ StackedIsUnsent /\ BuffersAreData
    /\ EmissionsFollow /\ MissingBytesAreCounted

(* At first nothing was called or sent. *)
LEMMA LossInit ==
    ASSUME Init
    PROVE  LossInv
PROOF
<1> USE DEF Init, Empty, NoProbe
<1>1. CountsAreKept /\ CallsAreApart /\ StackedIsUnsent
  BY DEF CountsAreKept, CallsAreApart, StackedIsUnsent
<1>2. BuffersAreData /\ EmissionsFollow /\ MissingBytesAreCounted
  BY DEF BuffersAreData, EmissionsFollow, MissingBytesAreCounted
<1> QED
  BY <1>1, <1>2 DEF LossInv

(* A step that sends nothing and counts no less leaves what was sent as it *)
(* was, and the emissions that go on.                                      *)
LEMMA NothingSent ==
    ASSUME LossInv, Types, UNCHANGED records, CountsAreKept',
           \A c \in DOMAIN calls : counted[c] \subseteq counted'[c],
           \A t \in Threads : probe[t].pc = "emit" => probe'[t] = probe[t]
    PROVE  /\ MissingBytesAreCounted'
           /\ \A t \in Threads : probe[t].pc = "emit" => Follows(probe[t])'
PROOF
<1> USE DEF LossInv
<1>1. ASSUME NEW k \in DOMAIN records PROVE counted[records[k].call] \subseteq counted'[records[k].call]
  BY DEF StackedIsUnsent
<1>2. MissingBytesAreCounted'
  BY <1>1 DEF MissingBytesAreCounted, WithData, SameCall, EndOf
<1>3. ASSUME NEW t \in Threads, probe[t].pc = "emit" PROVE Follows(probe[t])'
  <2> DEFINE p == probe[t]
  <2>1. p' = p /\ Follows(p) /\ p.call \in DOMAIN calls
    BY <1>3 DEF EmissionsFollow, CallsAreApart
  <2>2. counted[p.call] \subseteq counted'[p.call]
    BY <2>1
  <2> QED
    BY <2>1, <2>2 DEF Follows, WithData, EndOf, Reached, Truncated
<1> QED
  BY <1>2, <1>3

(* A step that touches no call, probe, record or counter keeps what was    *)
(* sent.                                                                   *)
LEMMA SameLoss ==
    ASSUME LossInv, UNCHANGED <<stack, calls, bufs, probe, records, counted>>
    PROVE  LossInv'
PROOF
<1> USE DEF LossInv
<1>1. CountsAreKept' /\ CallsAreApart' /\ StackedIsUnsent' /\ BuffersAreData'
  BY DEF CountsAreKept, CallsAreApart, StackedIsUnsent, BuffersAreData
<1>2. EmissionsFollow' /\ MissingBytesAreCounted'
  BY DEF EmissionsFollow, Follows, MissingBytesAreCounted, WithData, SameCall, EndOf, Reached, Truncated
<1> QED
  BY <1>1, <1>2

(* What is probed and is not the handshake reads or writes. *)
LEMMA DataHasDirection ==
    ASSUME NEW f \in Range(Exported), f # Handshake
    PROVE  Direction(f) # "Handshake"
PROOF
<1>1. f \in Probed
  BY CaptureAssumption DEF Range
<1>2. f \in {"SSL_read", "SSL_read_ex"} \/ f \in {"SSL_write", "SSL_write_ex"}
  BY <1>1 DEF Probed, Optional, Ex, Handshake
<1>3. CASE f \in {"SSL_read", "SSL_read_ex"}
  <2>1. f \notin {"SSL_write", "SSL_write_ex"}
    BY <1>3
  <2>2. Direction(f) = "Read"
    BY <1>3, <2>1, Zenon DEF Direction
  <2> QED
    BY <2>2
<1>4. CASE f \in {"SSL_write", "SSL_write_ex"}
  <2>1. f \notin {"SSL_read", "SSL_read_ex"}
    BY <1>4
  <2>2. Direction(f) = "Write"
    BY <1>4, <2>1, Zenon DEF Direction
  <2> QED
    BY <2>2
<1> QED
  BY <1>2, <1>3, <1>4

(* A new call has a number of its own, of which nothing was sent. *)
LEMMA EnterLoss ==
    ASSUME Inv, LossInv, NEW t \in Threads, NEW f \in Range(Exported), NEW ssl \in Conns, Enter(t, f, ssl)
    PROVE  LossInv'
PROOF
<1> USE DEF LossInv, Inv
<1> PICK n : n = Len(stack[t])
  OBVIOUS
<1> DEFINE c == Len(calls')
<1>1. /\ UNCHANGED <<probe, records>>
      /\ stack' = [stack EXCEPT ![t] = Append(@, [call |-> c, hooked |-> f \in returning])]
      /\ counted' = Append(counted, IF f \in entering THEN {"enter"} ELSE {})
  BY DEF Enter
<1>2. PICK size \in Sizes \cup {1} :
        calls' = Append(calls, [func |-> f, ssl |-> ssl, size |-> size, thread |-> t])
  BY DEF Enter
<1>3. f \in STRING
  BY CaptureAssumption DEF Range
<1>4. /\ calls' \in Seq(Call) /\ c = Len(calls) + 1 /\ c \notin DOMAIN calls /\ c \in Nat /\ c # 0
      /\ DOMAIN calls' = DOMAIN calls \cup {c} /\ \A k \in DOMAIN calls : calls'[k] = calls[k]
      /\ calls'[c].thread = t /\ calls'[c].func = f
  BY <1>2, <1>3 DEF Types, Call
<1>5. /\ n \in Nat /\ DOMAIN stack[t] = 1..n /\ DOMAIN stack'[t] = 1..(n + 1)
      /\ \A i \in 1..n : stack'[t][i] = stack[t][i]
      /\ stack'[t][n + 1].call = c
      /\ \A u \in Threads \ {t} : stack'[u] = stack[u]
  BY <1>1, <1>4 DEF Types
<1>6. ASSUME NEW u \in Threads, NEW i \in DOMAIN stack'[u]
      PROVE  \/ u = t /\ i = n + 1 /\ stack'[u][i].call = c
             \/ i \in DOMAIN stack[u] /\ stack'[u][i] = stack[u][i] /\ stack[u][i].call \in DOMAIN calls
  <2>1. CASE u = t /\ i = n + 1
    BY <1>5, <2>1
  <2>2. CASE ~(u = t /\ i = n + 1)
    <3>1. i \in DOMAIN stack[u] /\ stack'[u][i] = stack[u][i]
      BY <1>5, <2>2
    <3> QED
      BY <3>1 DEF Types
  <2> QED
    BY <2>1, <2>2
<1>7. CountsAreKept' /\ \A k \in DOMAIN calls : counted[k] \subseteq counted'[k]
  <2> DEFINE e == IF f \in entering THEN {"enter"} ELSE {}
  <2>1. e \in SUBSET Stats
    BY DEF Stats
  <2> PICK S : S = SUBSET Stats
    OBVIOUS
  <2>2. counted \in Seq(S) /\ Len(counted) = Len(calls) /\ counted' = Append(counted, e) /\ e \in S
    BY <1>1, <2>1 DEF CountsAreKept, Types
  <2> HIDE DEF e
  <2>5. /\ Append(counted, e) \in Seq(S) /\ Len(Append(counted, e)) = Len(counted) + 1
        /\ \A k \in 1..Len(counted) : Append(counted, e)[k] = counted[k]
    BY <2>2, AppendProperties
  <2>3. /\ counted' \in Seq(S) /\ DOMAIN counted' = 1..(Len(counted) + 1)
        /\ \A k \in 1..Len(counted) : counted'[k] = counted[k]
    BY <2>2, <2>5, LenProperties
  <2>4. DOMAIN calls = 1..Len(calls) /\ DOMAIN calls' = 1..(Len(calls) + 1)
    BY <1>2, <1>4 DEF Types
  <2> QED
    BY <2>2, <2>3, <2>4 DEF CountsAreKept
<1>8. CallsAreApart'
  <2>1. ASSUME NEW u \in Threads, NEW i \in DOMAIN stack'[u] PROVE calls'[stack'[u][i].call].thread = u
    BY <1>4, <1>6 DEF CallsAreApart
  <2>2. ASSUME NEW u \in Threads, NEW i \in DOMAIN stack'[u], NEW j \in DOMAIN stack'[u], i # j
        PROVE  stack'[u][i].call # stack'[u][j].call
    BY <1>4, <1>6, <2>2 DEF CallsAreApart
  <2>3. ASSUME NEW u \in Threads, probe'[u].pc = "emit"
        PROVE  /\ probe'[u].call \in DOMAIN calls' /\ calls'[probe'[u].call].thread = u
               /\ \A i \in DOMAIN stack'[u] : stack'[u][i].call # probe'[u].call
    <3>1. /\ probe'[u] = probe[u] /\ probe[u].call \in DOMAIN calls /\ calls[probe[u].call].thread = u
          /\ \A i \in DOMAIN stack[u] : stack[u][i].call # probe[u].call
      BY <1>1, <2>3 DEF CallsAreApart
    <3> QED
      BY <1>4, <1>6, <3>1
  <2> QED
    BY <2>1, <2>2, <2>3 DEF CallsAreApart
<1>9. StackedIsUnsent'
  <2>1. \A k \in DOMAIN records' : records'[k].call \in DOMAIN calls /\ records'[k] = records[k] /\ k \in DOMAIN records
    BY <1>1 DEF StackedIsUnsent
  <2>2. ASSUME NEW u \in Threads, NEW i \in DOMAIN stack'[u], NEW k \in DOMAIN records'
        PROVE  records'[k].call # stack'[u][i].call
    BY <1>4, <1>6, <2>1 DEF StackedIsUnsent
  <2> QED
    BY <1>4, <2>1, <2>2 DEF StackedIsUnsent
<1>10. BuffersAreData'
  <2>1. ASSUME NEW u \in DOMAIN bufs', bufs'[u].buf # 0 PROVE Direction(calls'[bufs'[u].buf].func) # "Handshake"
    <3>1. CASE u \in DOMAIN bufs /\ bufs'[u] = bufs[u]
      BY <1>4, <2>1, <3>1 DEF BuffersAreData, SessionsAreCalls
    <3>2. CASE ~(u \in DOMAIN bufs /\ bufs'[u] = bufs[u])
      <4>1. f \in entering
        BY <3>2 DEF Enter, session
      <4> DEFINE buf == IF f = "SSL_do_handshake" THEN 0 ELSE c
      <4>2. PICK len : Start(t, ssl, buf, len)
        BY <4>1 DEF Enter
      <4> HIDE DEF buf
      <4>4. /\ DOMAIN bufs' \subseteq DOMAIN bufs \cup {t}
            /\ \A v \in DOMAIN bufs' : v # t => bufs'[v] = bufs[v]
            /\ t \in DOMAIN bufs' => bufs'[t] = [buf |-> buf, ssl |-> ssl]
        BY <4>2, StartLeaves
      <4>5. u = t /\ bufs'[t].buf = buf
        BY <3>2, <4>4
      <4>3. u = t /\ bufs'[t].buf = IF f = "SSL_do_handshake" THEN 0 ELSE c
        BY <4>5 DEF buf
      <4>6. f # Handshake /\ bufs'[u].buf = c /\ calls'[c].func = f
        BY <1>4, <2>1, <4>3 DEF Handshake
      <4> QED
        BY <4>6, DataHasDirection
    <3> QED
      BY <3>1, <3>2
  <2> QED
    BY <1>1, <2>1 DEF BuffersAreData
<1>11. MissingBytesAreCounted' /\ EmissionsFollow'
  BY <1>1, <1>7, NothingSent DEF EmissionsFollow
<1> QED
  BY <1>7, <1>8, <1>9, <1>10, <1>11

(* Counting adds to a call's counters and to no others. *)
LEMMA CountGrows ==
    ASSUME CountsAreKept, NEW c \in DOMAIN calls, NEW stats \in SUBSET Stats, Count(c, stats), UNCHANGED calls
    PROVE  /\ CountsAreKept'
           /\ counted'[c] = counted[c] \cup stats
           /\ \A d \in DOMAIN calls : counted[d] \subseteq counted'[d]
PROOF
<1> PICK S : S = SUBSET Stats
  OBVIOUS
<1>1. counted \in Seq(S) /\ DOMAIN counted = DOMAIN calls /\ counted' = [counted EXCEPT ![c] = counted[c] \cup stats]
  BY DEF CountsAreKept, Count
<1>2. counted[c] \cup stats \in S
  BY <1>1
<1>3. counted' \in Seq(S) /\ DOMAIN counted' = DOMAIN counted
  BY <1>1, <1>2
<1>4. counted'[c] = counted[c] \cup stats /\ \A d \in DOMAIN calls : d # c => counted'[d] = counted[d]
  BY <1>1
<1> QED
  BY <1>1, <1>3, <1>4 DEF CountsAreKept

(* A call that returns was not sent yet: what its probe sends begins at    *)
(* its first byte.                                                         *)
LEMMA ReturnLoss ==
    ASSUME Inv, LossInv, NEW t \in Threads, stack[t] # <<>>, Leave(t), UNCHANGED <<calls, bufs, records>>,
           CountsAreKept', \A c \in DOMAIN calls : counted[c] \subseteq counted'[c],
           probe[t].pc # "emit", NEW p, probe' = [probe EXCEPT ![t] = p],
           p.pc = "emit" =>
              /\ p.call = Last(stack[t]).call /\ (p.buf = 0 <=> p.dir = "Handshake")
              /\ p.i = 0 /\ p.len \in Nat /\ p.len # 0
    PROVE  LossInv'
PROOF
<1> USE DEF LossInv, Inv
<1> PICK n : n = Len(stack[t])
  OBVIOUS
<1>1. /\ n \in DOMAIN stack[t] /\ Last(stack[t]) = stack[t][n]
      /\ DOMAIN stack'[t] = DOMAIN stack[t] \ {n}
      /\ \A u \in Threads : \A i \in DOMAIN stack'[u] : i \in DOMAIN stack[u] /\ stack'[u][i] = stack[u][i]
  BY LeaveLeaves
<1>2. probe'[t] = p /\ \A u \in Threads \ {t} : probe'[u] = probe[u]
  BY DEF Types
<1>3. stack[t][n].call \in DOMAIN calls
  BY <1>1 DEF Types
<1>4. CallsAreApart'
  <2>1. ASSUME NEW u \in Threads, NEW i \in DOMAIN stack'[u] PROVE calls'[stack'[u][i].call].thread = u
    BY <1>1 DEF CallsAreApart
  <2>2. ASSUME NEW u \in Threads, NEW i \in DOMAIN stack'[u], NEW j \in DOMAIN stack'[u], i # j
        PROVE  stack'[u][i].call # stack'[u][j].call
    BY <1>1, <2>2 DEF CallsAreApart
  <2>3. ASSUME NEW u \in Threads, probe'[u].pc = "emit"
        PROVE  /\ probe'[u].call \in DOMAIN calls' /\ calls'[probe'[u].call].thread = u
               /\ \A i \in DOMAIN stack'[u] : stack'[u][i].call # probe'[u].call
    <3>1. CASE u = t
      <4>1. p.call = stack[t][n].call
        BY <1>1, <1>2, <2>3, <3>1
      <4>2. \A i \in DOMAIN stack'[t] : i \in DOMAIN stack[t] /\ i # n /\ stack'[t][i] = stack[t][i]
        BY <1>1
      <4>3. \A i \in DOMAIN stack[t] : i # n => stack[t][i].call # p.call
        BY <1>1, <4>1 DEF CallsAreApart
      <4>4. calls[p.call].thread = t
        BY <1>1, <4>1 DEF CallsAreApart
      <4> QED
        BY <1>2, <1>3, <3>1, <4>1, <4>2, <4>3, <4>4
    <3>2. CASE u # t
      BY <1>1, <1>2, <2>3, <3>2 DEF CallsAreApart
    <3> QED
      BY <3>1, <3>2
  <2> QED
    BY <2>1, <2>2, <2>3 DEF CallsAreApart
<1>5. StackedIsUnsent'
  BY <1>1 DEF StackedIsUnsent
<1>6. BuffersAreData'
  BY <1>2 DEF BuffersAreData
<1>7. /\ MissingBytesAreCounted'
      /\ \A u \in Threads : probe[u].pc = "emit" => Follows(probe[u])'
  BY <1>2, NothingSent
<1>8. EmissionsFollow'
  <2> SUFFICES ASSUME NEW u \in Threads, probe'[u].pc = "emit"
               PROVE  Follows(probe[u])'
    BY DEF EmissionsFollow
  <2>1. CASE u # t
    BY <1>2, <1>7, <2>1
  <2>2. CASE u = t
    <3>1. /\ probe'[u] = p /\ p.call = stack[t][n].call /\ p.i = 0 /\ p.len \in Nat /\ p.len # 0
      BY <1>1, <1>2, <2>2
    <3>2. \A k \in DOMAIN records : records[k].call # p.call
      BY <1>1, <3>1 DEF StackedIsUnsent
    <3>3. p.i * BufSize = 0
      BY <3>1, CaptureAssumption
    <3> QED
      BY <3>1, <3>2, <3>3 DEF Follows, Reached, WithData
  <2> QED
    BY <2>1, <2>2
<1> QED
  BY <1>4, <1>5, <1>6, <1>7, <1>8

(* A call with a buffer is no handshake, and one without is no other. *)
LEMMA CaptureLoss ==
    ASSUME Inv, LossInv, NEW t \in Threads, Capture(t)
    PROVE  LossInv'
PROOF
<1> USE DEF LossInv, Inv
<1> DEFINE c == Last(stack[t]).call
           dir == Direction(calls[c].func)
<1>1. /\ probe[t] = NoProbe /\ stack[t] # <<>> /\ Last(stack[t]).hooked /\ Leave(t)
      /\ UNCHANGED <<calls, bufs, records>>
      /\ Buffer(t).buf # 0 \/ dir = "Handshake"
  BY DEF Capture, Idle, session
<1>2. c \in DOMAIN calls /\ calls[c] \in Call /\ c \in Nat
  <2> PICK n : n = Len(stack[t])
    OBVIOUS
  <2>1. c = stack[t][n].call /\ n \in DOMAIN stack[t]
    BY <1>1, LeaveLeaves
  <2> QED
    BY <2>1 DEF Types
<1>3. probe[t].pc # "emit"
  BY <1>1 DEF NoProbe
<1>4. CASE Count(c, {"filtered"}) /\ probe' = [probe EXCEPT ![t] = Clearing]
  <2>1. {"filtered"} \in SUBSET Stats
    BY DEF Stats
  <2>2. CountsAreKept' /\ \A d \in DOMAIN calls : counted[d] \subseteq counted'[d]
    BY <1>1, <1>2, <1>4, <2>1, CountGrows
  <2> QED
    BY <1>1, <1>3, <1>4, <2>2, ReturnLoss DEF Clearing
<1>5. ASSUME NEW len \in Lengths(t, c) \ {Fault}, UNCHANGED counted,
             probe' = [probe EXCEPT ![t] =
                 [pc |-> "emit", call |-> c, dir |-> dir, len |-> len, i |-> 0,
                  began |-> IF t \in DOMAIN starts THEN starts[t] ELSE 0,
                  stray |-> t \in strays, buf |-> Buffer(t).buf, ssl |-> Buffer(t).ssl]]
      PROVE  LossInv'
  <2> DEFINE p == [pc |-> "emit", call |-> c, dir |-> dir, len |-> len, i |-> 0,
                   began |-> IF t \in DOMAIN starts THEN starts[t] ELSE 0,
                   stray |-> t \in strays, buf |-> Buffer(t).buf, ssl |-> Buffer(t).ssl]
  <2>1. len \in Nat /\ len # 0
    <3>1. len \in Sizes \cup {0, 1} /\ len # 0
      BY <1>2 DEF Lengths, Pointed, Ret, Fault, Call
    <3> QED
      BY <3>1, CaptureAssumption
  <2>2. Buffer(t).buf # 0 => dir # "Handshake"
    <3> SUFFICES ASSUME Buffer(t).buf # 0 PROVE dir # "Handshake"
      OBVIOUS
    <3>1. t \in DOMAIN bufs /\ bufs[t].buf # 0
      BY DEF Buffer
    <3>2. bufs[t].buf = c
      BY <1>1, <3>1, SessionIsOfTheReturning
    <3> QED
      BY <3>1, <3>2 DEF BuffersAreData
  <2>3. p.buf = 0 <=> p.dir = "Handshake"
    BY <1>1, <2>2
  <2>4. CountsAreKept' /\ \A d \in DOMAIN calls : counted[d] \subseteq counted'[d]
    BY <1>1, <1>5 DEF CountsAreKept
  <2>5. /\ p.call = c /\ p.i = 0 /\ p.len = len
    OBVIOUS
  <2>6. probe' = [probe EXCEPT ![t] = p]
    BY <1>5
  <2> HIDE DEF p
  <2> QED
    BY <1>1, <1>3, <2>1, <2>3, <2>4, <2>5, <2>6, ReturnLoss
<1> QED
  BY <1>4, <1>5 DEF Capture, Clearing

(* Of a call that returns without a capture nothing is sent. *)
LEMMA NotSeenLoss ==
    ASSUME Inv, LossInv, NEW t \in Threads, ReturnUnseen(t) \/ Discard(t)
    PROVE  LossInv'
PROOF
<1> USE DEF LossInv
<1> DEFINE c == Last(stack[t]).call
<1>1. /\ probe[t] = NoProbe /\ stack[t] # <<>> /\ Leave(t) /\ UNCHANGED <<calls, bufs, records>>
  BY DEF ReturnUnseen, Discard, Idle, session
<1>2. c \in DOMAIN calls
  <2> PICK n : n = Len(stack[t])
    OBVIOUS
  <2>1. c = stack[t][n].call /\ n \in DOMAIN stack[t]
    BY <1>1, LeaveLeaves DEF Inv
  <2> QED
    BY <2>1 DEF Inv, Types
<1>3. probe[t].pc # "emit"
  BY <1>1 DEF NoProbe
<1>4. CASE ReturnUnseen(t)
  <2>1. probe' = [probe EXCEPT ![t] = NoProbe] /\ UNCHANGED counted
    BY <1>1, <1>4 DEF ReturnUnseen, Inv, Types
  <2>2. CountsAreKept' /\ \A d \in DOMAIN calls : counted[d] \subseteq counted'[d]
    BY <1>1, <2>1 DEF CountsAreKept
  <2>3. NoProbe.pc # "emit"
    BY DEF NoProbe
  <2> QED
    BY <1>1, <1>3, <2>1, <2>2, <2>3, ReturnLoss
<1>5. CASE Discard(t)
  <2>1. Count(c, {"discard"}) /\ probe' = [probe EXCEPT ![t] = Clearing]
    BY <1>5 DEF Discard, Clearing
  <2>2. {"discard"} \in SUBSET Stats
    BY DEF Stats
  <2>3. CountsAreKept' /\ \A d \in DOMAIN calls : counted[d] \subseteq counted'[d]
    BY <1>1, <1>2, <2>1, <2>2, CountGrows
  <2>4. Clearing.pc # "emit"
    BY DEF Clearing
  <2> QED
    BY <1>1, <1>3, <2>1, <2>3, <2>4, ReturnLoss
<1> QED
  BY <1>4, <1>5

(* A thread whose session is cleared was emitting nothing, and is in fewer *)
(* calls.                                                                  *)
LEMMA ClearedLoss ==
    ASSUME Inv, LossInv, NEW t \in Threads, Clear(t) \/ UNCHANGED session, UNCHANGED <<calls, records, counted>>,
           stack' \in {stack, [stack EXCEPT ![t] = <<>>]},
           probe' \in {probe, [probe EXCEPT ![t] = NoProbe]}, probe[t].pc # "emit"
    PROVE  LossInv'
PROOF
<1> USE DEF LossInv, Inv
<1>1. /\ \A u \in Threads : \A i \in DOMAIN stack'[u] : i \in DOMAIN stack[u] /\ stack'[u][i] = stack[u][i]
      /\ \A u \in Threads : probe'[u].pc = "emit" => probe'[u] = probe[u]
      /\ \A u \in Threads : probe[u].pc = "emit" => probe'[u] = probe[u]
  <2>1. ASSUME NEW u \in Threads PROVE stack'[u] \in {stack[u], <<>>}
    BY DEF Types
  <2>2. ASSUME NEW u \in Threads PROVE probe'[u] = probe[u] \/ (u = t /\ probe'[u] = NoProbe)
    BY DEF Types
  <2>3. NoProbe.pc # "emit"
    BY DEF NoProbe
  <2>4. \A u \in Threads : \A i \in DOMAIN stack'[u] : i \in DOMAIN stack[u] /\ stack'[u][i] = stack[u][i]
    BY <2>1
  <2> QED
    BY <2>2, <2>3, <2>4
<1>2. CountsAreKept' /\ CallsAreApart' /\ StackedIsUnsent'
  BY <1>1 DEF CountsAreKept, CallsAreApart, StackedIsUnsent
<1>3. DOMAIN bufs' \subseteq DOMAIN bufs /\ \A u \in DOMAIN bufs' : bufs'[u] = bufs[u]
  BY Cleared DEF session
<1>4. BuffersAreData'
  BY <1>1, <1>3 DEF BuffersAreData
<1>5. MissingBytesAreCounted' /\ \A u \in Threads : probe[u].pc = "emit" => Follows(probe[u])'
  BY <1>1, <1>2, NothingSent
<1>6. EmissionsFollow'
  BY <1>1, <1>5 DEF EmissionsFollow
<1> QED
  BY <1>2, <1>4, <1>5, <1>6

(* Where fragments begin and end. *)
LEMMA FragmentBounds ==
    ASSUME NEW i \in Nat, NEW m \in Nat, NEW b \in Nat
    PROVE  /\ i * b \in Nat /\ (i + 1) * b = i * b + b
           /\ m <= i + 1 => b * m <= i * b + b
           /\ b <= i * b + b
PROOF
<1>1. i * b \in Nat /\ (i + 1) * b \in Nat /\ b * m \in Nat
  OBVIOUS
<1>2. (i + 1) * b = i * b + b
  OBVIOUS
<1>3. ASSUME m <= i + 1 PROVE b * m <= (i + 1) * b
  <2> PICK d : d = (i + 1) - m
    OBVIOUS
  <2>1. d \in Nat /\ i + 1 = m + d
    BY <1>3
  <2>2. (m + d) * b = b * m + d * b /\ d * b \in Nat
    BY <2>1
  <2> QED
    BY <1>1, <2>1, <2>2
<1> QED
  BY <1>1, <1>2, <1>3

(* A fragment that is not the last is full, and one after which the call   *)
(* ends short of its length is at the capture limit.                       *)
LEMMA FragmentEnds ==
    ASSUME NEW p, p.i \in Nat, p.len \in Nat, p.dir \in {"Read", "Write", "Handshake"}, Reached(p) < p.len
    PROVE  LET n == Least(p.len - Reached(p), BufSize)
               after == Reached(p) + BufSize
               more == p.i + 1 < MaxFragments /\ after < p.len /\ after < CaptureLimit(p.dir)
           IN  /\ Reached(p) \in Nat /\ after \in Nat
               /\ after = (p.i + 1) * BufSize
               /\ n \in Nat /\ Reached(p) + n <= after /\ (BufSize # 0 => n # 0)
               /\ after < p.len => n = BufSize
               /\ ~(after < p.len) => Reached(p) + n = p.len
               /\ more => p.dir # "Handshake" /\ BufSize # 0
               /\ ~more => Reached(p) + n = p.len \/ Truncated(p)
               /\ p.dir = "Handshake" => CaptureLimit(p.dir) = BufSize
PROOF
<1> DEFINE r == Reached(p)
           after == r + BufSize
           n == Least(p.len - r, BufSize)
           limit == CaptureLimit(p.dir)
<1>1. /\ r \in Nat /\ BufSize \in Nat /\ MaxFragments \in Nat /\ after \in Nat
      /\ after = (p.i + 1) * BufSize /\ BufSize <= after
      /\ MaxFragments <= p.i + 1 => BufSize * MaxFragments <= after
      /\ BufSize * MaxFragments \in Nat
  BY CaptureAssumption, FragmentBounds DEF Reached
<1>2. limit \in {BufSize, BufSize * MaxFragments} /\ (p.dir # "Read" => limit = BufSize)
  BY DEF CaptureLimit
<1>3. r < p.len /\ p.len \in Nat
  OBVIOUS
<1>4. Truncated(p) <=> p.len > limit
  BY DEF Truncated
<1> HIDE DEF r, limit
<1>5. n = IF p.len - r < BufSize THEN p.len - r ELSE BufSize
  BY DEF Least
<1> HIDE DEF n
<1>6. /\ n \in Nat /\ r + n <= after /\ (BufSize # 0 => n # 0)
      /\ after < p.len => n = BufSize
      /\ ~(after < p.len) => r + n = p.len
  BY <1>1, <1>3, <1>5
<1>7. after < limit => p.dir # "Handshake" /\ BufSize # 0
  <2>1. BufSize = 0 => BufSize * MaxFragments = 0
    BY <1>1
  <2> QED
    BY <1>1, <1>2, <2>1
<1>8. ~(p.i + 1 < MaxFragments /\ after < p.len /\ after < limit) => r + n = p.len \/ p.len > limit
  <2> SUFFICES ASSUME ~(p.i + 1 < MaxFragments) \/ ~(after < limit), after < p.len
               PROVE  p.len > limit
    BY <1>6
  <2>1. limit \in Nat
    BY <1>1, <1>2
  <2>2. limit <= after
    <3>1. CASE ~(after < limit)
      BY <1>1, <2>1, <3>1
    <3>2. CASE ~(p.i + 1 < MaxFragments)
      BY <1>1, <1>2, <3>2
    <3> QED
      BY <3>1, <3>2
  <2> QED
    BY <1>1, <1>3, <2>1, <2>2
<1> QED
  BY <1>1, <1>2, <1>4, <1>6, <1>7, <1>8 DEF r, limit, n

(* What a fragment adds to the counters. *)
LEMMA StatsOfFragment ==
    ASSUME NEW p
    PROVE  /\ SentStats(p) \in SUBSET Stats
           /\ p.i = 0 /\ p.dir # "Handshake" /\ p.buf # 0 /\ Truncated(p) /\ ~(p.i > 0) => "truncated" \in SentStats(p)
           /\ \A why \in {"reserve_fail", "discard"} :
                 /\ LostStats(p, why) \in SUBSET Stats
                 /\ p.i > 0 /\ ~Truncated(p) => "truncated" \in LostStats(p, why)
PROOF
<1> DEFINE more == CASE p.i > 0              -> {"fragment"}
                     [] p.dir = "Handshake"  -> {"handshake"}
                     [] p.buf = 0            -> {"empty"}
                     [] Truncated(p)         -> {"truncated"}
                     [] OTHER                -> {}
<1>1. more \in {{"fragment"}, {"handshake"}, {"empty"}, {"truncated"}, {}}
  BY Zenon
<1>2. p.dir # "Handshake" /\ p.buf # 0 /\ Truncated(p) /\ ~(p.i > 0) => more = {"truncated"}
  BY Zenon
<1>3. SentStats(p) = {"submit"} \cup more
  BY Zenon DEF SentStats
<1> HIDE DEF more
<1>4. SentStats(p) \in SUBSET Stats
  BY <1>1, <1>3 DEF Stats
<1>5. \A why \in {"reserve_fail", "discard"} :
         /\ LostStats(p, why) \in SUBSET Stats
         /\ p.i > 0 /\ ~Truncated(p) => "truncated" \in LostStats(p, why)
  BY DEF LostStats, TailLost, Stats
<1> QED
  BY <1>2, <1>3, <1>4, <1>5

(* A fragment without a record ends its call's emission: the call was      *)
(* counted as truncated, unless nothing of it was sent.                    *)
LEMMA FragmentLost ==
    ASSUME Inv, LossInv, NEW t \in Threads, probe[t].pc = "emit", UNCHANGED <<stack, calls, bufs, records>>,
           probe' = [probe EXCEPT ![t] = Clearing],
           NEW why \in {"reserve_fail", "discard"}, Count(probe[t].call, LostStats(probe[t], why))
    PROVE  LossInv'
PROOF
<1> USE DEF LossInv, Inv
<1> DEFINE p == probe[t]
<1>1. p \in Emission /\ p.call \in DOMAIN calls /\ Follows(p) /\ p.i \in Nat
  BY DEF Types, NoProbe, Clearing, Emission, CallsAreApart, EmissionsFollow
<1>2. /\ LostStats(p, why) \in SUBSET Stats
      /\ p.i > 0 /\ ~Truncated(p) => "truncated" \in LostStats(p, why)
  BY StatsOfFragment
<1>3. /\ CountsAreKept' /\ counted'[p.call] = counted[p.call] \cup LostStats(p, why)
      /\ \A d \in DOMAIN calls : counted[d] \subseteq counted'[d]
  BY <1>1, <1>2, CountGrows
<1>4. probe'[t] = Clearing /\ Clearing.pc # "emit" /\ \A u \in Threads \ {t} : probe'[u] = probe[u]
  BY DEF Types, Clearing
<1>5. CallsAreApart' /\ StackedIsUnsent' /\ BuffersAreData'
  BY <1>4 DEF CallsAreApart, StackedIsUnsent, BuffersAreData
<1>6. p.i # 0 => "truncated" \in counted'[p.call]
  BY <1>1, <1>2, <1>3 DEF Follows
<1>7. MissingBytesAreCounted'
  <2> SUFFICES ASSUME NEW k \in DOMAIN records, WithData(k)
               PROVE  /\ \/ records[k].offset = 0
                         \/ \E j \in 1..(k - 1) : WithData(j) /\ SameCall(j, k) /\ EndOf(records[j]) = records[k].offset
                      /\ \A j \in 1..(k - 1) : WithData(j) /\ SameCall(j, k) => EndOf(records[j]) <= records[k].offset
                      /\ \/ EndOf(records[k]) = records[k].len
                         \/ \E j \in DOMAIN records : j > k /\ WithData(j) /\ SameCall(j, k)
                         \/ "truncated" \in counted'[records[k].call]
                         \/ \E u \in Threads : probe'[u].pc = "emit" /\ probe'[u].call = records[k].call
    BY DEF MissingBytesAreCounted, WithData, SameCall, EndOf
  <2>1. \/ records[k].offset = 0
        \/ \E j \in 1..(k - 1) : WithData(j) /\ SameCall(j, k) /\ EndOf(records[j]) = records[k].offset
    BY DEF MissingBytesAreCounted
  <2>2. \A j \in 1..(k - 1) : WithData(j) /\ SameCall(j, k) => EndOf(records[j]) <= records[k].offset
    BY DEF MissingBytesAreCounted
  <2>3. \/ EndOf(records[k]) = records[k].len
        \/ \E j \in DOMAIN records : j > k /\ WithData(j) /\ SameCall(j, k)
        \/ "truncated" \in counted[records[k].call]
        \/ \E u \in Threads : probe[u].pc = "emit" /\ probe[u].call = records[k].call
    BY DEF MissingBytesAreCounted
  <2>4. "truncated" \in counted[records[k].call] => "truncated" \in counted'[records[k].call]
    BY <1>3 DEF StackedIsUnsent
  <2>5. ASSUME NEW u \in Threads, probe[u].pc = "emit", probe[u].call = records[k].call
        PROVE  \/ "truncated" \in counted'[records[k].call]
               \/ \E v \in Threads : probe'[v].pc = "emit" /\ probe'[v].call = records[k].call
    <3>1. CASE u = t
      <4>1. p.i # 0
        BY <1>1, <2>5, <3>1 DEF Follows
      <4> QED
        BY <1>6, <2>5, <3>1, <4>1
    <3>2. CASE u # t
      BY <1>4, <2>5, <3>2
    <3> QED
      BY <3>1, <3>2
  <2> QED
    BY <2>1, <2>2, <2>3, <2>4, <2>5
<1>8. EmissionsFollow'
  <2> SUFFICES ASSUME NEW u \in Threads, u # t, probe[u].pc = "emit", probe'[u] = probe[u]
               PROVE  Follows(probe[u])'
    BY <1>4 DEF EmissionsFollow
  <2> DEFINE q == probe[u]
  <2>1. q' = q /\ Follows(q) /\ q.call \in DOMAIN calls
    BY DEF EmissionsFollow, CallsAreApart
  <2>2. counted[q.call] \subseteq counted'[q.call]
    BY <1>3, <2>1
  <2> QED
    BY <2>1, <2>2 DEF Follows, WithData, EndOf, Reached, Truncated
<1> QED
  BY <1>3, <1>5, <1>7, <1>8

(* A fragment that is sent begins where the call's last one ended; if it   *)
(* is the call's last, the call is complete or was counted as truncated.   *)
LEMMA FragmentSent ==
    ASSUME Inv, LossInv, NEW t \in Threads, probe[t].pc = "emit", UNCHANGED <<stack, calls, bufs>>,
           NEW sent \in Record, records' = Append(records, sent),
           sent.call = probe[t].call, sent.len = probe[t].len, sent.offset = Reached(probe[t]),
           sent.n = IF probe[t].buf = 0 THEN 0 ELSE Least(probe[t].len - Reached(probe[t]), BufSize),
           Count(probe[t].call, SentStats(probe[t])),
           IF /\ probe[t].i + 1 < MaxFragments
              /\ Reached(probe[t]) + BufSize < probe[t].len
              /\ Reached(probe[t]) + BufSize < CaptureLimit(probe[t].dir)
           THEN probe' = [probe EXCEPT ![t].i = @ + 1]
           ELSE probe' = [probe EXCEPT ![t] = Clearing]
    PROVE  LossInv'
PROOF
<1> USE DEF LossInv, Inv
<1> DEFINE p == probe[t]
           next == [p EXCEPT !.i = @ + 1]
           r == Reached(p)
           after == r + BufSize
           more == p.i + 1 < MaxFragments /\ after < p.len /\ after < CaptureLimit(p.dir)
<1> PICK m : m = Len(records) + 1
  OBVIOUS
<1>1. /\ p \in Emission /\ p.call \in DOMAIN calls /\ Follows(p) /\ p.i \in Nat
      /\ p.dir \in {"Read", "Write", "Handshake"} /\ (p.buf = 0 <=> p.dir = "Handshake")
      /\ BufSize \in Nat /\ p.len \in Nat /\ r < p.len
  <2>1. p \in Emission
    BY DEF Types, NoProbe, Clearing
  <2>2. p.call \in DOMAIN calls /\ Follows(p) /\ (p.buf = 0 <=> p.dir = "Handshake")
    BY DEF CallsAreApart, EmissionsFollow, BuffersAreData
  <2>3. p.i \in Nat /\ p.dir \in {"Read", "Write", "Handshake"}
    BY <2>1 DEF Emission
  <2>4. p.len \in Nat /\ r < p.len
    BY <2>2 DEF Follows
  <2> QED
    BY <2>1, <2>2, <2>3, <2>4, CaptureAssumption
<1> DEFINE n == Least(p.len - r, BufSize)
<1>2. /\ r \in Nat /\ after \in Nat /\ after = (p.i + 1) * BufSize
      /\ n \in Nat /\ r + n <= after /\ (BufSize # 0 => n # 0)
      /\ after < p.len => n = BufSize
      /\ more => p.dir # "Handshake" /\ BufSize # 0
      /\ ~more => r + n = p.len \/ Truncated(p)
      /\ p.dir = "Handshake" => CaptureLimit(p.dir) = BufSize
  BY <1>1, FragmentEnds
<1>3. /\ m \in Nat /\ DOMAIN records = 1..(m - 1) /\ DOMAIN records' = 1..m /\ records'[m] = sent
      /\ \A k \in 1..(m - 1) : records'[k] = records[k]
  <2>1. records \in Seq(Record)
    BY DEF Types
  <2>2. /\ Append(records, sent) \in Seq(Record) /\ Len(Append(records, sent)) = Len(records) + 1
        /\ \A k \in 1..Len(records) : Append(records, sent)[k] = records[k]
        /\ Append(records, sent)[Len(records) + 1] = sent
    BY <2>1, AppendProperties
  <2>3. Len(records) \in Nat /\ DOMAIN records = 1..Len(records)
    BY <2>1, LenProperties
  <2>4. DOMAIN records' = 1..(Len(records) + 1)
    BY <2>2, LenProperties
  <2> QED
    BY <2>2, <2>3, <2>4
<1>4. /\ CountsAreKept' /\ counted'[p.call] = counted[p.call] \cup SentStats(p)
      /\ \A d \in DOMAIN calls : counted[d] \subseteq counted'[d]
  BY <1>1, CountGrows, StatsOfFragment
<1>5. p.buf # 0 /\ Truncated(p) => "truncated" \in counted'[p.call]
  BY <1>1, <1>4, StatsOfFragment DEF Follows
<1>6. /\ \A u \in Threads \ {t} : probe'[u] = probe[u]
      /\ more => probe'[t] = next /\ next.pc = "emit"
      /\ ~more => probe'[t] = Clearing /\ Clearing.pc # "emit"
  <2>1. probe \in [Threads -> {NoProbe, Clearing} \cup Emission]
    BY DEF Types
  <2>2. next.pc = "emit"
    BY <1>1 DEF Emission
  <2>3. CASE more
    <3>1. probe' = [probe EXCEPT ![t].i = @ + 1]
      BY <2>3
    <3>2. probe'[t] = next /\ \A u \in Threads \ {t} : probe'[u] = probe[u]
      BY <2>1, <3>1
    <3> QED
      BY <2>2, <2>3, <3>2
  <2>4. CASE ~more
    <3>1. probe' = [probe EXCEPT ![t] = Clearing]
      BY <2>4
    <3> QED
      BY <2>1, <2>4, <3>1 DEF Clearing
  <2> QED
    BY <2>3, <2>4
<1>7. /\ next.call = p.call /\ next.len = p.len /\ next.dir = p.dir /\ next.buf = p.buf /\ next.i = p.i + 1
      /\ next.pc = "emit"
  BY <1>1 DEF Emission
<1>8. /\ \A k \in 1..(m - 1) : WithData(k)' = WithData(k) /\ EndOf(records'[k]) = EndOf(records[k])
      /\ WithData(m)' <=> sent.n > 0
      /\ EndOf(records'[m]) = r + sent.n
  <2> HIDE DEF r
  <2>1. \A k \in 1..(m - 1) : k \in DOMAIN records /\ k \in DOMAIN records'
    BY <1>3
  <2>2. m \in DOMAIN records'
    BY <1>3
  <2>3. \A k \in 1..(m - 1) : WithData(k)' = WithData(k) /\ EndOf(records'[k]) = EndOf(records[k])
    BY <1>3, <2>1 DEF WithData, EndOf
  <2>4. WithData(m)' <=> sent.n > 0
    BY <1>3, <2>2 DEF WithData
  <2>5. EndOf(records'[m]) = r + sent.n
    BY <1>3 DEF EndOf, r
  <2> QED
    BY <2>3, <2>4, <2>5
<1>9. ASSUME sent.n > 0
      PROVE  p.buf # 0 /\ sent.n = n /\ EndOf(records'[m]) = r + n
  BY <1>8, <1>9
<1>10. p.i # 0 => p.buf # 0 /\ BufSize # 0
  BY <1>1 DEF Follows
<1>11. MissingBytesAreCounted'
  <2> SUFFICES ASSUME NEW k \in DOMAIN records', WithData(k)'
               PROVE  /\ \/ records'[k].offset = 0
                         \/ \E j \in 1..(k - 1) : WithData(j)' /\ SameCall(j, k)' /\ EndOf(records'[j]) = records'[k].offset
                      /\ \A j \in 1..(k - 1) : WithData(j)' /\ SameCall(j, k)' => EndOf(records'[j]) <= records'[k].offset
                      /\ \/ EndOf(records'[k]) = records'[k].len
                         \/ \E j \in DOMAIN records' : j > k /\ WithData(j)' /\ SameCall(j, k)'
                         \/ "truncated" \in counted'[records'[k].call]
                         \/ \E u \in Threads : probe'[u].pc = "emit" /\ probe'[u].call = records'[k].call
    BY DEF MissingBytesAreCounted, EndOf
  <2>1. CASE k = m
    <3>1. p.buf # 0 /\ sent.n = n /\ EndOf(records'[m]) = r + n
      BY <1>8, <1>9, <2>1
    <3>2. records'[m].offset = r /\ records'[m].call = p.call /\ records'[m].len = p.len
      BY <1>3
    <3>3. \A j \in 1..(m - 1) : WithData(j)' /\ SameCall(j, m)' => EndOf(records'[j]) <= r
      BY <1>1, <1>3, <1>8, <3>2 DEF Follows, SameCall
    <3>4. \/ r = 0
          \/ \E j \in 1..(m - 1) : WithData(j)' /\ SameCall(j, m)' /\ EndOf(records'[j]) = r
      <4>1. CASE p.i = 0
        BY <1>1, <4>1 DEF Reached
      <4>2. CASE p.i # 0
        <5>1. PICK j \in DOMAIN records : WithData(j) /\ records[j].call = p.call /\ EndOf(records[j]) = r
          BY <1>1, <4>2 DEF Follows
        <5> QED
          BY <1>3, <1>8, <3>2, <5>1 DEF SameCall
      <4> QED
        BY <4>1, <4>2
    <3>5. \/ EndOf(records'[m]) = p.len
          \/ "truncated" \in counted'[p.call]
          \/ probe'[t].pc = "emit" /\ probe'[t].call = p.call
      BY <1>2, <1>5, <1>6, <1>7, <3>1
    <3> QED
      BY <2>1, <3>2, <3>3, <3>4, <3>5
  <2>2. CASE k # m
    <3>1. k \in 1..(m - 1) /\ k \in DOMAIN records /\ records'[k] = records[k] /\ WithData(k)
      BY <1>3, <1>8, <2>2
    <3>2. \A j \in 1..(k - 1) : j \in 1..(m - 1) /\ records'[j] = records[j] /\ WithData(j)' = WithData(j)
      BY <1>3, <1>8, <3>1
    <3>3. \/ records[k].offset = 0
          \/ \E j \in 1..(k - 1) : WithData(j) /\ SameCall(j, k) /\ EndOf(records[j]) = records[k].offset
      BY <3>1 DEF MissingBytesAreCounted
    <3>4. \A j \in 1..(k - 1) : WithData(j) /\ SameCall(j, k) => EndOf(records[j]) <= records[k].offset
      BY <3>1 DEF MissingBytesAreCounted
    <3>5. \/ EndOf(records[k]) = records[k].len
          \/ \E j \in DOMAIN records : j > k /\ WithData(j) /\ SameCall(j, k)
          \/ "truncated" \in counted[records[k].call]
          \/ \E u \in Threads : probe[u].pc = "emit" /\ probe[u].call = records[k].call
      BY <3>1 DEF MissingBytesAreCounted
    <3>6. ASSUME NEW j \in DOMAIN records, j > k, WithData(j), SameCall(j, k)
          PROVE  j \in DOMAIN records' /\ WithData(j)' /\ SameCall(j, k)'
      <4>1. j \in 1..(m - 1)
        BY <1>3
      <4> QED
        BY <1>3, <1>8, <3>1, <3>6, <4>1 DEF SameCall
    <3>7. "truncated" \in counted[records[k].call] => "truncated" \in counted'[records[k].call]
      BY <1>4, <3>1 DEF StackedIsUnsent
    <3>8. ASSUME NEW u \in Threads, probe[u].pc = "emit", probe[u].call = records[k].call
          PROVE  \/ \E j \in DOMAIN records' : j > k /\ WithData(j)' /\ SameCall(j, k)'
                 \/ \E v \in Threads : probe'[v].pc = "emit" /\ probe'[v].call = records[k].call
      <4>1. CASE u = t
        <5>1. p.i # 0
          BY <1>1, <3>1, <3>8, <4>1 DEF Follows
        <5>2. sent.n > 0
          BY <1>2, <1>10, <5>1
        <5>3. WithData(m)' /\ SameCall(m, k)' /\ m \in DOMAIN records' /\ m > k
          BY <1>3, <1>8, <3>1, <3>8, <4>1, <5>2 DEF SameCall
        <5> QED
          BY <5>3
      <4>2. CASE u # t
        BY <1>6, <3>8, <4>2
      <4> QED
        BY <4>1, <4>2
    <3>9. \/ records'[k].offset = 0
          \/ \E j \in 1..(k - 1) : WithData(j)' /\ SameCall(j, k)' /\ EndOf(records'[j]) = records'[k].offset
      BY <3>1, <3>2, <3>3 DEF SameCall
    <3>10. \A j \in 1..(k - 1) : WithData(j)' /\ SameCall(j, k)' => EndOf(records'[j]) <= records'[k].offset
      BY <3>1, <3>2, <3>4 DEF SameCall
    <3>11. \/ EndOf(records'[k]) = records'[k].len
           \/ \E j \in DOMAIN records' : j > k /\ WithData(j)' /\ SameCall(j, k)'
           \/ "truncated" \in counted'[records'[k].call]
           \/ \E u \in Threads : probe'[u].pc = "emit" /\ probe'[u].call = records'[k].call
      BY <3>1, <3>5, <3>6, <3>7, <3>8
    <3> QED
      BY <3>9, <3>10, <3>11
  <2> QED
    BY <2>1, <2>2
<1>12. ASSUME NEW u \in Threads, probe'[u].pc = "emit"
       PROVE  /\ probe[u].pc = "emit" /\ probe'[u].call = probe[u].call
              /\ probe'[u].buf = probe[u].buf /\ probe'[u].dir = probe[u].dir
  BY <1>6, <1>7, <1>12
<1>13. CallsAreApart'
  BY <1>12 DEF CallsAreApart
<1>14. StackedIsUnsent'
  <2>1. \A k \in DOMAIN records' : (k \in DOMAIN records /\ records'[k] = records[k]) \/ records'[k].call = p.call
    BY <1>3
  <2>2. \A u \in Threads : \A i \in DOMAIN stack[u] : stack[u][i].call # p.call
    <3> SUFFICES ASSUME NEW u \in Threads, NEW i \in DOMAIN stack[u], stack[u][i].call = p.call
                 PROVE  FALSE
      OBVIOUS
    <3>1. u = t
      BY DEF CallsAreApart
    <3> QED
      BY <3>1 DEF CallsAreApart
  <2> QED
    BY <1>1, <2>1, <2>2 DEF StackedIsUnsent
<1>15. BuffersAreData'
  BY <1>12 DEF BuffersAreData
<1>16. ASSUME NEW u \in Threads, u # t, probe[u].pc = "emit", probe'[u] = probe[u]
       PROVE  Follows(probe[u])'
  <2> DEFINE q == probe[u]
  <2>1. q' = q /\ Follows(q) /\ q.call \in DOMAIN calls /\ q.call # p.call
    BY <1>16 DEF EmissionsFollow, CallsAreApart
  <2>2. counted[q.call] \subseteq counted'[q.call]
    BY <1>4, <2>1
  <2>3. \A k \in DOMAIN records' : records'[k].call = q.call =>
            k \in DOMAIN records /\ records'[k] = records[k] /\ WithData(k)' = WithData(k)
    BY <1>3, <1>8, <2>1
  <2>4. \A k \in DOMAIN records : k \in DOMAIN records' /\ records'[k] = records[k] /\ WithData(k)' = WithData(k)
    BY <1>3, <1>8
  <2>5. Reached(q)' = Reached(q) /\ Truncated(q)' = Truncated(q)
    BY <2>1 DEF Reached, Truncated
  <2>6. \A k \in DOMAIN records' : WithData(k)' /\ records'[k].call = q.call => EndOf(records'[k]) <= Reached(q)
    BY <2>1, <2>3 DEF Follows
  <2>7. q.i = 0 => \A k \in DOMAIN records' : WithData(k)' => records'[k].call # q.call
    BY <2>1, <2>3 DEF Follows
  <2>8. q.i # 0 => \E k \in DOMAIN records' : WithData(k)' /\ records'[k].call = q.call /\ EndOf(records'[k]) = Reached(q)
    BY <2>1, <2>4 DEF Follows
  <2> QED
    BY <2>1, <2>2, <2>5, <2>6, <2>7, <2>8 DEF Follows, EndOf
<1>17. ASSUME more PROVE Follows(probe[t])'
  <2>1. probe'[t] = next /\ p.dir # "Handshake" /\ BufSize # 0 /\ p.buf # 0
    BY <1>1, <1>2, <1>6, <1>17
  <2>2. Reached(next) = after /\ next.i # 0 /\ next.i \in Nat
    <3>1. next.i = p.i + 1
      BY <1>7
    <3>2. after = (p.i + 1) * BufSize
      BY <1>2
    <3> HIDE DEF next, after, r
    <3>3. Reached(next) = after
      BY <3>1, <3>2 DEF Reached
    <3> QED
      BY <1>1, <3>1, <3>3
  <2>3. sent.n = n /\ n = BufSize /\ sent.n > 0 /\ EndOf(records'[m]) = after
    BY <1>1, <1>2, <1>8, <1>17, <2>1
  <2>4. \A k \in DOMAIN records' : WithData(k)' /\ records'[k].call = p.call => EndOf(records'[k]) <= after
    <3> SUFFICES ASSUME NEW k \in DOMAIN records', WithData(k)', records'[k].call = p.call
                 PROVE  EndOf(records'[k]) <= after
      OBVIOUS
    <3>1. CASE k = m
      BY <1>2, <2>3, <3>1
    <3>2. CASE k # m
      <4>1. k \in 1..(m - 1) /\ k \in DOMAIN records /\ records'[k] = records[k] /\ WithData(k)
        BY <1>3, <1>8, <3>2
      <4>2. EndOf(records[k]) <= r /\ records[k] \in Record
        BY <1>1, <4>1 DEF Follows, Types
      <4>3. EndOf(records[k]) \in Int
        BY <4>2 DEF EndOf, Record
      <4> QED
        BY <1>1, <1>2, <4>1, <4>2, <4>3
    <3> QED
      BY <3>1, <3>2
  <2>5. m \in DOMAIN records' /\ WithData(m)' /\ records'[m].call = p.call
    BY <1>3, <1>8, <2>3
  <2>6. Truncated(next) = Truncated(p) /\ next.call = p.call
    BY <1>7 DEF Truncated
  <2>7. after < p.len /\ next.len = p.len /\ next.dir = p.dir
    BY <1>7, <1>17
  <2>8. Truncated(next) => "truncated" \in counted'[next.call]
    BY <1>5, <2>1, <2>6
  <2> HIDE DEF next, after
  <2>9. /\ next.len \in Nat /\ next.len # 0
        /\ \A j \in DOMAIN records' : WithData(j)' /\ records'[j].call = next.call => EndOf(records'[j]) <= Reached(next)
        /\ next.i # 0 /\ \E j \in DOMAIN records' : WithData(j)' /\ records'[j].call = next.call /\ EndOf(records'[j]) = Reached(next)
        /\ next.dir # "Handshake" /\ BufSize # 0 /\ Reached(next) < next.len
    <3>1. next.len \in Nat /\ next.len # 0 /\ next.dir # "Handshake" /\ BufSize # 0 /\ Reached(next) < next.len
      BY <1>1, <1>2, <2>1, <2>2, <2>7
    <3>2. \A j \in DOMAIN records' : WithData(j)' /\ records'[j].call = next.call => EndOf(records'[j]) <= Reached(next)
      BY <2>2, <2>4, <2>6
    <3>3. next.i # 0 /\ \E j \in DOMAIN records' : WithData(j)' /\ records'[j].call = next.call /\ EndOf(records'[j]) = Reached(next)
      BY <2>2, <2>3, <2>5, <2>6
    <3> QED
      BY <3>1, <3>2, <3>3
  <2>10. Reached(probe[t])' = Reached(next) /\ Truncated(probe[t])' = Truncated(next)
    BY <2>1 DEF Reached, Truncated
  <2> QED
    BY <2>1, <2>8, <2>9, <2>10 DEF Follows, EndOf
<1>18. EmissionsFollow'
  <2> SUFFICES ASSUME NEW u \in Threads, probe'[u].pc = "emit"
               PROVE  Follows(probe[u])'
    BY DEF EmissionsFollow
  <2>1. CASE u = t
    BY <1>6, <1>17, <2>1
  <2>2. CASE u # t
    BY <1>6, <1>16, <2>2
  <2> QED
    BY <2>1, <2>2
<1> QED
  BY <1>4, <1>11, <1>13, <1>14, <1>15, <1>18

(* A fragment is sent, or not. *)
LEMMA EmitOneLoss ==
    ASSUME Inv, LossInv, NEW t \in Threads, EmitOne(t)
    PROVE  LossInv'
PROOF
<1> DEFINE p == probe[t]
           sent == Fragment(p)
<1>1. p.pc = "emit" /\ UNCHANGED <<stack, calls, bufs>>
  BY DEF EmitOne, program, session
<1>2. p \in Emission /\ IsOf(p)
  BY <1>1 DEF Inv, Types, EmissionsAreRight, NoProbe, Clearing
<1>3. sent \in Record
  BY <1>2, FragmentIsRecord
<1>4. /\ sent.call = p.call /\ sent.len = p.len /\ sent.offset = Reached(p)
      /\ sent.n = IF p.buf = 0 THEN 0 ELSE Least(p.len - Reached(p), BufSize)
  BY DEF Fragment, Reached
<1>5. CASE /\ records' = Append(records, sent)
           /\ Count(p.call, SentStats(p))
           /\ IF /\ p.i + 1 < MaxFragments /\ Reached(p) + BufSize < p.len
                 /\ Reached(p) + BufSize < CaptureLimit(p.dir)
              THEN probe' = [probe EXCEPT ![t].i = @ + 1]
              ELSE probe' = [probe EXCEPT ![t] = Clearing]
  <2> HIDE DEF sent
  <2> QED
    BY <1>1, <1>3, <1>4, <1>5, FragmentSent
<1>6. CASE /\ \E why \in {"reserve_fail", "discard"} : Count(p.call, LostStats(p, why))
           /\ probe' = [probe EXCEPT ![t] = Clearing] /\ UNCHANGED records
  <2>1. PICK why \in {"reserve_fail", "discard"} : Count(p.call, LostStats(p, why))
    BY <1>6
  <2> QED
    BY <1>1, <1>6, <2>1, FragmentLost
<1> QED
  BY <1>5, <1>6 DEF EmitOne, Fragment, Reached, Clearing

(* Every step keeps the records of a call in line with its counters. *)
LEMMA LossStep ==
    ASSUME Inv, LossInv, [Next]_vars
    PROVE  LossInv'
PROOF
<1>1. CASE AttachEnter \/ AttachReturn \/ AttachFails
  BY <1>1, SameLoss DEF AttachEnter, AttachReturn, AttachFails, program, session
<1>2. ASSUME NEW t \in Threads, Returning(t) PROVE LossInv'
  <2>1. CASE End(t)
    BY <2>1, ClearedLoss DEF End, program
  <2> QED
    BY <1>2, <2>1, NotSeenLoss, CaptureLoss, EmitOneLoss DEF Returning
<1>3. ASSUME NEW t \in Threads, Exit(t) PROVE LossInv'
  <2>1. /\ Clear(t) \/ UNCHANGED session
        /\ UNCHANGED <<calls, records, counted, probe>> /\ probe[t] = NoProbe
        /\ stack' = [stack EXCEPT ![t] = <<>>]
    BY <1>3 DEF Exit, TaskExit, Idle
  <2>2. probe[t].pc # "emit"
    BY <2>1 DEF NoProbe
  <2> QED
    BY <2>1, <2>2, ClearedLoss
<1>4. ASSUME NEW t \in Threads, Spawn(t) PROVE LossInv'
  BY <1>4, SameLoss DEF Spawn, session
<1>5. ASSUME NEW t \in Threads, NEW f \in Range(Exported), NEW ssl \in Conns, Enter(t, f, ssl) PROVE LossInv'
  BY <1>5, EnterLoss
<1>6. CASE UNCHANGED vars
  BY <1>6, SameLoss DEF vars, program, session
<1> QED
  BY <1>1, <1>2, <1>3, <1>4, <1>5, <1>6 DEF Next

(* However many calls threads make inside others, and whichever fragments  *)
(* the ring has no room for: the records of a call follow on from its      *)
(* first byte, and once it is over they reach its end or the call was      *)
(* counted as truncated.                                                   *)
THEOREM MissingBytesCounted == Spec => []MissingBytesAreCounted
PROOF
<1>1. Init => LossInv
  BY LossInit
<1>2. Inv /\ LossInv /\ [Next]_vars => LossInv'
  BY LossStep
<1>3. LossInv => MissingBytesAreCounted
  BY DEF LossInv
<1> QED
  BY <1>1, <1>2, <1>3, Invariance, PTL DEF Spec

(***************************************************************************)
(* The entries of the session maps.  A thread that is in no probe, and did *)
(* not leave a call of which the entry alone was seen, has the entries of  *)
(* a call it is in whose entry was seen (Owned): when that call returns,   *)
(* either a probe sees it and clears them, or the thread has left it.      *)
(***************************************************************************)
Seen(c) == "enter" \in counted[c]

Owned(t) == t \notin left /\ probe[t] = NoProbe =>
    /\ t \in DOMAIN starts => starts[t] \in Within(t) /\ Seen(starts[t])
    /\ t \in DOMAIN lens => \A c \in lens[t] : c \in Within(t) /\ Seen(c)

EntriesInv == \A t \in Threads : Owned(t)

(* Entries are made and removed in both maps at once. *)
LEMMA OwnedEntries == Inv /\ EntriesInv => EntriesAreOfCalls
BY DEF Inv, SessionsAreCalls, EntriesInv, Owned, EntriesAreOfCalls

(* At first there is no entry. *)
LEMMA EntriesInit ==
    ASSUME Init
    PROVE  EntriesInv
BY DEF Init, Empty, EntriesInv, Owned

(* Another thread's step takes none of a thread's calls or counters. *)
LEMMA StillOwned ==
    ASSUME Inv, NEW u \in Threads, Owned(u), u \in left => u \in left', probe'[u] = NoProbe => probe[u] = NoProbe,
           \A i \in DOMAIN stack[u] : i \in DOMAIN stack'[u] /\ stack'[u][i].call = stack[u][i].call,
           u \in DOMAIN starts' => u \in DOMAIN starts /\ starts'[u] = starts[u],
           u \in DOMAIN lens' => u \in DOMAIN lens /\ lens'[u] = lens[u],
           \A c \in DOMAIN calls : counted[c] \subseteq counted'[c]
    PROVE  Owned(u)'
PROOF
<1> SUFFICES ASSUME u \notin left', probe'[u] = NoProbe
             PROVE  /\ u \in DOMAIN starts' => (starts[u] \in Within(u) /\ Seen(starts[u]))'
                    /\ u \in DOMAIN lens' => (\A c \in lens[u] : c \in Within(u) /\ Seen(c))'
  BY DEF Owned
<1>1. u \notin left /\ probe[u] = NoProbe
  OBVIOUS
<1>2. ASSUME NEW c \in Within(u), Seen(c) PROVE c \in Within(u)' /\ "enter" \in counted'[c]
  <2>1. PICK i \in DOMAIN stack[u] : c = stack[u][i].call
    BY <1>2 DEF Within
  <2>2. c \in DOMAIN calls
    BY <2>1 DEF Inv, Types
  <2> QED
    BY <1>2, <2>1, <2>2 DEF Within, Seen
<1> QED
  BY <1>1, <1>2 DEF Owned, Seen

(* What a call that is entered leaves of what was there: its thread's      *)
(* calls, and itself.                                                      *)
LEMMA EnterLeaves ==
    ASSUME Inv, LossInv, NEW t \in Threads, NEW f \in Range(Exported), NEW ssl \in Conns, Enter(t, f, ssl),
           NEW n, n = Len(stack[t]), NEW c, c = Len(calls')
    PROVE  /\ UNCHANGED <<probe, records, left, strays>>
           /\ c \in DOMAIN calls' /\ DOMAIN calls \subseteq DOMAIN calls'
           /\ \A k \in DOMAIN calls : calls'[k] = calls[k] /\ counted'[k] = counted[k]
           /\ counted'[c] = IF f \in entering THEN {"enter"} ELSE {}
           /\ n \in Nat /\ DOMAIN stack[t] = 1..n /\ DOMAIN stack'[t] = 1..(n + 1)
           /\ stack'[t][n + 1].call = c
           /\ \A u \in Threads \ {t} : stack'[u] = stack[u]
           /\ \A u \in Threads : \A i \in DOMAIN stack[u] :
                 i \in DOMAIN stack'[u] /\ stack'[u][i] = stack[u][i] /\ stack[u][i].call \in DOMAIN calls
           /\ Func(t, n + 1)' = f /\ \A u \in Threads : \A i \in DOMAIN stack[u] : Func(u, i)' = Func(u, i)
PROOF
<1> DEFINE stats == IF f \in entering THEN {"enter"} ELSE {}
<1>1. /\ CanCall(t, f, ssl) /\ UNCHANGED <<probe, records, left, strays>>
      /\ stack' = [stack EXCEPT ![t] = Append(@, [call |-> c, hooked |-> f \in returning])]
      /\ counted' = Append(counted, stats)
  BY DEF Enter, history
<1>2. PICK size \in Sizes \cup {1} :
        calls' = Append(calls, [func |-> f, ssl |-> ssl, size |-> size, thread |-> t])
  BY DEF Enter
<1>3. f \in STRING
  BY CaptureAssumption DEF Range
<1>4. /\ c = Len(calls) + 1 /\ c \in Nat /\ c \in DOMAIN calls' /\ calls'[c].func = f
      /\ DOMAIN calls = 1..Len(calls) /\ Len(calls) \in Nat
      /\ DOMAIN calls \subseteq DOMAIN calls' /\ \A k \in DOMAIN calls : calls'[k] = calls[k]
  BY <1>2, <1>3 DEF Inv, Types, Call
<1>5. /\ n \in Nat /\ DOMAIN stack[t] = 1..n /\ DOMAIN stack'[t] = 1..(n + 1)
      /\ \A i \in 1..n : stack'[t][i] = stack[t][i]
      /\ stack'[t][n + 1].call = c
      /\ \A u \in Threads \ {t} : stack'[u] = stack[u]
  BY <1>1, <1>4 DEF Inv, Types
<1>6. \A u \in Threads : \A i \in DOMAIN stack[u] :
         i \in DOMAIN stack'[u] /\ stack'[u][i] = stack[u][i] /\ stack[u][i].call \in DOMAIN calls
  <2> SUFFICES ASSUME NEW u \in Threads, NEW i \in DOMAIN stack[u]
               PROVE  i \in DOMAIN stack'[u] /\ stack'[u][i] = stack[u][i]
    BY DEF Inv, Types
  <2>1. CASE u = t
    <3>1. i \in 1..n /\ i \in 1..(n + 1)
      BY <1>5, <2>1
    <3> QED
      BY <1>5, <2>1, <3>1
  <2>2. CASE u # t
    BY <1>5, <2>2
  <2> QED
    BY <2>1, <2>2
<1>7. Func(t, n + 1)' = f /\ \A u \in Threads : \A i \in DOMAIN stack[u] : Func(u, i)' = Func(u, i)
  BY <1>4, <1>5, <1>6 DEF Func
<1>8. /\ counted'[c] = stats /\ \A k \in DOMAIN calls : counted'[k] = counted[k]
  <2> PICK S : S = SUBSET Stats
    OBVIOUS
  <2>1. stats \in S
    BY DEF Stats
  <2>2. counted \in Seq(S) /\ Len(counted) = Len(calls)
    BY DEF LossInv, CountsAreKept, Inv, Types
  <2> HIDE DEF stats
  <2>3. /\ \A k \in 1..Len(counted) : Append(counted, stats)[k] = counted[k]
        /\ Append(counted, stats)[Len(counted) + 1] = stats
    BY <2>1, <2>2, AppendProperties
  <2> QED
    BY <1>1, <1>4, <2>2, <2>3
<1> QED
  BY <1>1, <1>4, <1>5, <1>6, <1>7, <1>8

(* A call whose entry is probed takes over its thread's entries. *)
LEMMA EnterEntries ==
    ASSUME Inv, LossInv, EntriesInv,
           NEW t \in Threads, NEW f \in Range(Exported), NEW ssl \in Conns, Enter(t, f, ssl)
    PROVE  EntriesInv'
PROOF
<1> PICK n : n = Len(stack[t])
  OBVIOUS
<1> PICK c : c = Len(calls')
  OBVIOUS
<1>1. /\ UNCHANGED <<probe, left>>
      /\ \A k \in DOMAIN calls : counted[k] \subseteq counted'[k]
      /\ \A u \in Threads : \A i \in DOMAIN stack[u] : i \in DOMAIN stack'[u] /\ stack'[u][i].call = stack[u][i].call
      /\ \A u \in Threads : \A i \in DOMAIN stack[u] : stack[u][i].call \in DOMAIN calls
  BY EnterLeaves
<1>2. CASE f \notin entering
  <2>1. UNCHANGED <<starts, lens>>
    BY <1>2 DEF Enter, session
  <2> QED
    BY <1>1, <2>1, StillOwned DEF EntriesInv
<1>3. CASE f \in entering
  <2>1. c \in Within(t)' /\ "enter" \in counted'[c]
    <3>1. n + 1 \in DOMAIN stack'[t] /\ stack'[t][n + 1].call = c /\ counted'[c] = {"enter"}
      BY <1>3, EnterLeaves
    <3> QED
      BY <3>1 DEF Within, Seen
  <2>2. PICK len \in {{}, {c}} : Start(t, ssl, IF f = "SSL_do_handshake" THEN 0 ELSE c, len)
    BY <1>3 DEF Enter
  <2>3. /\ \A u \in DOMAIN starts' : u # t => u \in DOMAIN starts /\ starts'[u] = starts[u]
        /\ t \in DOMAIN starts' => starts'[t] = c
    BY <2>2, StartLeaves DEF Inv, SessionsAreCalls
  <2>4. /\ \A u \in DOMAIN lens' : u # t => u \in DOMAIN lens /\ lens'[u] = lens[u]
        /\ t \in DOMAIN lens' => lens'[t] = {c} \/ (t \in DOMAIN lens /\ lens'[t] = lens[t])
    BY <2>2 DEF Start, Inserted, With
  <2>5. ASSUME NEW u \in Threads, u # t PROVE Owned(u)'
    BY <1>1, <2>3, <2>4, <2>5, StillOwned DEF EntriesInv
  <2>6. Owned(t)'
    <3> SUFFICES ASSUME t \notin left, probe[t] = NoProbe, t \in DOMAIN lens', NEW k \in lens'[t]
                 PROVE  k \in Within(t)' /\ "enter" \in counted'[k]
      BY <1>1, <2>1, <2>3 DEF Owned, Seen
    <3>1. CASE lens'[t] = {c}
      BY <2>1, <3>1
    <3>2. CASE t \in DOMAIN lens /\ lens'[t] = lens[t]
      <4>1. k \in Within(t) /\ Seen(k)
        BY <3>2 DEF EntriesInv, Owned
      <4> QED
        BY <1>1, <4>1 DEF Within, Seen
    <3> QED
      BY <2>4, <3>1, <3>2
  <2> QED
    BY <2>5, <2>6 DEF EntriesInv
<1> QED
  BY <1>2, <1>3

(* A return takes one call from the stack: if it is the one of the entries *)
(* and no probe sees it, its thread has left it.                           *)
LEMMA ReturnEntries ==
    ASSUME Inv, LossInv, EntriesInv, NEW t \in Threads, ReturnUnseen(t) \/ Discard(t) \/ Capture(t)
    PROVE  EntriesInv'
PROOF
<1> PICK n : n = Len(stack[t])
  OBVIOUS
<1> DEFINE c == Last(stack[t]).call
<1>1. /\ probe[t] = NoProbe /\ stack[t] # <<>> /\ Leave(t) /\ UNCHANGED <<calls, starts, lens>>
  BY DEF ReturnUnseen, Discard, Capture, Idle, session
<1>2. /\ n \in DOMAIN stack[t] /\ c = stack[t][n].call
      /\ \A u \in Threads \ {t} : stack'[u] = stack[u]
      /\ DOMAIN stack'[t] = DOMAIN stack[t] \ {n}
      /\ \A u \in Threads : \A i \in DOMAIN stack'[u] : i \in DOMAIN stack[u] /\ stack'[u][i] = stack[u][i]
  BY <1>1, LeaveLeaves DEF Inv
<1>3. c \in DOMAIN calls
  BY <1>2 DEF Inv, Types
<1>4. /\ \A u \in Threads \ {t} : probe'[u] = probe[u] /\ (u \in left => u \in left')
      /\ \A k \in DOMAIN calls : counted[k] \subseteq counted'[k]
  <2>1. \A u \in Threads \ {t} : probe'[u] = probe[u]
    BY DEF ReturnUnseen, Discard, Capture, Inv, Types
  <2>2. left \subseteq left'
    BY DEF ReturnUnseen, Discard, Capture, history
  <2>3. UNCHANGED counted \/ Count(c, {"discard"}) \/ Count(c, {"filtered"})
    BY DEF ReturnUnseen, Discard, Capture
  <2>4. ASSUME NEW k \in DOMAIN calls PROVE counted[k] \subseteq counted'[k]
    <3>1. {"discard"} \in SUBSET Stats /\ {"filtered"} \in SUBSET Stats
      BY DEF Stats
    <3>2. CASE UNCHANGED counted
      BY <3>2
    <3>3. CASE Count(c, {"discard"})
      BY <1>1, <1>3, <3>1, <3>3, CountGrows DEF LossInv
    <3>4. CASE Count(c, {"filtered"})
      BY <1>1, <1>3, <3>1, <3>4, CountGrows DEF LossInv
    <3> QED
      BY <2>3, <3>2, <3>3, <3>4
  <2> QED
    BY <2>1, <2>2, <2>4
<1>5. ASSUME NEW u \in Threads, u # t PROVE Owned(u)'
  BY <1>1, <1>2, <1>4, <1>5, StillOwned DEF EntriesInv
<1>6. Owned(t)'
  <2>1. CASE ReturnUnseen(t)
    <3>1. UNCHANGED <<probe, counted>> /\ left' = left \cup (IF Seen(c) THEN {t} ELSE {})
      BY <2>1 DEF ReturnUnseen, Seen
    <3>2. ASSUME t \notin left', NEW k \in Within(t), Seen(k) PROVE k \in Within(t)' /\ "enter" \in counted'[k]
      <4>1. PICK i \in DOMAIN stack[t] : k = stack[t][i].call
        BY <3>2 DEF Within
      <4>2. i # n
        BY <1>2, <3>1, <3>2, <4>1
      <4> QED
        BY <1>2, <3>1, <3>2, <4>1, <4>2 DEF Within, Seen
    <3> QED
      BY <1>1, <3>1, <3>2 DEF EntriesInv, Owned, Seen
  <2>2. CASE Discard(t) \/ Capture(t)
    <3>1. probe'[t] # NoProbe
      BY <2>2 DEF Discard, Capture, NoProbe, Inv, Types
    <3> QED
      BY <3>1 DEF Owned
  <2> QED
    BY <2>1, <2>2
<1> QED
  BY <1>5, <1>6 DEF EntriesInv

(* Clearing takes a thread's entries, and leaves the others theirs. *)
LEMMA ClearedEntries ==
    ASSUME Inv, EntriesInv, NEW t \in Threads, Clear(t), UNCHANGED <<calls, counted>>, left' = left \ {t},
           \A u \in Threads \ {t} : probe'[u] = probe[u] /\ stack'[u] = stack[u]
    PROVE  EntriesInv'
PROOF
<1>1. /\ DOMAIN starts' = DOMAIN starts \ {t} /\ DOMAIN lens' = DOMAIN lens \ {t}
      /\ \A u \in DOMAIN starts' : starts'[u] = starts[u]
      /\ \A u \in DOMAIN lens' : lens'[u] = lens[u]
  BY DEF Clear, Removed, Restrict
<1>2. ASSUME NEW u \in Threads, u # t PROVE Owned(u)'
  BY <1>1, <1>2, StillOwned DEF EntriesInv
<1>3. Owned(t)'
  BY <1>1 DEF Owned
<1> QED
  BY <1>2, <1>3 DEF EntriesInv

(* A probe that still runs, or one that ends and clears. *)
LEMMA ProbeEntries ==
    ASSUME Inv, LossInv, EntriesInv, NEW t \in Threads, EmitOne(t) \/ End(t)
    PROVE  EntriesInv'
PROOF
<1>1. CASE EmitOne(t)
  <2>1. /\ probe[t].pc = "emit" /\ UNCHANGED <<stack, calls, starts, lens, left>>
        /\ \E stats : Count(probe[t].call, stats)
        /\ \/ probe' = [probe EXCEPT ![t] = Clearing]
           \/ probe' = [probe EXCEPT ![t].i = @ + 1]
    BY <1>1 DEF EmitOne, program, session, history, Clearing
  <2>2. \A k \in DOMAIN calls : counted[k] \subseteq counted'[k]
    BY <2>1 DEF Count, LossInv, CountsAreKept
  <2>3. probe'[t] # NoProbe /\ \A u \in Threads \ {t} : probe'[u] = probe[u]
    <3>1. probe[t] \in Emission /\ probe \in [Threads -> {NoProbe, Clearing} \cup Emission]
      <4>1. probe \in [Threads -> {NoProbe, Clearing} \cup Emission]
        BY DEF Inv, Types
      <4>2. probe[t] # NoProbe /\ probe[t] # Clearing
        BY <2>1 DEF NoProbe, Clearing
      <4> QED
        BY <4>1, <4>2
    <3>2. CASE probe' = [probe EXCEPT ![t] = Clearing]
      BY <3>1, <3>2 DEF NoProbe, Clearing
    <3>3. CASE probe' = [probe EXCEPT ![t].i = @ + 1]
      <4>1. probe'[t] = [probe[t] EXCEPT !.i = @ + 1]
        BY <3>1, <3>3
      <4>2. probe'[t].pc = "emit"
        BY <3>1, <4>1 DEF Emission
      <4> QED
        BY <3>1, <3>3, <4>2 DEF NoProbe
    <3> QED
      BY <2>1, <3>2, <3>3
  <2>4. ASSUME NEW u \in Threads, u # t PROVE Owned(u)'
    BY <2>1, <2>2, <2>3, <2>4, StillOwned DEF EntriesInv
  <2>5. Owned(t)'
    BY <2>3 DEF Owned
  <2> QED
    BY <2>4, <2>5 DEF EntriesInv
<1>2. CASE End(t)
  <2>1. /\ Clear(t) /\ UNCHANGED <<stack, calls, counted>> /\ left' = left \ {t}
        /\ \A u \in Threads \ {t} : probe'[u] = probe[u]
    BY <1>2 DEF End, program, Inv, Types
  <2> QED
    BY <2>1, ClearedEntries
<1> QED
  BY <1>1, <1>2

(* A thread that ends takes its entries with it, or leaves them. *)
LEMMA ExitEntries ==
    ASSUME Inv, EntriesInv, NEW t \in Threads, Exit(t)
    PROVE  EntriesInv'
PROOF
<1>1. UNCHANGED <<calls, counted, probe>> /\ \A u \in Threads \ {t} : stack'[u] = stack[u]
  BY DEF Exit, Inv, Types
<1>2. CASE exitProbed
  BY <1>1, <1>2, ClearedEntries DEF Exit, TaskExit
<1>3. CASE ~exitProbed
  <2>1. /\ UNCHANGED <<starts, lens>>
        /\ left' = left \cup ({t} \cap (DOMAIN starts \cup DOMAIN bufs \cup DOMAIN lens))
    BY <1>3 DEF Exit, TaskExit, session
  <2>2. ASSUME NEW u \in Threads, u # t PROVE Owned(u)'
    BY <1>1, <2>1, <2>2, StillOwned DEF EntriesInv
  <2>3. Owned(t)'
    BY <2>1 DEF Owned
  <2> QED
    BY <2>2, <2>3 DEF EntriesInv
<1> QED
  BY <1>2, <1>3

(* Every step leaves threads with entries of their own calls alone. *)
LEMMA EntriesStep ==
    ASSUME Inv, LossInv, EntriesInv, [Next]_vars
    PROVE  EntriesInv'
PROOF
<1>1. ASSUME UNCHANGED <<stack, starts, lens, probe, counted, left>> PROVE EntriesInv'
  BY <1>1 DEF EntriesInv, Owned, Within, Seen
<1>2. CASE AttachEnter \/ AttachReturn \/ AttachFails
  BY <1>1, <1>2 DEF AttachEnter, AttachReturn, AttachFails, program, session, history
<1>3. ASSUME NEW t \in Threads, Returning(t) PROVE EntriesInv'
  BY <1>3, ReturnEntries, ProbeEntries DEF Returning
<1>4. ASSUME NEW t \in Threads, Exit(t) PROVE EntriesInv'
  BY <1>4, ExitEntries
<1>5. ASSUME NEW t \in Threads, Spawn(t) PROVE EntriesInv'
  BY <1>1, <1>5 DEF Spawn, session, history
<1>6. ASSUME NEW t \in Threads, NEW f \in Range(Exported), NEW ssl \in Conns, Enter(t, f, ssl) PROVE EntriesInv'
  BY <1>6, EnterEntries
<1>7. CASE UNCHANGED vars
  BY <1>1, <1>7 DEF vars, program, session, history
<1> QED
  BY <1>2, <1>3, <1>4, <1>5, <1>6, <1>7 DEF Next

(* However calls fail, are dropped or are made inside one another, and     *)
(* with whichever probes attached: a thread in no probe has the entries of *)
(* a call it is in, unless it left one of which the entry alone was seen,  *)
(* or its like was killed and nobody saw it.                               *)
THEOREM EntriesBelongToCalls == Spec => []EntriesAreOfCalls
PROOF
<1>1. Init => LossInv /\ EntriesInv
  BY LossInit, EntriesInit
<1>2. Inv /\ LossInv /\ EntriesInv /\ [Next]_vars => LossInv' /\ EntriesInv'
  BY LossStep, EntriesStep
<1> QED
  BY <1>1, <1>2, OwnedEntries, Invariance, PTL DEF Spec

(***************************************************************************)
(* The length of a call, in a library whose _ex functions call no probed   *)
(* function but the handshake.  A thread's length entry is that of an _ex  *)
(* function it is in, unless it left one unseen (LengthsAreOfCalls); what  *)
(* such a function calls leaves no buffer (ExIsInnermost), so that the     *)
(* call whose buffer is sent is the one whose length is read.              *)
(***************************************************************************)
LengthsAreOfCalls ==
    \A t \in Threads : t \in DOMAIN lens /\ t \notin strays /\ probe[t] = NoProbe =>
        \E i \in DOMAIN stack[t] :
            lens[t] = {stack[t][i].call} /\ Func(t, i) \in Ex /\ "enter" \in counted[stack[t][i].call]

ExIsInnermost ==
    \A t \in Threads : \A i, j \in DOMAIN stack[t] : i < j /\ Func(t, i) \in Ex => Func(t, j) = Handshake

HasLength(r) == r.buf # 0 /\ ~r.stray => r.len \in {calls[r.call].size, Ret(r.call)}

LengthsAreRight ==
    /\ \A t \in Threads : probe[t].pc = "emit" => HasLength(probe[t])
    /\ \A k \in DOMAIN records : HasLength(records[k])

LengthInv == LengthsAreOfCalls /\ ExIsInnermost /\ LengthsAreRight

(* At first nobody is in a call. *)
LEMMA LengthInit ==
    ASSUME Init
    PROVE  LengthInv
BY DEF Init, Empty, NoProbe, LengthInv, LengthsAreOfCalls, ExIsInnermost, LengthsAreRight

(* A call's length does not change, so what had it has it still. *)
LEMMA LengthsStay ==
    ASSUME Inv, LengthsAreRight, DOMAIN calls \subseteq DOMAIN calls', \A c \in DOMAIN calls : calls'[c] = calls[c]
    PROVE  /\ \A t \in Threads : probe[t].pc = "emit" =>
                 \A r : r = probe[t] => HasLength(r)'
           /\ \A k \in DOMAIN records : \A r : r = records[k] => HasLength(r)'
PROOF
<1>1. ASSUME NEW r, IsOf(r), HasLength(r) PROVE HasLength(r)'
  BY <1>1 DEF IsOf, HasLength, Ret
<1>2. \A t \in Threads : probe[t].pc = "emit" => IsOf(probe[t]) /\ HasLength(probe[t])
  BY DEF Inv, EmissionsAreRight, LengthsAreRight
<1>3. \A k \in DOMAIN records : IsOf(records[k]) /\ HasLength(records[k])
  BY DEF Inv, RecordsAreRight, LengthsAreRight
<1>4. ASSUME NEW t \in Threads, probe[t].pc = "emit", NEW r, r = probe[t] PROVE HasLength(r)'
  BY <1>1, <1>2, <1>4
<1>5. ASSUME NEW k \in DOMAIN records, NEW r, r = records[k] PROVE HasLength(r)'
  BY <1>1, <1>3, <1>5
<1> QED
  BY <1>4, <1>5

(* A step by which calls, their lengths and counts, and the records stay,  *)
(* and of a thread's stack and probe and entry nothing is new.             *)
LEMMA SameLengths ==
    ASSUME Inv, LengthInv, UNCHANGED <<calls, records>>,
           \A t \in Threads : \A i \in DOMAIN stack'[t] : i \in DOMAIN stack[t] /\ stack'[t][i] = stack[t][i],
           \A t \in Threads : probe'[t].pc = "emit" => probe'[t] = probe[t],
           LengthsAreOfCalls'
    PROVE  LengthInv'
PROOF
<1> USE DEF LengthInv
<1>1. ExIsInnermost'
  BY DEF ExIsInnermost, Func
<1>2. LengthsAreRight'
  <2>1. /\ \A t \in Threads : probe[t].pc = "emit" => \A r : r = probe[t] => HasLength(r)'
        /\ \A k \in DOMAIN records : \A r : r = records[k] => HasLength(r)'
    BY LengthsStay
  <2> QED
    BY <2>1 DEF LengthsAreRight, HasLength
<1> QED
  BY <1>1, <1>2

(* An _ex function that is entered leaves an entry of its own; what it     *)
(* calls, in turn, is the handshake.                                       *)
LEMMA EnterLength ==
    ASSUME ExCallNone, Inv, LossInv, LengthInv,
           NEW t \in Threads, NEW f \in Range(Exported), NEW ssl \in Conns, Enter(t, f, ssl)
    PROVE  LengthInv'
PROOF
<1> USE DEF LengthInv
<1> PICK n : n = Len(stack[t])
  OBVIOUS
<1> PICK c : c = Len(calls')
  OBVIOUS
<1>1. CanCall(t, f, ssl) /\ UNCHANGED <<probe, records, strays>>
  BY EnterLeaves DEF Enter
<1>4. c \in DOMAIN calls' /\ DOMAIN calls \subseteq DOMAIN calls' /\ \A k \in DOMAIN calls : calls'[k] = calls[k]
  BY EnterLeaves
<1>5. /\ n \in Nat /\ DOMAIN stack[t] = 1..n /\ DOMAIN stack'[t] = 1..(n + 1)
      /\ stack'[t][n + 1].call = c /\ \A u \in Threads \ {t} : stack'[u] = stack[u]
  BY EnterLeaves
<1>6. \A u \in Threads : \A i \in DOMAIN stack[u] :
         i \in DOMAIN stack'[u] /\ stack'[u][i] = stack[u][i] /\ stack[u][i].call \in DOMAIN calls
  BY EnterLeaves
<1>7. Func(t, n + 1)' = f /\ \A u \in Threads : \A i \in DOMAIN stack[u] : Func(u, i)' = Func(u, i)
  BY EnterLeaves
<1>8. /\ counted'[c] = (IF f \in entering THEN {"enter"} ELSE {})
      /\ \A k \in DOMAIN calls : counted'[k] = counted[k]
  BY EnterLeaves
<1>9. LengthsAreRight'
  <2>1. /\ \A u \in Threads : probe[u].pc = "emit" => \A r : r = probe[u] => HasLength(r)'
        /\ \A k \in DOMAIN records : \A r : r = records[k] => HasLength(r)'
    BY <1>4, LengthsStay
  <2> QED
    BY <1>1, <2>1 DEF LengthsAreRight, HasLength
<1>10. ExIsInnermost'
  <2> SUFFICES ASSUME NEW u \in Threads, NEW i \in DOMAIN stack'[u], NEW j \in DOMAIN stack'[u],
                      i < j, Func(u, i)' \in Ex
               PROVE  Func(u, j)' = Handshake
    BY DEF ExIsInnermost
  <2>1. CASE i \in DOMAIN stack[u] /\ j \in DOMAIN stack[u]
    BY <1>7, <2>1 DEF ExIsInnermost
  <2>2. CASE ~(i \in DOMAIN stack[u] /\ j \in DOMAIN stack[u])
    <3>1. u = t /\ j = n + 1 /\ i \in 1..n /\ i <= n
      BY <1>5, <2>2
    <3>2. n \in 1..n /\ Func(t, i) \in Ex
      BY <1>5, <1>7, <3>1
    <3>3. stack[t] # <<>> /\ Last(stack[t]) = stack[t][n]
      BY <1>5, <3>2 DEF Last
    <3>4. <<Func(t, n), f>> \in Nested
      BY <1>1, <3>3 DEF CanCall, Func
    <3>5. Func(t, n) # Handshake
      BY <3>4, CaptureAssumption DEF Handshake
    <3>6. i = n
      BY <1>5, <3>1, <3>2, <3>5 DEF ExIsInnermost
    <3> QED
      BY <1>7, <3>1, <3>2, <3>4, <3>6 DEF ExCallNone, Handshake
  <2> QED
    BY <2>1, <2>2
<1>11. LengthsAreOfCalls'
  <2> SUFFICES ASSUME NEW u \in Threads, u \in DOMAIN lens', u \notin strays, probe[u] = NoProbe
               PROVE  \E i \in DOMAIN stack'[u] :
                          /\ lens'[u] = {stack'[u][i].call} /\ Func(u, i)' \in Ex
                          /\ "enter" \in counted'[stack'[u][i].call]
    BY <1>1 DEF LengthsAreOfCalls
  <2>1. CASE u \in DOMAIN lens /\ lens'[u] = lens[u]
    <3>1. PICK i \in DOMAIN stack[u] :
             lens[u] = {stack[u][i].call} /\ Func(u, i) \in Ex /\ "enter" \in counted[stack[u][i].call]
      BY <2>1 DEF LengthsAreOfCalls
    <3> QED
      BY <1>6, <1>7, <1>8, <2>1, <3>1
  <2>2. CASE ~(u \in DOMAIN lens /\ lens'[u] = lens[u])
    <3>1. f \in entering
      BY <2>2 DEF Enter, session
    <3>2. f \in Ex /\ lens' = Inserted(lens, t, {c})
      BY <2>2, <3>1 DEF Enter, Start
    <3>3. u = t /\ lens'[t] = {c}
      BY <2>2, <3>2 DEF Inserted, With
    <3>4. "enter" \in counted'[c]
      BY <1>8, <3>1
    <3>5. n + 1 \in DOMAIN stack'[t]
      BY <1>5
    <3> QED
      BY <1>5, <1>7, <3>2, <3>3, <3>4, <3>5
  <2> QED
    BY <2>1, <2>2
<1> QED
  BY <1>9, <1>10, <1>11

(* A call that returns to its probe has its entry read or left to be       *)
(* cleared.                                                                *)
LEMMA ReturnLength ==
    ASSUME Inv, LengthInv, NEW t \in Threads, stack[t] # <<>>, Leave(t), UNCHANGED <<calls, lens, records, strays>>,
           \A c \in DOMAIN calls : counted[c] \subseteq counted'[c],
           NEW p, p # NoProbe, probe' = [probe EXCEPT ![t] = p], p.pc = "emit" => HasLength(p)
    PROVE  LengthInv'
PROOF
<1> USE DEF LengthInv
<1> PICK n : n = Len(stack[t])
  OBVIOUS
<1>1. /\ \A u \in Threads \ {t} : stack'[u] = stack[u]
      /\ \A u \in Threads : \A i \in DOMAIN stack'[u] : i \in DOMAIN stack[u] /\ stack'[u][i] = stack[u][i]
  BY LeaveLeaves DEF Inv
<1>2. probe'[t] = p /\ \A u \in Threads \ {t} : probe'[u] = probe[u]
  BY DEF Inv, Types
<1>3. LengthsAreOfCalls'
  <2> SUFFICES ASSUME NEW u \in Threads, u \in DOMAIN lens, u \notin strays, probe'[u] = NoProbe
               PROVE  \E i \in DOMAIN stack'[u] :
                          /\ lens[u] = {stack'[u][i].call} /\ Func(u, i)' \in Ex
                          /\ "enter" \in counted'[stack'[u][i].call]
    BY DEF LengthsAreOfCalls
  <2>1. u # t /\ probe[u] = NoProbe /\ stack'[u] = stack[u]
    BY <1>1, <1>2
  <2>2. PICK i \in DOMAIN stack[u] :
           lens[u] = {stack[u][i].call} /\ Func(u, i) \in Ex /\ "enter" \in counted[stack[u][i].call]
    BY <2>1 DEF LengthsAreOfCalls
  <2>3. stack[u][i].call \in DOMAIN calls
    BY DEF Inv, Types
  <2> QED
    BY <2>1, <2>2, <2>3 DEF Func
<1>4. ExIsInnermost'
  BY <1>1 DEF ExIsInnermost, Func
<1>5. LengthsAreRight'
  <2>1. \A k \in DOMAIN records : HasLength(records[k])'
    BY DEF LengthsAreRight, HasLength, Ret
  <2>2. ASSUME NEW u \in Threads, probe'[u].pc = "emit" PROVE HasLength(probe[u])'
    BY <1>2, <2>2 DEF LengthsAreRight, HasLength, Ret
  <2> QED
    BY <2>1, <2>2 DEF LengthsAreRight
<1> QED
  BY <1>3, <1>4, <1>5

(* A call that returns unseen and might have left its entry makes its      *)
(* thread stray; one whose probe clears the session has no need to.        *)
LEMMA NotSeenLength ==
    ASSUME Inv, LossInv, LengthInv, NEW t \in Threads, ReturnUnseen(t) \/ Discard(t)
    PROVE  LengthInv'
PROOF
<1> USE DEF LengthInv
<1> PICK n : n = Len(stack[t])
  OBVIOUS
<1> DEFINE c == Last(stack[t]).call
<1>1. /\ probe[t] = NoProbe /\ stack[t] # <<>> /\ Leave(t) /\ UNCHANGED <<calls, lens, records>>
  BY DEF ReturnUnseen, Discard, Idle, session
<1>2. /\ n \in DOMAIN stack[t] /\ c = stack[t][n].call
      /\ \A u \in Threads \ {t} : stack'[u] = stack[u]
      /\ DOMAIN stack'[t] = DOMAIN stack[t] \ {n}
      /\ \A u \in Threads : \A i \in DOMAIN stack'[u] : i \in DOMAIN stack[u] /\ stack'[u][i] = stack[u][i]
  BY <1>1, LeaveLeaves DEF Inv
<1>3. \A u \in Threads : \A i \in DOMAIN stack'[u] : Func(u, i)' = Func(u, i)
  BY <1>1, <1>2 DEF Func
<1>4. CASE ReturnUnseen(t)
  <2>1. /\ UNCHANGED <<probe, counted>>
        /\ strays' = strays \cup (IF "enter" \in counted[c] /\ Func(t, n) \in Ex THEN {t} ELSE {})
    BY <1>2, <1>4 DEF ReturnUnseen, Func
  <2>2. LengthsAreOfCalls'
    <3> SUFFICES ASSUME NEW u \in Threads, u \in DOMAIN lens, u \notin strays', probe[u] = NoProbe
                 PROVE  \E i \in DOMAIN stack'[u] :
                            /\ lens[u] = {stack'[u][i].call} /\ Func(u, i)' \in Ex
                            /\ "enter" \in counted[stack'[u][i].call]
      BY <1>1, <2>1 DEF LengthsAreOfCalls
    <3>1. PICK i \in DOMAIN stack[u] :
             lens[u] = {stack[u][i].call} /\ Func(u, i) \in Ex /\ "enter" \in counted[stack[u][i].call]
      BY <2>1 DEF LengthsAreOfCalls
    <3>2. i \in DOMAIN stack'[u]
      BY <1>2, <2>1, <3>1
    <3> QED
      BY <1>2, <1>3, <3>1, <3>2
  <2> QED
    BY <1>1, <1>2, <2>1, <2>2, SameLengths
<1>5. CASE Discard(t)
  <2>1. Count(c, {"discard"}) /\ probe' = [probe EXCEPT ![t] = Clearing] /\ UNCHANGED strays
    BY <1>5 DEF Discard, Clearing, history
  <2>2. {"discard"} \in SUBSET Stats /\ c \in DOMAIN calls
    BY <1>2 DEF Stats, Inv, Types
  <2>3. \A d \in DOMAIN calls : counted[d] \subseteq counted'[d]
    BY <1>1, <2>1, <2>2, CountGrows DEF LossInv
  <2>4. Clearing.pc # "emit" /\ Clearing # NoProbe
    BY DEF Clearing, NoProbe
  <2> QED
    BY <1>1, <2>1, <2>3, <2>4, ReturnLength
<1> QED
  BY <1>4, <1>5

(* Without its entry a thread has no length to be wrong about. *)
LEMMA ClearedLength ==
    ASSUME Inv, LengthInv, NEW t \in Threads, Clear(t), UNCHANGED <<calls, records, counted>>,
           strays' = strays \ {t}, stack' \in {stack, [stack EXCEPT ![t] = <<>>]},
           probe' \in {probe, [probe EXCEPT ![t] = NoProbe]}, probe[t].pc # "emit"
    PROVE  LengthInv'
PROOF
<1> USE DEF LengthInv
<1>1. /\ \A u \in Threads \ {t} : stack'[u] = stack[u] /\ probe'[u] = probe[u]
      /\ stack'[t] \in {stack[t], <<>>} /\ probe'[t] \in {probe[t], NoProbe}
  BY DEF Inv, Types
<1>2. /\ \A u \in Threads : \A i \in DOMAIN stack'[u] : i \in DOMAIN stack[u] /\ stack'[u][i] = stack[u][i]
      /\ \A u \in Threads : probe'[u].pc = "emit" => probe'[u] = probe[u]
  BY <1>1 DEF NoProbe
<1>3. DOMAIN lens' = DOMAIN lens \ {t} /\ \A u \in DOMAIN lens' : lens'[u] = lens[u]
  BY DEF Clear, Removed, Restrict
<1>4. LengthsAreOfCalls'
  <2> SUFFICES ASSUME NEW u \in Threads, u \in DOMAIN lens', u \notin strays', probe'[u] = NoProbe
               PROVE  \E i \in DOMAIN stack'[u] :
                          /\ lens'[u] = {stack'[u][i].call} /\ Func(u, i)' \in Ex
                          /\ "enter" \in counted[stack'[u][i].call]
    BY DEF LengthsAreOfCalls
  <2>1. u # t /\ u \in DOMAIN lens /\ lens'[u] = lens[u] /\ u \notin strays /\ probe[u] = NoProbe /\ stack'[u] = stack[u]
    BY <1>1, <1>3
  <2>2. PICK i \in DOMAIN stack[u] :
           lens[u] = {stack[u][i].call} /\ Func(u, i) \in Ex /\ "enter" \in counted[stack[u][i].call]
    BY <2>1 DEF LengthsAreOfCalls
  <2> QED
    BY <2>1, <2>2 DEF Func
<1> QED
  BY <1>2, <1>4, SameLengths

(* A thread whose entry nobody removes when it is killed is stray. *)
LEMMA KilledLength ==
    ASSUME Inv, LengthInv, NEW t \in Threads, UNCHANGED <<lens, calls, records, counted, probe>>,
           strays' = strays \cup ({t} \cap DOMAIN lens), stack' = [stack EXCEPT ![t] = <<>>]
    PROVE  LengthInv'
PROOF
<1>1. stack'[t] = <<>> /\ \A u \in Threads \ {t} : stack'[u] = stack[u]
  BY DEF Inv, Types
<1>2. \A u \in Threads : \A i \in DOMAIN stack'[u] : i \in DOMAIN stack[u] /\ stack'[u][i] = stack[u][i]
  BY <1>1
<1>3. LengthsAreOfCalls'
  <2> SUFFICES ASSUME NEW u \in Threads, u \in DOMAIN lens, u \notin strays', probe[u] = NoProbe
               PROVE  \E i \in DOMAIN stack'[u] :
                          /\ lens[u] = {stack'[u][i].call} /\ Func(u, i)' \in Ex
                          /\ "enter" \in counted[stack'[u][i].call]
    BY DEF LengthsAreOfCalls
  <2>1. u # t /\ u \notin strays /\ stack'[u] = stack[u]
    BY <1>1
  <2>2. PICK i \in DOMAIN stack[u] :
           lens[u] = {stack[u][i].call} /\ Func(u, i) \in Ex /\ "enter" \in counted[stack[u][i].call]
    BY <2>1 DEF LengthInv, LengthsAreOfCalls
  <2> QED
    BY <2>1, <2>2 DEF Func
<1> QED
  BY <1>2, <1>3, SameLengths

(* A handshake has no direction. *)
LEMMA HandshakeDirection == Direction(Handshake) = "Handshake"
PROOF
<1>1. Handshake \notin {"SSL_read", "SSL_read_ex"} /\ Handshake \notin {"SSL_write", "SSL_write_ex"}
  BY DEF Handshake
<1> QED
  BY <1>1, Zenon DEF Direction

(* The length that is read is the call's whose buffer is sent: the entry   *)
(* is of an _ex function on the stack, above which are handshakes only.    *)
LEMMA CaptureLength ==
    ASSUME Inv, LossInv, LengthInv, NEW t \in Threads, Capture(t)
    PROVE  LengthInv'
PROOF
<1> PICK n : n = Len(stack[t])
  OBVIOUS
<1> DEFINE c == Last(stack[t]).call
           dir == Direction(calls[c].func)
<1>1. /\ probe[t] = NoProbe /\ stack[t] # <<>> /\ Last(stack[t]).hooked /\ Leave(t)
      /\ UNCHANGED <<calls, lens, records, strays>>
  BY DEF Capture, Idle, session, history
<1>2. n \in DOMAIN stack[t] /\ c = stack[t][n].call /\ DOMAIN stack[t] = 1..n /\ n \in Nat
  BY <1>1, LeaveLeaves DEF Inv, Types
<1>3. c \in DOMAIN calls
  BY <1>2 DEF Inv, Types
<1>4. CASE Count(c, {"filtered"}) /\ probe' = [probe EXCEPT ![t] = Clearing]
  <2>1. {"filtered"} \in SUBSET Stats
    BY DEF Stats
  <2>2. \A d \in DOMAIN calls : counted[d] \subseteq counted'[d]
    BY <1>1, <1>3, <1>4, <2>1, CountGrows DEF LossInv
  <2>3. Clearing.pc # "emit" /\ Clearing # NoProbe
    BY DEF Clearing, NoProbe
  <2> QED
    BY <1>1, <1>4, <2>2, <2>3, ReturnLength
<1>5. ASSUME NEW len \in Lengths(t, c), UNCHANGED counted,
             probe' = [probe EXCEPT ![t] =
                 [pc |-> "emit", call |-> c, dir |-> dir, len |-> len, i |-> 0,
                  began |-> IF t \in DOMAIN starts THEN starts[t] ELSE 0,
                  stray |-> t \in strays, buf |-> Buffer(t).buf, ssl |-> Buffer(t).ssl]]
      PROVE  LengthInv'
  <2> DEFINE p == [pc |-> "emit", call |-> c, dir |-> dir, len |-> len, i |-> 0,
                   began |-> IF t \in DOMAIN starts THEN starts[t] ELSE 0,
                   stray |-> t \in strays, buf |-> Buffer(t).buf, ssl |-> Buffer(t).ssl]
  <2>1. ASSUME Buffer(t).buf # 0, t \notin strays PROVE len \in {calls[c].size, Ret(c)}
    <3>1. t \in DOMAIN bufs /\ bufs[t].buf = c /\ bufs[t].buf # 0
      BY <1>1, <2>1, SessionIsOfTheReturning DEF Buffer
    <3>2. calls[c].func # Handshake
      BY <3>1, HandshakeDirection DEF LossInv, BuffersAreData
    <3>3. CASE t \notin DOMAIN lens
      BY <3>3 DEF Lengths
    <3>4. CASE t \in DOMAIN lens
      <4>1. PICK i \in DOMAIN stack[t] : lens[t] = {stack[t][i].call} /\ Func(t, i) \in Ex
        BY <1>1, <2>1, <3>4 DEF LengthInv, LengthsAreOfCalls
      <4>2. Func(t, n) # Handshake
        BY <1>2, <3>2 DEF Func
      <4>3. i = n
        BY <1>2, <4>1, <4>2 DEF LengthInv, ExIsInnermost
      <4>4. lens[t] = {c} /\ calls[c].func \in Ex
        BY <1>2, <4>1, <4>3 DEF Func
      <4> QED
        BY <3>4, <4>4 DEF Lengths, Pointed
    <3> QED
      BY <3>3, <3>4
  <2>2. HasLength(p) /\ p # NoProbe
    BY <2>1 DEF HasLength, NoProbe
  <2>3. probe' = [probe EXCEPT ![t] = p]
    BY <1>5
  <2> HIDE DEF p
  <2> QED
    BY <1>1, <1>5, <2>2, <2>3, ReturnLength
<1> QED
  BY <1>4, <1>5 DEF Capture, Clearing

(* A fragment has the length of its emission. *)
LEMMA EmitOneLength ==
    ASSUME Inv, LossInv, LengthInv, NEW t \in Threads, EmitOne(t)
    PROVE  LengthInv'
PROOF
<1> USE DEF LengthInv
<1> DEFINE p == probe[t]
           sent == Fragment(p)
           next == [p EXCEPT !.i = @ + 1]
<1>1. /\ p.pc = "emit" /\ UNCHANGED <<stack, calls, lens, strays>>
      /\ records' \in {records, Append(records, sent)}
      /\ \/ probe' = [probe EXCEPT ![t] = Clearing]
         \/ probe' = [probe EXCEPT ![t].i = @ + 1]
      /\ \E stats : Count(p.call, stats)
  BY DEF EmitOne, Clearing, Fragment, program, session, history
<1>2. p \in Emission /\ IsOf(p) /\ HasLength(p) /\ p # NoProbe
  BY <1>1 DEF Inv, Types, EmissionsAreRight, NoProbe, Clearing, LengthsAreRight
<1>3. sent \in Record /\ HasLength(sent)
  BY <1>2, FragmentIsRecord DEF HasLength, Fragment
<1>4. next \in Emission /\ HasLength(next) /\ next # NoProbe
  BY <1>2 DEF Emission, HasLength, NoProbe
<1>5. /\ probe'[t] \in {Clearing, next} /\ Clearing # NoProbe /\ Clearing.pc # "emit"
      /\ \A u \in Threads \ {t} : probe'[u] = probe[u]
  <2>1. CASE probe' = [probe EXCEPT ![t] = Clearing]
    BY <2>1 DEF Inv, Types, Clearing, NoProbe
  <2>2. CASE probe' = [probe EXCEPT ![t].i = @ + 1]
    <3>1. probe' = [probe EXCEPT ![t] = next]
      BY <2>2
    <3> QED
      BY <3>1 DEF Inv, Types, Clearing, NoProbe
  <2> QED
    BY <1>1, <2>1, <2>2
<1>6. \A i \in DOMAIN records' : records'[i] = sent \/ (i \in DOMAIN records /\ records'[i] = records[i])
  <2> HIDE DEF sent
  <2>1. records \in Seq(Record) /\ records' \in {records, Append(records, sent)}
    BY <1>1 DEF Inv, Types
  <2> QED
    BY <1>3, <2>1, AppendedTo
<1>7. \A d \in DOMAIN calls : counted[d] \subseteq counted'[d]
  BY <1>1 DEF Count, LossInv, CountsAreKept
<1>8. LengthsAreOfCalls'
  <2> SUFFICES ASSUME NEW u \in Threads, u \in DOMAIN lens, u \notin strays, probe'[u] = NoProbe
               PROVE  \E i \in DOMAIN stack[u] :
                          /\ lens[u] = {stack[u][i].call} /\ Func(u, i)' \in Ex
                          /\ "enter" \in counted'[stack[u][i].call]
    BY <1>1 DEF LengthsAreOfCalls
  <2>1. probe[u] = NoProbe
    <3> HIDE DEF next
    <3> QED
      BY <1>4, <1>5
  <2>2. PICK i \in DOMAIN stack[u] :
           lens[u] = {stack[u][i].call} /\ Func(u, i) \in Ex /\ "enter" \in counted[stack[u][i].call]
    BY <2>1 DEF LengthsAreOfCalls
  <2>3. stack[u][i].call \in DOMAIN calls
    BY DEF Inv, Types
  <2> QED
    BY <1>1, <1>7, <2>2, <2>3 DEF Func
<1>9. ExIsInnermost'
  BY <1>1 DEF ExIsInnermost, Func
<1>10. LengthsAreRight'
  <2> HIDE DEF sent, next
  <2>1. ASSUME NEW k \in DOMAIN records' PROVE HasLength(records[k])'
    <3>1. HasLength(records'[k])
      BY <1>3, <1>6 DEF LengthsAreRight
    <3> QED
      BY <1>1, <3>1 DEF HasLength, Ret
  <2>2. ASSUME NEW u \in Threads, probe'[u].pc = "emit" PROVE HasLength(probe[u])'
    <3>1. HasLength(probe'[u])
      BY <1>4, <1>5, <2>2 DEF LengthsAreRight
    <3> QED
      BY <1>1, <3>1 DEF HasLength, Ret
  <2> QED
    BY <2>1, <2>2 DEF LengthsAreRight
<1> QED
  BY <1>8, <1>9, <1>10

(* Every step keeps every length. *)
LEMMA LengthStep ==
    ASSUME ExCallNone, Inv, LossInv, LengthInv, [Next]_vars
    PROVE  LengthInv'
PROOF
<1>1. ASSUME UNCHANGED <<stack, calls, lens, probe, records, counted, strays>> PROVE LengthInv'
  BY <1>1 DEF LengthInv, LengthsAreOfCalls, ExIsInnermost, LengthsAreRight, HasLength, Ret, Func
<1>2. CASE AttachEnter \/ AttachReturn \/ AttachFails
  BY <1>1, <1>2 DEF AttachEnter, AttachReturn, AttachFails, program, session, history
<1>3. ASSUME NEW t \in Threads, Returning(t) PROVE LengthInv'
  <2>1. CASE End(t)
    BY <2>1, ClearedLength DEF End, program
  <2> QED
    BY <1>3, <2>1, NotSeenLength, CaptureLength, EmitOneLength DEF Returning
<1>4. ASSUME NEW t \in Threads, Exit(t) PROVE LengthInv'
  <2>1. /\ UNCHANGED <<calls, records, counted, probe>> /\ probe[t] = NoProbe
        /\ stack' = [stack EXCEPT ![t] = <<>>] /\ TaskExit(t) /\ probe[t].pc # "emit"
    BY <1>4 DEF Exit, Idle, NoProbe
  <2>2. CASE exitProbed
    BY <2>1, <2>2, ClearedLength DEF TaskExit
  <2>3. CASE ~exitProbed
    BY <2>1, <2>3, KilledLength DEF TaskExit, session
  <2> QED
    BY <2>2, <2>3
<1>5. ASSUME NEW t \in Threads, Spawn(t) PROVE LengthInv'
  BY <1>1, <1>5 DEF Spawn, session, history
<1>6. ASSUME NEW t \in Threads, NEW f \in Range(Exported), NEW ssl \in Conns, Enter(t, f, ssl) PROVE LengthInv'
  BY <1>6, EnterLength
<1>7. CASE UNCHANGED vars
  BY <1>1, <1>7 DEF vars, program, session, history
<1> QED
  BY <1>2, <1>3, <1>4, <1>5, <1>6, <1>7 DEF Next

(* Of a library whose _ex functions call no other probed function but the  *)
(* handshake: a record with data has the length of its call, or what its   *)
(* call returned, unless its thread had left an _ex function unseen.       *)
THEOREM LengthsAreOfTheirCalls ==
    ASSUME ExCallNone
    PROVE  Spec => []LengthIsOfItsCall
PROOF
<1>1. Init => LossInv /\ LengthInv
  BY LossInit, LengthInit
<1>2. Inv /\ LossInv /\ LengthInv /\ [Next]_vars => LossInv' /\ LengthInv'
  BY LossStep, LengthStep
<1>3. LengthInv => LengthIsOfItsCall
  BY DEF LengthInv, LengthsAreRight, HasLength, LengthIsOfItsCall, Range
<1> QED
  BY <1>1, <1>2, <1>3, Invariance, PTL DEF Spec
=============================================================================
