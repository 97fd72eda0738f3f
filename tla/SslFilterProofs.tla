--------------------------- MODULE SslFilterProofs ---------------------------
(***************************************************************************)
(* Proofs about SslFilter for any addresses, and any number of connections *)
(* and calls: when no write of a body or of the rest of a request head     *)
(* begins like a request or a response, the kernel drops no call of an LLM *)
(* exchange whose head it could tell, save on a connection opened between  *)
(* the two halves of a verdict on its address, or over an entry left there.*)
(*                                                                         *)
(* MissedForKnownCause is not inductive.  A call is let through because of    *)
(* the entry its probe looked up, which an earlier call or a verdict wrote;*)
(* a verdict is harmless because it is made of an entry no newer than the  *)
(* foreign request it answers, and every entry of a later connection at    *)
(* that address is newer than all requests before it (Inv).                *)
(***************************************************************************)
EXTENDS SslFilter, SequenceTheorems, TLAPS

EventType == [addr : Addrs, what : What, at : Nat]

ProbeType == [dir : {"none", "Read", "Write"}, head : Heads, what : What, at : Nat,
              ours : BOOLEAN, misread : BOOLEAN, entry : EntryType]

ConnType == [number : Nat, role : Roles \cup {"none"}, kind : Kinds \cup {"none"},
             stage : {"idle", "head", "open"}, misread : BOOLEAN, written : BOOLEAN]

VerdictType == [pc : {"idle", "lookup", "insert"}, addr : Addrs \cup {"none"}, at : Nat,
                entry : EntryType]

(***************************************************************************)
(* The class of a connection.                                              *)
(***************************************************************************)
(* after_write keeps when the entry was created. *)
LEMMA AfterWriteType ==
    ASSUME NEW entry \in EntryType, NEW head \in Heads
    PROVE  AfterWrite(entry, head) \in EntryType /\ AfterWrite(entry, head).born = entry.born
BY DEF AfterWrite, As, EntryType, Classes

(* after_read keeps when the entry was created. *)
LEMMA AfterReadType ==
    ASSUME NEW entry \in EntryType
    PROVE  AfterRead(entry) \in EntryType /\ AfterRead(entry).born = entry.born
BY DEF AfterRead, As, EntryType, Classes

(* The class a probe stores keeps when the entry was created. *)
LEMMA ReclassedType ==
    ASSUME NEW p \in ProbeType
    PROVE  Reclassed(p) \in EntryType /\ Reclassed(p).born = p.entry.born
BY AfterWriteType, AfterReadType DEF Reclassed, ProbeType

(* Only a status line makes after_write skip a connection. *)
LEMMA OnlyStatusSkips ==
    ASSUME NEW p \in ProbeType, p.entry.class # "SkipConnection", p.head # "status"
    PROVE  Reclassed(p).class # "SkipConnection"
BY DEF ProbeType, EntryType, Reclassed, AfterWrite, AfterRead, As, Heads, Classes

(* A connection whose calls are sent stays so through body bytes and reads. *)
LEMMA BodyIsSent ==
    ASSUME NEW p \in ProbeType, ~Drops(p.entry),
           p.dir = "Write" => p.head \in {"other", "short"}
    PROVE  ~Drops(Reclassed(p))
BY DEF ProbeType, EntryType, Drops, Reclassed, AfterWrite, AfterRead, As, Heads, Classes

(* The head of a generation, a poll or an HTTP/2 connection is sent, whole *)
(* or split, unless the connection is skipped for good.                    *)
LEMMA RequestIsSent ==
    ASSUME NEW p \in ProbeType, p.entry.class # "SkipConnection",
           p.dir = "Write", p.head \in {"post", "response", "preface", "short"}
    PROVE  ~Drops(Reclassed(p))
BY DEF ProbeType, EntryType, Drops, Reclassed, AfterWrite, As, Heads, Classes

(***************************************************************************)
(* The inductive invariant.                                                *)
(***************************************************************************)
(* The filter owes c its calls: it is an LLM exchange whose head was read. *)
Owed(c) == Ours(c) /\ ~c.misread

Spared(a) == conn[a].role = "provider" /\ conn[a].number \notin exposed

(* Exchanges are of the connections that have them. *)
ShapeOf(c) ==
    /\ c.stage = "head" => c.role \in {"provider", "foreign"} /\ c.kind \in Kinds \ {"serve"}
    /\ c.stage = "open" => c.role # "none"
    /\ c.kind = "serve" => c.role = "server"

Shapes == \A a \in Addrs : ShapeOf(conn[a])

(* An address without a connection has no call, and no entry where         *)
(* SSL_free is probed.                                                     *)
FreedIsEmpty ==
    \A a \in Addrs : conn[a].role = "none" =>
        /\ probe[a] = NoProbe
        /\ freeProbed => a \notin DOMAIN class

(* No entry of a provider's connection skips it, *)
SparedIsNotSkipped ==
    \A a \in Addrs : Spared(a) =>
        /\ a \in DOMAIN class => class[a].class # "SkipConnection"
        /\ probe[a] # NoProbe => probe[a].entry.class # "SkipConnection" /\ probe[a].head # "status"

(* nor an LLM exchange on it, *)
ExchangeIsSent ==
    \A a \in Addrs : Spared(a) /\ conn[a].stage # "idle" /\ Owed(conn[a]) =>
        /\ probe[a] = NoProbe /\ a \in DOMAIN class => ~Drops(class[a])
        /\ probe[a] # NoProbe => ~Drops(Reclassed(probe[a]))

(* nor the call of one a probe is handling. *)
CallIsSent ==
    \A a \in Addrs : probe[a].ours =>
        /\ conn[a].role = "provider"
        /\ Spared(a) /\ ~probe[a].misread => ~Drops(Reclassed(probe[a]))

(* What a probe has looked up is what the map still holds, if anything. *)
LookedUpIsCurrent ==
    \A a \in Addrs : Spared(a) /\ probe[a] # NoProbe /\ a \in DOMAIN class =>
        class[a] = probe[a].entry

(* Newer(a, t): whatever the map or a probe holds for a is newer than t. *)
Newer(a, t) ==
    /\ a \in DOMAIN class => class[a].born > t
    /\ probe[a] # NoProbe => probe[a].entry.born > t

(* A later connection, whose entries are newer than what came before, or   *)
(* none yet.                                                               *)
Later(a, t) == conn[a].role \in {"foreign", "none"} \/ conn[a].number \in exposed \/ Newer(a, t)

(* Foreign requests are older than the entries of the connections after    *)
(* theirs: while the probe handles them,                                   *)
ProbesAreOlder ==
    \A a \in Addrs : probe[a].what = "foreign" => conn[a].role = "foreign" /\ probe[a].at <= now

(* in the ring,                                                            *)
RingIsOlder ==
    \A i \in DOMAIN ring : ring[i].what = "foreign" =>
        ring[i].at <= now /\ Later(ring[i].addr, ring[i].at)

(* and when their verdict is about to be made.                             *)
VerdictIsOlder ==
    verdict.pc = "lookup" =>
        verdict.addr \in Addrs /\ verdict.at <= now /\ Later(verdict.addr, verdict.at)

(* A verdict half made is on a foreign connection, or one opened since. *)
VerdictIsForeign ==
    verdict.pc = "insert" =>
        /\ verdict.addr \in Addrs
        /\ conn[verdict.addr].role \in {"foreign", "none"}
              \/ conn[verdict.addr].number \in exposed

Inv ==
    /\ TypeOK
    /\ Shapes
    /\ FreedIsEmpty
    /\ SparedIsNotSkipped
    /\ ExchangeIsSent
    /\ CallIsSent
    /\ LookedUpIsCurrent
    /\ ProbesAreOlder
    /\ RingIsOlder
    /\ VerdictIsOlder
    /\ VerdictIsForeign
    /\ MissedForKnownCause

(* The conjuncts that say where the probes of the calls stand. *)
Placed ==
    /\ Shapes /\ FreedIsEmpty /\ SparedIsNotSkipped
    /\ ExchangeIsSent /\ CallIsSent /\ LookedUpIsCurrent

(***************************************************************************)
(* Every action keeps it.                                                  *)
(***************************************************************************)
(* What is in the ring or about to be looked up stays older, as long as    *)
(* later connections' entries stay newer.                                  *)
LEMMA OlderKept ==
    ASSUME TypeOK, RingIsOlder, VerdictIsOlder,
           now' \in Nat, now <= now',
           \A b \in Addrs, t \in Nat : t <= now /\ Later(b, t) => Later(b, t)'
    PROVE  /\ ring' = ring => RingIsOlder'
           /\ verdict' = verdict => VerdictIsOlder'
<1>1. now \in Nat
  BY DEF TypeOK
<1>2. ASSUME ring' = ring PROVE RingIsOlder'
  <2> SUFFICES ASSUME NEW i \in DOMAIN ring, ring[i].what = "foreign"
               PROVE  ring[i].at <= now' /\ Later(ring[i].addr, ring[i].at)'
    BY <1>2 DEF RingIsOlder, Later, Newer
  <2>1. ring[i].at \in Nat /\ ring[i].addr \in Addrs
    <3>1. ring \in Seq(EventType)
      BY DEF TypeOK, EventType
    <3>2. ring[i] \in EventType
      BY <3>1, ElementOfSeq
    <3> QED BY <3>2 DEF EventType
  <2>2. ring[i].at <= now /\ Later(ring[i].addr, ring[i].at)
    BY DEF RingIsOlder
  <2> QED BY <1>1, <1>2, <2>1, <2>2 DEF Later, Newer
<1>3. ASSUME verdict' = verdict PROVE VerdictIsOlder'
  <2> SUFFICES ASSUME verdict.pc = "lookup"
               PROVE  /\ verdict.addr \in Addrs /\ verdict.at <= now'
                      /\ Later(verdict.addr, verdict.at)'
    BY <1>3 DEF VerdictIsOlder, Later, Newer
  <2>1. verdict.at \in Nat
    BY DEF TypeOK
  <2>2. verdict.addr \in Addrs /\ verdict.at <= now /\ Later(verdict.addr, verdict.at)
    BY DEF VerdictIsOlder
  <2> QED BY <1>1, <1>3, <2>1, <2>2 DEF Later, Newer
<1> QED BY <1>2, <1>3

(* An SSL call made on an open connection, which may begin or end an       *)
(* exchange with it: what the clients' actions have in common.             *)
LEMMA CallKeeps ==
    ASSUME Inv, NEW a \in Addrs, NEW c \in ConnType, NEW d \in ConnType,
           NEW dir \in {"Read", "Write"}, NEW head \in Heads, NEW what \in What,
           Call(a, c, dir, head, what),
           conn' = [conn EXCEPT ![a] = d],
           d.number = conn[a].number, d.role = conn[a].role, d.role # "none", ShapeOf(d),
           c.role = d.role,
           what = "foreign" => d.role = "foreign",
           d.role = "provider" => head # "status",
           Owed(c) => \/ /\ Owed(conn[a]) /\ conn[a].stage # "idle"
                         /\ dir = "Write" => head \in {"other", "short"}
                      \/ dir = "Write" /\ head \in {"post", "response", "preface", "short"},
           Owed(d) /\ d.stage # "idle" => Owed(c)
    PROVE  Inv'
<1> DEFINE p == probe'[a]
           e == IF a \in DOMAIN class THEN class[a] ELSE NewEntry(now')
<1>1. /\ conn \in [Addrs -> ConnType] /\ probe \in [Addrs -> ProbeType]
      /\ now \in Nat /\ now' = now + 1 /\ now' \in Nat
  BY DEF Inv, TypeOK, ConnType, ProbeType, Call
<1>2. e \in EntryType
  BY <1>1 DEF Inv, TypeOK, NewEntry, EntryType, Classes
<1>3. /\ p = [dir |-> dir, head |-> head, what |-> what, at |-> now', ours |-> Ours(c),
              misread |-> c.misread, entry |-> e]
      /\ probe' = [probe EXCEPT ![a] = p]
  BY <1>1 DEF Call
<1>4. p \in ProbeType
  <2>1. Ours(c) \in BOOLEAN /\ c.misread \in BOOLEAN
    BY DEF Ours, ConnType
  <2> QED BY <1>1, <1>2, <1>3, <2>1 DEF ProbeType
<1>5. /\ conn' \in [Addrs -> ConnType] /\ probe' \in [Addrs -> ProbeType]
      /\ p.dir = dir /\ p.head = head /\ p.what = what /\ p.at = now'
      /\ p.ours = Ours(c) /\ p.misread = c.misread /\ p.entry = e
  BY <1>1, <1>3, <1>4
<1>6. p # NoProbe
  BY <1>5 DEF NoProbe
<1>7. /\ conn'[a] = d /\ probe[a] = NoProbe
      /\ \A b \in Addrs \ {a} : conn'[b] = conn[b] /\ probe'[b] = probe[b]
      /\ UNCHANGED <<opened, class, ring, streams, verdict, freeProbed, history>>
  BY <1>1, <1>3 DEF Call
<1>8. TypeOK'
  BY <1>1, <1>5, <1>7 DEF Inv, TypeOK, ConnType, ProbeType, history
<1>9. Spared(a) => e.class # "SkipConnection"
  BY <1>1 DEF Inv, SparedIsNotSkipped, NewEntry
<1>10. Spared(a) /\ Owed(c) => ~Drops(Reclassed(p))
  <2> SUFFICES ASSUME Spared(a), Owed(c) PROVE ~Drops(Reclassed(p))
    OBVIOUS
  <2>1. CASE dir = "Write" /\ head \in {"post", "response", "preface", "short"}
    BY <2>1, <1>4, <1>5, <1>9, RequestIsSent
  <2>2. CASE /\ Owed(conn[a]) /\ conn[a].stage # "idle"
             /\ dir = "Write" => head \in {"other", "short"}
    <3>1. ~Drops(e)
      BY <2>2, <1>7 DEF Inv, ExchangeIsSent, NewEntry, Drops
    <3> QED BY <2>2, <3>1, <1>4, <1>5, BodyIsSent
  <2> QED BY <2>1, <2>2
<1>11. /\ Spared(a)' <=> Spared(a)
       /\ \A b \in Addrs \ {a} : Spared(b)' <=> Spared(b)
  BY <1>7 DEF Spared, history
<1>12. Placed'
  <2>1. FreedIsEmpty'
    BY <1>7 DEF Inv, FreedIsEmpty
  <2>6. Shapes'
    BY <1>7 DEF Inv, Shapes
  <2>2. SparedIsNotSkipped'
    BY <1>5, <1>7, <1>9, <1>11 DEF Inv, SparedIsNotSkipped, Spared
  <2>3. ExchangeIsSent'
    BY <1>6, <1>7, <1>10, <1>11 DEF Inv, ExchangeIsSent
  <2>4. CallIsSent'
    BY <1>5, <1>7, <1>10, <1>11 DEF Inv, CallIsSent, Ours, Owed
  <2>5. LookedUpIsCurrent'
    BY <1>5, <1>7, <1>11 DEF Inv, LookedUpIsCurrent
  <2> QED BY <2>1, <2>2, <2>3, <2>4, <2>5, <2>6 DEF Placed
<1>13. \A b \in Addrs, t \in Nat : t <= now /\ Later(b, t) => Later(b, t)'
  <2> SUFFICES ASSUME NEW b \in Addrs, NEW t \in Nat, t <= now, Later(b, t)
               PROVE  Later(b, t)'
    OBVIOUS
  <2>1. CASE b = a
    BY <2>1, <1>1, <1>5, <1>7 DEF Later, Newer, NewEntry, history
  <2>2. CASE b # a
    BY <2>2, <1>7 DEF Later, Newer, history
  <2> QED BY <2>1, <2>2
<1>14. ProbesAreOlder'
  <2> SUFFICES ASSUME NEW b \in Addrs, probe'[b].what = "foreign"
               PROVE  conn'[b].role = "foreign" /\ probe'[b].at <= now'
    BY DEF ProbesAreOlder
  <2>1. CASE b = a
    BY <2>1, <1>1, <1>5, <1>7
  <2>2. CASE b # a
    <3>1. probe[b].at \in Nat
      BY <1>1 DEF ProbeType
    <3>2. conn[b].role = "foreign" /\ probe[b].at <= now
      BY <2>2, <1>7 DEF Inv, ProbesAreOlder
    <3> QED BY <2>2, <3>1, <3>2, <1>1, <1>7
  <2> QED BY <2>1, <2>2
<1>15. RingIsOlder' /\ VerdictIsOlder'
  BY <1>1, <1>7, <1>13, OlderKept DEF Inv
<1>16. VerdictIsForeign' /\ MissedForKnownCause'
  BY <1>7 DEF Inv, VerdictIsForeign, MissedForKnownCause, history
<1> QED BY <1>8, <1>12, <1>14, <1>15, <1>16 DEF Inv, Placed

(* The clients' exchanges: each is such a call, body writes because none   *)
(* of them begins like a request or a response.                            *)
LEMMA ExchangesKeep ==
    ASSUME Inv, BodyHeads \subseteq {"other", "short"}, NEW a \in Addrs,
           \/ \E kind \in Kinds \ {"serve"}, head \in Heads :
                 Request(a, kind, head) \/ SplitRequest(a, kind, head)
           \/ \E head \in BodyHeads : RestOfHead(a, head) \/ WriteBody(a, head)
           \/ WriteFrame(a)
           \/ \E last \in BOOLEAN : ReadResponse(a, last)
           \/ Serve(a)
           \/ \E head \in Heads : Answer(a, head)
    PROVE  Inv'
<1>1. conn \in [Addrs -> ConnType]
  BY DEF Inv, TypeOK, ConnType
<1>2. conn[a] \in ConnType
  BY <1>1
<1>3. ShapeOf(conn[a])
  BY DEF Inv, Shapes
<1>4. ASSUME NEW kind \in Kinds \ {"serve"}, NEW head \in Heads,
             Request(a, kind, head) \/ SplitRequest(a, kind, head)
      PROVE  Inv'
  <2>1. PICK stage \in {"open", "head"}, what \in {Shown(conn[a].role, kind), "bytes"} :
           /\ Begins(a, kind, stage, head) /\ Call(a, conn'[a], "Write", head, what)
           /\ head \in CutBytes(kind) /\ conn[a].role \in {"provider", "foreign"}
    BY <1>4 DEF Request, SplitRequest, CutBytes
  <2> DEFINE d == [conn[a] EXCEPT !.kind = kind, !.stage = stage, !.misread = head \in Unread(kind),
                                  !.written = TRUE]
  <2>2. d \in ConnType /\ conn' = [conn EXCEPT ![a] = d] /\ conn'[a] = d
    <3>1. (head \in Unread(kind)) \in BOOLEAN
      OBVIOUS
    <3> QED BY <2>1, <3>1, <1>1, <1>2 DEF Begins, ConnType
  <2>3. Call(a, d, "Write", head, what)
    BY <2>1, <2>2
  <2>4. /\ d.number = conn[a].number /\ d.role = conn[a].role /\ d.misread = (head \in Unread(kind))
        /\ d.role \in {"provider", "foreign"} /\ d.kind = kind /\ ShapeOf(d)
    BY <2>1, <1>2 DEF ConnType, ShapeOf
  <2>5. /\ head # "status" /\ what \in What
        /\ what = "foreign" => d.role = "foreign"
        /\ Owed(d) => head \in {"post", "response", "preface", "short"}
    BY <2>1, <2>4 DEF Kinds, Heads, What, FirstBytes, Unread, CutBytes, Shown, Ours, Owed
  <2> HIDE DEF d
  <2> QED BY <2>2, <2>3, <2>4, <2>5, CallKeeps
<1>5. \A head \in BodyHeads : head \in Heads \ {"status"} /\ head \in {"other", "short"}
  BY DEF Heads
<1>6. ASSUME NEW head \in BodyHeads, RestOfHead(a, head) PROVE Inv'
  <2> DEFINE d == [conn[a] EXCEPT !.stage = "open"]
  <2>1. d \in ConnType /\ conn' = [conn EXCEPT ![a] = d]
    BY <1>6, <1>1, <1>2 DEF RestOfHead, ConnType
  <2>2. PICK what \in {"bytes"} \cup
                 (IF conn[a].role = "provider" THEN {Shown("provider", conn[a].kind)} ELSE {}) :
           Call(a, conn[a], "Write", head, what)
    BY <1>6 DEF RestOfHead
  <2>3. /\ d.number = conn[a].number /\ d.role = conn[a].role /\ d.kind = conn[a].kind
        /\ d.misread = conn[a].misread
        /\ conn[a].stage = "head" /\ d.role # "none" /\ ShapeOf(d)
    BY <1>6, <1>2, <1>3 DEF RestOfHead, ConnType, ShapeOf
  <2>4. what \in What \ {"foreign"}
    BY <1>6, <1>3 DEF RestOfHead, ShapeOf, Kinds, What, Shown
  <2>5. Owed(d) => Owed(conn[a])
    BY <2>3 DEF Ours, Owed
  <2> HIDE DEF d
  <2> QED BY <1>2, <1>5, <2>1, <2>2, <2>3, <2>4, <2>5, CallKeeps
<1>7. "bytes" \in What /\ "other" \in Heads \ {"status"}
  BY DEF What, Heads
<1>8. ASSUME NEW head \in BodyHeads, WriteBody(a, head) PROVE Inv'
  <2>3. Call(a, conn[a], "Write", head, "bytes") /\ conn' = [conn EXCEPT ![a] = conn[a]]
    BY <1>8, <1>1 DEF WriteBody
  <2>4. conn[a].role # "none" /\ (Owed(conn[a]) => conn[a].stage # "idle")
    BY <1>8, <1>3 DEF WriteBody, ShapeOf, Ours, Owed
  <2> QED BY <1>2, <1>3, <1>5, <1>7, <2>3, <2>4, CallKeeps
<1>9. CASE WriteFrame(a)
  <2>1. Call(a, conn[a], "Write", "other", "bytes") /\ conn' = [conn EXCEPT ![a] = conn[a]]
    BY <1>9, <1>1 DEF WriteFrame
  <2>2. conn[a].role # "none" /\ conn[a].stage # "idle"
    BY <1>9, <1>3 DEF WriteFrame, ShapeOf
  <2> QED BY <1>2, <1>3, <1>7, <2>1, <2>2, CallKeeps
<1>10. CASE \E last \in BOOLEAN : ReadResponse(a, last)
  <2>1. PICK last \in BOOLEAN : ReadResponse(a, last)
    BY <1>10
  <2> DEFINE d == IF last THEN [conn[a] EXCEPT !.stage = "idle", !.kind = "none"] ELSE conn[a]
  <2>2. d \in ConnType /\ conn' = [conn EXCEPT ![a] = d]
    BY <2>1, <1>1, <1>2 DEF ReadResponse, ConnType
  <2>3. Call(a, conn[a], "Read", "other", "bytes")
    BY <2>1 DEF ReadResponse
  <2>4. /\ d.number = conn[a].number /\ d.role = conn[a].role /\ d.role # "none" /\ ShapeOf(d)
        /\ conn[a].stage # "idle" /\ (Owed(d) => Owed(conn[a]))
    BY <2>1, <1>2, <1>3 DEF ReadResponse, ConnType, ShapeOf, Ours, Owed
  <2> HIDE DEF d
  <2> QED BY <1>2, <1>7, <2>2, <2>3, <2>4, CallKeeps
<1>11. CASE Serve(a)
  <2> DEFINE d == [conn[a] EXCEPT !.kind = "serve", !.stage = "open"]
  <2>1. d \in ConnType /\ conn' = [conn EXCEPT ![a] = d]
    BY <1>11, <1>1, <1>2 DEF Serve, ConnType, Kinds
  <2>2. Call(a, conn[a], "Read", "other", "bytes")
    BY <1>11 DEF Serve
  <2>3. /\ d.number = conn[a].number /\ d.role = conn[a].role /\ d.role = "server"
        /\ ShapeOf(d) /\ ~Owed(d) /\ ~Owed(conn[a])
    BY <1>11, <1>2 DEF Serve, ConnType, ShapeOf, Ours, Owed
  <2> HIDE DEF d
  <2> QED BY <1>2, <1>7, <2>1, <2>2, <2>3, CallKeeps
<1>12. ASSUME NEW head \in Heads, Answer(a, head) PROVE Inv'
  <2> DEFINE d == [conn[a] EXCEPT !.kind = "none", !.stage = "idle", !.written = TRUE]
  <2>1. d \in ConnType /\ conn' = [conn EXCEPT ![a] = d]
    BY <1>12, <1>1, <1>2 DEF Answer, ConnType
  <2>2. Call(a, conn[a], "Write", head, "bytes")
    BY <1>12 DEF Answer
  <2>3. /\ d.number = conn[a].number /\ d.role = conn[a].role /\ d.role = "server"
        /\ ShapeOf(d) /\ ~Owed(d) /\ ~Owed(conn[a])
    BY <1>12, <1>2, <1>3 DEF Answer, ConnType, ShapeOf, Ours, Owed
  <2> HIDE DEF d
  <2> QED BY <1>2, <1>7, <2>1, <2>2, <2>3, CallKeeps
<1> QED BY <1>4, <1>6, <1>8, <1>9, <1>10, <1>11, <1>12

(* A connection opened or freed at an address: its entry goes with it, or  *)
(* there was none.                                                         *)
LEMMA OpenAndFreeKeep ==
    ASSUME Inv, NEW a \in Addrs,
           \/ \E role \in Roles, shakes \in BOOLEAN : Open(a, role, shakes)
           \/ Free(a)
    PROVE  Inv'
<1>1. /\ conn \in [Addrs -> ConnType] /\ probe \in [Addrs -> ProbeType]
      /\ now \in Nat /\ opened \in Nat /\ ring \in Seq(EventType)
  BY DEF Inv, TypeOK, ConnType, ProbeType, EventType
<1>2. /\ probe[a] = NoProbe /\ UNCHANGED <<now, probe, streams, verdict, freeProbed, missed>>
      /\ exposed \subseteq exposed' /\ exposed' \subseteq Nat /\ opened' \in Nat
      /\ DOMAIN class' \in {DOMAIN class, DOMAIN class \ {a}}
      /\ \A b \in DOMAIN class' : class'[b] = class[b]
      /\ a \in DOMAIN class' => IF conn'[a].role = "none" THEN ~freeProbed
                                                        ELSE conn'[a].number \in exposed'
      /\ conn' = [conn EXCEPT ![a] = conn'[a]] /\ conn'[a] \in ConnType
      /\ conn'[a].stage = "idle" /\ conn'[a].kind = "none"
      /\ verdict.pc = "insert" /\ verdict.addr = a =>
             conn'[a].role = "none" \/ conn'[a].number \in exposed'
      /\ \/ ring' = ring
         \/ /\ ring' \in Seq(EventType) /\ Len(ring') = Len(ring) + 1
            /\ \A i \in DOMAIN ring' :
                  ring'[i].what = "foreign" => i \in DOMAIN ring /\ ring'[i] = ring[i]
  <2>1. CASE Free(a)
    <3>1. conn' = [conn EXCEPT ![a] = NoConn] /\ NoConn \in ConnType
      BY <2>1 DEF Free, NewConn, NoConn, ConnType
    <3>2. /\ DOMAIN class' \in {DOMAIN class, DOMAIN class \ {a}}
          /\ \A b \in DOMAIN class' : class'[b] = class[b]
          /\ a \in DOMAIN class' => ~freeProbed
      BY <2>1 DEF Free, Remove
    <3>3. /\ probe[a] = NoProbe
          /\ UNCHANGED <<opened, now, probe, streams, verdict, freeProbed, missed, exposed>>
          /\ exposed \subseteq Nat
      BY <2>1 DEF Free, history, Inv, TypeOK
    <3>4. \/ ring' = ring
          \/ /\ ring' \in Seq(EventType) /\ Len(ring') = Len(ring) + 1
             /\ \A i \in DOMAIN ring' :
                   ring'[i].what = "foreign" => i \in DOMAIN ring /\ ring'[i] = ring[i]
      <4> DEFINE event == [addr |-> a, what |-> "closed", at |-> now]
      <4>1. event \in EventType
        BY <1>1 DEF EventType, What
      <4>2. ring' = ring \/ ring' = Append(ring, event)
        BY <2>1 DEF Free
      <4>3. event.what # "foreign"
        OBVIOUS
      <4> HIDE DEF event
      <4> QED BY <1>1, <4>1, <4>2, <4>3, AppendProperties
    <3>5. NoConn.stage = "idle" /\ NoConn.kind = "none" /\ NoConn.role = "none"
      BY DEF NewConn, NoConn
    <3> QED BY <1>1, <3>1, <3>2, <3>3, <3>4, <3>5
  <2>2. CASE \E role \in Roles, shakes \in BOOLEAN : Open(a, role, shakes)
    <3>1. PICK role \in Roles, shakes \in BOOLEAN : Open(a, role, shakes)
      BY <2>2
    <3>2. /\ DOMAIN class' \in {DOMAIN class, DOMAIN class \ {a}}
          /\ \A b \in DOMAIN class' : class'[b] = class[b]
          /\ a \in DOMAIN class' => ~freeProbed
      <4>1. CASE shakes
        BY <4>1, <3>1 DEF Open, Remove
      <4>2. CASE ~shakes
        <5>1. class' = class /\ conn[a] = NoConn
          BY <4>2, <3>1 DEF Open
        <5>2. freeProbed => a \notin DOMAIN class
          BY <5>1 DEF Inv, FreedIsEmpty, NewConn, NoConn
        <5> QED BY <5>1, <5>2 DEF Inv, TypeOK
      <4> QED BY <4>1, <4>2
    <3> DEFINE d == NewConn(opened + 1, role)
    <3>3. conn' = [conn EXCEPT ![a] = d]
      BY <3>1 DEF Open
    <3>4. d \in ConnType /\ d.stage = "idle" /\ d.kind = "none" /\ d.number = opened + 1
      BY <1>1 DEF NewConn, ConnType
    <3>5. /\ probe[a] = NoProbe
          /\ UNCHANGED <<now, probe, streams, verdict, ring, freeProbed, missed>>
          /\ exposed \subseteq exposed' /\ exposed' \subseteq exposed \cup {opened + 1}
          /\ verdict.pc = "insert" /\ verdict.addr = a => opened + 1 \in exposed'
          /\ ~freeProbed /\ a \in DOMAIN class' => opened + 1 \in exposed'
          /\ opened' = opened + 1 /\ exposed \subseteq Nat
      BY <3>1 DEF Open, Inv, TypeOK
    <3> HIDE DEF d
    <3> QED BY <1>1, <3>2, <3>3, <3>4, <3>5
  <2> QED BY <2>1, <2>2
<1>3. /\ conn' \in [Addrs -> ConnType] /\ ring' \in Seq(EventType)
      /\ \A b \in Addrs \ {a} : conn'[b] = conn[b]
  BY <1>1, <1>2
<1>4. TypeOK'
  BY <1>1, <1>2, <1>3 DEF Inv, TypeOK, ConnType, EventType
<1>5. ~Ours(conn'[a]) /\ ShapeOf(conn'[a])
  BY <1>2 DEF Ours, ShapeOf
<1>6. \A b \in Addrs \ {a} : Spared(b)' => Spared(b)
  BY <1>2, <1>3 DEF Spared
<1>7. Placed'
  <2>1. Shapes'
    BY <1>3, <1>5 DEF Inv, Shapes
  <2>2. FreedIsEmpty'
    BY <1>2, <1>3 DEF Inv, FreedIsEmpty
  <2>3. SparedIsNotSkipped'
    BY <1>2, <1>6 DEF Inv, SparedIsNotSkipped, Spared
  <2>4. ExchangeIsSent'
    BY <1>2, <1>3, <1>6 DEF Inv, ExchangeIsSent
  <2>5. CallIsSent'
    BY <1>2, <1>3, <1>6 DEF Inv, CallIsSent, NoProbe
  <2>6. LookedUpIsCurrent'
    BY <1>2, <1>6 DEF Inv, LookedUpIsCurrent
  <2> QED BY <2>1, <2>2, <2>3, <2>4, <2>5, <2>6 DEF Placed
<1>8. \A b \in Addrs, t \in Nat : t <= now /\ Later(b, t) => Later(b, t)'
  BY <1>2, <1>3 DEF Later, Newer
<1>9. ProbesAreOlder'
  BY <1>2, <1>3 DEF Inv, ProbesAreOlder, NoProbe
<1>10. VerdictIsOlder' /\ (ring' = ring => RingIsOlder')
  BY <1>1, <1>2, <1>8, OlderKept DEF Inv
<1>11. RingIsOlder'
  <2> SUFFICES ASSUME NEW i \in DOMAIN ring', ring'[i].what = "foreign"
               PROVE  ring'[i].at <= now' /\ Later(ring[i].addr, ring[i].at)'
    BY DEF RingIsOlder, Later, Newer
  <2>1. i \in DOMAIN ring /\ ring'[i] = ring[i]
    BY <1>2
  <2>2. ring[i].at \in Nat /\ ring[i].addr \in Addrs
    <3>1. ring[i] \in EventType
      BY <1>1, <2>1, ElementOfSeq
    <3> QED BY <3>1 DEF EventType
  <2>3. ring[i].at <= now /\ Later(ring[i].addr, ring[i].at)
    BY <2>1 DEF Inv, RingIsOlder
  <2> QED BY <1>2, <1>8, <2>1, <2>2, <2>3 DEF Later, Newer
<1>12. VerdictIsForeign' /\ MissedForKnownCause'
  BY <1>2, <1>3 DEF Inv, VerdictIsForeign, MissedForKnownCause
<1> QED BY <1>4, <1>7, <1>9, <1>10, <1>11, <1>12 DEF Inv, Placed

(* A call is dropped or sent by the entry its probe looked up. *)
LEMMA FilterKeeps ==
    ASSUME Inv, NEW a \in Addrs, Filter(a)
    PROVE  Inv'
<1> DEFINE p == probe[a]
           next == Reclassed(p)
           event == [addr |-> a, what |-> p.what, at |-> p.at]
<1>1. /\ conn \in [Addrs -> ConnType] /\ probe \in [Addrs -> ProbeType]
      /\ now \in Nat /\ ring \in Seq(EventType) /\ p \in ProbeType /\ conn[a] \in ConnType
  BY DEF Inv, TypeOK, ConnType, ProbeType, EventType
<1>2. next \in EntryType /\ next.born = p.entry.born
  BY <1>1, ReclassedType
<1>3. /\ p # NoProbe
      /\ probe' = [probe EXCEPT ![a] = NoProbe]
      /\ UNCHANGED <<conn, opened, now, streams, verdict, freeProbed, exposed>>
  BY DEF Filter, clients
<1>4. /\ \A b \in Addrs \ {a} : probe'[b] = probe[b]
      /\ probe'[a] = NoProbe /\ NoProbe \in ProbeType
  <2>1. NoProbe \in ProbeType
    BY DEF NoProbe, NewEntry, ProbeType, EntryType, Classes, Heads, What
  <2> QED BY <1>1, <1>3, <2>1
<1>5. /\ DOMAIN class' \subseteq DOMAIN class \cup {a}
      /\ \A b \in DOMAIN class' \ {a} : b \in DOMAIN class /\ class'[b] = class[b]
      /\ \/ a \in DOMAIN class' /\ class'[a] = next
         \/ class' = class /\ next = p.entry
  BY DEF Filter, Put
<1>6. \/ ring' = ring
      \/ ring' = Append(ring, event)
  BY DEF Filter
<1>7. event \in EventType
  BY <1>1 DEF EventType, ProbeType, ConnType
<1>8. missed' = missed \/ (p.ours /\ Drops(next) /\ missed' = missed \cup {[number |-> conn[a].number, misread |-> p.misread]})
  BY DEF Filter
<1> HIDE DEF next, event
<1>9. TypeOK'
  <2>1. ring' \in Seq(EventType)
    BY <1>1, <1>6, <1>7, AppendProperties
  <2>2. missed' \subseteq [number : Nat, misread : BOOLEAN]
    <3>1. conn[a].number \in Nat /\ p.misread \in BOOLEAN
      BY <1>1 DEF ConnType, ProbeType
    <3> HIDE DEF p
    <3>2. [number |-> conn[a].number, misread |-> p.misread] \in [number : Nat, misread : BOOLEAN]
      BY <3>1
    <3> QED BY <1>8, <3>2 DEF Inv, TypeOK
  <2>3. probe' \in [Addrs -> ProbeType]
    BY <1>1, <1>3, <1>4
  <2>4. DOMAIN class' \subseteq Addrs /\ \A b \in DOMAIN class' : class'[b] \in EntryType
    BY <1>2, <1>5 DEF Inv, TypeOK
  <2> QED BY <1>3, <2>1, <2>2, <2>3, <2>4 DEF Inv, TypeOK, EventType, ProbeType
<1>10. \A b \in Addrs : Spared(b)' <=> Spared(b)
  BY <1>3 DEF Spared
<1>11. Spared(a) => /\ a \in DOMAIN class' => class'[a].class # "SkipConnection"
                    /\ Owed(conn[a]) /\ conn[a].stage # "idle" /\ a \in DOMAIN class' => ~Drops(class'[a])
  <2> SUFFICES ASSUME Spared(a), a \in DOMAIN class'
               PROVE  /\ class'[a].class # "SkipConnection"
                      /\ Owed(conn[a]) /\ conn[a].stage # "idle" => ~Drops(class'[a])
    OBVIOUS
  <2>1. class'[a] = next
    BY <1>3, <1>5 DEF Inv, LookedUpIsCurrent
  <2>2. p.entry.class # "SkipConnection" /\ p.head # "status"
    BY <1>3 DEF Inv, SparedIsNotSkipped
  <2>3. next.class # "SkipConnection"
    BY <1>1, <2>2, OnlyStatusSkips DEF next
  <2>4. Owed(conn[a]) /\ conn[a].stage # "idle" => ~Drops(next)
    BY <1>3 DEF Inv, ExchangeIsSent, next
  <2> QED BY <2>1, <2>3, <2>4
<1>12. Placed'
  <2>1. Shapes'
    BY <1>3 DEF Inv, Shapes
  <2>2. FreedIsEmpty'
    BY <1>3, <1>4, <1>5 DEF Inv, FreedIsEmpty
  <2>3. SparedIsNotSkipped'
    BY <1>4, <1>5, <1>10, <1>11 DEF Inv, SparedIsNotSkipped
  <2>4. ExchangeIsSent'
    BY <1>3, <1>4, <1>5, <1>10, <1>11 DEF Inv, ExchangeIsSent
  <2>5. CallIsSent'
    BY <1>3, <1>4, <1>10 DEF Inv, CallIsSent, NoProbe
  <2>6. LookedUpIsCurrent'
    BY <1>4, <1>5, <1>10 DEF Inv, LookedUpIsCurrent
  <2> QED BY <2>1, <2>2, <2>3, <2>4, <2>5, <2>6 DEF Placed
<1>13. \A b \in Addrs, t \in Nat : t <= now /\ Later(b, t) => Later(b, t)'
  BY <1>2, <1>3, <1>4, <1>5 DEF Later, Newer
<1>14. ProbesAreOlder'
  BY <1>3, <1>4 DEF Inv, ProbesAreOlder, NoProbe
<1>15. VerdictIsOlder' /\ (ring' = ring => RingIsOlder')
  BY <1>1, <1>3, <1>13, OlderKept DEF Inv
<1>16. RingIsOlder'
  <2>1. CASE ring' = ring
    BY <2>1, <1>15
  <2>2. CASE ring' = Append(ring, event)
    <3> SUFFICES ASSUME NEW i \in DOMAIN ring', ring'[i].what = "foreign"
                 PROVE  ring'[i].at <= now' /\ Later(ring[i].addr, ring[i].at)'
      BY DEF RingIsOlder, Later, Newer
    <3>1. CASE i \in DOMAIN ring
      <4>1. ring'[i] = ring[i]
        BY <3>1, <2>2, <1>1, <1>7, AppendProperties
      <4>2. ring[i].at \in Nat /\ ring[i].addr \in Addrs
        <5>1. ring[i] \in EventType
          BY <1>1, <3>1, ElementOfSeq
        <5> QED BY <5>1 DEF EventType
      <4>3. ring[i].at <= now /\ Later(ring[i].addr, ring[i].at)
        BY <3>1, <4>1 DEF Inv, RingIsOlder
      <4> QED BY <1>3, <1>13, <4>1, <4>2, <4>3 DEF Later, Newer
    <3>2. CASE i \notin DOMAIN ring
      <4>1. ring'[i] = event
        BY <3>2, <2>2, <1>1, <1>7, AppendProperties
      <4>2. p.what = "foreign" /\ event.addr = a /\ event.at = p.at
        BY <4>1 DEF event
      <4>3. conn[a].role = "foreign" /\ p.at <= now
        BY <4>2 DEF Inv, ProbesAreOlder
      <4> QED BY <1>3, <4>1, <4>2, <4>3 DEF Later
    <3> QED BY <3>1, <3>2
  <2> QED BY <1>6, <2>1, <2>2
<1>17. VerdictIsForeign'
  BY <1>3 DEF Inv, VerdictIsForeign
<1>18. MissedForKnownCause'
  <2>1. p.ours /\ Drops(next) => p.misread \/ conn[a].number \in exposed
    BY DEF Inv, CallIsSent, Spared, next
  <2> QED BY <1>3, <1>8, <2>1 DEF Inv, MissedForKnownCause
<1> QED BY <1>9, <1>12, <1>14, <1>15, <1>16, <1>17, <1>18 DEF Inv, Placed

(* An evicted entry is one less to be wrong. *)
LEMMA EvictKeeps ==
    ASSUME Inv, NEW a \in Addrs, Evict(a)
    PROVE  Inv'
<1>1. /\ UNCHANGED <<conn, opened, now, probe, ring, streams, verdict, freeProbed, missed, exposed>>
      /\ DOMAIN class' = DOMAIN class \ {a}
      /\ \A b \in DOMAIN class' : class'[b] = class[b]
  BY DEF Evict, Remove, clients, history
<1>2. TypeOK'
  BY <1>1 DEF Inv, TypeOK
<1>3. \A b \in Addrs : Spared(b)' <=> Spared(b)
  BY <1>1 DEF Spared
<1>4. Placed'
  BY <1>1, <1>3 DEF Inv, Placed, Shapes, FreedIsEmpty, SparedIsNotSkipped, ExchangeIsSent,
                   CallIsSent, LookedUpIsCurrent
<1>5. \A b \in Addrs, t \in Nat : t <= now /\ Later(b, t) => Later(b, t)'
  BY <1>1 DEF Later, Newer
<1>6. now \in Nat
  BY DEF Inv, TypeOK
<1>7. RingIsOlder' /\ VerdictIsOlder'
  BY <1>1, <1>5, <1>6, OlderKept DEF Inv
<1>8. ProbesAreOlder' /\ VerdictIsForeign' /\ MissedForKnownCause'
  BY <1>1 DEF Inv, ProbesAreOlder, VerdictIsForeign, MissedForKnownCause
<1> QED BY <1>2, <1>4, <1>7, <1>8 DEF Inv, Placed

(* The ring's handler takes a foreign request that is older than what its  *)
(* address holds for a later connection.                                   *)
LEMMA HandleKeeps ==
    ASSUME Inv, Handle
    PROVE  Inv'
<1> DEFINE event == Head(ring)
<1>1. /\ UNCHANGED <<conn, opened, now, class, probe, freeProbed, missed, exposed>>
      /\ ring # <<>> /\ ring' = Tail(ring) /\ ring \in Seq(EventType) /\ now \in Nat
  BY DEF Handle, clients, history, Inv, TypeOK, EventType
<1>2. event \in EventType /\ event = ring[1] /\ 1 \in DOMAIN ring
  BY <1>1, HeadTailProperties
<1>3. \/ verdict' = verdict /\ verdict.pc = "idle"
         /\ \E s \in {"none", "idle", "call", "poll"} : streams' = [streams EXCEPT ![event.addr] = s]
      \/ /\ event.what = "foreign"
         /\ verdict' = [pc |-> "lookup", addr |-> event.addr, at |-> event.at, entry |-> NewEntry(0)]
         /\ streams' = [streams EXCEPT ![event.addr] = "none"]
  <2>1. CASE Consumes(streams[event.addr], event)
    BY <2>1 DEF Handle, Consumes, NoVerdict
  <2>2. CASE ~Consumes(streams[event.addr], event)
    <3>1. PICK s \in Routed(streams[event.addr], event.what) :
             streams' = [streams EXCEPT ![event.addr] = s]
      BY <2>2 DEF Handle
    <3>2. event.addr \in Addrs
      BY <1>2 DEF EventType
    <3>3. streams[event.addr] \in {"none", "idle", "call", "poll"}
      BY <3>2 DEF Inv, TypeOK
    <3>4. s \in {"none", "idle", "call", "poll"}
      BY <3>1, <3>3 DEF Routed, IsLlm
    <3>5. verdict' = verdict /\ verdict.pc = "idle"
      BY <2>2 DEF Handle
    <3> QED BY <3>1, <3>4, <3>5
  <2> QED BY <2>1, <2>2
<1>4. TypeOK'
  <2>1. ring' \in Seq(EventType)
    BY <1>1, HeadTailProperties
  <2>2. streams' \in [Addrs -> {"none", "idle", "call", "poll"}]
    BY <1>3 DEF Inv, TypeOK
  <2>3. verdict' \in VerdictType
    <3>1. NewEntry(0) \in EntryType
      BY DEF NewEntry, EntryType, Classes
    <3>2. verdict \in VerdictType
      BY DEF Inv, TypeOK, VerdictType
    <3>3. event.addr \in Addrs /\ event.at \in Nat
      BY <1>2 DEF EventType
    <3> HIDE DEF event
    <3>4. [pc |-> "lookup", addr |-> event.addr, at |-> event.at, entry |-> NewEntry(0)]
             \in VerdictType
      BY <3>1, <3>3 DEF VerdictType
    <3> QED BY <1>3, <3>2, <3>4
  <2> QED BY <1>1, <2>1, <2>2, <2>3 DEF Inv, TypeOK, EventType, VerdictType
<1>5. Placed'
  BY <1>1 DEF Inv, Placed, Shapes, FreedIsEmpty, SparedIsNotSkipped, ExchangeIsSent,
              CallIsSent, LookedUpIsCurrent, Spared
<1>6. RingIsOlder'
  <2> SUFFICES ASSUME NEW i \in DOMAIN ring', ring'[i].what = "foreign"
               PROVE  ring'[i].at <= now' /\ Later(ring[i].addr, ring[i].at)'
    BY DEF RingIsOlder, Later, Newer
  <2>1. i + 1 \in DOMAIN ring /\ ring'[i] = ring[i + 1]
    BY <1>1, HeadTailProperties
  <2>2. ring[i + 1].at <= now /\ Later(ring[i + 1].addr, ring[i + 1].at)
    BY <2>1 DEF Inv, RingIsOlder
  <2> QED BY <1>1, <2>1, <2>2 DEF Later, Newer
<1>7. VerdictIsOlder'
  <2>1. CASE verdict' = verdict /\ verdict.pc = "idle"
    BY <2>1 DEF VerdictIsOlder
  <2>2. CASE /\ event.what = "foreign"
             /\ verdict' = [pc |-> "lookup", addr |-> event.addr, at |-> event.at, entry |-> NewEntry(0)]
    <3>1. event.at <= now /\ Later(event.addr, event.at) /\ event.addr \in Addrs
      BY <1>2, <2>2 DEF Inv, RingIsOlder, EventType
    <3>2. verdict'.addr = event.addr /\ verdict'.at = event.at
      BY <2>2
    <3> HIDE DEF event
    <3> QED BY <1>1, <3>1, <3>2 DEF VerdictIsOlder, Later, Newer
  <2> QED BY <1>3, <2>1, <2>2
<1>8. ProbesAreOlder' /\ VerdictIsForeign' /\ MissedForKnownCause'
  BY <1>1, <1>3 DEF Inv, ProbesAreOlder, VerdictIsForeign, MissedForKnownCause
<1> QED BY <1>4, <1>5, <1>6, <1>7, <1>8 DEF Inv, Placed

(* Only the entry of a connection no newer than the foreign request is     *)
(* marked, and it is written back only where there still is one.           *)
LEMMA VerdictKeeps ==
    ASSUME Inv, LookUp \/ Insert
    PROVE  Inv'
<1>1. /\ UNCHANGED <<conn, opened, now, probe, ring, streams, freeProbed, missed, exposed>>
      /\ now \in Nat
  BY DEF LookUp, Insert, clients, history, Inv, TypeOK
<1>2. NoVerdict \in VerdictType /\ NoVerdict.pc = "idle" /\ verdict \in VerdictType
  BY DEF NoVerdict, VerdictType, NewEntry, EntryType, Classes, Inv, TypeOK
<1>3. \A b \in Addrs : Spared(b)' <=> Spared(b)
  BY <1>1 DEF Spared
<1>4. Shapes' /\ CallIsSent' /\ ProbesAreOlder' /\ MissedForKnownCause'
  BY <1>1, <1>3 DEF Inv, Shapes, CallIsSent, ProbesAreOlder, MissedForKnownCause
<1>5. CASE LookUp
  <2> DEFINE a == verdict.addr
  <2>1. verdict.pc = "lookup" /\ class' = class
    BY <1>5 DEF LookUp
  <2>2. a \in Addrs /\ Later(a, verdict.at)
    BY <2>1 DEF Inv, VerdictIsOlder
  <2>3. \/ verdict' = NoVerdict
        \/ /\ a \in DOMAIN class /\ class[a].born <= verdict.at
           /\ verdict' = [verdict EXCEPT !.pc = "insert", !.entry = As(class[a], "SkipConnection")]
    BY <1>5 DEF LookUp, NotNewer
  <2>4. verdict' \in VerdictType /\ verdict'.pc # "lookup"
    <3>1. CASE verdict' = NoVerdict
      BY <1>2, <3>1
    <3>2. CASE /\ a \in DOMAIN class
               /\ verdict' = [verdict EXCEPT !.pc = "insert", !.entry = As(class[a], "SkipConnection")]
      <4>1. As(class[a], "SkipConnection") \in EntryType
        BY <3>2, ZenonT(60) DEF Inv, TypeOK, As, EntryType, Classes
      <4> QED BY <1>2, <3>2, <4>1 DEF VerdictType
    <3> QED BY <2>3, <3>1, <3>2
  <2>5. TypeOK'
    BY <1>1, <2>1, <2>4 DEF Inv, TypeOK, VerdictType
  <2>6. VerdictIsForeign'
    <3> SUFFICES ASSUME verdict'.pc = "insert"
                 PROVE  /\ verdict'.addr \in Addrs
                        /\ conn'[verdict'.addr].role \in {"foreign", "none"}
                              \/ conn'[verdict'.addr].number \in exposed'
      BY DEF VerdictIsForeign
    <3>1. a \in DOMAIN class /\ class[a].born <= verdict.at /\ verdict'.addr = a
      BY <1>2, <2>3 DEF VerdictType
    <3>2. class[a].born \in Nat /\ verdict.at \in Nat
      BY <1>2, <3>1 DEF Inv, TypeOK, EntryType, VerdictType
    <3>3. conn[a].role \in {"foreign", "none"} \/ conn[a].number \in exposed
      BY <2>2, <3>1, <3>2 DEF Later, Newer
    <3> QED BY <1>1, <2>2, <3>1, <3>3
  <2>7. FreedIsEmpty' /\ SparedIsNotSkipped' /\ ExchangeIsSent' /\ LookedUpIsCurrent'
    BY <1>1, <1>3, <2>1 DEF Inv, FreedIsEmpty, SparedIsNotSkipped, ExchangeIsSent, LookedUpIsCurrent
  <2>8. VerdictIsOlder'
    BY <2>4 DEF VerdictIsOlder
  <2>9. RingIsOlder'
    BY <1>1, <2>1 DEF Inv, RingIsOlder, Later, Newer
  <2> QED BY <1>4, <2>5, <2>6, <2>7, <2>8, <2>9 DEF Inv
<1>6. CASE Insert
  <2> DEFINE a == verdict.addr
  <2>1. /\ verdict.pc = "insert" /\ verdict' = NoVerdict
        /\ DOMAIN class' = DOMAIN class
        /\ \A b \in DOMAIN class \ {a} : class'[b] = class[b]
        /\ a \in DOMAIN class => class'[a] = verdict.entry
    BY <1>6 DEF Insert, Put
  <2>2. a \in Addrs /\ ~Spared(a) /\ (conn[a].role # "none" => conn[a].role = "foreign" \/ conn[a].number \in exposed)
    BY <2>1 DEF Inv, VerdictIsForeign, Spared
  <2>4. TypeOK'
    <3>1. \A b \in DOMAIN class' : class'[b] \in EntryType
      BY <1>2, <2>1 DEF Inv, TypeOK, VerdictType
    <3> QED BY <1>1, <1>2, <2>1, <3>1 DEF Inv, TypeOK, VerdictType
  <2>5. FreedIsEmpty' /\ SparedIsNotSkipped' /\ ExchangeIsSent' /\ LookedUpIsCurrent'
    BY <1>1, <1>3, <2>1, <2>2 DEF Inv, FreedIsEmpty, SparedIsNotSkipped, ExchangeIsSent,
                                  LookedUpIsCurrent
  <2>6. VerdictIsOlder' /\ VerdictIsForeign'
    BY <1>2, <2>1 DEF VerdictIsOlder, VerdictIsForeign
  <2>7. \A b \in Addrs, t \in Nat : t <= now /\ Later(b, t) => Later(b, t)'
    BY <1>1, <2>1, <2>2 DEF Later, Newer
  <2>8. RingIsOlder'
    BY <1>1, <2>7, OlderKept DEF Inv
  <2> QED BY <1>4, <2>4, <2>5, <2>6, <2>8 DEF Inv
<1> QED BY <1>5, <1>6

(***************************************************************************)
(* The theorems.                                                           *)
(***************************************************************************)
(* The agent starts with an empty map, in the middle of exchanges maybe. *)
LEMMA InitInv == ASSUME Init PROVE Inv
<1>1. /\ conn \in [Addrs -> {NoConn} \cup Joined]
      /\ opened = 1 /\ now = 0 /\ DOMAIN class = {} /\ ring = <<>>
      /\ \A a \in Addrs : probe[a] = NoProbe
      /\ verdict = NoVerdict /\ missed = {}
  BY DEF Init
<1>2. \A c \in {NoConn} \cup Joined :
         /\ c \in ConnType /\ ShapeOf(c)
  <2>1. NoConn \in ConnType /\ ShapeOf(NoConn)
    BY DEF NoConn, NewConn, ConnType, ShapeOf
  <2>2. ASSUME NEW c \in Joined PROVE c \in ConnType /\ ShapeOf(c)
    <3>1. c \in ConnType
      <4>1. {1} \subseteq Nat /\ {FALSE} \subseteq BOOLEAN /\ {"open"} \subseteq {"idle", "head", "open"}
            /\ Roles \ {"server"} \subseteq Roles \cup {"none"}
            /\ {"post", "plain"} \subseteq Kinds \cup {"none"}
        BY DEF Kinds
      <4> QED BY <4>1, Zenon DEF Joined, ConnType
    <3>2. c.stage = "open" /\ c.kind # "serve" /\ c.role \in Roles
      BY DEF Joined
    <3>3. c.role # "none"
      BY <3>2, FilterAssumption
    <3> QED BY <3>1, <3>2, <3>3 DEF ShapeOf
  <2> QED BY <2>1, <2>2
<1>3. \A a \in Addrs : conn[a] \in ConnType /\ ShapeOf(conn[a])
  BY <1>1, <1>2
<1>4. TypeOK
  <2>1. conn \in [Addrs -> ConnType]
    BY <1>1, <1>3
  <2>2. NoProbe \in ProbeType
    BY DEF NoProbe, NewEntry, ProbeType, EntryType, Classes, Heads, What
  <2>3. probe \in [Addrs -> ProbeType]
    BY <2>2 DEF Init
  <2>4. NoVerdict \in VerdictType
    BY DEF NoVerdict, VerdictType, NewEntry, EntryType, Classes
  <2>5. streams \in [Addrs -> {"none", "idle", "call", "poll"}] /\ exposed = {} /\ freeProbed \in BOOLEAN
    BY DEF Init
  <2>6. ring \in Seq(EventType)
    BY <1>1
  <2> QED BY <1>1, <2>1, <2>3, <2>4, <2>5, <2>6
          DEF TypeOK, ConnType, ProbeType, VerdictType, EventType
<1>5. Placed
  <2>1. \A a \in Addrs : a \notin DOMAIN class /\ ~probe[a].ours
    BY <1>1 DEF NoProbe
  <2> QED BY <1>1, <1>3, <2>1 DEF Placed, Shapes, FreedIsEmpty, SparedIsNotSkipped,
                                  ExchangeIsSent, CallIsSent, LookedUpIsCurrent
<1>6. ProbesAreOlder /\ RingIsOlder /\ VerdictIsOlder /\ VerdictIsForeign /\ MissedForKnownCause
  BY <1>1 DEF ProbesAreOlder, RingIsOlder, VerdictIsOlder, VerdictIsForeign, MissedForKnownCause,
              NoProbe, NoVerdict
<1> QED BY <1>4, <1>5, <1>6 DEF Inv, Placed

(* Every step of a process, of the kernel or of user space keeps Inv. *)
LEMMA NextInv ==
    ASSUME BodyHeads \subseteq {"other", "short"}, Inv, [Next]_vars
    PROVE  Inv'
<1>1. ASSUME NEW a \in Addrs, Process(a) PROVE Inv'
  BY <1>1, ExchangesKeep, OpenAndFreeKeep DEF Process
<1>2. ASSUME NEW a \in Addrs, Kernel(a) PROVE Inv'
  BY <1>2, FilterKeeps, EvictKeeps DEF Kernel
<1>3. CASE UserSpace
  BY <1>3, HandleKeeps, VerdictKeeps DEF UserSpace
<1>4. CASE UNCHANGED vars
  BY <1>4 DEF vars, clients, history, Inv, TypeOK, Shapes, FreedIsEmpty, SparedIsNotSkipped,
              ExchangeIsSent, CallIsSent, LookedUpIsCurrent, Spared, ProbesAreOlder, RingIsOlder,
              VerdictIsOlder, Later, Newer, VerdictIsForeign, MissedForKnownCause
<1> QED BY <1>1, <1>2, <1>3, <1>4 DEF Next

(* Where no body, and no rest of a cut head, begins like a request or a    *)
(* response, the kernel filter drops no call of an LLM exchange with a     *)
(* provider, however addresses are reused, heads cut and entries evicted,  *)
(* but for what MissedForKnownCause names: a head it could not read, or a  *)
(* poll's cut below 32 bytes; a connection opened within a verdict on its  *)
(* address; one opened, its handshake unseen, over the entry that an       *)
(* unprobed SSL_free left.                                                 *)
THEOREM CallsAreSent ==
    ASSUME BodyHeads \subseteq {"other", "short"}
    PROVE  Spec => []MissedForKnownCause
<1>1. Inv => MissedForKnownCause
  BY DEF Inv
<1> QED BY <1>1, InitInv, NextInv, PTL DEF Spec

(* Under the same condition no entry of a provider's connection is marked  *)
(* SkipConnection, by the kernel or by a verdict, but on the connections   *)
(* of the last two causes.                                                 *)
THEOREM ProvidersAreNotSkipped ==
    ASSUME BodyHeads \subseteq {"other", "short"}
    PROVE  Spec => []SkippedIsForeign
<1>1. Inv => SkippedIsForeign
  BY DEF Inv, TypeOK, SparedIsNotSkipped, Spared, SkippedIsForeign
<1> QED BY <1>1, InitInv, NextInv, PTL DEF Spec
=============================================================================
