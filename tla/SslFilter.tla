----------------------------- MODULE SslFilter -----------------------------
(***************************************************************************)
(* The filter in front of the ring buffer.  The kernel half (filter.rs,    *)
(* ssl_class.rs) keeps a class per connection in the SSL_CLASS map, from   *)
(* the first bytes of each SSL_write, and drops the calls of connections   *)
(* that carry no LLM call.  The user-space half (conn_filter.rs) adds a    *)
(* verdict later: a request whose Host no provider serves has its          *)
(* connection skipped for good.  Both write the same map, keyed by an SSL* *)
(* address that the next connection may reuse.                             *)
(*                                                                         *)
(* Around it stand the processes: their connections, the exchanges on them *)
(* and the first bytes of what they write.  A stream of StreamProcessor is *)
(* kept only as far as the filter asks: whether an LLM call is in progress.*)
(***************************************************************************)
EXTENDS Naturals, Sequences, FiniteSets

CONSTANTS Addrs,     \* SSL* addresses of one process, reused by later connections
          Roles,     \* what its connections are: "provider", "foreign", "server"
          BodyHeads, \* how a write that is not a request head may begin
          Evicting,  \* whether SSL_CLASS, an LRU map, is short of room
          MaxConns,  \* connections opened, at most
          MaxCalls   \* SSL calls made, at most

(* What the first bytes of a Write look like to after_write: POST; a GET of *)
(* a stored response; another method; the HTTP/2 preface; a status line;   *)
(* under 8 bytes, or a CRLF; anything else.                                *)
Heads == {"post", "response", "method", "preface", "status", "short", "other"}

ASSUME FilterAssumption ==
    /\ Roles \subseteq {"provider", "foreign", "server"}
    /\ BodyHeads \subseteq Heads
    /\ Evicting \in BOOLEAN
    /\ MaxConns \in Nat /\ MaxCalls \in Nat

VARIABLES
    conn,      \* the connection at each address
    opened,    \* connections opened so far; the last one's number
    now,       \* bpf_ktime_get_ns, counted in SSL calls
    class,     \* SSL_CLASS: entries of some of the addresses
    probe,     \* at each address, the return probe that has looked its entry up
    ring,      \* SSL_EVENTS
    streams,   \* StreamMap: "none", or whether a call or a poll is in progress
    verdict,   \* where the ring's handler is in skip_connection
    freeProbed, \* whether SSL_free is probed in this library
    missed,    \* history: the LLM exchanges of which a call was dropped
    exposed    \* history: connections opened between the two halves of a verdict, or
               \* over the entry of an earlier one

clients == <<conn, opened, now>>
history == <<missed, exposed>>
vars == <<clients, class, probe, ring, streams, verdict, freeProbed, history>>

(***************************************************************************)
(* The class of a connection.  READ_SEEN is part of the class: "SendRead". *)
(***************************************************************************)
Classes == {"Unknown", "Send", "SendRead", "SkipRequest", "SkipConnection", "H2"}

NewEntry(born) == [class |-> "Unknown", born |-> born]

As(entry, c) == [entry EXCEPT !.class = c]

(* Mutant: a head under 8 bytes leaves the class alone. *)
AfterWriteShortKeeps(entry, head) ==
    CASE entry.class \in {"SkipConnection", "H2"}       -> entry
      [] head \in {"post", "response"}                  -> As(entry, "Send")
      [] head = "preface"                               -> As(entry, "H2")
      [] head = "status" /\ entry.class = "Unknown"     -> As(entry, "SkipConnection")
      [] head = "method" /\ entry.class # "Send"        -> As(entry, "SkipRequest")
      [] OTHER                                          -> entry

AfterWrite(entry, head) ==
    CASE entry.class \in {"SkipConnection", "H2"}       -> entry
      [] head = "short" /\ entry.class = "SkipRequest"  -> As(entry, "Unknown")
      [] head \in {"post", "response"}                  -> As(entry, "Send")
      [] head = "preface"                               -> As(entry, "H2")
      [] head = "status" /\ entry.class = "Unknown"     -> As(entry, "SkipConnection")
      [] head = "method" /\ entry.class # "Send"        -> As(entry, "SkipRequest")
      [] OTHER                                          -> entry

AfterRead(entry) == IF entry.class = "Send" THEN As(entry, "SendRead") ELSE entry

Drops(entry) == entry.class \in {"SkipRequest", "SkipConnection"}

(* skip_connection of the entry for an event: only if it is not newer.     *)
NotNewer(entry, at) == entry.born <= at

(* The entry after the call a return probe is handling. *)
Reclassed(p) == IF p.dir = "Write" THEN AfterWrite(p.entry, p.head) ELSE AfterRead(p.entry)

(***************************************************************************)
(* State.                                                                  *)
(***************************************************************************)
(* kind is the exchange in progress.  stage is "head" when only a part of  *)
(* its request head was written, then "open".  misread: after_write could  *)
(* not tell from that head what it asks for.  written: whether the probes  *)
(* saw the connection write.                                               *)
NewConn(number, role) ==
    [number |-> number, role |-> role, kind |-> "none", stage |-> "idle", misread |-> FALSE,
     written |-> FALSE]

NoConn == NewConn(0, "none")

NoProbe == [dir |-> "none", head |-> "other", what |-> "bytes", at |-> 0, ours |-> FALSE,
            misread |-> FALSE, entry |-> NewEntry(0)]

NoVerdict == [pc |-> "idle", addr |-> "none", at |-> 0, entry |-> NewEntry(0)]

Kinds == {"post", "poll", "plain", "h2", "serve"}

(* A connection the agent meets in the middle of an exchange. *)
Joined == [number : {1}, role : Roles \ {"server"}, kind : {"post", "plain"}, stage : {"open"},
           misread : {FALSE}, written : {FALSE}]

Init ==
    /\ conn \in [Addrs -> {NoConn} \cup Joined]
    /\ opened = 1
    /\ now = 0
    /\ class = [a \in {} |-> NewEntry(0)]
    /\ probe = [a \in Addrs |-> NoProbe]
    /\ ring = <<>>
    /\ streams = [a \in Addrs |-> "none"]
    /\ verdict = NoVerdict
    /\ freeProbed \in BOOLEAN
    /\ missed = {} /\ exposed = {}

Remove(a) == [b \in DOMAIN class \ {a} |-> class[b]]

Put(a, entry) == [b \in DOMAIN class \cup {a} |-> IF b = a THEN entry ELSE class[b]]

(***************************************************************************)
(* Processes.                                                              *)
(***************************************************************************)
(* A generation, or a poll of one: what the filter must let through. *)
Ours(c) == c.role = "provider" /\ c.kind \in {"post", "poll", "h2"}

(* An SSL call of exchange c returns: the return probe looks the entry of  *)
(* its connection up.                                                      *)
Call(a, c, dir, head, what) ==
    /\ probe[a] = NoProbe
    /\ now < MaxCalls
    /\ now' = now + 1
    /\ probe' = [probe EXCEPT ![a] =
          [dir |-> dir, head |-> head, what |-> what, at |-> now', ours |-> Ours(c),
           misread |-> c.misread, entry |-> IF a \in DOMAIN class THEN class[a] ELSE NewEntry(now')]]
    /\ UNCHANGED <<opened, class, ring, streams, verdict, freeProbed, history>>

(* SSL_connect or SSL_accept, which run SSL_do_handshake and so forget the *)
(* entry; or a first SSL_write or SSL_read that makes the handshake, or a  *)
(* library whose SSL_do_handshake is not probed, which does not.  A        *)
(* connection can also be reset by SSL_clear and made anew.                *)
Open(a, role, shakes) ==
    /\ probe[a] = NoProbe
    /\ conn[a] = NoConn \/ (conn[a].stage = "idle" /\ shakes)
    /\ opened < MaxConns
    /\ opened' = opened + 1
    /\ conn' = [conn EXCEPT ![a] = NewConn(opened + 1, role)]
    /\ class' = IF shakes THEN Remove(a) ELSE class
    /\ exposed' = exposed \cup
          (IF \/ verdict.pc = "insert" /\ verdict.addr = a
              \/ ~freeProbed /\ a \in DOMAIN class'
           THEN {opened + 1} ELSE {})
    /\ UNCHANGED <<now, probe, ring, streams, verdict, freeProbed, missed>>

(* How the request head of an exchange begins; the same when its bytes     *)
(* cannot be read (drops takes [0; 8] for them, and a GET for no poll); or *)
(* when the write is cut: before its method ends, or, a GET's 32 bytes are *)
(* read for what it asks for, before those.                                *)
FirstBytes(kind) ==
    CASE kind = "post" -> {"post"} [] kind = "poll" -> {"response"}
      [] kind = "plain" -> {"method", "post"} [] kind = "h2" -> {"preface"}

Unread(kind) == {"other"} \cup (IF kind = "poll" THEN {"method"} ELSE {})

CutBytes(kind) == FirstBytes(kind) \cup Unread(kind) \cup {"short"}

(* What user space sees in the whole of a request head. *)
Shown(role, kind) ==
    CASE kind = "h2"        -> "bytes"
      [] role = "foreign"   -> "foreign"
      [] OTHER              -> kind

(* An exchange begins with a request head that looks like head. *)
Begins(a, kind, stage, head) ==
    conn' = [conn EXCEPT ![a].kind = kind, ![a].stage = stage, ![a].misread = head \in Unread(kind),
                         ![a].written = TRUE]

Request(a, kind, head) ==
    /\ conn[a].role \in {"provider", "foreign"} /\ conn[a].stage = "idle"
    /\ head \in FirstBytes(kind) \cup Unread(kind)
    /\ Begins(a, kind, "open", head)
    /\ Call(a, conn'[a], "Write", head, Shown(conn[a].role, kind))

(* A request head in two writes, the rest of which begins like a body. *)
SplitRequest(a, kind, head) ==
    /\ conn[a].role \in {"provider", "foreign"} /\ conn[a].stage = "idle"
    /\ head \in CutBytes(kind)
    /\ Begins(a, kind, "head", head)
    /\ Call(a, conn'[a], "Write", head, "bytes")

RestOfHead(a, head) ==
    /\ conn[a].stage = "head"
    /\ conn' = [conn EXCEPT ![a].stage = "open"]
    /\ \E what \in {"bytes"} \cup
             (IF conn[a].role = "provider" THEN {Shown("provider", conn[a].kind)} ELSE {}) :
          Call(a, conn[a], "Write", head, what)

WriteBody(a, head) ==
    /\ \/ conn[a].stage = "open" /\ conn[a].kind \in {"post", "plain"}
       \/ conn[a].stage = "idle" /\ conn[a].role = "server" /\ conn[a].written
    /\ UNCHANGED conn
    /\ Call(a, conn[a], "Write", head, "bytes")

(* Frames on an HTTP/2 connection, which begin with a zero length byte. *)
WriteFrame(a) ==
    /\ conn[a].stage = "open" /\ conn[a].kind = "h2"
    /\ UNCHANGED conn
    /\ Call(a, conn[a], "Write", "other", "bytes")

(* Part of a response, an interim one maybe, or the end of it. *)
ReadResponse(a, last) ==
    /\ conn[a].stage = "open" /\ conn[a].kind # "serve"
    /\ last => conn[a].kind # "h2"
    /\ conn' = IF last THEN [conn EXCEPT ![a].stage = "idle", ![a].kind = "none"] ELSE conn
    /\ Call(a, conn[a], "Read", "other", "bytes")

(* A server reads a request and answers it, with a status line if its      *)
(* bytes can be read.                                                      *)
Serve(a) ==
    /\ conn[a].role = "server" /\ conn[a].stage = "idle"
    /\ conn' = [conn EXCEPT ![a].kind = "serve", ![a].stage = "open"]
    /\ Call(a, conn[a], "Read", "other", "bytes")

Answer(a, head) ==
    /\ conn[a].kind = "serve" /\ head \in {"status", "other"}
    /\ conn' = [conn EXCEPT ![a].kind = "none", ![a].stage = "idle", ![a].written = TRUE]
    /\ Call(a, conn[a], "Write", head, "bytes")

(* SSL_free forgets the entry and tells user space, if the ring has room.  *)
(* attach_probes_to_path goes on without that probe.                       *)
Free(a) ==
    /\ probe[a] = NoProbe
    /\ conn[a] # NoConn
    /\ conn' = [conn EXCEPT ![a] = NoConn]
    /\ class' = IF freeProbed THEN Remove(a) ELSE class
    /\ \/ /\ freeProbed
          /\ ring' = Append(ring, [addr |-> a, what |-> "closed", at |-> now])
       \/ UNCHANGED ring
    /\ UNCHANGED <<opened, now, probe, streams, verdict, freeProbed, history>>

(***************************************************************************)
(* The kernel.                                                             *)
(***************************************************************************)
(* The rest of the return probe: the entry goes on by what was read or     *)
(* written, is stored if it changed, and drops the call or lets it through *)
(* to the ring, which may have no room.                                    *)
Filter(a) ==
    LET p == probe[a]
        next == Reclassed(p)
        event == [addr |-> a, what |-> p.what, at |-> p.at]
    IN  /\ p # NoProbe
        /\ probe' = [probe EXCEPT ![a] = NoProbe]
        /\ class' = IF next # p.entry THEN Put(a, next) ELSE class
        /\ IF Drops(next)
           THEN /\ missed' = missed \cup
                      (IF p.ours THEN {[number |-> conn[a].number, misread |-> p.misread]} ELSE {})
                /\ UNCHANGED ring
           ELSE /\ UNCHANGED missed
                /\ ring' = Append(ring, event) \/ UNCHANGED ring
        /\ UNCHANGED <<clients, streams, verdict, freeProbed, exposed>>

Evict(a) ==
    /\ Evicting
    /\ a \in DOMAIN class
    /\ class' = Remove(a)
    /\ UNCHANGED <<clients, probe, ring, streams, verdict, freeProbed, history>>

(***************************************************************************)
(* User space.                                                             *)
(***************************************************************************)
IsLlm(stream) == stream \in {"call", "poll"}

(* What the stream becomes when a record is routed to it: a call or poll   *)
(* that is in progress may end with any record.                            *)
Routed(stream, what) ==
    CASE what = "closed"        -> {"none"}
      [] what = "post"          -> {"call"}
      [] what = "poll"          -> {"poll", "idle"}
      [] IsLlm(stream)          -> {stream, "idle"}
      [] OTHER                  -> {"idle"}

(* skip_if_foreign consumes a foreign request, unless a call is in progress. *)
Consumes(stream, event) == event.what = "foreign" /\ ~IsLlm(stream)

(* The ring's handler takes a record: a foreign one has its stream removed *)
(* and its connection skipped next, any other is routed.                   *)
Handle ==
    LET event == Head(ring)
        a == event.addr
    IN  /\ ring # <<>> /\ verdict.pc = "idle"
        /\ ring' = Tail(ring)
        /\ IF Consumes(streams[a], event)
           THEN /\ streams' = [streams EXCEPT ![a] = "none"]
                /\ verdict' = [NoVerdict EXCEPT !.pc = "lookup", !.addr = a, !.at = event.at]
           ELSE /\ \E s \in Routed(streams[a], event.what) : streams' = [streams EXCEPT ![a] = s]
                /\ UNCHANGED verdict
        /\ UNCHANGED <<clients, class, probe, freeProbed, history>>

(* skip_connection reads the entry, *)
LookUp ==
    LET a == verdict.addr
    IN  /\ verdict.pc = "lookup"
        /\ verdict' = IF a \in DOMAIN class /\ NotNewer(class[a], verdict.at)
                      THEN [verdict EXCEPT !.pc = "insert", !.entry = As(class[a], "SkipConnection")]
                      ELSE NoVerdict
        /\ UNCHANGED <<clients, class, probe, ring, streams, freeProbed, history>>

(* Mutant: an entry that is gone is written anew. *)
InsertAny ==
    /\ verdict.pc = "insert"
    /\ class' = Put(verdict.addr, verdict.entry)
    /\ verdict' = NoVerdict
    /\ UNCHANGED <<clients, probe, ring, streams, freeProbed, history>>

(* and writes the verdict back if there still is an entry (BPF_EXIST). *)
Insert ==
    /\ verdict.pc = "insert"
    /\ class' = IF verdict.addr \in DOMAIN class THEN Put(verdict.addr, verdict.entry) ELSE class
    /\ verdict' = NoVerdict
    /\ UNCHANGED <<clients, probe, ring, streams, freeProbed, history>>

Process(a) ==
    \/ \E role \in Roles, shakes \in BOOLEAN : Open(a, role, shakes)
    \/ \E kind \in Kinds \ {"serve"}, head \in Heads :
          Request(a, kind, head) \/ SplitRequest(a, kind, head)
    \/ \E head \in BodyHeads : RestOfHead(a, head) \/ WriteBody(a, head)
    \/ WriteFrame(a)
    \/ \E last \in BOOLEAN : ReadResponse(a, last)
    \/ Serve(a)
    \/ \E head \in Heads : Answer(a, head)
    \/ Free(a)

Kernel(a) == Filter(a) \/ Evict(a)

UserSpace == Handle \/ LookUp \/ Insert

Next == (\E a \in Addrs : Process(a) \/ Kernel(a)) \/ UserSpace

Spec == Init /\ [][Next]_vars

(***************************************************************************)
(* Properties.                                                             *)
(***************************************************************************)
EntryType == [class : Classes, born : Nat]

What == {"post", "poll", "plain", "foreign", "bytes", "closed"}

(* The processes', the kernel's and user space's state keep their types. *)
TypeOK ==
    /\ conn \in [Addrs -> [number : Nat, role : Roles \cup {"none"}, kind : Kinds \cup {"none"},
                           stage : {"idle", "head", "open"}, misread : BOOLEAN, written : BOOLEAN]]
    /\ opened \in Nat /\ now \in Nat
    /\ DOMAIN class \subseteq Addrs /\ \A a \in DOMAIN class : class[a] \in EntryType
    /\ probe \in [Addrs -> [dir : {"none", "Read", "Write"}, head : Heads, what : What, at : Nat,
                            ours : BOOLEAN, misread : BOOLEAN, entry : EntryType]]
    /\ ring \in Seq([addr : Addrs, what : What, at : Nat])
    /\ streams \in [Addrs -> {"none", "idle", "call", "poll"}]
    /\ verdict \in [pc : {"idle", "lookup", "insert"}, addr : Addrs \cup {"none"}, at : Nat,
                    entry : EntryType]
    /\ freeProbed \in BOOLEAN
    /\ missed \subseteq [number : Nat, misread : BOOLEAN] /\ exposed \subseteq Nat

(* No call of an LLM exchange with a provider is dropped in the kernel,    *)
(* whatever came before on its connection or address, for two causes only: *)
(* the first bytes of the request head could not be read or, those of a    *)
(* poll, were cut below 32; or the connection was opened while a verdict   *)
(* on its address was half made, or, neither its handshake nor the last    *)
(* connection's SSL_free being seen, over the entry that one left.         *)
MissedForKnownCause == \A m \in missed : m.misread \/ m.number \in exposed

(* A provider's connection is never skipped for good, but for the second   *)
(* of those causes.                                                        *)
SkippedIsForeign ==
    \A a \in DOMAIN class :
        class[a].class = "SkipConnection" /\ conn[a].role = "provider"
        => conn[a].number \in exposed

(* ssl_class.rs: the kernel drops non-LLM calls before the ring.           *)
(* The code also drops those of a poll whose head is cut: README,          *)
(* "Findings without a run".                                               *)
OnlyOthersAreDropped == \A m \in missed : m.number \in exposed
=============================================================================
