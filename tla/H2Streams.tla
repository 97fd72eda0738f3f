----------------------------- MODULE H2Streams -----------------------------
(***************************************************************************)
(* The HTTP/2 connections of a node (http/h2/conn.rs, stream.rs, and the   *)
(* HTTP/2 branch of processor.rs): the streams each tracks, what they      *)
(* buffer, and the budget all connections joined in the middle share.      *)
(*                                                                         *)
(* The SSL capture and the plaintext capture read their connections in a   *)
(* thread each, under a lock each (processor.rs, llm/mod.rs), but share    *)
(* the node's budget: a feed looks at it first and adds to it at its end,  *)
(* and the other reader runs in between (Load, Feed).                      *)
(*                                                                         *)
(* Clients, servers and capture are external.  An SSL call carries one     *)
(* frame, or loses bytes of it in capture (Damaged).  A frame's luck       *)
(* stands for what depends on bytes not modelled: whether a block is       *)
(* understood although parts of the header table were lost, whether a body *)
(* with a hole parses, whether a later part of one looks like its first.   *)
(***************************************************************************)
EXTENDS Integers, Sequences, FiniteSets, FiniteSetsExt, Functions

CONSTANTS Conns,
          Plain,         \* those the plaintext capture reads; the others are SSL
          Ids,           \* stream ids; 0 is the connection itself
          Kinds,         \* what responses are: "json", "sse", "coded", "error"
          Seen,          \* whether the agent sees a connection's preface
          Heads,         \* header blocks: "head" and "huge", over MAX_HEADER_BLOCK
          Parts,         \* DATA frames of a response
          MaxStreams,    \* MAX_STREAMS
          StreamCap,     \* MAX_RESPONSE_BUFFER_SIZE, in DATA frames
          ConnCap,       \* CONN_BUFFER_CAP
          MidjoinCap,    \* MIDJOIN_CONN_CAP
          NodeCap,       \* MIDJOIN_NODE_CAP
          Run,           \* frame heads in a row that are an anchor: 3
          Word,          \* the node's counter is unsigned: modulo Word
          MaxLoss,       \* SSL calls capture may damage or lose
          MaxCalls       \* SSL calls the agent sees or misses

ASSUME H2Assumption ==
    /\ Plain \subseteq Conns
    /\ Ids \subseteq Nat \ {0}
    /\ Kinds \subseteq {"json", "sse", "coded", "error"}
    /\ Seen \subseteq BOOLEAN
    /\ Heads \subseteq {"head", "huge"}
    /\ {Parts, MaxStreams, StreamCap, ConnCap, MidjoinCap, NodeCap, Run, Word} \subseteq Nat
    /\ {MaxLoss, MaxCalls} \subseteq Nat
    /\ Word > NodeCap + MidjoinCap

VARIABLES calls,     \* the requests of each connection and how far they are
          opened,    \* "no", "yes", "going" (after GOAWAY) or "closed"
          conn,      \* the agent's H2Conn, and the gaps of its StreamProcessor
          node,      \* MIDJOIN_NODE_BYTES
          loaded,    \* what a reader in the midst of a feed has loaded of it, or -1
          exported,  \* how often each call was recorded, and counted unparsed
          made, losses,  \* SSL calls made, and of them damaged or lost
          history    \* what happened to connections and calls, for the properties

vars == <<calls, opened, conn, node, loaded, exported, made, losses, history>>

Readers == {"ssl", "plain"}

Reader(c) == IF c \in Plain THEN "plain" ELSE "ssl"

(* The reader's thread is not in the midst of a feed that looks at node. *)
Idle(r) == loaded[r] = -1

Call == [stage : {"none", "sent", "answered", "aborted", "over"}, llm : BOOLEAN,
         kind : Kinds \cup {"none"}, sent : 0 .. Parts]

NewCall == [stage |-> "none", llm |-> FALSE, kind |-> "none", sent |-> 0]

HasUsage(call) == call.llm /\ call.kind # "error"

(* "end" is the end of a DATA frame whose bytes have been read already.    *)
Frame == [type : {"head", "huge", "data", "end", "reset", "goaway", "other"}, id : Ids \cup {0},
          part : 0 .. Parts, end : BOOLEAN, luck : BOOLEAN]

Stream == [reads : {"json", "sse", "coded", "dropped"}, held : Nat, parts : SUBSET (0 .. Parts),
           got : BOOLEAN, speculative : BOOLEAN, idle : BOOLEAN]

Dir == [lost : BOOLEAN, scanning : BOOLEAN, scan : Seq(Frame),
        table : {"whole", "forgotten", "astray"}]

(* Streams, directions and budgets keep their types, the counter its width. *)
TypeOK ==
    /\ calls \in [Conns -> [Ids -> Call]]
    /\ opened \in [Conns -> {"no", "yes", "going", "closed"}]
    /\ \A c \in Conns :
          /\ {conn[c].on, conn[c].midjoin, conn[c].quiet} \subseteq BOOLEAN
          /\ {conn[c].client, conn[c].server} \subseteq Dir
          /\ conn[c].buffered \in Nat
          /\ DOMAIN conn[c].streams \subseteq Ids
          /\ \A i \in DOMAIN conn[c].streams : conn[c].streams[i] \in Stream
    /\ node \in 0 .. Word - 1 /\ loaded \in [Readers -> -1 .. Word - 1]
    /\ exported \in [Conns -> [Ids -> [recorded : Nat, unparsed : Nat]]]
    /\ made \in 0 .. MaxCalls /\ losses \in 0 .. MaxLoss
    /\ history \in [turned : SUBSET Conns, joined : SUBSET Conns, limited : SUBSET Conns,
                    swept : SUBSET (Conns \X Ids), strays : SUBSET (Conns \X Ids),
                    overlapped : BOOLEAN]

(***************************************************************************)
(* One stream (stream.rs).                                                 *)
(***************************************************************************)
Opened == [reads |-> "json", held |-> 0, parts |-> {}, got |-> FALSE, speculative |-> FALSE,
           idle |-> FALSE]

OpenedSpeculative == [Opened EXCEPT !.speculative = TRUE]

Held(s) == IF s.reads = "sse" THEN 0 ELSE s.held

Format(kind) == IF kind = "error" THEN "json" ELSE kind

(* Mutant: trailers are read as a response's head. *)
ResponseHeadersResets(s, format) ==
    [s EXCEPT !.idle = FALSE, !.reads = format, !.held = 0, !.parts = {}]

ResponseHeaders(s, format) ==
    IF s.got THEN [s EXCEPT !.idle = FALSE]
    ELSE [s EXCEPT !.idle = FALSE, !.reads = format, !.held = 0, !.parts = {}]

Take(s, part, room) ==
    LET t == [s EXCEPT !.idle = FALSE, !.got = TRUE]
    IN  IF t.reads = "dropped" THEN t
        ELSE IF t.reads = "sse" THEN [t EXCEPT !.parts = @ \cup {part}]
        ELSE IF room < 1 \/ t.held + 1 > StreamCap
             THEN [t EXCEPT !.reads = "dropped", !.held = 0, !.parts = {}]
        ELSE [t EXCEPT !.held = @ + 1, !.parts = @ \cup {part}]

(* Whether the ended stream has usage: of a body with a hole, by luck. *)
Finish(s, call, luck) ==
    /\ s.reads = Format(call.kind)
    /\ HasUsage(call)
    /\ s.parts = 1 .. Parts \/ luck

(***************************************************************************)
(* A connection's streams (conn.rs).  A context holds what feeding changes. *)
(***************************************************************************)
Count(x, id, what) == [x EXCEPT !.exported[id][what] = @ + 1]

Saturating(n) == IF n < 0 THEN 0 ELSE n

HeldBy(streams, ids) == SumFunctionOnSet([i \in DOMAIN streams |-> Held(streams[i])], ids)

Without(streams, ids) == Restrict(streams, DOMAIN streams \ ids)

(* Mutant: the bytes of a stream removed stay in the budget. *)
UntrackKeepsBytes(x, ids) == [x EXCEPT !.streams = Without(@, ids)]

Untrack(x, ids) ==
    [x EXCEPT !.streams = Without(@, ids),
              !.buffered = Saturating(@ - HeldBy(x.streams, ids \cap DOMAIN x.streams))]

CountUnparsed(counts, ids) ==
    [i \in DOMAIN counts |->
        IF i \in ids THEN [counts[i] EXCEPT !.unparsed = @ + 1] ELSE counts[i]]

(* Mutant: the streams are counted but not removed. *)
DropStreamsKeeps(x, ids) == [x EXCEPT !.exported = CountUnparsed(@, ids \cap DOMAIN x.streams)]

DropStreams(x, ids) ==
    [Untrack(x, ids) EXCEPT !.exported = CountUnparsed(@, ids \cap DOMAIN x.streams)]

Full(x) == Cardinality(DOMAIN x.streams) >= MaxStreams

Open(x, id, s) ==
    [x EXCEPT !.streams = [i \in DOMAIN x.streams \cup {id} |-> IF i = id THEN s ELSE x.streams[i]]]

(* A call whose stream is opened although the call is counted is a stray if *)
(* there is an excuse; without one the properties do not put up with it.    *)
Reopen(x, id, s, excuse) ==
    LET e == x.exported[id]
    IN  Open([x EXCEPT !.strays =
                 IF excuse /\ e.recorded + e.unparsed > 0 THEN @ \cup {id} ELSE @], id, s)

(* A block that refers to lost entries may not be understood, and may be   *)
(* misunderstood when the loss went unnoticed.                             *)
Matches(table, call, luck) ==
    CASE table = "whole"     -> call.llm
      [] table = "forgotten" -> call.llm /\ luck
      [] table = "astray"    -> luck

RequestHead(x, f, call) ==
    IF ~Matches(x.table, call, f.luck) \/ f.id \in DOMAIN x.streams THEN x
    ELSE IF Full(x) THEN [x EXCEPT !.limited = TRUE]
    ELSE Reopen(x, f.id, Opened, call.stage # "sent" \/ f.id \in x.swept)

ResponseHead(x, f, call) ==
    IF f.id \notin DOMAIN x.streams THEN x
    ELSE [x EXCEPT !.streams[f.id] = ResponseHeaders(@,
             IF x.table = "whole" \/ f.luck THEN Format(call.kind) ELSE "json")]

(* The first bytes seen of a body begin a JSON object or an SSE event. *)
LooksRecordable(f, call) == call.kind # "coded" /\ (f.part = 1 \/ f.luck)

ResponseData(x, f, call, midjoin, cap) ==
    LET y == IF midjoin /\ f.id \notin DOMAIN x.streams /\ ~Full(x) /\ LooksRecordable(f, call)
             THEN Reopen(x, f.id, OpenedSpeculative, f.id \in x.swept) ELSE x
        s == y.streams[f.id]
        t == Take(s, f.part, Saturating(cap - y.buffered))
    IN  IF f.id \notin DOMAIN y.streams THEN y
        ELSE [y EXCEPT !.streams[f.id] = t, !.buffered = @ + Held(t) - Held(s)]

StreamEnd(x, f, call) ==
    LET s == x.streams[f.id]
        y == IF Finish(s, call, f.luck) THEN Count(x, f.id, "recorded")
             ELSE IF s.reads = "dropped" \/ s.speculative THEN Count(x, f.id, "unparsed")
             ELSE x
    IN  IF f.id \in DOMAIN x.streams THEN Untrack(y, {f.id}) ELSE x

(* Mutant: only DATA ends a stream. *)
EndedByData(x, side, f, call) ==
    IF side = "server" /\ f.end /\ f.type \in {"data", "end"} THEN StreamEnd(x, f, call) ELSE x

Ended(x, side, f, call) == IF side = "server" /\ f.end THEN StreamEnd(x, f, call) ELSE x

HeadersTooLarge(x, f) == Untrack([x EXCEPT !.table = "forgotten", !.limited = TRUE], {f.id})

(* on_frame, with the END_STREAM the frame may carry. *)
OnFrame(x, side, f, cs, midjoin, cap) ==
    LET call == IF f.id = 0 \/ f.type = "goaway" THEN NewCall ELSE cs[f.id]
    IN  CASE f.type = "head" /\ side = "client"  -> RequestHead(x, f, call)
          [] f.type = "head" /\ side = "server"  -> Ended(ResponseHead(x, f, call), side, f, call)
          [] f.type = "huge"   -> Ended(HeadersTooLarge(x, f), side, f, call)
          [] f.type = "data"   -> Ended(ResponseData(x, f, call, midjoin, cap), side, f, call)
          [] f.type = "end"    -> Ended(x, side, f, call)
          [] f.type = "reset"  -> DropStreams(x, {f.id})
          [] f.type = "goaway" -> DropStreams(x, {id \in DOMAIN x.streams : id > f.id})
          [] f.type = "other"  -> x

Stalled(x) == {id \in DOMAIN x.streams : x.streams[id].got /\ x.streams[id].idle}

SweepIdle(x) ==
    [DropStreams(x, Stalled(x)) EXCEPT !.swept = @ \cup Stalled(x)]

(* The frames a call completes, one after the other. *)
Reads(x, side, frames, cs, midjoin, cap) ==
    LET after[n \in 0 .. Len(frames)] ==
          IF n = 0 THEN x ELSE OnFrame(after[n - 1], side, frames[n], cs, midjoin, cap)
    IN  after[Len(frames)]

(***************************************************************************)
(* Feeding a connection one frame (H2Conn::feed).  The scan of a direction *)
(* that is in step holds at most the end of a frame that lost its tail.    *)
(***************************************************************************)
NewDir == [lost |-> FALSE, scanning |-> FALSE, scan |-> <<>>, table |-> "whole"]

(* resync and forget: frames are held until an anchor is seen.      *)
Rescan == [lost |-> FALSE, scanning |-> TRUE, scan |-> <<>>, table |-> "forgotten"]

Off == [on |-> FALSE, midjoin |-> FALSE, quiet |-> FALSE, buffered |-> 0, client |-> NewDir,
        server |-> NewDir, streams |-> <<>>]

(* new_midjoin, with the gaps set; the client's run of heads is an anchor. *)
Joined == [Off EXCEPT !.on = TRUE, !.midjoin = TRUE, !.client.table = "forgotten",
                      !.server.lost = TRUE]

(* Mutant: each connection sees only its own cap. *)
RoomOfConn(k, load) == MidjoinCap

Room(k, load) == Min({MidjoinCap, k.buffered + Saturating(NodeCap - load)})

Cap(k, midjoin, load) == IF midjoin THEN Room(k, load) ELSE ConnCap

Reconciled(before, after) == (node + after - before) % Word

Fed(k, side, midjoin, x, dir) ==
    [k EXCEPT ![side] = dir, !.midjoin = midjoin, !.quiet = FALSE,
              !.streams = x.streams, !.buffered = x.buffered]

EndOf(f) == [f EXCEPT !.type = "end", !.end = TRUE]

(* Feed k, the state of connection c, frame f.  What follows f is lost:    *)
(* "none" of it, a "tail" of unknown size, or of known size up to the end. *)
(* A feed that shares the node's budget has loaded it before.              *)
Feed(c, k, side, f, loss) ==
    LET d == IF k[side].lost THEN Rescan ELSE k[side]
        midjoin == k.midjoin \/ (k[side].lost /\ side = "client")
        scan == Append(d.scan, f)
        held == d.scanning /\ Len(scan) < Run
        load == loaded[Reader(c)]
        before == [streams |-> k.streams, buffered |-> k.buffered, table |-> d.table,
                   exported |-> exported[c], limited |-> FALSE,
                   swept |-> {i \in Ids : <<c, i>> \in history.swept}, strays |-> {}]
        after == IF held THEN before
                 ELSE Reads(before, side, scan, calls'[c], midjoin, Cap(k, midjoin, load))
    IN  \E x \in {SweepIdle(after)} :
        /\ midjoin <=> ~Idle(Reader(c))
        /\ loaded' = [loaded EXCEPT ![Reader(c)] = -1]
        /\ conn' = [conn EXCEPT ![c] = Fed(k, side, midjoin, x,
              [lost |-> loss = "tail" \/ (loss = "end" /\ held), scanning |-> held,
               scan |-> IF held THEN scan ELSE IF loss = "end" THEN <<EndOf(f)>> ELSE <<>>,
               table |-> x.table])]
        /\ node' = IF midjoin THEN Reconciled(k.buffered, x.buffered) ELSE node
        /\ exported' = [exported EXCEPT ![c] = x.exported]
        /\ history' = [
              turned  |-> history.turned \cup
                          IF midjoin /\ ~k.midjoin /\ k.buffered > 0 THEN {c} ELSE {},
              joined  |-> history.joined \cup IF midjoin THEN {c} ELSE {},
              limited |-> history.limited \cup IF x.limited THEN {c} ELSE {},
              swept   |-> history.swept \cup ({c} \X x.swept),
              strays  |-> history.strays \cup ({c} \X x.strays),
              overlapped |-> \/ history.overlapped
                             \/ /\ midjoin /\ x.buffered > k.buffered
                                /\ \E r \in Readers \ {Reader(c)} : ~Idle(r)]

(* h2_loss: bytes lost inside DATA are skipped (part 0 stands for the rest *)
(* of it), at its end once more bytes come; any other tail makes the       *)
(* direction re-anchor at its next call.  A call that found no room in the *)
(* ring is lost whole and nothing shows it.                                *)
Damaged(c, side, f) ==
    LET torn == [f EXCEPT !.type = IF f.type = "data" THEN "data" ELSE "other",
                          !.part = 0, !.end = FALSE]
        heard == {<<torn, "tail">>} \cup
                 IF f.type # "data" THEN {}
                 ELSE {<<[f EXCEPT !.part = 0], "none">>} \cup
                      IF f.end THEN {<<torn, "end">>} ELSE {}
    IN  \/ \E h \in heard : Feed(c, conn[c], side, h[1], h[2])
        \/ /\ conn' = [conn EXCEPT ![c][side].table =
                 IF f.type \in {"head", "huge"} THEN "astray" ELSE @]
           /\ UNCHANGED <<node, loaded, exported, history>>

(* detect_h2_midjoin: the client's frame completes a run of heads; those   *)
(* before it are not of requests here.                                     *)
Join(c, side, f) == side = "client" /\ Feed(c, Joined, side, f, "none")

Capture(c, side, f) ==
    \/ ~conn[c].on /\ UNCHANGED <<conn, node, loaded, exported, made, losses, history>>
    \/ /\ made < MaxCalls
       /\ made' = made + 1
       /\ \/ conn[c].on /\ Feed(c, conn[c], side, f, "none") /\ UNCHANGED losses
          \/ ~conn[c].on /\ Join(c, side, f) /\ UNCHANGED losses
          \/ conn[c].on /\ losses < MaxLoss /\ Damaged(c, side, f) /\ losses' = losses + 1

Sends(c, side, type, id, part, end) ==
    /\ \E luck \in IF type \in {"head", "data"} THEN BOOLEAN ELSE {FALSE} :
          Capture(c, side, [type |-> type, id |-> id, part |-> part, end |-> end, luck |-> luck])
    /\ UNCHANGED opened

(***************************************************************************)
(* Clients and servers.                                                    *)
(***************************************************************************)
Alive(c) == opened[c] \in {"yes", "going"}

Init ==
    /\ calls = [c \in Conns |-> [i \in Ids |-> NewCall]]
    /\ opened = [c \in Conns |-> "no"]
    /\ conn = [c \in Conns |-> Off]
    /\ node = 0 /\ loaded = [r \in Readers |-> -1]
    /\ exported = [c \in Conns |-> [i \in Ids |-> [recorded |-> 0, unparsed |-> 0]]]
    /\ made = 0 /\ losses = 0
    /\ history = [turned |-> {}, joined |-> {}, limited |-> {}, swept |-> {}, strays |-> {},
                  overlapped |-> FALSE]

(* A connection opens; the agent sees its preface, or started too late. *)
Begin(c, seen) ==
    /\ opened[c] = "no"
    /\ opened' = [opened EXCEPT ![c] = "yes"]
    /\ conn' = [conn EXCEPT ![c].on = seen]
    /\ UNCHANGED <<calls, node, loaded, exported, made, losses, history>>

Request(c, id, llm, kind, type) ==
    /\ opened[c] = "yes"
    /\ \A i \in Ids : i >= id => calls[c][i].stage = "none"
    /\ llm \/ kind = "error"
    /\ calls' = [calls EXCEPT ![c][id] = [stage |-> "sent", llm |-> llm, kind |-> kind, sent |-> 0]]
    /\ Sends(c, "client", type, id, 0, FALSE)

(* A client gives a request up.  The server need not say anything. *)
Abort(c, id) ==
    /\ Alive(c) /\ calls[c][id].stage \in {"sent", "answered"}
    /\ calls' = [calls EXCEPT ![c][id].stage = "aborted"]
    /\ Sends(c, "client", "other", 0, 0, FALSE)

Answer(c, id, type) ==
    /\ Alive(c) /\ calls[c][id].stage = "sent"
    /\ calls' = [calls EXCEPT ![c][id].stage = "answered"]
    /\ Sends(c, "server", type, id, 0, FALSE)

Body(c, id, end) ==
    LET call == calls[c][id]
    IN  /\ Alive(c) /\ call.stage = "answered" /\ call.sent < Parts
        /\ end => call.sent + 1 = Parts
        /\ calls' = [calls EXCEPT ![c][id] =
              [call EXCEPT !.sent = @ + 1, !.stage = IF end THEN "over" ELSE @]]
        /\ Sends(c, "server", "data", id, call.sent + 1, end)

Trailers(c, id, type) ==
    /\ Alive(c) /\ calls[c][id].stage = "answered" /\ calls[c][id].sent = Parts
    /\ calls' = [calls EXCEPT ![c][id].stage = "over"]
    /\ Sends(c, "server", type, id, 0, TRUE)

Reset(c, id) ==
    /\ Alive(c) /\ calls[c][id].stage \in {"sent", "answered"}
    /\ calls' = [calls EXCEPT ![c][id].stage = "aborted"]
    /\ Sends(c, "server", "reset", id, 0, FALSE)

Goaway(c, last) ==
    /\ opened[c] = "yes"
    /\ calls' = [calls EXCEPT ![c] = [i \in DOMAIN calls[c] |->
          IF i > last /\ calls[c][i].stage \in {"sent", "answered"}
          THEN [calls[c][i] EXCEPT !.stage = "aborted"] ELSE calls[c][i]]]
    /\ opened' = [opened EXCEPT ![c] = "going"]
    /\ Capture(c, "server",
          [type |-> "goaway", id |-> last, part |-> 0, end |-> FALSE, luck |-> FALSE])

(* Any other frame: settings, pings, window updates, a request's body. *)
Other(c, side) ==
    /\ Alive(c)
    /\ UNCHANGED calls
    /\ Sends(c, side, "other", 0, 0, FALSE)

(***************************************************************************)
(* The end of a connection in the agent, the readers' threads, and time.   *)
(***************************************************************************)
(* A reader begins to feed a connection that is, or becomes, one joined in *)
(* the middle: it loads the node's counter.  Until it is done it holds the *)
(* lock of its connections.                                                *)
Load(r) ==
    /\ Idle(r) /\ made < MaxCalls
    /\ \E c \in Conns :
          /\ Reader(c) = r /\ Alive(c)
          /\ ~conn[c].on \/ conn[c].midjoin \/ conn[c].client.lost
    /\ loaded' = [loaded EXCEPT ![r] = node]
    /\ UNCHANGED <<calls, opened, conn, node, exported, made, losses, history>>

(* Mutant: the bytes of the connection stay in the node's budget. *)
DroppedKeepsBytes(k) == node

(* Drop for H2Conn. *)
Dropped(k) == IF k.midjoin THEN (node - k.buffered) % Word ELSE node

(* SSL_free: the streams still open are counted. *)
Close(c) ==
    LET k == conn[c]
    IN  /\ Alive(c) /\ Idle(Reader(c))
        /\ opened' = [opened EXCEPT ![c] = "closed"]
        /\ node' = Dropped(k)
        /\ conn' = [conn EXCEPT ![c] = Off]
        /\ exported' = [exported EXCEPT ![c] = CountUnparsed(@, DOMAIN k.streams)]
        /\ UNCHANGED <<calls, loaded, made, losses, history>>

(* The cleanup task drops a quiet connection and does not count its streams. *)
Retire(c) ==
    /\ conn[c].on /\ conn[c].quiet /\ Idle(Reader(c))
    /\ node' = Dropped(conn[c])
    /\ conn' = [conn EXCEPT ![c] = Off]
    /\ UNCHANGED <<calls, opened, loaded, exported, made, losses, history>>

(* STREAM_IDLE passes, which is also CONNECTION_RETENTION_SECS. *)
Wait ==
    /\ \E c \in Conns : conn[c].on /\ ~conn[c].quiet
    /\ conn' = [c \in DOMAIN conn |-> [conn[c] EXCEPT !.quiet = TRUE,
                   !.streams = [i \in DOMAIN @ |-> [@[i] EXCEPT !.idle = TRUE]]]]
    /\ UNCHANGED <<calls, opened, node, loaded, exported, made, losses, history>>

Next ==
    \/ Wait
    \/ \E r \in Readers : Load(r)
    \/ \E c \in Conns :
          \/ \E seen \in Seen : Begin(c, seen)
          \/ \E id \in Ids, type \in Heads :
                \/ \E llm \in BOOLEAN, kind \in Kinds : Request(c, id, llm, kind, type)
                \/ Answer(c, id, type)
                \/ Trailers(c, id, type)
          \/ \E id \in Ids, end \in BOOLEAN : Body(c, id, end)
          \/ \E id \in Ids : Abort(c, id) \/ Reset(c, id)
          \/ \E last \in Ids \cup {0} : Goaway(c, last)
          \/ \E side \in {"client", "server"} : Other(c, side)
          \/ Close(c)
          \/ Retire(c)

Spec == Init /\ [][Next]_vars

(***************************************************************************)
(* Safety.                                                                 *)
(***************************************************************************)
Buffers(c) == HeldBy(conn[c].streams, DOMAIN conn[c].streams)

(* conn.rs: what a connection has buffered is what its streams hold, however *)
(* they were read, given up, ended, reset or left idle: the budget never     *)
(* shrinks for good.                                                         *)
BufferedIsHeld == \A c \in Conns : conn[c].buffered = Buffers(c)

Shared ==
    SumFunctionOnSet([c \in Conns |-> conn[c].buffered], {c \in Conns : conn[c].midjoin})

(* conn.rs: the node's counter is what the connections joined in the middle *)
(* buffer, until one turns into such a connection with bytes buffered       *)
(* (NodeBytes): feeding, closing and retiring give back what was taken.     *)
NodeIsShared == history.turned = {} => node = Shared

(* conn.rs: no budget is passed: CONN_BUFFER_CAP or MIDJOIN_CONN_CAP by a  *)
(* connection, and MIDJOIN_NODE_CAP by all that were joined in the middle, *)
(* unless one reader added to the node's bytes while the other was at a    *)
(* feed for which it had looked at them; then they are over the cap by no  *)
(* more than one connection's.                                             *)
WithinBudgets ==
    /\ history.turned = {} =>
          Shared <= NodeCap + IF history.overlapped THEN MidjoinCap ELSE 0
    /\ \A c \in Conns \ history.turned :
          conn[c].buffered <= IF conn[c].midjoin THEN MidjoinCap ELSE ConnCap

(* conn.rs: a call is recorded or counted once, not both, on a connection  *)
(* that is never joined in the middle whatever is lost of it; and on any   *)
(* other if it was not given up as stalled and then tracked again from     *)
(* what came later, or counted and then its request head read late, by a   *)
(* reader that re-anchored.                                                *)
AtMostOnce ==
    \A c \in Conns, i \in Ids :
        LET e == exported[c][i]
        IN  e.recorded + e.unparsed > 1 => <<c, i>> \in history.strays /\ c \in history.joined

(* The agent has seen all of a connection. *)
Whole(c) == conn[c].on /\ ~conn[c].midjoin /\ c \notin history.joined /\ losses = 0

(* conn.rs: on a connection seen whole, a call whose response ended with    *)
(* usage is recorded or counted, whatever trailers, other streams' bytes,   *)
(* idle times and a GOAWAY came in between; unless MAX_STREAMS or a header  *)
(* block over its limit was in the way.                                     *)
CompleteWithoutLoss ==
    \A c \in Conns, i \in Ids :
        LET call == calls[c][i]
        IN  Whole(c) /\ call.stage = "over" /\ HasUsage(call) /\ c \notin history.limited
            => exported[c][i].recorded + exported[c][i].unparsed = 1

(* conn.rs: on such a connection a stream leaves the table with its         *)
(* response, however that ended, so that MAX_STREAMS counts calls that run. *)
OverIsUntracked ==
    \A c \in Conns : Whole(c) => \A i \in DOMAIN conn[c].streams : calls[c][i].stage # "over"

(* conn.rs:30: "Bytes currently buffered by mid-join connections node-wide; *)
(* each connection reconciles its share per feed."  A connection whose      *)
(* client side re-anchors becomes one of them with bytes it never added.    *)
NodeBytes == node = Shared
=============================================================================
