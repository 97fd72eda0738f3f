# A verification development of honeybeepf-llm

honeybeepf-llm is an eBPF agent that watches LLM traffic on a node. Uprobes on
OpenSSL copy what processes read and write on TLS connections into a ring
buffer; a user-space agent reassembles HTTP exchanges from those copies,
recognises calls to LLM providers, and records each call's usage, or counts the
call as *unparsed*. It sees everything second-hand: fragments are lost when the
ring is full, truncated at a capture limit, late against the kernel's own state,
and cut at points no HTTP library chose. What must hold all the same is simple
to say: **a call is accounted for at most once, with its own numbers, and a loss
costs only the calls it hits.** This development states that, and checks it.

Paths below are relative to the repository's `honeybeepf-llm/` directory;
`L/` stands for `honeybeepf-llm/src/probes/builtin/llm/`, `E/` for
`honeybeepf-llm-ebpf/src/probes/builtin/`.

## 1. The system

| Component | State | Operations | Interacts by |
|---|---|---|---|
| Kernel capture (`E/llm/mod.rs`, `helpers.rs`) | per-thread sessions `START_NS`, `BUFS`, `READBYTES_PTRS`; per-CPU counters; ring `SSL_EVENTS` | entry and return probes of SSL_read/SSL_write and their `_ex` forms, handshake, SSL_free; task exit | ring records, in order, to user space |
| Class filter (`honeybeepf-llm-common/src/ssl_class.rs`, `E/llm/filter.rs`, `L/conn_filter.rs`) | map `SSL_CLASS`: (pid, SSL*) -> class and birth | `after_write`, `after_read`, `drops`; user space's `skip_connection` | a map two programs and user space write without a lock |
| Event routing and cleanup (`L/mod.rs`) | `StreamMap`, `BackgroundMap` under two mutexes | `route_event` per record; the cleanup task every 30 s | shared maps, two threads |
| StreamProcessor (`L/processor.rs`, `http/h1.rs`) | state, write and read buffers, fragment position, the noted next request, the continuation | `handle_fragment`, `handle_event`, `close` | called by routing; uses the background map |
| Background calls (`L/background.rs`) | id -> pending call, bounded | `insert`, `touch`, `take`, `expire` | created by one stream, taken by another or by the cleanup |
| HTTP/2 connection (`L/http/h2/`) | streams, HPACK decoders, byte budgets (one node-wide) | `feed`, gaps, `sweep_idle`, `Drop` | owned by a stream; the node budget is shared by all |
| Frame reader, HPACK (`honeybeepf-llm-core/src/h2/`) | frame in progress, skip state; dynamic table | `read`, `resync`, `skip_gap`; `decode`, `forget` | driven by the connection |
| Body decoders (`L/http/*.rs`, `chunked.rs`) | one body | decompress, chunked, SSE, event stream | pure |
| Registry, usage, pricing | static tables | lookups | pure |
| Discovery (`honeybeepf-llm/src/lib.rs`, `probes/`) | bounded queues, known files, `LIB_OPEN_SEEN` | initial scan, exec watch, library-open watch, attach with rollback | three event sources into one loop |
| Pod identity (`k8s.rs`) | `pod_store`, `cgroup_cache` under RwLocks | watcher events, `resolve`, eviction task | three threads |
| Plaintext capture (`plaintext.rs`) | endpoint map, socket sessions | resolve endpoints, capture | map replaced under running programs |
| File access, process lifecycle | none between events | log, count | ring |
| Telemetry, settings, build | instruments, environment | | |

What makes each correct, and what is hard about it:

* **StreamProcessor.** A call is exported once (recorded or unparsed), from its
  own response; nothing is missed while nothing is lost; after a loss the stream
  finds the next exchange. Hard: losses at any cut, interim responses, a request
  noted by its offset in a buffer that others cut, limits hit in mid-fragment.
* **Background calls.** A result is exported once whoever polls it, and in the
  end even if nobody does. Hard: create and polls on different connections, the
  eviction at capacity, the cleanup thread between its two locks.
* **Class filter.** The kernel drops no call of an LLM exchange, and skips for
  good only connections that carry none. Hard: lookup and insert are separate
  steps in the kernel and in user space; the address is reused; the map is an LRU;
  the verdict is about a record that waited in the ring.
* **HTTP/2, frame reader, HPACK.** Streams of both directions stay paired, byte
  budgets equal what is held, a gap costs the streams it touches. Hard: gaps,
  joining in mid-connection, a node-wide counter.
* **Capture.** A session's buffer and length belong to the call that returns.
  Hard: missed returns, task exit, `_ex` and plain calls on one thread.
* **Discovery.** Each library or executable opened is attached once, and none is
  left out. Hard: a scan that races the watches, bounded queues, failed attaches.
* **Pod identity.** A process is given its own pod. Hard: a lookup that races
  the deletion, a watcher that restarts.

* **Body decoders.** The usage recorded does not depend on where reads cut the body,
  and a body with bytes missing gives its own usage or none. Hard: a resumed walk
  that stopped in a size line, a trailer, an end marker that comes before usage.
* **Plaintext capture.** The kernel comes to watch what the hosts resolve to, and
  a reused address and port starts a new stream. Hard: lookups that fail, a full
  ring, an endpoint that leaves while its connections last.

`PROJECT.json` lists every hazard at its line with the properties that cover it.

## 2. The modules

```
  BackgroundCalls <- StreamProcessor <- LlmStreams <- MCLlmStreams, MCLlmScenarios
                                          |    ^
                    CallLedger <--INSTANCE+    +-- LlmStreamsProofs
                                                     <- LlmOnceProofs

  SslFilter  <- MCSslFilter          Hpack       <-+
      ^-- SslFilterProofs            FrameReader <-+- MCWire, MCFrameReader
  SslCapture <- MCSslCapture         Bodies      <-+
      ^-- SslCaptureProofs               ^
                                         +-- HpackProofs

  H2Streams <- MCH2Node
      ^-- H2StreamsProofs

  Discovery <-+- MCSetup             PodResolver <- MCPodResolver
  Plaintext <-+                          ^-- PodResolverProofs
      ^-- PlaintextProofs
```

An MC module may hold several instances in one run (`MCLlmScenarios`, `MCWire`,
`MCH2Node`, `MCSetup`). Its variable `part` is chosen in the initial state and says
which instance takes steps; the parts share no state, so that the run is the union
of their runs. The `.cfg` gives the first instance its constants, the module's
`INSTANCE ... WITH` the others.

### BackgroundCalls, StreamProcessor, LlmStreams: from records to verdicts

*Data.* A buffer is a sequence of tokens: `req` (a whole request head with its
kind: an `llm` call, a `poll` of a background call, `other`), `more` (body
bytes), `interim`, `head`, `body`, `fin` (an interim response, the final head
with its framing, body bytes, the end of the body with the JSON's result). Each
token carries the exchange it belongs to, so that a property can ask whose bytes
a verdict was reached from; the *control* never looks at it. What `parse_response_from`
makes of a buffer with bytes missing depends on where they were; `hole` says so:
the reader may find the end of the body in spite of the hole (`"ends"`) and may
parse it (`"parses"`), and both are chosen without constraint where framing
allows it. A length-framed body with a hole never reaches its length by itself.

*Control.* `HandleFragment` is `StreamProcessor::handle_fragment`: fragment
continuity, the loss tests (`LostTail`, `LostHead`, `MidResponse`), the noted
request (`NoteNext`, `ResumeNext`) and then `HandleEvent` in the order of the
code, with the early returns as disjuncts. Every operator maps a context (stream,
background map, ledger) to a context; where the code's result depends on what is
abstracted it maps to a set. `Settle`, `SettleCreate`, `SettlePoll`, `Defer`,
`RecordUsage`, `Account`, `GiveUp` are the functions of those names.

`LlmStreams` adds the map of streams, `route_event`, the cleanup task in its
four steps (sleep, sweep streams under one lock, expire under the other, count
with none) and clients that write requests and read responses in any cut. The
ring holds one SSL call at a time: its reader handles records in order and
clients see nothing of it, so a longer queue adds no behaviour of the streams;
against the cleanup task, which does interleave, ring and cleanup are separate
actions. `Capture` loses the end of a call, what is past the capture limit, or
all of it, up to `MaxLoss` times.

`CallLedger` is the abstract specification, of calls alone: unseen, open,
waiting (background), exported with one verdict, or dropped. The mapping
(`Stage`, `ledger.why`) computes a call's stage from where the streams, the
background map and the cleanup task hold it.

### SslFilter: what reaches the ring at all

One action per half of a race: `Call` (the return probe has looked the entry
up), `Filter` (it reclassifies, stores, drops or sends), `Handle` (the ring's
handler, which drops the stream of a foreign request), `LookUp` and `Insert`
(user space's `get` and `insert` with `BPF_EXIST`), `Open`, `Free`, `Evict`.
Requests are classified by how their first bytes begin (`Heads`). `FirstBytes` is what
a request shows when they are read; `Unread` what it is taken for when reading them faults
(eight zeros, or a GET that is no poll); `CutBytes` what it shows when the head comes in two
writes: nothing below 8 bytes, and a GET that is no poll below 32. `AfterWrite`
and `AfterRead` are the pure functions of `ssl_class.rs`. `READ_SEEN` is the
class `SendRead`. `freeProbed` says whether `SSL_free` is probed in this library, which
attaching does without (`L/mod.rs:157-165`): if not, `Free` leaves the entry in the map. Time is counted in SSL calls. A stream is kept only as far as
`skip_if_foreign` asks: none, idle, a call or a poll in progress.

### H2Streams: the HTTP/2 connections of a node

`conn[c]` is a connection's `H2Conn` with the gaps its `StreamProcessor` notes:
each direction's reader (`lost`, `scanning`, the frames held in `scan`) and
header table (`whole`, `forgotten`, or `astray` after a loss nothing showed), the
streams, `buffered`, `midjoin`. `node` is `MIDJOIN_NODE_BYTES`, an unsigned counter
(`% Word`) all connections share. Clients and servers send one frame per SSL call
(`Request`, `Answer`, `Body`, `Trailers`, `Reset`, `Goaway`, `Abort`, `Other`);
`Capture` delivers it, joins the connection in the middle, or damages it
(`Damaged`): a hole inside DATA, which is skipped; a tail lost, after which the
direction re-anchors; the call lost whole without a trace. `Feed` is
`H2Conn::feed` whole: the re-anchoring scan, the cap, every frame (`OnFrame`),
one after the other, the idle sweep, the settlement with the node. `Close`,
`Retire` and `Wait` are SSL_free, the cleanup task and time.

Records are read by two threads, one of SSL and one of plaintext (`Plain`), each with a
lock and a stream map of its own; only `node` is shared. A feed of a connection joined in the
middle is therefore two steps: `Load` reads `node`, `Feed` works with what was loaded and
settles the difference, and the other reader's steps come in between. `history.overlapped`
notes a feed settled while the other reader had loaded. `Reopen` is `streams.insert` for a
call that was counted before: the one place where a call becomes a stray.

*Data.* A body is the set of its DATA frames the stream has read; bytes are
counted in frames. A frame's `luck` chooses what its bytes would decide: whether a
block is understood that refers to a table partly lost (one not understood gives
JSON, the default), whether a body with a hole parses, whether a later part of a
body looks like the start of one. What HPACK makes of a block is `Hpack`'s; the
byte level of frames, a call of several fragments, and a reader that breaks are
left to `FrameReader`.

### Hpack: one direction's header table

The peer's encoder (external: any encoder RFC 7541 allows) and the agent's
`Decoder`, side by side and field by field: `SetSize`, `SendIndexed` and
`SendLiteral` are one field of a block for both. A block of which bytes were
lost, or which is over `MAX_HEADER_BLOCK`, is `LoseBlock`: the connection
forgets the table and the encoder goes on alone. `LoseUnnoticed` is an SSL call
that left nothing in the ring. `Empty`, `Evict`, `Insert`, `Forget`, `Resize`,
`Lookup` are the functions of `hpack.rs`; a failed block forgets the table
(`Fail`). Header strings are names and values with a length. The history
variables: `fresh` counts the newest encoder entries the decoder has read since
it last forgot, `astray` says whether a block was lost unnoticed since, `got` is
the last field decoded beside the one that was sent. `set_limit` is left out:
nothing in the agent calls it, so the limit is `DEFAULT_TABLE_SIZE` whatever the
receiver announced, and `Announced > Limit` is a peer that was told to use more.

### SslCapture: what a record is made of

Each thread has a stack of SSL calls; `Enter` is a call with its entry probe (if
attached), `Capture`, `EmitOne` and `End` are the return probe: it takes up the
session from `START_NS`, `BUFS` and `READBYTES_PTRS` and submits one fragment at a
time, any of which may find no room. `ReturnUnseen` is a return of which no probe
ran, `Discard` one that failed, `Exit` a thread's end in whatever call it was, with the
task-exit tracepoint if there is one (`exitProbed`: without it the agent goes on with a
warning, `L/mod.rs:385-388`). Each of the three maps refuses an insert at `Entries`.
`AttachEnter`, `AttachReturn` and `AttachFails` are the loader, which attaches a
library's probes in the order of `Exported` while threads are calling. A call's
buffer is known by the number of the call, so that a record can be asked whose
bytes it carries. `counted` keeps the counters of `LLM_STATS` per call.

### FrameReader: HTTP/2 frames out of fragments

What one side sends is a sequence of frames, and a byte of it a place in it. `SslCall`
is one SSL call from its bytes to the reader: cut into fragments at `BufSize`, cut
off at the capture limit, the last of them missing when the ring had no room, fed one
after the other with what `h2_loss` makes of their offsets (`Fragment`: no gap, so many
bytes, or resynchronise). `OtherCall` is the next call after one that never came to its
end. `Read`, `SkipGap`, `ScanPush`, `Anchors`, `ResyncReader` are those of `frame.rs`; `reader` holds
the fields of the struct. What nine bytes that are no head are taken for is a
choice (`Junk`).

### Bodies: an HTTP/1.1 response body read as it comes

`Receive` takes the next tokens of a response of any cut, `Miss` loses some in one
place. A token is a byte of chunk framing, a line feed, or a piece of text that a
read may cut from the next. `Walk` is the chunked walk of `chunked.rs` with the rules
each of its users gives it (`Basic`, `EndedRules`, `WalkRules`), `FeedEvents` and
`FeedMessages` the cursors of `sse.rs` and `eventstream.rs`, resumed from where
`ResponseProgress` left them, and past `Limit` the body is followed without being
kept (`SseStream`, `JsonEnds`).

### Discovery: which files get the probes

One action per step of the main thread at whose border processes may come, open
libraries and go: `ScanLibs`, `ScanExes`, `SetupExecWatch`, `SetupLibOpenWatch`, then the
select loop (`ServeOpens`, `NotifyExec`, `ServeExecs`, `NextEvent`), each of which puts path
sets on an agenda that `attach_new_files` works off: `Begin`, `PickRound`, `AttachOne` (a probe
at a time, files side by side, a failure undoing the file's probes), `Record`,
`EndJob`, and `MarkSeen` (`LIB_OPEN_SEEN`). The queues hold `QueueSize` events and drop
the rest, `permits` is the `Notify` that batches, `Expire` an entry of
`LIB_OPEN_SEEN` that has become old enough to be reported again.

### PodResolver: which pod a process is in

A thread's steps are cut at its locks. What a thread holds and what it waits for
is computed from where it is (`Holds`, `Wants`), `BlockedBy` follows with the writer
preference of std's RwLock, and `Free` guards every step that takes a lock. Readers
resolve (`Lookup`, `ReadProc`, `InsertFound`, `Return`), the watcher
applies pod events (`TakeEvent`, `Warm`, which may find no cgroup, `Put`, `Unstore`, `Uncache`), the eviction task
takes both locks (`Tick`, `TakeFirst`, `EvictStaleCgroups`). Around them pods start, gain
containers, end; the watch is lost and pods are listed again; pids are used
again, but not while a record of the process waits in the ring.

### Plaintext: calls to services that speak plain HTTP

`Attach`, `AttachProgramsAndRead`, `Connect` are `start`; `LookupHost`, `GetService`, `ListSlices`,
`Push`, `Wake` a pass of the resolver, one lookup a step, each of which may fail; `Push`
skips a set equal to the last, caps it, and writes the endpoint map, inserting the new
keys while there is room before it removes the old (`refused` remembers the wanted keys that
found none). `Establish`, `Transfer`, `Close`
are the sockops and message programs, `Handle` the ring's reader, `Sweep` the
cleanup of an idle stream.

### Proof modules

`LlmStreamsProofs` (types of the pipeline), `LlmOnceProofs` (each call in one place, and the
refinement of `CallLedger`), `H2StreamsProofs`, `SslFilterProofs`, `HpackProofs`,
`PodResolverProofs`, `SslCaptureProofs`, `PlaintextProofs`: see section 5.

## 3. The runs

| Run | Shows |
|---|---|
| `lossy` | One connection reused, three exchanges of LLM and other requests, up to two losses of any kind, limits in reach: no call exported twice, notes at their offsets, no false loss, and without loss nothing foreign. |
| `polls` | Two connections, background creates and polls, room for one waiting call, time passing: a call that was exported is over everywhere, whoever took it, and the pipeline implements `CallLedger`. |
| `scenarios` | `contained`: with only Reads lost, between LLM calls, a loss costs only the calls it hits. `limits`: with nothing lost, bodies and requests past the buffer limits; the response is followed to its usage and the next call is not harmed. `settles`: a waiting background call is exported in the end, with only the cleanup loop fair. |
| `filter` | Up to three connections of any role in turn at one address, heads whole, cut or unreadable, the map entry evicted at any step, with and without `SSL_free` probed: an LLM call is dropped in the kernel for two causes only (section 6), and a provider's connection is skipped for good for the second of them only. |
| `capture` | Two threads in calls that nest, while probes are being attached: a record is of the call it is sent for, its missing bytes are counted, and what is in the session maps between probes is of a call that goes on, unless no probe saw its end. |
| `wire` | `fields`: any HPACK encoder, blocks lost anywhere, sizes set at will; a known name or value is the one sent, and what was read since a loss is held. `frames`: HTTP/2 frames over SSL calls cut anywhere, one of them losing fragments; what is read was sent, nothing is missed without loss, gaps are losses. `body`: HTTP/1.1 bodies cut anywhere with bytes missing; cuts do not matter, the usage is the body's, the end is the body's. |
| `h2` | `lossy`: two calls on one HTTP/2 connection, one SSL call lost or damaged in any way. `limits`: the same with nothing lost, room for one stream, and header blocks over the limit. `late`: one call in two parts that may stall between them, or be counted before its request head is read. `both`: two connections joined in the middle, one read by the SSL reader and one by the plaintext reader, that share the node's budget and whose feeds overlap. Budgets are what the streams hold; a connection stays under its cap, the node under its own but for one connection's when two feeds overlapped; a call is exported once unless a joined connection opened it again, and without loss none is missed and no stream stays behind. |
| `pods` | Two pods, lookups, a lost watch and the eviction task, on both cgroup versions: no threads wait in a circle, no process is named after another's pod, stale entries leave. |
| `setup` | `discovery`: two processes come and go while a library, an executable and a host's library without the functions are scanned and attached, with queues of one; probes are attached once and whole, no file is written off because its path vanished, and a queued open is tried. `lookups`: the resolver with failing lookups and a cluster that changes; the kernel comes to watch what the hosts resolve to, but for endpoints a full map refused, and nothing else. `connections`: an address and port used again over a ring of two records; the second use starts a new stream. |
| `node_bytes`, `early_head`, `reanchored` | Where a comment says otherwise than the code does; see section 6. |

**Bounds of the HTTP/1.1 pipeline.** Three exchanges are the fewest in which one is lost, one follows it
and one shows whether the stream recovered; two losses let a loss fall on the
recovery from another. Bodies have up to three parts and SSL_reads return up to
four tokens, so that every cut between head, body, end and the next response
occurs, as do two fragments of one read. `ReqLimit` and `RespLimit` are set to
be reached inside a response (`limits`, `lossy`) or not at all (`contained`).
`MaxPending = 1` in `polls` and `settles` makes every second create evict. One connection is
enough where the streams share nothing; two where they share the background
map, and there the connections are interchangeable (symmetry). `limits` needs two
exchanges, one past a limit and one after it.

**Bounds of the kernel's side.** In `filter`, addresses share nothing but the ring and user space's
verdict, which is about one of them at a time, so one address is checked; three connections at it are
an old one with a verdict, one in its window, and one after. `now` is bounded
by `MaxCalls` SSL calls: four are a foreign request, whose verdict is in the making, and a
split request with the rest of it and a read on the next connection. In `capture` two threads share session maps
with room for one entry, so that one call's inserts fail each on its own while the
other's hold; three calls are an outer and an inner one with one before or after
them; sizes 2 and 5 against fragments of 1, two at most, are below and above the
capture limit. SSL_read makes the handshake itself, as BoringSSL's does.

**Bounds of the readers.** In `fields` entries have sizes 1, 2 and 3 and the table sizes 0 to 2,
or 3 for a peer told to use more: from an empty table, through one entry that
fills it, to two small ones, and an entry no table holds, so that adding, evicting and emptying meet every
boundary. One static entry stands for the 61. The state is finite without any
bound on steps. In `frames` four frames follow one another, of seven shapes: DATA
with and without padding in front and behind, empty, header blocks whole and in
two frames, a control frame; of four, the last three can be the anchor of a scan.
A head has two bytes, so that it can be cut; calls of 1, 3 and 6 bytes fall on
every border of head, front, content and pad. `MaxBlock` 1 makes a second frame of a block
too many. In `body` the responses are listed in `MCResponses`: SSE texts whose data
lines look like chunk sizes, have null counts or follow the end marker, event
streams that fail, JSON objects below the limit and above it (`LongObjects`, with the usage in the head
that is kept, in the tail that is kept, and between the two, where it is not read), each chunked in one or two ways, length-framed or to the close. Reads
have up to four tokens and one place loses up to two.

**Bounds of HTTP/2.** In `H2Streams` every cap is one frame, so that the second stream or
the second connection meets it. The six SSL calls of `both` are two requests, their heads and
bodies. With two connections the bound that
`WithinBudgets` sets on the node after an overlap (`NodeCap + MidjoinCap`) is as much as both can
hold, so there the run checks the bound before one, and the rest is the theorem's
(`NoBudgetIsPassed`, for any number of connections). The six of `late` are a call in two parts with a
pause and a loss; the five of `lossy` a request, a loss, and the scan of three frames that
then are read; the five of `limits` a call up to its trailers and a second one refused.
A scan needs three heads (`Run`), in `both` and `late` two, so that both
connections can be joined, anchored and buffering within the calls there are. `MaxStreams`
is one in `limits`, so that a second stream is refused. Requests given up and GOAWAY on a connection
joined in the middle are looked at in `late` alone.

**Bounds of the rest.** In `setup` a queue of one overflows at the second event;
`ATTACH_ROUNDS` is three as in the code, so that a path may vanish in each; one
executable is `Fragile`, one library has optional functions and one file none. In `pods`
one pod is a Job's, one pid is used again, one container at a time is enough for a
lookup to race its deletion, and a second pod shows whose answer it is. For
plaintext capture one connection's slot and one endpoint's are all there is (`Capacity`,
`ConnsSize`). Of the three addresses two are of IPv4 and so have a key; when a host moves from one
to the other, the new endpoint finds the map full of the old one and is refused. Lookups
fail where no connection is made: the resolver reads nothing of the connections, and what a
failure takes from the endpoint map, a change of the cluster takes as well.

**Deadlock** is checked in the pipeline's runs (`lossy`, `polls`, `scenarios`). The others
count calls, connections, processes or changes and stop there; what could block
there for ever is stated instead: `NoWaitCycle`, `OpenIsTried`.

**`LossIsContained` and its limits.** It is stated for lost Reads of LLM calls
with framed bodies. The code does not promise more, and TLC shows why: a lost
*response to a request that is not an LLM call* hides the next request, which
looks like more of the first; a lost Write among body writes looks like a request
without its end; an interim response after a lost read can fill the hole of a
length-framed body. In all of those `AtMostOnce` still holds (`lossy`).

**Fairness.**

* `scenarios`: weak fairness of `Cleanup` alone. The cleanup thread
  is an endless loop with a sleep. Clients need not go on, and the ring's reader
  is not assumed to be scheduled. Polls are finite in the model (exchanges are);
  a client that polls for ever keeps its call waiting for ever, rightly.
* `setup`, discovery: weak fairness of the main thread's own steps, strong fairness of
  each branch of its `tokio::select!`, which polls ready branches in random order.
  Processes need not do anything.
* `pods`: lookups and the eviction task are weakly fair: a reader's lock comes free
  once the writer that waits for it has had it. The watcher's writes are strongly
  fair, since readers come again and again, but leave the lock free in between.
* `setup`, plaintext: start, the resolver's loop and the ring's reader go on (weakly fair).
  Connections and the cluster need not.

## 4. Properties and hazards

`AtMostOnce` needs a create and two polls on two connections, or an expiry
between a poll's read and its settlement, to break; `ExportedCallIsOver` relates
the ledger to the four places that can still hold a call;
`NotedRequestIsAtItsOffset` survives every cut of the write buffer;
`NoFalseCaptureLoss`, `NoForeignUsage` and `CompleteWithoutLoss` say what the
agent owes while nothing is lost. `MissedForKnownCause` and `SkippedIsForeign` need
a cut head, or a verdict, a reuse and a call, in one order out of many, and say that nothing
but what they name can cost a call. `EntriesAreOfCalls` fails if one way out of a call, the failed one,
the dropped or the lost one, leaves its entry. `RecordIsOfItsCall` and
`LengthIsOfItsCall` need a nested call, a missed probe and a full map together.
`BufferedIsHeld` and
`NodeIsShared` relate counters kept by difference, on some ten paths, to what they
count, and `WithinBudgets` says by how much overlapping feeds may pass the node's cap;
`AtMostOnce` of `H2Streams` holds but for calls opened again on a connection joined in the
middle (`history.strays`), which section 6 explains. `KnownIsRight` and
`KeepsWhatItSaw` need a loss, a resize and several additions that make the two
tables evict differently. `EventsAreRight`, `GapsAreLosses` and `ShortRunAnchors` relate
what the reader gives to the bytes that were sent, whatever was cut and lost, and
`SplitsDoNotMatter` compares the resumed readers of a body with one that reads it at once.
`ProbesFitTogether` counts the links of a library through failures,
roll-backs and repeated attempts; `AnswersAreRight` compares an answer with the pod
the process was in when its record was made. `KernelFollowsCluster` fails if a key that is no
longer wanted stays, or one that is wanted is left out although there was room for it. Each property has a
mutant of the code (an operator named for what it does wrong, next to the one
it replaces) that TLC finds violating it.

The modules state more than the runs check. These hold in the same instances and are left
out of the runs for their length: `LlmStreams!FailsOnlyOverLimit` and
`ContinuationMatchesRequest`, `SslFilter!ServerIsSkipped`, `PodResolver!RunningStaysCached`,
`CronJobIsKept` and `RunningIsStored`, `Plaintext!ConnsAreOpen` and `ClosedStreamEnds`,
`Discovery!ExecIsTried`, and the type invariants but that of `LlmStreams`. Others the code breaks: section 6.

## 5. What is proved

TLAPS proves, for every value of the constants that meets the assumptions:

* **`LlmStreamsProofs!TypeCorrect`**: `Spec => []TypeOK`. The inductive invariant is
  `TypeInv == TypeOK /\ StreamsOK /\ ConnOK /\ RingOK`. `TypeOK` is not inductive:
  `Settle` may only be reached with the call or poll the stream is about, so
  `StreamsOK` adds that a stream past detection knows its call; and the tokens of
  a fragment have the direction they claim only because clients and capture made
  them so (`ConnOK`, `RingOK`). One lemma per operator of `StreamProcessor`, one
  per action. Assumed: `BackgroundAssumption`, `StreamAssumption`,
  `StreamsAssumption`, the ranges of the constants.
* **`LlmOnceProofs!NoCallTwice`**, **`ExportedIsGone`**, **`NoteStaysValid`** and
  **`ContinuationIsThePolls`**: `Spec => []AtMostOnce`, `[]ExportedCallIsOver`,
  `[]NotedRequestIsAtItsOffset`, `[]ContinuationMatchesRequest`, for any connections, calls,
  limits, losses and interleaving of the reader with the cleanup task. None is
  inductive: that a stream exports a call says nothing of a second export by the
  background map or the cleanup task, nor of the same request noted twice. The
  invariant is `Once`: types, and
  - `PlacesApart`: a call is in one place at most. The places are a stream (as the one in
    progress, the noted one, or one its write buffer holds), the background map, the
    hands of the cleanup task (`swept`, `expired`), the ring, what the client has not yet sent,
    and the ledger (exported, or lost). All are sets of calls, and the invariant is that
    they are disjoint, within a stream, between two streams and outside of them.
  - `StreamsOrderly`: the write buffer holds a stream's requests in order, so the note's
    offset is the place of a request behind the one in progress. `RingOnce`: one
    SSL_write brings one request.

  The operators of `StreamProcessor` are long and call one another, so each is
  shown once to have one of a few *effects* on the places of its context (`Keeps`,
  `Ends`, `Detects`, `Notes`, `Defers`, `Evicts`, `Takes`: where a call goes from, where to, and that
  no other moves), and only the effects are shown to keep places apart. `RouteFragmentEffect`
  composes them into that of a ring record.
* **`LlmOnceProofs!PipelineKeepsLedger`**: `Spec => ImplementsLedger`, that is
  `CallLedger!Spec` under the mapping of `LlmStreams` (`Stage`, `ledger.why`). Since places are
  apart, the stage of a call is the place it is in (`StageIsPlace`), and each effect is a
  move of single calls along the ledger (`Same`, `Moves`, `Exports`, `Settled`). A ring record is
  two of them: what it tells of losses, which may drop or export calls but records
  and opens none (`Told`), and what it brings, which records one at most (`RecordsOne`) and opens
  one at most (`SeesOne`); `AdvanceIsStep` makes a ledger step of the two. The sweep and
  the count of the cleanup task are steps that export with reasons. Taking expired calls out
  of the map changes no stage because `expired` holds them until they are counted;
  that needs one more invariant, `NothingTakenOut`: outside of the count nothing is in
  `expired`, so that the next expiry overwrites nothing.
* **`H2StreamsProofs!CallsAreCountedOnce`**: `Spec => []AtMostOnce`, for any connections, stream
  ids, kinds of responses, budgets and losses, from `H2Assumption`. That a call was counted
  does not say that nothing of it is to come: DATA of it opens a speculative stream on a
  connection joined in the middle, and so may DATA that lay in the scan for an anchor. The
  invariant (`Sound`, of each connection) adds that a call that was counted has no stream,
  no DATA in a scan, and a server that is done with it (`CountedOnce`, `Done`); and,
  for the scans, that the frame that is the last word on a call (`Finishes`: the end of its
  stream, RST_STREAM, a GOAWAY in front of it) was said by a server done with it and lies behind
  all of its DATA (`Ordered`). A call that was swept as stalled is exempt only from where it is opened
  again (`MayOpen`, `Reopens`), and `UnjoinedInv` shows that a connection that was never joined in the
  middle has no strays: there a request head is read before anything of its response is, so that what
  it opens was never counted. A frame has one of two effects on a call (`Effect`); that all
  frames a scan ends with keep the calls counted once is shown by induction on their
  number, as a least counterexample (`Least`, `ReadsOnce`).
* **`H2StreamsProofs!WhatIsBufferedIsHeld`**, **`NodeCountsItsShares`** and
  **`NoBudgetIsPassed`**: `Spec => []BufferedIsHeld`, `Spec => []NodeIsShared` and
  `Spec => []WithinBudgets`, for any caps and any number of streams and connections. The
  invariant is `BudgetInv`. The streams of a connection are finitely many and `buffered` is the sum
  over them (`Balanced`); what a frame reads, gives up, ends or resets changes one term of the
  sum or takes it out, and the sweep of idle streams takes out those of a set. Before a frame is
  buffered the cap is looked at, so that the sum never passes it (`Limit`). The node's counter
  is a sum over the connections joined in the middle, which share it (`Sharers`), and a step
  changes one connection: feeding settles the difference of its share, closing and retiring
  give all of it back (`SharedMoves`, `MovesKeepsBudgets`), so that the unsigned counter
  never goes below what it holds. A reader that has loaded the counter may add what that left
  room for (`Pending`); with what both readers may still add, the shared bytes pass the node's cap by
  one connection's cap at most, and as long as no feed was settled under a loaded one, not at all
  (`Fits`). All that until a connection turns into a
  shared one with bytes buffered (`history.turned`), which run `node_bytes` shows to go wrong.
* **`H2StreamsProofs!NothingIsLostOfWhole`** and **`TablesHoldRunningCalls`**:
  `Spec => []CompleteWithoutLoss` and `Spec => []OverIsUntracked`, of any connection seen
  whole, for any streams, frames of a response and caps. The invariant (`WholeInv`) says
  what such a connection has of each of its calls: nothing is lost or waits for an anchor in either
  direction (`InStep`), no stream is left of a call that is over (`Current`), and an LLM
  call that runs has a stream with all of the response so far, or was counted when that stream was
  given up (`Running`, `FollowedBy`); the latter unless `MAX_STREAMS` or a header block over its limit
  was in the way (`history.limited`). A frame means one step of the call it is about and
  none of the others' (`Turn`, `Turns`), and `TurnTracks` shows, one kind of frame at a time, that
  reading it takes what is had of the call before that step to what is had after it.
  `SweepTracks` adds that the sweep takes only streams that got data of a response, and counts
  each. `H2Assumption` has ids positive, as RFC 9113 does: stream 0 is the connection
  itself, and frames about it bring nothing of a call.
* **`SslFilterProofs!CallsAreSent`** and **`ProvidersAreNotSkipped`**:
  `Spec => []MissedForKnownCause`, `Spec => []SkippedIsForeign`, for any addresses,
  roles, evictions and numbers of connections and calls, assuming
  `BodyHeads \subseteq {"other", "short"}`: no body write of a client begins like a
  request or a status line. (Without it both are false: `after_write` takes a
  status line for a server's whenever the class is Unknown, which a short write
  makes it again, and any method for a new request once a Read was seen, which
  may have been a 100 Continue.) The argument: along an exchange with a provider the entry of
  its connection, the copy a return probe has looked up, and the entry an absent
  one would be made into all *send* (`ExchangeIsSent`, `CallIsSent`), unless its head could not be read for what it
  asks (`Owed`): the head of a request sends whatever class it meets, except SkipConnection, and body bytes and
  reads keep a sending class. SkipConnection comes from a status line, which only
  servers write (`OnlyStatusSkips`), or from a verdict. A verdict is about a
  foreign connection's record (`VerdictIsForeign`), every record in the ring and
  the verdict carry a time no later than the connection that made them, and a
  later connection's entry is born later (`RingIsOlder`, `VerdictIsOlder`,
  `ProbesAreOlder`): so `LookUp` refuses it, unless the connection was opened
  after `LookUp` read the map, and then it is in `exposed`. So is a connection opened over an entry
  that a free nobody probed left behind, when its own handshake was not probed either
  (`FreedIsEmpty`, `SparedIsNotSkipped`). A lookup and its
  connection stay together because a connection is not freed under a call
  (`LookedUpIsCurrent`).
* **`SslCaptureProofs!RecordsAreOfTheirCalls`** and **`EntriesBelongToCalls`**:
  `Spec => []RecordIsOfItsCall` and `Spec => []EntriesAreOfCalls`, for any threads, functions, sizes, nesting and map limits, and while the loader is still
  attaching. A session belongs to the thread and not to the call, so a call made
  inside another overwrites the outer one's; that is harmless because the inner
  one's return clears it (`SessionsAreProbed`), which supposes that the inner return
  is probed whenever the outer is. It is, because a library's functions are probed in an
  order in which callees come first (`ProbedInOrder`), so that an inner call whose
  entry alone is probed lies inside none whose return is (`CallsAreNested`).
  `CaptureAssumption` says that order of a library: each function once and of the
  probe tables, the handshake calls none of the others, and what else one calls was
  probed before it; TLC evaluates it for the library of `capture`.
  For `EntriesAreOfCalls` an entry is shown to be of a call on its thread's stack whose entry was
  probed (`Owned`): whichever way that call is left, its return clears the maps, or it was not
  probed, or the thread was killed unseen, and then the thread is in `left` until they are cleared next.
* **`SslCaptureProofs!MissingBytesCounted`**: `Spec => []MissingBytesAreCounted`, for any
  buffer size, fragment limit and sizes. A call is emitted once: it is on its thread's
  stack with no record of it, or in the thread's probe, or over (`CallsAreApart`,
  `StackedIsUnsent`). While it is emitted, its records end where the next fragment
  begins (`Follows`). The loop ends for one of three reasons (`FragmentEnds`): the call's
  end is reached, the capture limit is, and then the first fragment counted the
  call as truncated, or `MAX_SSL_FRAGMENTS` is, which for a read is that limit and for a
  write comes after it. A fragment that finds no room counts the call as truncated
  unless it was the first, of which nothing is missing from its records.
* **`SslCaptureProofs!LengthsAreOfTheirCalls`**: `Spec => []LengthIsOfItsCall`, if the library's
  `_ex` functions call no probed function but the handshake (`ExCallNone`: OpenSSL's do
  not; the module `MCSslCapture` has TLC evaluate it for the library of `capture`). A
  thread's length entry is that of an `_ex` function it is in, unless it left one
  unseen (`LengthsAreOfCalls`); above that call are handshakes only
  (`ExIsInnermost`), which leave no buffer, so the call whose buffer is sent is the one
  whose length is read. Without `ExCallNone` an inner function would read the outer's
  length while the outer's return is not probed yet.
* **`HpackProofs!FieldsAreRight`**: `Spec => []KnownIsRight`, for any strings,
  lengths, static table and sizes. The inductive invariant adds to it that the
  decoder's table and the encoder's agree from the newest entry on (`Aligned`),
  and that the decoder's is empty while a block it does not read may add to the
  other (`LostIsEmpty`). The tables stay aligned although each evicts on its own
  count, and the decoder on an underestimate of it: evicting cuts the old end of
  either (`FittingIsPrefix`, `FittingKeepsAligned`), and what is left is compared
  only as far as both go.
* **`PodResolverProofs!LocksNeverDeadlock`**: `Spec => []NoWaitCycle`, for any number of
  readers. It is a fact of the lock order and needs no invariant (`NoCircle`): who
  holds a lock holds `cgroup_cache` and waits for `pod_store` at most, nobody who
  holds `pod_store` waits, and a reader behind a queued writer waits for a thread
  that itself holds nothing.
* **`PodResolverProofs!AnswersBelong`**: `Spec => []AnswersAreRight`, for any pods,
  containers, pids and readers, from `ResolverAssumption`. The inductive invariant:
  the store and every event in flight name the pods the containers were started
  for (`EventsAreOwned`), a reader's finding is the container its process was in
  (`ReadersAreRight`), the cache maps a container's cgroup to that container
  (`CacheIsIdentity`), and a hit it has the lock on stays (`HitsAreLocked`). On cgroup v1 the
  cache is never written. `PodTypesCorrect` proves the module's type invariant.
* **`PlaintextProofs!ReusedFlowsAreApart`** and **`ConnsStayOpen`**:
  `Spec => []ReusedFlowIsNewStream` and `Spec => []ConnsAreOpen`, for any hosts, endpoints,
  processes, ports and sizes of maps and ring, from `PlaintextAssumption`. The invariant follows what was captured of a
  connection along a line of *places*: its stream, then the ring's records in order (`Seen`).
  Once a connection is closed, its close record is behind all of it, or found no room
  (`ClosedIsEnded`); and it lies before whatever a later connection with the same
  addresses and ports sends under the same key (`ReusedIsApart`). The record has the
  key of the data because the connection's entry stays the same while it is open
  (`SeenIsCaptured`), and of open connections no two have the same addresses and ports
  (`FlowsApart`). Handling a record moves all others one place nearer, so that it keeps
  their order; the sweep of an idle stream only takes from the first place. Two connections
  that differ in the local address alone may share a stream all the same: section 6.

Only model-checked: liveness (`BackgroundSettles`, `OpenIsTried`, `StaleEntryLeaves`,
`KernelFollowsCluster`), which needs ENABLED and fairness the prover does not handle; what folds
over bytes compute (`FrameReader`, `Bodies`: recursive operators, which the prover does not
read); the invariants of `LlmStreams` that suppose nothing was lost
(`NoFalseCaptureLoss`, `NoForeignUsage`, `CompleteWithoutLoss`) or a single Read was (`LossIsContained`): they need the
framing of every cut of a response, token by token, which is induction over a
sequence; `Discovery`; the resolver's half of `Plaintext`, whose one property is of liveness;
`KeepsWhatItSaw`.

## 6. Where the code and its words differ

* `early_head`: the bytes of an upload a server answers early stay in the write
  buffer, and the next LLM request behind them (`L/processor.rs:710-722`).
* `node_bytes`: a connection whose client side re-anchors becomes a mid-join one
  with bytes buffered that `MIDJOIN_NODE_BYTES` never had (`L/http/h2/conn.rs:131`). They
  are subtracted when its streams end or it is dropped; the counter wraps below
  zero, and no mid-join connection of the node has room from then on.
* `reanchored`: `resync` keeps the number of head bytes already read
  (`honeybeepf-llm-core/src/h2/frame.rs:186`), so that the first head after the anchor
  is put together from two, and what follows is read as frames never sent.

### Findings without a run

Properties that quote the code's words and that TLC finds violated by the models.
They stay in their modules, unchecked by any run:

* `LlmStreams!SeenCallIsCounted`: a noted LLM request is forgotten uncounted when its connection ends
  (`L/processor.rs:493-515`; README.md:167, `llm_responses_unparsed_total`). The converse
  differs too: a noted request that is no LLM call is
  counted as unparsed when the next one replaces it (`L/processor.rs:509`).
* `SslCapture!StartOverwrites`: "Session::start overwrites any existing entry"
  (`E/llm/mod.rs:35`), but when `READBYTES_PTRS` is full the insert fails, and an `_ex`
  call's length is taken from its return value, 1. A plain call also leaves the
  entry of an `_ex` call whose return was not seen. `LengthIsOfItsCall` excepts both, and
  supposes that no `_ex` function calls another probed one.
* `SslFilter!OnlyOthersAreDropped`: the kernel "drop[s] non-LLM calls before the ringbuf"
  (`ssl_class.rs:1`), but a poll whose head is written in two, the first part of 8 to 31 bytes, or
  whose path cannot be read, is a GET like any other (`E/llm/filter.rs:26-33`) and dropped with its
  response; a test says so of the former (`ssl_class.rs:254-258`). A head of which the first 8 bytes
  cannot be read is no request at all (`filter.rs:22`), so that on a connection in SkipRequest the call
  is dropped as the one before. `MissedForKnownCause` names both (`misread`).
* `FrameReader!ThreeHeadsAnchor`: `scan_push` keeps "enough tail to hold three frames"
  (`frame.rs:413-416`) of the middling sizes: it cuts the front before it looks for the
  anchor, and heads that span more than two of the largest frames are cut off.
  `ShortRunAnchors` is what it does keep.
* `FrameReader!NeverBreaks`: a reader may anchor at a CONTINUATION, or at a head put
  together from two, which breaks it for good, though `frame.rs:184` excludes that.
* `Discovery!OpenedLaterIsAttached`: processes are scanned before the hooks are set up
  (`honeybeepf-llm/src/lib.rs:168`); a library opened between the two is seen by neither.
* `Discovery!SeenMeansTried`: an open is entered in `LIB_OPEN_SEEN` whether its attach was
  settled or not; when the path vanished in every round it is not retried on the
  next open until the entry is old.
* `PodResolver!StoreIsInSync`: a pod deleted while the watch is lost stays in the store: the
  listing that follows names only pods that exist (`honeybeepf-llm/src/k8s.rs:151`).
* `PodResolver!WorkloadIsKept`: "keep the stored workload" (`k8s.rs:278`) asks for any stored
  container; after the events have replaced all of a Job pod's containers a
  failed lookup stores the Job in place of the CronJob.
* `Plaintext!WatchesCurrent`: "the kernel always watches exactly the current endpoints"
  (`honeybeepf-llm/src/plaintext.rs:243`): new keys are inserted before old ones are removed,
  so one that finds the map full is left out, and an equal set is not pushed again. With a
  map as large as the set's cap this needs a change of more endpoints than are free.
* `Plaintext!FailureUndoesAttach`: only a failure of `attach_programs_and_read` detaches the
  sockops program; one after it (`plaintext.rs:361-366`) leaves it attached.
* `Plaintext!StreamIsOneConnection`: the stream's key leaves the local address out, so a process with two
  addresses may use the same port and remote at the same time in one stream.
* `Plaintext!AttributedToItsProcess`: the pid of a connection is that of the task in which the
  establishment runs (`E/plaintext.rs:77`), which for a passive one or a late packet
  is any.

Seen while modelling, and written into the properties as exceptions:

* A verdict's age check and its write are separate map operations
  (`L/conn_filter.rs:57`): a connection opened between them takes the verdict of the
  one before. `MissedForKnownCause` and `SkippedIsForeign` name the exception (`exposed`). They name
  with it a connection that nobody saw shake hands, at an address whose last connection nobody saw
  freed: it begins with that one's entry.
* A return probe overwrites a verdict made since its lookup (`E/llm/filter.rs:16`), though
  `ssl_class.rs:12` says "for good"; the connection is sent again until the next one.
* An SSL call whose first fragment finds no room in the ring leaves no gap
  behind it (`E/llm/mod.rs:260`): the header table is not forgotten, and later indices
  may give other headers than the ones sent, though `hpack.rs:89` speaks of
  `Unknown`. `KnownIsRight` excepts it (`astray`).
* A tracked HTTP/2 stream that ends without usage and is neither over a cap nor
  speculative, or whose header block is too large, is neither recorded nor
  counted (`L/http/h2/conn.rs:229-235, 252-274`; README
  `llm_responses_unparsed_total`).
* On a connection joined in the middle, or one whose client side re-anchored, a call that was
  counted may be opened again and counted twice: given up as stalled, by the DATA its server goes on
  with (`conn.rs:236-251`); or tracked and counted before its request head was read out of the scan,
  or given up before it, by that head (`conn.rs:205-215`). These are the `strays`; a connection
  that was never joined has none.
* The room of the node is loaded before a feed and settled after it (`conn.rs:138-144, 154-156`),
  and the SSL and the plaintext reader do so in two threads (`L/mod.rs:344-366`): when both load
  before either settles, `MIDJOIN_NODE_CAP` is passed by up to one connection's cap.
  `WithinBudgets` names it (`overlapped`).
* An endpoint refused by a full map counts as inserted (`plaintext.rs:263-268`) and is not tried
  again as long as it is wanted. `KernelFollowsCluster` names those (`refused`).
* On a connection joined in the middle an SSE response is tracked, as
  `conn.rs:236-238` says, but read as JSON (`open_speculative`): it is recorded only if
  its request was matched, and else counted as `headers_lost`.
* A request its client aborts before the first byte of the response keeps its
  place among `MAX_STREAMS` until the connection closes (`conn.rs:304`).
* `Dechunker`'s basic rules do not read chunk extensions, which the walks that find a
  body's end do: a body with extensions ends where it should and gives no usage.
  `UsageIsTheBodys` excepts such bodies.
* A pid that was used again while a record of its old process waits would be
  looked up in `/proc` as the new one (`k8s.rs:113`); the model excludes it.
* `ssl_class.rs:143` takes a status line "only as the first Write",
  the code whenever the class is Unknown; `ssl_class.rs:24` speaks of a response's
  first Read, the code marks an interim one too.

## 7. What is abstracted, and what is not modelled

* `StreamProcessor`: the HTTP/2 branch, which is in `H2Streams` and `FrameReader`, and the
  legacy `Http2Parser` try in `detect`; a status line or
  request head cut in the middle; pipelined requests (LLM clients send none); the
  contents of bodies beyond the result their JSON shows; `Encoding`s the decoders do
  not know.
* `LlmStreams`: pods and processes as labels of a call.
* `SslFilter`: SSL_clear
  without a handshake after it; SSL_free of a connection another thread has a
  call on, which OpenSSL forbids; the cleanup of idle streams, which removes only
  what it counts; a Host header inside the body; the low byte of a birth time,
  which the class shares (256 ns).
* `SslCapture`: what the class filter drops, the bytes themselves, the sampling of
  stacks, and the tail calls of the fragment sizes, of which each sends one record as `EmitOne` does.
* `FrameReader`: the client's preface, stream identifiers and PRIORITY fields, a chance run of three
  heads in a payload, an SSL call of which no fragment came (that is `H2Streams`' and `Hpack`'s).
* `Bodies`: decompression, CRC and base64 (a message with bytes missing fails), which JSON
  fields hold the usage, and the contents of lines and messages beyond the kinds listed.
* `Discovery`: parsing of `/proc` and ELF files; the order in which workers pick files is any.
  Idealised: every detach succeeds, where the code goes on with a warning, or without one, and leaves
  a probe behind (`L/mod.rs:134-140, 153`); two paths are the same file if and only if they are,
  where `probes/discovery.rs:95-137` infers it from mount types, device, inode, size and times; a path
  means the same file until it vanishes, where it may be replaced while an open waits in the queue; and
  every library of a process is tried, where `on_exec` first asks whether the file its path was resolved
  to is still named `libssl.so` (`L/mod.rs:266-273`).
* `PodResolver`: labels and how ids are parsed; pids used again while a record of the old process
  waits (section 6). `Plaintext`: how an endpoint string is parsed, a slice's ready flags.

Not modelled: the provider registry, usage extraction and pricing (pure functions of bytes and
tables, without state), file access and process
lifecycle probes (one event in, one line out, no state), telemetry and settings
(instruments and environment variables), build and deployment. `PROJECT.json` lists them with the
reason.

## 8. The plan

Done: the HTTP/1.1 pipeline and its ledger, the class filter, capture, HPACK, the frame
reader, HTTP/2 streams, body decoders, discovery, pod identity and plaintext capture, with
proofs about seven of them. Left, in the order of what matters most to the counts the agent reports:

1. That `H2Streams` implements `CallLedger` but for the strays.
2. `FrameReader` composed with `H2Streams`, so that a gap's place decides what a stream loses.
3. `KeepsWhatItSaw`, whose invariant must bound the decoder's size by the encoder's.
4. `ProbesFitTogether` and `TriedIsProbed` for any files and rounds.
