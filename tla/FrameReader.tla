----------------------------- MODULE FrameReader -----------------------------
(***************************************************************************)
(* HTTP/2 frames read from what capture leaves of one side's bytes         *)
(* (h2/frame.rs), and the gaps the stream processor finds between the      *)
(* fragments of SSL calls (h2_loss in processor.rs).                       *)
(*                                                                         *)
(* A byte is known by its place in what the side sends, the client's       *)
(* preface left out.  What nine bytes that are no frame's head are taken   *)
(* for is a choice (junk); that payload bytes form three chaining heads by *)
(* chance is not considered.  Frames of the connection and streams' resets *)
(* are of one kind, control, and carry nothing that is gathered.           *)
(***************************************************************************)
EXTENDS Integers, FiniteSetsExt, SequencesExt

CONSTANTS
    Wires,        \* what a side sends: sequences of frames
    Joins,        \* places at which the agent may join
    HeadLen,      \* bytes of a frame's head: 9
    MaxFrame,     \* the longest payload: SETTINGS_MAX_FRAME_SIZE
    MaxBlock,     \* MAX_HEADER_BLOCK
    BufSize,      \* MAX_SSL_BUF_SIZE
    MaxFragments, \* MAX_SSL_FRAGMENTS
    Lengths,      \* bytes that an SSL call writes or reads
    MaxLoss       \* calls of which fragments find no room in the ring

VARIABLES
    side,      \* "client", whose bytes are written, or "server"
    wire,      \* the frames it sends
    bytes,     \* the same, byte by byte
    at,        \* bytes it has sent
    losses,
    reader,    \* the FrameReader
    next,      \* frag_next: 0, or how far an unfinished call got
    gap,       \* h2_gap_client or _server: None, Resync, or the bytes to skip
    fed,       \* history: the last byte the reader was given
    events,    \* history: what the reader passed on
    arrived,   \* history: bytes it was given since it last resynchronised
    astray     \* history: what may have led it astray

capture == <<at, losses, next, gap>>

history == <<fed, events, arrived, astray>>

sent == <<side, wire, bytes>>

vars == <<sent, capture, reader, history>>

(***************************************************************************)
(* The bytes.                                                              *)
(***************************************************************************)
PayloadLen(f) == f.front + f.content + f.pad

(* A block is open from a HEADERS frame without END_HEADERS to the         *)
(* CONTINUATION with it.                                                   *)
WellFormed(w) ==
    \A i \in DOMAIN w :
        (w[i].kind = "continuation") <=>
        (i > 1 /\ w[i - 1].kind \in {"headers", "continuation"} /\ ~w[i - 1].ends)

FrameBytes(w, i) == [k \in 1 .. HeadLen + PayloadLen(w[i]) |-> [of |-> i, at |-> k]]

Bytes(w) == FlattenSeq([i \in DOMAIN w |-> FrameBytes(w, i)])

Role(b) ==
    LET f == wire[bytes[b].of]
        k == bytes[b].at - HeadLen
    IN  CASE k <= 0                    -> "head"
          [] k > 0 /\ k <= f.front     -> "front"
          [] k > f.front + f.content   -> "pad"
          [] OTHER                     -> "content"

ContentOf(i) == {b \in DOMAIN bytes : bytes[b].of = i /\ Role(b) = "content"}

(***************************************************************************)
(* The reader.  of is the frame whose head it read last, 0 if what it took *)
(* for a head is none; block the bytes of the header block in progress.    *)
(***************************************************************************)
NoBlock == [open |-> FALSE, large |-> FALSE, from |-> 0, buf |-> {}]

NewReader ==
    [state |-> "head", head |-> <<>>, of |-> 0, left |-> 0, front |-> 0, pad |-> 0, block |-> NoBlock,
     scan |-> <<>>]

Junk == [kind : {"data"}, front : {0}, content : 1 .. MaxFrame + 1, pad : {0}, ends : {FALSE}]

(* What the last nine bytes say. *)
FrameRead(r, junk) == IF r.of = 0 THEN junk ELSE wire[r.of]

FrameHead(h) ==
    IF \A k \in DOMAIN h : bytes[h[k]].at = k /\ h[k] = h[1] + k - 1 THEN bytes[h[1]].of ELSE 0

(* A reader and what it passes on. *)
With(r, out) == [r |-> r, out |-> out]

Emit(x, e) == [x EXCEPT !.out = Append(@, e)]

CheckHead(r, f) ==
    /\ PayloadLen(f) <= MaxFrame
    /\ r.block.open = (f.kind = "continuation")
    /\ f.front <= PayloadLen(f)

FinishFrame(x, f) ==
    LET r == [x.r EXCEPT !.state = "head"]
        y == [x EXCEPT !.r = r]
    IN  CASE f.kind = "data" /\ f.ends -> Emit(y, [what |-> "end", of |-> r.of])
          [] f.kind = "control" -> Emit(y, [what |-> "control", of |-> r.of])
          [] f.kind \in {"headers", "continuation"} /\ f.ends /\ r.block.open ->
               Emit([y EXCEPT !.r.block = NoBlock],
                    [what |-> IF r.block.large THEN "large" ELSE "headers", of |-> r.block.from,
                     to |-> r.of, buf |-> r.block.buf])
          [] OTHER -> y

StartFrame(x, junk) ==
    LET of == FrameHead(x.r.head)
        r == [x.r EXCEPT !.head = <<>>, !.of = of]
        f == FrameRead(r, junk)
        started == [r EXCEPT !.state = "payload", !.left = PayloadLen(f), !.front = f.front, !.pad = f.pad,
                       !.block = IF f.kind = "headers"
                                 THEN [NoBlock EXCEPT !.open = TRUE, !.from = of] ELSE @]
    IN  IF ~CheckHead(r, f) THEN With([r EXCEPT !.state = "broken"], x.out)
        ELSE IF PayloadLen(f) = 0 THEN FinishFrame(With(started, x.out), f)
        ELSE With(started, x.out)

(* Mutant: the bytes over the limit are dropped and the block passed on. *)
GrownSilently(block, b) ==
    IF block.open /\ Cardinality(block.buf) < MaxBlock THEN [block EXCEPT !.buf = @ \cup {b}] ELSE block

Grown(block, b) ==
    IF ~block.open \/ block.large THEN block
    ELSE IF Cardinality(block.buf) + 1 > MaxBlock THEN [block EXCEPT !.large = TRUE]
    ELSE [block EXCEPT !.buf = @ \cup {b}]

ContentLeft(r) == r.left - r.pad

(* A byte of the payload: padding fields first, then content, then padding. *)
Payload(x, b, f) ==
    LET r == x.r
        took == [r EXCEPT !.left = @ - 1]
    IN  CASE r.front > 0        -> With([took EXCEPT !.front = @ - 1], x.out)
          [] r.front = 0 /\ ContentLeft(r) > 0 /\ f.kind = "data" ->
               Emit(With(took, x.out), [what |-> "data", of |-> r.of, byte |-> b])
          [] r.front = 0 /\ ContentLeft(r) > 0 /\ f.kind \in {"headers", "continuation"} ->
               With([took EXCEPT !.block = Grown(@, b)], x.out)
          [] OTHER              -> With(took, x.out)

(* After skip_gap a frame may have nothing left before its next byte. *)
Step(x, b, junk) ==
    LET y == IF x.r.state = "payload" /\ x.r.left = 0 THEN FinishFrame(x, FrameRead(x.r, junk)) ELSE x
        r == y.r
        f == FrameRead(r, junk)
    IN  CASE r.state = "broken" -> y
          [] r.state = "head" ->
               LET z == [y EXCEPT !.r.head = Append(@, b)]
               IN  IF Len(z.r.head) = HeadLen THEN StartFrame(z, junk) ELSE z
          [] r.state = "payload" ->
               LET z == Payload(y, b, f) IN IF z.r.left = 0 THEN FinishFrame(z, f) ELSE z

ReadAll(x, input, junk) == FoldLeft(LAMBDA y, b : Step(y, b, junk), x, input)

(* Three heads that chain begin at s[k]. *)
Chains(s, k) ==
    LET i == bytes[s[k]].of
        far == IF i + 2 > Len(wire) THEN Len(s)
               ELSE 3 * HeadLen + PayloadLen(wire[i]) + PayloadLen(wire[i + 1]) - 1
    IN  /\ bytes[s[k]].at = 1
        /\ k + far <= Len(s) /\ s[k + far] = s[k] + far

Anchors(s) == {k \in DOMAIN s : Chains(s, k)}

(* Mutant: the heads of the three frames are forgotten. *)
ScanCapOfPayloads == 2 * MaxFrame

ScanCap == 2 * MaxFrame + 3 * HeadLen

LastOf(s, n) == IF Len(s) <= n THEN s ELSE SubSeq(s, Len(s) - n + 1, Len(s))

ScanPush(s, input) == LastOf(s \o input, ScanCap)

Read(r, input, junk) ==
    IF r.state # "scan" THEN ReadAll(With(r, <<>>), input, junk)
    ELSE LET s == ScanPush(r.scan, input)
         IN  IF Anchors(s) = {} THEN With([r EXCEPT !.scan = s], <<>>)
             ELSE ReadAll(With([r EXCEPT !.state = "head", !.scan = <<>>], <<>>),
                          SubSeq(s, Min(Anchors(s)), Len(s)), junk)

(* head_len is kept. *)
ResyncReader(r) == [r EXCEPT !.state = "scan", !.block = NoBlock, !.scan = <<>>]

(* Mutant: a gap may be skipped in a frame of any kind. *)
CanSkipAnyFrame(r, n) == r.state = "payload" /\ r.front = 0 /\ n <= ContentLeft(r)

CanSkip(r, n) ==
    /\ r.state = "payload" /\ r.front = 0
    /\ r.of # 0 => wire[r.of].kind = "data"
    /\ n <= ContentLeft(r)

SkipGap(r, n) == [r EXCEPT !.left = @ - n]

(***************************************************************************)
(* Fragments (h2_loss, and H2Conn::feed).                                  *)
(***************************************************************************)
None == 0

Resync == -1

Least(a, b) == IF a < b THEN a ELSE b

(* capture_limit. *)
CaptureLimit == IF side = "server" THEN BufSize * MaxFragments ELSE BufSize

(* Mutant: every call is held to end with its first fragment. *)
EndsAtOnce(end, len) == end >= Least(len, BufSize)

EndsCall(end, len) == end >= Least(len, CaptureLimit)

(* The most an SSL_read returns: a TLS record, which is the limit of reads. *)
Record == BufSize * MaxFragments

(* One fragment of an SSL call of len bytes that begin after byte start.   *)
Fragment(y, start, len, offset, junk) ==
    LET n == Least(len - offset, BufSize)
        input == [k \in 1 .. n |-> start + offset + k]
        pending == IF offset = 0 /\ y.next # 0 THEN Resync ELSE y.gap
        now == IF offset # 0 /\ offset > y.next THEN offset - y.next ELSE pending
        kept == IF offset # 0 /\ offset > y.next THEN pending ELSE None
        lost == IF len > CaptureLimit THEN len - (offset + n) ELSE 0
        skips == now > 0 /\ CanSkip(y.reader, now)
        resyncs == now # None /\ ~skips
        r == IF skips THEN SkipGap(y.reader, now) ELSE IF resyncs THEN ResyncReader(y.reader) ELSE y.reader
        x == Read(r, input, junk)
    IN  [reader |-> x.r,
         gap |-> IF lost > 0 THEN lost ELSE kept,
         next |-> IF EndsCall(offset + n, len) THEN 0 ELSE offset + n,
         fed |-> start + offset + n,
         events |-> y.events \cup Range(x.out),
         arrived |-> (IF resyncs THEN <<>> ELSE y.arrived) \o input,
         astray |-> y.astray
             \cup (IF now # None /\ y.fed = start + offset THEN {"gap where nothing is lost"} ELSE {})
             \cup (IF resyncs /\ y.reader.head # <<>> THEN {"head kept"} ELSE {})]

Feeding ==
    [reader |-> reader, gap |-> gap, next |-> next, fed |-> fed, events |-> events, arrived |-> arrived,
     astray |-> astray]

Fed(y) ==
    /\ reader' = y.reader /\ gap' = y.gap /\ next' = y.next
    /\ fed' = y.fed /\ events' = y.events /\ arrived' = y.arrived /\ astray' = y.astray

Fragments(len) == Least((Least(len, CaptureLimit) + BufSize - 1) \div BufSize, MaxFragments)

(* An SSL call, of which the first n fragments found room in the ring.     *)
SslCall(len, n) ==
    /\ at + len <= Len(bytes)
    /\ side = "server" => len <= Record
    /\ n \in 1 .. Fragments(len)
    /\ losses' = losses + (IF n < Fragments(len) THEN 1 ELSE 0)
    /\ losses' <= MaxLoss
    /\ at' = at + len
    /\ \E junk \in Junk :
         Fed(FoldLeft(LAMBDA y, j : Fragment(y, at, len, (j - 1) * BufSize, junk), Feeding,
                      [j \in 1 .. n |-> j]))
    /\ UNCHANGED sent

(* A call of the other side ends what a call left unfinished. *)
OtherCall ==
    /\ next # 0
    /\ next' = 0 /\ gap' = Resync
    /\ UNCHANGED <<sent, at, losses, reader, history>>

(* From the first byte, or in the middle. *)
Init ==
    /\ side \in {"client", "server"}
    /\ wire \in {w \in Wires : WellFormed(w)}
    /\ bytes = Bytes(wire)
    /\ at \in Joins
    /\ losses = 0
    /\ reader = NewReader
    /\ next = 0
    /\ gap = IF at = 0 THEN None ELSE Resync
    /\ fed = 0
    /\ events = {} /\ arrived = <<>> /\ astray = {}

Next == (\E len \in Lengths, n \in 1 .. MaxFragments : SslCall(len, n)) \/ OtherCall

Spec == Init /\ [][Next]_vars

(***************************************************************************)
(* Properties.                                                             *)
(***************************************************************************)
TypeOK ==
    /\ reader.state \in {"head", "payload", "scan", "broken"}
    /\ Len(reader.head) < HeadLen /\ Len(reader.scan) <= ScanCap
    /\ reader.front + reader.pad <= reader.left \/ reader.state # "payload"
    /\ next < CaptureLimit /\ gap >= Resync

BlockFrames(e) == e.of .. e.to

(* What the reader passes on as data is content of the frame it says, and  *)
(* a header block is a whole one: nothing lost makes other bytes of them.  *)
EventsAreRight ==
    astray = {} => \A e \in events :
        /\ e.of # 0
        /\ e.what = "data" => e.byte \in ContentOf(e.of)
        /\ e.what = "headers" => e.buf = UNION {ContentOf(i) : i \in BlockFrames(e)}

(* With nothing lost, everything the side sent is passed on. *)
NothingIsMissed ==
    LET passed == {e.byte : e \in {f \in events : f.what = "data"}}
                  \cup UNION {e.buf : e \in {f \in events : f.what = "headers"}}
        large == UNION {BlockFrames(e) : e \in {f \in events : f.what = "large"}}
    IN  Len(arrived) = at => \A b \in 1 .. at :
            \/ Role(b) # "content" \/ wire[bytes[b].of].kind = "control"
            \/ b \in passed \cup reader.block.buf
            \/ bytes[b].of \in large \/ reader.block.large

(* Once three heads in a row have arrived, the frames are found again:     *)
(* when they span no more than two of the longest frames, three heads and  *)
(* one byte, less a fragment.                                              *)
Spans(k) == 3 * HeadLen + PayloadLen(wire[bytes[arrived[k]].of])
              + PayloadLen(wire[bytes[arrived[k]].of + 1])

ShortRunAnchors ==
    reader.state = "scan" => \A k \in Anchors(arrived) : Spans(k) > 2 * MaxFrame + 3 * HeadLen + 1 - BufSize

(* frame.rs: the scan buffer keeps enough to hold three frames.            *)
(* The code breaks it: README, "Findings without a run".                   *)
ThreeHeadsAnchor == reader.state = "scan" => Anchors(arrived) = {}

(* conn.rs: gap says how the bytes are discontinuous. *)
GapsAreLosses == "gap where nothing is lost" \notin astray

(* frame.rs: a lost HEADERS cannot desync the rest of the stream for good. *)
(* The code breaks it: README, "Findings without a run".                   *)
NeverBreaks == reader.state # "broken"

(* frame.rs: resync drops any frame in progress, so that what is read next *)
(* for a frame's head is one.                                              *)
HeadsAreHeads == \A e \in events : e.of # 0
=============================================================================
