------------------------------- MODULE Bodies -------------------------------
(***************************************************************************)
(* The body of one HTTP/1.1 response, read as its bytes come: the chunked  *)
(* coding walked a step at a time (chunked.rs), server-sent events, AWS    *)
(* event streams and JSON resumed at each read (h1.rs, sse.rs,             *)
(* eventstream.rs), and a body past the buffer limit followed to its end   *)
(* without being kept (sse_stream.rs, json_ends.rs).                       *)
(*                                                                         *)
(* A token stands for a byte of chunk framing, a line feed, or a piece of  *)
(* text that a read may cut off from the next.  "m" is an end marker, "D"  *)
(* the line "data: [DONE]", "i1", "o1" and "o2" are counts of input and    *)
(* output tokens and "null" a null one.  An Events line, a Messages frame  *)
(* or a Members member is what parses as one: text with a piece missing    *)
(* does not, and an event stream message fails its CRC.                    *)
(***************************************************************************)
EXTENDS Integers, SequencesExt

CONSTANTS
    Responses,  \* bodies: kind, framing, units (lines or messages), the cuts
                \* between chunks, and whether they have extensions or a trailer
    Events,     \* the data lines of server-sent events that carry usage
    Messages,   \* the messages of event streams
    Limit,      \* MAX_RESPONSE_BUFFER_SIZE
    MaxLine,    \* MAX_LINE
    HeadKeep,   \* HEAD_KEEP
    TailKeep,   \* TAIL_KEEP
    MaxRead,    \* tokens in a fragment of a read
    MaxLoss     \* tokens missing in one place

VARIABLES
    body,      \* the response
    at,        \* tokens of it that were sent
    lost,      \* history: some of them did not reach the agent
    got,       \* read_buf, the body's part; history once the body is followed
    progress,  \* read_progress
    follow,    \* past_limit
    usage,     \* what was recorded
    status     \* reading, cut (inside a call), recorded, or given up

vars == <<body, at, lost, got, progress, follow, usage, status>>

Members == {"g", "u"}

DigitOf == ("0" :> 0) @@ ("1" :> 1) @@ ("2" :> 2) @@ ("3" :> 3) @@ ("4" :> 4) @@ ("5" :> 5)
           @@ ("6" :> 6) @@ ("7" :> 7) @@ ("8" :> 8) @@ ("9" :> 9)

(***************************************************************************)
(* What the server sends.                                                  *)
(***************************************************************************)
TextOf(b) == FlattenSeq(b.units)

Chunks(b) ==
    LET starts == SetToSortSeq({0} \cup b.cuts, <)
        text == TextOf(b)
    IN  [i \in DOMAIN starts |->
            SubSeq(text, starts[i] + 1, IF i = Len(starts) THEN Len(text) ELSE starts[i + 1])]

(* Each token of the coded body, and whether it is text. *)
Coded(b) ==
    LET marked(s, isText) == [i \in DOMAIN s |-> [tok |-> s[i], text |-> isText]]
        size(c) == <<ToString(Len(c))>> \o (IF b.ext THEN <<";", "x">> ELSE <<>>)
        chunk(c) == marked(size(c) \o <<"CR", "LF">>, FALSE) \o marked(c, TRUE)
                    \o marked(<<"CR", "LF">>, FALSE)
        end == <<"0", "CR", "LF">> \o (IF b.trailer THEN <<"x", "CR", "LF">> ELSE <<>>)
               \o <<"CR", "LF">>
    IN  IF b.framing = "chunked"
        THEN FlattenSeq([i \in DOMAIN Chunks(b) |-> chunk(Chunks(b)[i])]) \o marked(end, FALSE)
        ELSE marked(TextOf(b), TRUE)

Wires == [b \in Responses |-> Coded(b)]

Wire == Wires[body]

Toks(coded) == [i \in DOMAIN coded |-> coded[i].tok]

(* The text of the first n tokens. *)
Sent(n) == Toks(SelectSeq(SubSeq(Wire, 1, n), LAMBDA c : c.text))

(***************************************************************************)
(* The walk through a chunked body.                                        *)
(***************************************************************************)
(* usize::MAX *)
Unbounded == 9999

Basic == [ext |-> FALSE, crlf |-> FALSE, max |-> Unbounded, bareLf |-> FALSE, maxLine |-> Unbounded]

EndedRules == [ext |-> TRUE, crlf |-> TRUE, max |-> Limit, bareLf |-> FALSE, maxLine |-> Unbounded]

WalkRules == [ext |-> TRUE, crlf |-> TRUE, max |-> Unbounded, bareLf |-> TRUE, maxLine |-> MaxLine]

Start == [state |-> "Size", left |-> 0]

In(state) == [state |-> state, left |-> 0]

Cut == 0

Bad == -1

(* Where the line at the start of rest ends. *)
LineEnd(rules, rest) ==
    LET lfs == {i \in DOMAIN rest : rest[i] = "LF"}
        ends == {i \in lfs : i > 1 /\ rest[i - 1] = "CR"}
    IN  CASE rules.bareLf /\ lfs # {} /\ Min(lfs) \notin ends -> Bad
          [] ends = {} -> IF Len(rest) > rules.maxLine THEN Bad ELSE Cut
          [] OTHER     -> IF Min(ends) - 1 > rules.maxLine THEN Bad ELSE Min(ends)

(* The number a size line holds, or Bad. *)
SizeOf(rules, line) ==
    LET semi == SelectInSeq(line, LAMBDA tok : tok = ";")
        size == IF rules.ext /\ semi # 0 THEN SubSeq(line, 1, semi - 1) ELSE line
    IN  IF size = <<>> \/ \E i \in DOMAIN size : size[i] \notin DOMAIN DigitOf THEN Bad
        ELSE FoldLeft(LAMBDA n, tok : 16 * n + DigitOf[tok], 0, size)

(* Mutant: the last chunk ends the body, its trailer section left unread. *)
AfterLineAtLastChunk(rules, state, line) ==
    CASE state = "DataEnd" -> In(IF line = <<>> THEN "Size" ELSE "Broken")
      [] state = "Trailer" -> In(IF line = <<>> THEN "Ended" ELSE "Trailer")
      [] state = "Size"    -> LET n == SizeOf(rules, line)
                              IN  CASE n = 0 -> In("Ended")
                                    [] n \in 1 .. rules.max -> [state |-> "Data", left |-> n]
                                    [] OTHER -> In("Broken")

AfterLine(rules, state, line) ==
    CASE state = "DataEnd" -> In(IF line = <<>> THEN "Size" ELSE "Broken")
      [] state = "Trailer" -> In(IF line = <<>> THEN "Ended" ELSE "Trailer")
      [] state = "Size"    -> LET n == SizeOf(rules, line)
                              IN  CASE n = 0 -> In("Trailer")
                                    [] n \in 1 .. rules.max -> [state |-> "Data", left |-> n]
                                    [] OTHER -> In("Broken")

Stopped(w) == w.state \in {"Ended", "Broken"}

(* The walk after the whole lines of input, how much of it was used, and   *)
(* the pieces of chunk data in it.                                         *)
RECURSIVE Walk(_, _, _)
Walk(rules, w, input) ==
    LET then(used, v, pieces) ==
            LET r == Walk(rules, v, SubSeq(input, used + 1, Len(input)))
            IN  [w |-> r.w, used |-> used + r.used, pieces |-> pieces \o r.pieces]
        n == IF w.left < Len(input) THEN w.left ELSE Len(input)
        after(state, next) == IF n < w.left THEN [state |-> state, left |-> w.left - n] ELSE next
    IN  IF Stopped(w) \/ (w.state \in {"Data", "Skip"} /\ input = <<>>)
        THEN [w |-> w, used |-> 0, pieces |-> <<>>]
        ELSE CASE w.state = "Data" ->
                    then(n, after("Data", IF rules.crlf THEN In("DataEnd")
                                          ELSE [state |-> "Skip", left |-> 2]),
                         <<SubSeq(input, 1, n)>>)
               [] w.state = "Skip" -> then(n, after("Skip", In("Size")), <<>>)
               [] OTHER ->
                    LET lf == LineEnd(rules, input)
                    IN  CASE lf = Cut -> [w |-> w, used |-> 0, pieces |-> <<>>]
                          [] lf = Bad -> [w |-> In("Broken"), used |-> 0, pieces |-> <<>>]
                          [] OTHER    -> then(lf, AfterLine(rules, w.state, SubSeq(input, 1, lf - 2)),
                                              <<>>)

(* Whether a chunked body ended, by a walk of its own or, when bytes are   *)
(* missing, by its last ones.                                              *)
ChunkedEnded(input) ==
    LET w == Walk(EndedRules, Start, input).w
    IN  \/ w.state = "Ended"
        \/ w.state = "Broken" /\ IsSuffix(<<"0", "CR", "LF", "CR", "LF">>, input)

(* decode_chunked_body *)
Decoded(input) ==
    LET data == FlattenSeq(Walk(Basic, Start, input).pieces)
    IN  IF data = <<>> THEN input ELSE data

(***************************************************************************)
(* Usage.                                                                  *)
(***************************************************************************)
NoUsage == [in |-> -1, out |-> -1]

(* An error call, without tokens. *)
Error == [in |-> 0, out |-> 0]

Counts(s) ==
    [in |-> IF Range(s) \cap {"i1", "u"} # {} THEN 1 ELSE 0,
     out |-> IF "o2" \in Range(s) THEN 2 ELSE IF Range(s) \cap {"o1", "u"} # {} THEN 1 ELSE 0]

(* A later event's counts replace the earlier ones, unless they are null. *)
Merged(acc, s) ==
    LET new == Counts(s)
    IN  IF acc = NoUsage THEN new
        ELSE [in |-> IF new.in = 0 THEN acc.in ELSE new.in,
              out |-> IF new.out = 0 THEN acc.out ELSE new.out]

(***************************************************************************)
(* Server-sent events: SseCursor.                                          *)
(***************************************************************************)
NoEvents == [partial |-> <<>>, ended |-> FALSE, done |-> FALSE, acc |-> NoUsage]

ReadLine(c, line) ==
    LET text == IF line # <<>> /\ Last(line) = "CR" THEN Front(line) ELSE line
        done == c.done \/ text = <<"D">>
    IN  [c EXCEPT !.done = done,
                  !.ended = @ \/ text = <<"D">> \/ "m" \in Range(text),
                  !.acc = IF ~done /\ text \in Events THEN Merged(@, text) ELSE @]

(* Lines that end, and text.lines() gives what follows the last as one too. *)
ReadLines(c, bytes) ==
    LET step(r, tok) == IF tok = "LF" THEN [c |-> ReadLine(r.c, r.line), line |-> <<>>]
                        ELSE [r EXCEPT !.line = Append(@, tok)]
        r == FoldLeft(step, [c |-> c, line |-> <<>>], bytes)
    IN  IF r.line = <<>> THEN r.c ELSE ReadLine(r.c, r.line)

(* Mutant: an event cut by a read is read as it stands. *)
FeedEventsReadsCut(c, bytes) ==
    [ReadLines(c, c.partial \o bytes) EXCEPT !.partial = <<>>]

FeedEvents(c, bytes) ==
    LET last == SelectLastInSeq(bytes, LAMBDA tok : tok = "LF")
    IN  IF last = 0 THEN [c EXCEPT !.partial = @ \o bytes]
        ELSE [ReadLines(c, c.partial \o SubSeq(bytes, 1, last)) EXCEPT
                 !.partial = SubSeq(bytes, last + 1, Len(bytes))]

EventsUsage(c) == IF c.ended THEN c.acc ELSE NoUsage

(***************************************************************************)
(* AWS event streams: EventStreamCursor.  The first token of a message is  *)
(* its prelude, with its length.                                           *)
(***************************************************************************)
NoMessages == [partial |-> <<>>, at |-> "Open", acc |-> NoUsage]

Lengths(tok) == {Len(msg) : msg \in {msg \in Messages : msg[1] = tok}}

ReadMessage(c, msg) ==
    IF "fail" \in Range(msg) THEN [c EXCEPT !.at = "Failed"]
    ELSE [c EXCEPT !.at = IF "m" \in Range(msg) THEN "Ended" ELSE @,
                   !.acc = IF Range(msg) \cap {"i1", "o1", "o2"} # {} THEN Merged(@, msg) ELSE @]

RECURSIVE ReadMessages(_, _)
ReadMessages(c, buf) ==
    IF c.at # "Open" THEN [c EXCEPT !.partial = <<>>]
    ELSE IF buf = <<>> THEN [c EXCEPT !.partial = <<>>]
    ELSE IF Lengths(buf[1]) = {} THEN [c EXCEPT !.at = "Broken", !.partial = <<>>]
    ELSE LET len == CHOOSE n \in Lengths(buf[1]) : TRUE
             msg == SubSeq(buf, 1, len)
         IN  IF len > Len(buf) THEN [c EXCEPT !.partial = buf]
             ELSE IF msg \notin Messages THEN [c EXCEPT !.at = "Broken", !.partial = <<>>]
             ELSE ReadMessages(ReadMessage(c, msg), SubSeq(buf, len + 1, Len(buf)))

FeedMessages(c, bytes) ==
    IF c.at = "Open" THEN ReadMessages(c, c.partial \o bytes) ELSE c

MessagesUsage(c) ==
    CASE c.at = "Ended"  -> c.acc
      [] c.at = "Failed" -> Error
      [] OTHER           -> NoUsage

(***************************************************************************)
(* A buffered response: ResponseProgress.                                  *)
(***************************************************************************)
NewProgress == [pos |-> 0, walk |-> Start, raw |-> FALSE, any |-> FALSE,
                sse |-> NoEvents, msgs |-> NoMessages]

NoMoreSizes(p) == p.raw \/ p.walk.state \in {"Trailer", "Ended", "Broken"}

Sink(p, pieces) ==
    CASE body.kind = "sse"    -> [p EXCEPT !.sse = FoldLeft(FeedEvents, @, pieces)]
      [] body.kind = "events" -> [p EXCEPT !.msgs = FoldLeft(FeedMessages, @, pieces)]
      [] OTHER                -> p

(* Mutant: the walk resumes where the last read ended, not its last line. *)
DechunkedPastCut(p, input) ==
    LET r == Walk(Basic, p.walk, SubSeq(input, p.pos + 1, Len(input)))
    IN  IF NoMoreSizes(p) THEN p
        ELSE Sink([p EXCEPT !.pos = Len(input), !.walk = r.w], r.pieces)

(* A body without a chunk of data is read as it stands. *)
RawWithoutData(q) ==
    IF NoMoreSizes(q) /\ ~q.any THEN [q EXCEPT !.raw = TRUE, !.pos = 0] ELSE q

Walked(p, r) ==
    Sink([p EXCEPT !.pos = @ + r.used, !.walk = r.w, !.any = @ \/ r.pieces # <<>>], r.pieces)

Dechunked(p, input) ==
    IF NoMoreSizes(p) THEN p
    ELSE RawWithoutData(Walked(p, Walk(Basic, p.walk, SubSeq(input, p.pos + 1, Len(input)))))

SinkRaw(q, input) ==
    IF q.raw THEN Sink([q EXCEPT !.pos = Len(input)], <<SubSeq(input, q.pos + 1, Len(input))>>) ELSE q

Advance(p, input) ==
    SinkRaw(Dechunked([p EXCEPT !.raw = @ \/ body.framing # "chunked"], input), input)

BodyEnded(p, input) ==
    /\ NoMoreSizes(p) \/ IsSuffix(<<"0", "CR", "LF", "CR", "LF">>, input)
    /\ ChunkedEnded(input)

(* A JSON object, with anything in front of it. *)
JsonUsage(text) ==
    LET open == SelectInSeq(text, LAMBDA tok : tok = "{")
        members == SubSeq(text, open + 1, Len(text) - 1)
    IN  IF open # 0 /\ open < Len(text) /\ Last(text) = "}" /\ Range(members) \subseteq Members
           /\ "u" \in Range(members)
        THEN Counts(members) ELSE NoUsage

(* parse_response_from, of an advanced progress. *)
Parse(p, input) ==
    CASE body.kind = "events" -> MessagesUsage(p.msgs)
      [] body.kind = "sse"    ->
            IF EventsUsage(p.sse) # NoUsage \/ body.framing # "chunked" \/ ~BodyEnded(p, input)
            THEN EventsUsage(p.sse)
            ELSE EventsUsage(FeedEvents(NoEvents, input))
      [] body.kind = "json"   ->
            JsonUsage(IF body.framing = "chunked" THEN Decoded(input) ELSE input)

(***************************************************************************)
(* A response past the buffer limit: SseStream, JsonEnds, BodyWalk.        *)
(***************************************************************************)
NotFollowed == [on |-> FALSE, ok |-> TRUE, length |-> 0, walk |-> Start, line |-> <<>>,
                sse |-> NoEvents, head |-> <<>>, tail |-> <<>>, usage |-> NoUsage]

KeepEnds(f, data) ==
    LET cut == IF Len(data) > TailKeep THEN Len(data) - TailKeep ELSE 0
        room == IF HeadKeep - Len(f.head) < Len(data) THEN HeadKeep - Len(f.head) ELSE Len(data)
        kept == IF cut > 0 THEN <<>>
                ELSE IF Len(f.tail) + Len(data) > 2 * TailKeep
                     THEN SubSeq(f.tail, Len(f.tail) - TailKeep + 1, Len(f.tail))
                ELSE f.tail
    IN  [f EXCEPT !.head = @ \o SubSeq(data, 1, room),
                  !.tail = kept \o SubSeq(data, cut + 1, Len(data))]

Keep(f, data) ==
    IF body.kind = "sse" THEN [f EXCEPT !.sse = FeedEvents(@, data)] ELSE KeepEnds(f, data)

WalkMore(f, input) ==
    LET r == Walk(WalkRules, f.walk, input)
    IN  [f |-> FoldLeft(Keep, [f EXCEPT !.walk = r.w], r.pieces), used |-> r.used]

(* A line cut by the last read takes this one's tokens up to the next line *)
(* feed, until it ends.                                                    *)
RECURSIVE EndLine(_, _)
EndLine(f, data) ==
    IF f.line = <<>> \/ data = <<>> \/ Stopped(f.walk) THEN [f |-> f, data |-> data]
    ELSE LET lf == SelectInSeq(data, LAMBDA tok : tok = "LF")
             n == IF lf = 0 THEN Len(data) ELSE lf
             line == f.line \o SubSeq(data, 1, n)
             r == WalkMore(f, line)
         IN  EndLine([r.f EXCEPT !.line = SubSeq(line, r.used + 1, Len(line))],
                     SubSeq(data, n + 1, Len(data)))

KeepLine(r, data) ==
    IF Stopped(r.f.walk) THEN r.f
    ELSE [r.f EXCEPT !.line = @ \o SubSeq(data, r.used + 1, Len(data))]

FollowLines(e) ==
    IF e.f.line # <<>> \/ Stopped(e.f.walk) THEN e.f ELSE KeepLine(WalkMore(e.f, e.data), e.data)

FollowChunks(f, data) == FollowLines(EndLine(f, data))

FollowLength(f, data) ==
    LET n == IF f.length < Len(data) THEN f.length ELSE Len(data)
    IN  IF n = 0 THEN f ELSE Keep([f EXCEPT !.length = @ - n], SubSeq(data, 1, n))

FollowedEnd(f) ==
    IF body.framing = "chunked" THEN f.walk.state = "Ended" ELSE f.length = 0

(* Usage from the members whole in the kept ends. *)
ReadUsage(f) ==
    LET n == Len(f.tail)
        ends == Range(f.head) \cup
                Range(SubSeq(f.tail, IF n > TailKeep THEN n - TailKeep + 1 ELSE 1, n))
    IN  IF "u" \in ends THEN Counts(<<"u">>) ELSE NoUsage

(* Whether it can be followed on, and at the end its usage. *)
Judged(g) ==
    CASE body.kind = "sse" ->
            [g EXCEPT !.ok = g.walk.state # "Broken" /\ Len(g.sse.partial) <= Limit]
      [] body.kind # "sse" /\ FollowedEnd(g) /\ g.usage = NoUsage ->
            [g EXCEPT !.usage = ReadUsage(g), !.ok = ReadUsage(g) # NoUsage]
      [] OTHER -> [g EXCEPT !.ok = g.walk.state # "Broken"]

FeedFollowed(f, data) ==
    Judged(IF body.framing = "chunked" THEN FollowChunks(f, data) ELSE FollowLength(f, data))

(* JsonEnds::start, else SseStream::start. *)
IfStarted(f) ==
    CASE body.kind = "sse"  -> f
      [] body.kind = "json" ->
            [f EXCEPT !.ok = @ /\ body.framing # "close" /\ f.head # <<>> /\ f.head[1] = "{"]
      [] OTHER -> [NotFollowed EXCEPT !.ok = FALSE]

StartFollowing(input) ==
    LET length == IF body.framing = "close" THEN Unbounded ELSE Len(Wire)
    IN  IfStarted(FeedFollowed([NotFollowed EXCEPT !.on = TRUE, !.length = length], input))

FollowedUsage(f) == IF body.kind = "sse" THEN EventsUsage(f.sse) ELSE f.usage

(***************************************************************************)
(* The response arrives.                                                   *)
(***************************************************************************)
Init ==
    /\ body \in Responses
    /\ at = 0 /\ lost = FALSE /\ got = <<>>
    /\ progress = NewProgress
    /\ follow = NotFollowed
    /\ usage = NoUsage
    /\ status = "reading"

GiveUp == status' = "given up" /\ UNCHANGED <<progress, follow, usage>>

Record(u, complete) ==
    /\ usage' = IF complete THEN u ELSE NoUsage
    /\ status' = IF ~complete THEN "cut" ELSE IF u = NoUsage THEN "reading" ELSE "recorded"

(* buffer_read and, with the call's last fragment, parse. *)
Follow(f, data, complete) ==
    \E g \in {FeedFollowed(f, data)} :
        \/ g.ok /\ follow' = g /\ progress' = NewProgress /\ Record(FollowedUsage(g), complete)
        \/ ~g.ok /\ GiveUp

Buffer(input, complete) ==
    /\ \E p \in {IF complete THEN Advance(progress, input) ELSE progress} :
          progress' = p /\ Record(IF complete THEN Parse(p, input) ELSE NoUsage, complete)
    /\ UNCHANGED follow

Handle(data, complete) ==
    LET over == ~follow.on /\ Len(got) + Len(data) > Limit
    IN  /\ got' = got \o data
        /\ \E f \in {IF over THEN StartFollowing(got) ELSE follow} :
              \/ ~f.ok /\ GiveUp
              \/ f.ok /\ f.on /\ Follow(f, data, complete)
              \/ f.ok /\ ~f.on /\ Buffer(got \o data, complete)

Awaited == status \in {"reading", "cut"} /\ at < Len(Wire)

(* One fragment; the response's last one ends its call. *)
Receive ==
    /\ Awaited
    /\ \E n \in 1 .. MaxRead, complete \in BOOLEAN :
        /\ at + n <= Len(Wire)
        /\ at + n = Len(Wire) => complete
        /\ at' = at + n
        /\ Handle(Toks(SubSeq(Wire, at + 1, at + n)), complete)
    /\ UNCHANGED <<body, lost>>

(* Bytes of which nothing tells the agent that they are missing. *)
Miss ==
    /\ Awaited /\ ~lost
    /\ \E n \in 1 .. MaxLoss : at + n < Len(Wire) /\ at' = at + n
    /\ lost' = TRUE
    /\ UNCHANGED <<body, got, progress, follow, usage, status>>

Next == Receive \/ Miss

Spec == Init /\ [][Next]_vars

(***************************************************************************)
(* Properties.                                                             *)
(***************************************************************************)
(* What reads left behind them does not show: parsing on from there gives  *)
(* what parsing everything afresh gives, whether bytes are missing or not; *)
(* and a followed body stands where it would, fed all at once, the same    *)
(* last bytes kept.  (ResponseProgress and the walks, resumed at each      *)
(* read, whose tests split a body in two.)                                 *)
SplitsDoNotMatter ==
    LET last(s) == SubSeq(s, IF Len(s) > TailKeep THEN Len(s) - TailKeep + 1 ELSE 1, Len(s))
    IN  status # "given up" =>
        IF follow.on
        THEN \A once \in {StartFollowing(got)} :
             /\ follow.walk = once.walk /\ follow.length = once.length /\ follow.line = once.line
             /\ follow.sse = once.sse /\ follow.head = once.head
             /\ last(follow.tail) = last(once.tail)
             /\ FollowedUsage(follow) = FollowedUsage(once)
        ELSE Parse(Advance(progress, got), got) = Parse(Advance(NewProgress, got), got)

(* The usage of a body of which n tokens of text were sent, by definition: *)
(* of a JSON object its own; else, once a line or message that ends it was *)
(* sent whole, the last counts of those before it that are not null.       *)
UnitEnd(i) == Len(FlattenSeq(SubSeq(body.units, 1, i)))

Line(i) == SelectSeq(body.units[i], LAMBDA tok : tok \notin {"CR", "LF"})

LastOf(f(_), read) ==
    LET given == {i \in read : f(Counts(Line(i))) # 0}
    IN  IF given = {} THEN 0 ELSE f(Counts(Line(Max(given))))

UsageOf(n) ==
    LET whole == {i \in DOMAIN body.units : UnitEnd(i) <= n}
        final == IF body.kind = "sse" THEN {"D"} ELSE {"m", "fail"}
        read == {i \in whole : \A j \in 1 .. i - 1 : Range(Line(j)) \cap final = {}}
        ended == \E i \in read : Range(Line(i)) \cap (final \cup {"m"}) # {}
        used == {i \in read : body.kind = "sse" => Line(i) \in Events}
        counts == [in |-> LastOf(LAMBDA c : c.in, used), out |-> LastOf(LAMBDA c : c.out, used)]
    IN  CASE body.kind = "json" ->
                IF n = Len(TextOf(body)) THEN JsonUsage(TextOf(body)) ELSE NoUsage
          [] \E i \in read : "fail" \in Range(Line(i)) -> Error
          [] ended /\ counts # Error -> counts
          [] OTHER -> NoUsage

(* A response too long to buffer whose end cannot be told, or whose usage  *)
(* is in the part that is not kept.                                        *)
MayGiveUp ==
    \/ body.kind = "events"
    \/ /\ body.kind = "json"
       /\ \/ body.framing = "close"
          \/ \A i \in DOMAIN TextOf(body) :
                TextOf(body)[i] = "u" => i > HeadKeep /\ i <= Len(TextOf(body)) - TailKeep

(* A response that is wholly captured is recorded with its own usage, once *)
(* what carries it is whole and never before, buffered or followed past    *)
(* the limit, however it is chunked and cut into reads.  (sse.rs: "Only    *)
(* complete lines count"; "A null count in a later event must not erase an *)
(* earlier one".)                                                          *)
UsageIsTheBodys ==
    ~lost /\ ~body.ext =>
        /\ usage # NoUsage => usage = UsageOf(Len(Sent(at)))
        /\ at = Len(Wire) /\ status # "given up" => usage = UsageOf(Len(TextOf(body)))
        /\ status = "given up" => MayGiveUp

(* A wholly captured chunked body is taken as ended with its last byte and *)
(* not before, though its text looks like chunk framing, by the walk over  *)
(* the buffer and by the one that follows it.  (chunked_ended, BodyWalk.)  *)
EndsWithBody ==
    ~lost /\ body.framing = "chunked" /\ status # "given up" =>
        /\ ChunkedEnded(got) <=> at = Len(Wire)
        /\ follow.on => (FollowedEnd(follow) <=> at = Len(Wire))
=============================================================================
