------------------------------- MODULE MCWire -------------------------------
(***************************************************************************)
(* Instances of Hpack and FrameReader, the two readers of an HTTP/2        *)
(* connection, and of Bodies, the reader of an HTTP/1.1 one, in one run.   *)
(* part tells which of them takes steps.  The run's constants are Hpack's. *)
(***************************************************************************)
EXTENDS Hpack

VARIABLES part, side, wire, bytes, at, losses, reader, next, gap, fed, events, arrived, misled,
    body, sentTo, missing, taken, progress, follow, usage, status

response == <<body, sentTo, missing, taken, progress, follow, usage, status>>

frames == <<side, wire, bytes, at, losses, reader, next, gap, fed, events, arrived, misled>>

OneLong(S, big) == [s \in S |-> IF s = big THEN 1 ELSE 0]

MCNameLen == OneLong(Names, "m")

MCValueLen == OneLong(Values, "y")

(* One entry stands for the static table. *)
MCStatic == <<[name |-> "m", value |-> "x"]>>

Shape(kind, front, content, pad, ends) ==
    [kind |-> kind, front |-> front, content |-> content, pad |-> pad, ends |-> ends]

Shapes ==
    {Shape("data", 0, 2, 0, FALSE), Shape("data", 1, 1, 1, TRUE), Shape("data", 0, 0, 0, TRUE),
     Shape("headers", 0, 1, 0, TRUE), Shape("headers", 0, 1, 0, FALSE),
     Shape("continuation", 0, 1, 0, TRUE), Shape("control", 0, 1, 0, FALSE)}

(* Four frames, of which the last three can be an anchor. *)
Frames == INSTANCE FrameReader WITH
    astray <- misled,
    Wires <- [1 .. 4 -> Shapes], Joins <- {0, 1}, HeadLen <- 2, MaxFrame <- 3, MaxBlock <- 1,
    BufSize <- 2, MaxFragments <- 2, Lengths <- {1, 3, 6}, MaxLoss <- 1

Body(kind, framing, units, cuts, ext, trailer) ==
    [kind |-> kind, framing |-> framing, units |-> units, cuts |-> cuts, ext |-> ext,
     trailer |-> trailer]

MCEvents == {<<"d", "i1", "o1">>, <<"d", "null", "m">>, <<"d", "m", "o1">>, <<"d", "o2", "null">>}

(* Events with null counts, lines that look like chunk sizes, text after the end. *)
StreamTexts ==
    {<<<<"d", "i1", "o1", "LF">>, <<"0", "CR", "LF">>, <<"LF">>, <<"d", "null", "m", "LF">>>>,
     <<<<"m", "LF">>, <<"d", "m", "o1", "LF">>, <<"D", "LF">>, <<"d", "o2", "null", "LF">>>>}

MCMessages == {<<"P3", "i1", "c">>, <<"P4", "o2", "m", "c">>, <<"P4", "x", "fail", "c">>}

Object(before, after) ==
    <<<<"{">> \o [i \in 1 .. before |-> "g"] \o <<"u">> \o [i \in 1 .. after |-> "g"] \o <<"}">>>>

(* Past the limit with the usage in the kept tail, in the kept head or in    *)
(* between, and below it.                                                   *)
LongObjects == {Object(15, 0), Object(0, 15), Object(8, 7)}

ShortObject == Object(2, 0)

MCResponses ==
    {Body("sse", "chunked", units, cuts, more, more) :
        units \in StreamTexts, cuts \in {{2, 5}, {4, 7}}, more \in BOOLEAN}
    \cup {Body("sse", framing, units, {}, FALSE, FALSE) :
        framing \in {"length", "close"}, units \in StreamTexts}
    \cup {Body("events", "chunked", <<<<"P3", "i1", "c">>, last>>, {cut}, FALSE, FALSE) :
        last \in {<<"P4", "o2", "m", "c">>, <<"P4", "x", "fail", "c">>}, cut \in {2, 4}}
    \cup {Body("json", framing, units, {9}, FALSE, FALSE) :
        framing \in {"chunked", "length", "close"}, units \in LongObjects}
    \cup {Body("json", framing, ShortObject, {2}, FALSE, FALSE) : framing \in {"chunked", "close"}}

Bodies == INSTANCE Bodies WITH
    at <- sentTo, lost <- missing, got <- taken,
    Responses <- MCResponses, Events <- MCEvents, Messages <- MCMessages, Limit <- 16,
    MaxLine <- 4, HeadKeep <- 2, TailKeep <- 2, MaxRead <- 4, MaxLoss <- 2

(* A part that takes no steps has one initial state. *)
WireInit ==
    /\ part \in {"fields", "frames", "body"} /\ Init
    /\ part # "frames" =>
        side = "client" /\ at = 0 /\ wire = [i \in 1 .. 4 |-> Shape("control", 0, 1, 0, FALSE)]
    /\ part # "body" => body = Body("json", "close", ShortObject, {2}, FALSE, FALSE)
    /\ Frames!Init /\ Bodies!Init

ReadsFields == part = "fields" /\ Next /\ UNCHANGED <<frames, response>>

ReadsFrames == part = "frames" /\ Frames!Next /\ UNCHANGED <<vars, response>>

ReadsBody == part = "body" /\ Bodies!Next /\ UNCHANGED <<vars, frames>>

WireSpec ==
    WireInit
    /\ [][(ReadsFields \/ ReadsFrames \/ ReadsBody) /\ UNCHANGED part]_<<part, vars, frames, response>>

EventsAreRight == Frames!EventsAreRight

NothingIsMissed == Frames!NothingIsMissed

ShortRunAnchors == Frames!ShortRunAnchors

GapsAreLosses == Frames!GapsAreLosses

SplitsDoNotMatter == Bodies!SplitsDoNotMatter

UsageIsTheBodys == Bodies!UsageIsTheBodys

EndsWithBody == Bodies!EndsWithBody
=============================================================================
