-------------------------- MODULE StreamProcessor --------------------------
(***************************************************************************)
(* One TLS connection's HTTP/1.1 lifecycle (processor.rs), as operators:   *)
(* HandleFragment and Close take the context x of a call of the handler    *)
(* and give the contexts it can leave.  A context holds the stream s, the  *)
(* node's background calls bg, and the ledger of what was exported:        *)
(*   acc[c]   how often call c was recorded or counted as unparsed         *)
(*   why[c]   "recorded", or the reason it was counted unparsed            *)
(*   seen     the generation calls whose request the stream detected, or   *)
(*            noted behind a response in progress                          *)
(*   lost     detected calls the code itself forgets without exporting     *)
(*   wrong    calls recorded from a response that is about another call    *)
(* acc, why, seen, lost and wrong are history: no step reads them.         *)
(*                                                                         *)
(* Bytes are tokens.  A request is a "req" token (a whole head, with the   *)
(* call, its kind and the id a poll asks for), then "more" tokens.  A      *)
(* response is "interim" tokens (1xx heads), a "head" token (with the      *)
(* number n of tokens its body has, the framing that tells where the body  *)
(* ends, and whether a body past the buffer limit can be followed), then   *)
(* the body, numbered by at: "body" tokens and last a "fin" token, with    *)
(* which it parses to result, for the create call id it is about.          *)
(*                                                                         *)
(* A response buffer some read is missing from has a hole.  What it then   *)
(* reads as depends on bytes that tokens do not keep: s.hole says whether  *)
(* its chunk framing still ends and whether its body still parses, chosen  *)
(* anew whenever the buffer grows.                                         *)
(***************************************************************************)
EXTENDS BackgroundCalls, SequencesExt

CONSTANTS ReqLimit,    \* MAX_REQUEST_BUFFER_SIZE, in tokens
          RespLimit,   \* MAX_RESPONSE_BUFFER_SIZE, in tokens
          DetectLimit  \* DETECTION_BUFFER_THRESHOLD, in tokens

ASSUME StreamAssumption ==
    /\ ReqLimit \in Nat \ {0}
    /\ RespLimit \in Nat \ {0}
    /\ DetectLimit \in Nat \ {0}

(* What a whole body parses to: usage with tokens; a failed call; an error   *)
(* body, usage without tokens that names no call; a background object that  *)
(* is queued, ended or cancelled without usage; nothing the agent reads.    *)
Results == {"usage", "failed", "error", "queued", "ended", "cancelled", "none"}

Reasons == {"capture_lost", "next_request", "connection_closed", "request_too_large",
            "response_too_large", "background_unfinished"}

ReqToken == [t : {"req"}, call : Calls, kind : {"llm", "poll", "other"},
             id : Calls \cup {NoCall}]
MoreToken == [t : {"more"}, call : Calls]
WriteToken == ReqToken \cup MoreToken
HeadToken == [t : {"head"}, call : Calls, n : Nat, framing : {"length", "chunked", "close"},
              follow : {"json", "sse", "no"}]
BodyToken == [t : {"body"}, call : Calls, at : Nat]
FinToken == [t : {"fin"}, call : Calls, at : Nat, result : Results, id : Calls]
ReadToken == [t : {"interim"}, call : Calls] \cup HeadToken \cup BodyToken \cup FinToken

NoNext == [at |-> 0, call |-> NoCall]

NewStream ==
    [st |-> "Detecting", call |-> NoCall, cont |-> NoCall, wbuf |-> <<>>, rbuf |-> <<>>,
     hole |-> {}, past |-> FALSE, next |-> NoNext, fragNext |-> 0, fragDir |-> "Unknown", idle |-> 0]

(***************************************************************************)
(* What a buffer reads as.                                                 *)
(***************************************************************************)
IsRequestHead(toks) == toks # <<>> /\ Head(toks).t = "req"

HasStatus(toks) == toks # <<>> /\ Head(toks).t \in {"interim", "head"}

(* The buffer from the final response head on, past the 1xx heads. *)
Final(buf) ==
    LET i == SelectInSeq(buf, LAMBDA tok : tok.t # "interim")
    IN  IF i = 0 THEN <<>> ELSE SubSeq(buf, i, Len(buf))

HasFinalHead(buf) == Final(buf) # <<>> /\ Head(Final(buf)).t = "head"

FinalHead(buf) == Head(Final(buf))

Body(buf) == Tail(Final(buf))

(* The body so far starts with the first tokens of the head's own body.    *)
Intact(buf) ==
    \A i \in DOMAIN Body(buf) :
        i <= FinalHead(buf).n => /\ Body(buf)[i].call = FinalHead(buf).call
                                 /\ Body(buf)[i].t \in {"body", "fin"}
                                 /\ Body(buf)[i].at = i

(* How a response buffer can read. *)
Holes(buf) ==
    IF HasFinalHead(buf) /\ ~Intact(buf) THEN SUBSET {"ends", "parses"} ELSE {{}}

Whole(buf) == Intact(buf) /\ Len(Body(buf)) >= FinalHead(buf).n

Ended(buf, hole) ==
    CASE FinalHead(buf).framing = "length"  -> Len(Body(buf)) >= FinalHead(buf).n
      [] FinalHead(buf).framing = "chunked" ->
            \/ Whole(buf)
            \/ "ends" \in hole /\ Body(buf) # <<>> /\ Last(Body(buf)).t = "fin"
      [] FinalHead(buf).framing = "close"   -> FALSE

IsCompleteResponse(buf, hole) == HasFinalHead(buf) /\ Ended(buf, hole)

Unread == [result |-> "none", id |-> NoCall]

(* The usage and background state parsing finds: those of the first end of *)
(* a body, for certain when nothing is missing before it.                  *)
ParseResponse(buf, hole) ==
    LET fins == {i \in DOMAIN Body(buf) : Body(buf)[i].t = "fin"}
        first == CHOOSE i \in fins : \A j \in fins : i <= j
    IN  IF HasFinalHead(buf) /\ fins # {} /\ (Whole(buf) \/ "parses" \in hole)
        THEN [result |-> Body(buf)[first].result, id |-> Body(buf)[first].id]
        ELSE Unread

(* A body followed past the buffer limit keeps no background state. *)
UsageOnly(r) ==
    CASE r.result = "usage"               -> r
      [] r.result \in {"failed", "error"} -> [r EXCEPT !.result = "error"]
      [] OTHER                            -> Unread

ParseFollowed(buf, hole) == UsageOnly(ParseResponse(buf, hole))

(* Mutant: only a body of known length is followed. *)
CanFollowLengthOnly(buf, hole) ==
    HasFinalHead(buf) /\ FinalHead(buf).follow # "no" /\ FinalHead(buf).framing = "length"

(* Whether a response over the limit can be followed, and after more of it *)
(* still can be: not once a hole broke the chunk walk, and not when a JSON *)
(* body ended without usage.                                               *)
CanFollow(buf, hole) ==
    /\ HasFinalHead(buf)
    /\ \/ FinalHead(buf).follow = "sse"
       \/ FinalHead(buf).follow = "json" /\ FinalHead(buf).framing # "close"
    /\ FinalHead(buf).framing = "chunked" => Intact(buf) \/ "ends" \in hole
    /\ FinalHead(buf).follow = "json" /\ Ended(buf, hole)
        => ParseFollowed(buf, hole) # Unread

(***************************************************************************)
(* The ledger.                                                             *)
(***************************************************************************)
Account(x, call, verdict) ==
    [x EXCEPT !.acc[call] = @ + 1, !.why[call] = verdict]

(* record_usage of a response about call id, for the request call. *)
RecordUsage(x, call, id) ==
    LET y == Account(x, call, "recorded")
    IN  IF id = call THEN y ELSE [y EXCEPT !.wrong = @ \cup {call}]

GiveUp(x, call) == Account(x, call, "background_unfinished")

(***************************************************************************)
(* The response in progress is dropped; a poll is not a call.              *)
(***************************************************************************)
IsLlm(s) == s.st \in {"ProcessingRequest", "ProcessingResponse"}

DropResponse(x, reason) ==
    IF ~IsLlm(x.s) THEN x
    ELSE LET y == [x EXCEPT !.s.st = "Finished", !.s.cont = NoCall]
         IN  IF x.s.cont # NoCall THEN y ELSE Account(y, x.s.call, reason)

(* Mutant: the response buffer survives the reset. *)
ResetKeepsResponse(x) ==
    [x EXCEPT !.s = [NewStream EXCEPT !.fragNext = x.s.fragNext, !.fragDir = x.s.fragDir,
                                      !.idle = x.s.idle, !.rbuf = x.s.rbuf]]

Reset(x) ==
    [x EXCEPT !.s = [NewStream EXCEPT !.fragNext = x.s.fragNext, !.fragDir = x.s.fragDir,
                                      !.idle = x.s.idle]]

Close(x) == DropResponse(x, "connection_closed")

(***************************************************************************)
(* Settling a response that parsed to r.  The result is a set of contexts, *)
(* as insert may evict any call idle longest, or {} to keep waiting.       *)
(***************************************************************************)
(* Mutants: the evicted call is not taken out; it is not counted. *)
DeferKeepsEvicted(x, id) ==
    LET queued == [x EXCEPT !.bg = Insert(@, id, x.s.call)]
    IN  IF Evictable(x.bg, id) = {} THEN {queued}
        ELSE {GiveUp(queued, x.bg[old].call) : old \in Evictable(x.bg, id)}

DeferForgets(x, id) ==
    IF Evictable(x.bg, id) = {} THEN {[x EXCEPT !.bg = Insert(@, id, x.s.call)]}
    ELSE {[x EXCEPT !.bg = Insert(Without(@, {old}), id, x.s.call)] : old \in Evictable(x.bg, id)}

Defer(x, id) ==
    LET call == x.s.call
        queued == [x EXCEPT !.bg = Insert(@, id, call),
                            !.lost = @ \cup (IF id \in DOMAIN x.bg THEN {x.bg[id].call}
                                             ELSE {})]
    IN  IF Evictable(x.bg, id) = {} THEN {queued}
        ELSE {GiveUp([queued EXCEPT !.bg = Without(@, {old})], x.bg[old].call) :
                old \in Evictable(x.bg, id)}

SettleCreate(x, r) ==
    CASE r.result \in {"usage", "failed", "error"} -> {RecordUsage(x, x.s.call, r.id)}
      [] r.result = "queued"                       -> Defer(x, r.id)
      [] OTHER                                     -> {}

SettlePoll(x, r) ==
    LET id == x.s.cont
        done == [x EXCEPT !.s.cont = NoCall]
        taken == [done EXCEPT !.bg = Without(@, {id})]
    IN  CASE r.result = "none"                        -> {}
          [] r.result = "queued"                      -> {[done EXCEPT !.bg = Touch(@, id)]}
          [] r.result = "error" \/ (r.result # "none" /\ id \notin DOMAIN x.bg) -> {done}
          [] OTHER -> {IF r.result = "ended" THEN GiveUp(taken, x.bg[id].call)
                       ELSE RecordUsage(taken, x.bg[id].call, r.id)}

Settle(x, r) ==
    IF x.s.cont = NoCall THEN SettleCreate(x, r) ELSE SettlePoll(x, r)

(* The first Read of a response ends the request; the SSL call's last      *)
(* fragment is parsed.  A poll whose result is not in yet is touched.      *)
SettleOrWait(x, f, r) ==
    LET settled == {[y EXCEPT !.s.st = "Finished"] : y \in Settle(x, r)}
        waiting == [x EXCEPT !.s.st = "ProcessingResponse",
                             !.bg = IF f.last /\ x.s.cont # NoCall
                                    THEN Touch(@, x.s.cont) ELSE @]
    IN  IF f.last /\ settled # {} THEN settled ELSE {waiting}

ParseAndSettle(x, f) ==
    SettleOrWait(x, f, IF x.s.past THEN ParseFollowed(x.s.rbuf, x.s.hole)
                       ELSE ParseResponse(x.s.rbuf, x.s.hole))

(***************************************************************************)
(* Detection of a request in the bytes written so far.                     *)
(***************************************************************************)
Detect(x) ==
    LET first == Head(x.s.wbuf)
    IN  CASE IsRequestHead(x.s.wbuf) /\ first.kind = "llm" ->
                [x EXCEPT !.s.st = "ProcessingRequest", !.s.call = first.call,
                          !.seen = @ \cup {first.call}]
          [] IsRequestHead(x.s.wbuf) /\ first.kind = "poll" /\ first.id \in DOMAIN x.bg ->
                [x EXCEPT !.s.st = "ProcessingRequest", !.s.call = first.call,
                          !.s.cont = first.id]
          [] OTHER ->
                [x EXCEPT !.s.st = IF Len(x.s.wbuf) > DetectLimit THEN "Finished"
                                   ELSE "Detecting"]

(***************************************************************************)
(* Buffering one fragment.                                                 *)
(***************************************************************************)
Overflow(x, reason) == {Reset(DropResponse(x, reason))}

HandleWrite(x, f) ==
    LET y == IF x.s.st = "Finished" THEN Reset(x) ELSE x
        z == [y EXCEPT !.s.wbuf = @ \o f.toks]
    IN  IF Len(z.s.wbuf) > ReqLimit THEN Overflow(y, "request_too_large")
        ELSE IF z.s.st = "Detecting" THEN {Detect(z)}
        ELSE IF z.s.st = "ProcessingResponse" THEN ParseAndSettle(z, f)
        ELSE {z}

(* A Read no detected request waits for.  Under Detecting it answers a     *)
(* non-LLM request, and the next request must not sit behind that one.     *)
IgnoreRead(x, f) ==
    IF x.s.st = "Detecting" /\ (HasStatus(f.toks) \/ IsRequestHead(x.s.wbuf))
    THEN {[x EXCEPT !.s.wbuf = <<>>]}
    ELSE {x}

HandleRead(x, f, hole) ==
    LET y == [x EXCEPT !.s.rbuf = @ \o f.toks, !.s.hole = hole]
        over == Len(y.s.rbuf) > RespLimit
    IN  IF ~IsLlm(x.s) THEN IgnoreRead(x, f)
        ELSE IF ~x.s.past /\ ~over THEN ParseAndSettle(y, f)
        ELSE IF CanFollow(y.s.rbuf, hole) /\ (x.s.past \/ CanFollow(x.s.rbuf, x.s.hole))
             THEN ParseAndSettle([y EXCEPT !.s.past = TRUE], f)
        ELSE Overflow(y, "response_too_large")

(* Mutant: the directions are swapped. *)
HandleEventSwapped(x, f) ==
    IF f.dir = "Read" THEN HandleWrite(x, f)
    ELSE UNION {HandleRead(x, f, hole) : hole \in Holes(x.s.rbuf \o f.toks)}

HandleEvent(x, f) ==
    LET y == [x EXCEPT !.s.idle = 0]
    IN  IF f.dir = "Write" THEN HandleWrite(y, f)
        ELSE UNION {HandleRead(y, f, hole) : hole \in Holes(x.s.rbuf \o f.toks)}

(***************************************************************************)
(* What one fragment tells about losses before it.                         *)
(***************************************************************************)
MidResponse(s) == s.st = "ProcessingResponse" /\ ~s.past

(* A whole response without usage is buffered: a Write is the next request. *)
AwaitsResponse(s) ==
    s.st = "ProcessingResponse" /\ (s.past \/ IsCompleteResponse(s.rbuf, s.hole))

(* Mutant: a response whose end was lost swallows the next one. *)
LostTailUnnoticed(s, f) == FALSE

(* A status line answers the request noted mid-response. *)
LostTail(s, f) ==
    /\ f.dir = "Read"
    /\ s.next # NoNext
    /\ MidResponse(s)
    /\ HasFinalHead(f.toks)

(* Mutant: a Read holding only a 1xx head has lost its status line. *)
LostHeadAtInterim(s, f) ==
    s.st = "ProcessingRequest" /\ f.dir = "Read" /\ ~HasFinalHead(f.toks)

(* The response lost its status line, so it can never be framed. *)
LostHead(s, f) ==
    \/ s.st = "ProcessingRequest" /\ f.dir = "Read" /\ ~HasStatus(f.toks)
    \/ s.st = "ProcessingRequest" /\ f.dir = "Write" /\ IsRequestHead(f.toks)
    \/ /\ s.st = "ProcessingResponse" /\ f.dir = "Write"
       /\ ~HasStatus(s.rbuf)
       /\ IsRequestHead(f.toks)

(* Mutants: the request counted as skipped stays noted; the note points    *)
(* past the head of the request.                                           *)
NoteNextKeepsOld(x, f) ==
    IF ~MidResponse(x.s) \/ ~IsRequestHead(f.toks) THEN x
    ELSE IF x.s.next = NoNext
         THEN [x EXCEPT !.s.next = [at |-> Len(x.s.wbuf), call |-> Head(f.toks).call]]
         ELSE Account(x, x.s.next.call, "capture_lost")

NoteNextPastHead(x, f) ==
    IF ~MidResponse(x.s) \/ ~IsRequestHead(f.toks) THEN x
    ELSE [x EXCEPT !.s.next = [at |-> Len(x.s.wbuf) + 1, call |-> Head(f.toks).call]]

(* A request head written mid-response is noted; the one noted before it   *)
(* never got its response.                                                 *)
NoteNext(x, f) ==
    IF ~MidResponse(x.s) \/ ~IsRequestHead(f.toks) THEN x
    ELSE LET request == Head(f.toks)
             noted == [x EXCEPT !.s.next = [at |-> Len(x.s.wbuf), call |-> request.call],
                                !.seen = @ \cup (IF request.kind = "llm" THEN {request.call}
                                                 ELSE {})]
         IN  IF x.s.next = NoNext THEN noted
             ELSE Account(noted, x.s.next.call, "capture_lost")

ResumeNext(x) ==
    Detect([x EXCEPT !.s.next = NoNext, !.s.rbuf = <<>>, !.s.hole = {},
                     !.s.wbuf = SubSeq(@, x.s.next.at + 1, Len(@))])

(***************************************************************************)
(* handle_fragment: f is the fragment number f.off, from 0, of an SSL call *)
(* in direction f.dir, with tokens f.toks; f.last marks the call's last    *)
(* captured fragment, f.trunc a call longer than the capture limit.        *)
(***************************************************************************)
HandleFragment(x, f) ==
    LET outOfOrder == f.off # x.s.fragNext
        lostTail == outOfOrder /\ f.off = 0 /\ x.s.fragDir = "Read"
        lostHere == ((outOfOrder /\ f.off # 0) \/ f.trunc) /\ f.dir = "Read"
        gap == lostTail \/ lostHere
        resync == f.off = 0 /\ ~gap /\ LostTail(x.s, f)
        tracked == [x EXCEPT !.s.fragNext = IF f.last THEN 0 ELSE f.off + 1,
                             !.s.fragDir = f.dir]
        dropped == IF gap THEN DropResponse(tracked, "capture_lost")
                   ELSE IF f.dir = "Write" /\ AwaitsResponse(x.s)
                        THEN DropResponse(tracked, "next_request")
                   ELSE IF resync \/ (f.off = 0 /\ LostHead(x.s, f))
                        THEN DropResponse(tracked, "capture_lost")
                   ELSE tracked
        started == IF resync THEN ResumeNext(dropped)
                   ELSE IF f.off = 0 /\ f.dir = "Write" THEN NoteNext(dropped, f)
                   ELSE dropped
    IN  IF outOfOrder /\ f.off # 0 THEN {started} ELSE HandleEvent(started, f)
=============================================================================
