----------------------------- MODULE LlmStreams -----------------------------
(***************************************************************************)
(* The user-space half of the SSL pipeline (llm/mod.rs): the ring buffer's *)
(* records are routed to one StreamProcessor per (pid, SSL pointer), all   *)
(* of them sharing the node's background calls, while the cleanup task     *)
(* sweeps idle streams and expires background calls.  Around it stands     *)
(* what the code takes as given: clients that make HTTP/1.1 exchanges on   *)
(* connections, and a capture that may lose the end of an SSL call (the    *)
(* ring is full), all of it, or what is past the capture limit.            *)
(*                                                                         *)
(* ring holds the captured fragments of one SSL call.  Its reader handles  *)
(* records in the order the kernel wrote them and changes nothing a client *)
(* sees, so letting the next SSL call wait for the ring to drain loses no  *)
(* behaviour of the streams.                                               *)
(***************************************************************************)
EXTENDS StreamProcessor

CONSTANTS Conns,     \* keys (pid, SSL pointer); reused by later connections
          Kinds,     \* kinds of request the clients send
          Shapes,    \* responses: [interim, n, framing, follow, result]
          MaxLoss,   \* SSL calls that lose something in capture, at most
          Lossy,     \* which of them can: "Read", "Write", "Closed"
          MaxMore,   \* body writes after a request head, at most
          MaxRead,   \* tokens one SSL_read returns, at most
          EarlyHeads,\* whether a client still writes its body after the final head
          Retention, \* CONNECTION_RETENTION_SECS, in ticks
          Ticking    \* whether time passes

ASSUME StreamsAssumption ==
    /\ Calls \subseteq Nat
    /\ Kinds \subseteq {"llm", "poll", "other"}
    /\ Shapes \subseteq
          [interim : 0..1, n : Nat \ {0}, framing : {"length", "chunked", "close"},
           follow : {"json", "sse", "no"}, result : Results]
    /\ MaxLoss \in Nat /\ MaxMore \in Nat
    /\ Lossy \subseteq {"Read", "Write", "Closed"}
    /\ MaxRead \in 1..RespLimit
    /\ Retention \in 1..IdleTtl
    /\ Ticking \in BOOLEAN /\ EarlyHeads \in BOOLEAN

VARIABLES
    conn,    \* client side of each connection: its call, what is still to come
    ring,    \* captured fragments of the last SSL call, still to be handled
    truth,   \* what each exchange really is, and what became of it
    losses,  \* SSL calls that lost something
    streams, \* StreamMap; a key not in the map is NewStream
    bg,      \* BackgroundMap
    ledger,  \* history: what was exported (the ledger of StreamProcessor)
    cleanup, \* where the cleanup task is: "idle", "due", "swept", "counting"
    expired, \* calls it took out of bg and has not counted yet
    swept    \* history: calls whose stream it dropped

client == <<conn, truth, losses>>
vars == <<client, ring, streams, bg, ledger, cleanup, expired, swept>>

NoConn == [call |-> NoCall, todo |-> <<>>, more |-> 0, close |-> FALSE]

NoRing == [key |-> NoCall, frags |-> <<>>]

NoTruth ==
    [kind |-> "none", id |-> NoCall, result |-> "none", fits |-> TRUE, follows |-> TRUE,
     hit |-> FALSE, done |-> FALSE]

Context(k) ==
    [s |-> streams[k], bg |-> bg, acc |-> ledger.acc, why |-> ledger.why,
     seen |-> ledger.seen, lost |-> ledger.lost, wrong |-> ledger.wrong]

LedgerOf(x) ==
    [acc |-> x.acc, why |-> x.why, seen |-> x.seen, lost |-> x.lost,
     wrong |-> x.wrong]

Init ==
    /\ conn = [k \in Conns |-> NoConn]
    /\ ring = NoRing
    /\ truth = [c \in Calls |-> NoTruth]
    /\ losses = 0
    /\ streams = [k \in Conns |-> NewStream]
    /\ bg = NoBackground
    /\ ledger = [acc |-> [c \in Calls |-> 0], why |-> [c \in Calls |-> ""],
                 seen |-> {}, lost |-> {}, wrong |-> {}]
    /\ cleanup = "idle"
    /\ expired = {}
    /\ swept = {}

(***************************************************************************)
(* Capture: an SSL call cut into fragments reaches the ring.               *)
(***************************************************************************)
Fragment(dir, toks, off, last, trunc) ==
    [dir |-> dir, toks |-> toks, off |-> off, last |-> last, trunc |-> trunc]

(* The ways an SSL call with these tokens can be captured: whole, in one or *)
(* two fragments; its first fragment only, the ring having no room for the  *)
(* second or the call being past the capture limit; not at all.             *)
Whole1(dir, toks) == {<<Fragment(dir, toks, 0, TRUE, FALSE)>>}

Whole2(dir, toks) ==
    {<<Fragment(dir, SubSeq(toks, 1, i), 0, FALSE, FALSE),
       Fragment(dir, SubSeq(toks, i + 1, Len(toks)), 1, TRUE, FALSE)>> : i \in 1..(Len(toks) - 1)}

Captured(dir, toks) == IF dir = "Write" THEN Whole1(dir, toks)
                       ELSE Whole1(dir, toks) \cup Whole2(dir, toks)

Damaged(dir, toks) ==
    {<<>>} \cup IF dir = "Write" THEN {}
                ELSE UNION {{<<Fragment(dir, SubSeq(toks, 1, i), 0, FALSE, FALSE)>>,
                             <<Fragment(dir, SubSeq(toks, 1, i), 0, TRUE, TRUE)>>} :
                               i \in 1..(Len(toks) - 1)}

(* The SSL call of call c on k is captured, with t the state of the call.  *)
Capture(k, dir, toks, c, t) ==
    \/ /\ \E frags \in Captured(dir, toks) : ring' = [key |-> k, frags |-> frags]
       /\ truth' = [truth EXCEPT ![c] = t]
       /\ UNCHANGED losses
    \/ /\ losses < MaxLoss /\ dir \in Lossy
       /\ losses' = losses + 1
       /\ \E frags \in Damaged(dir, toks) : ring' = [key |-> k, frags |-> frags]
       /\ truth' = [truth EXCEPT ![c] = [t EXCEPT !.hit = TRUE]]

(***************************************************************************)
(* Clients.                                                                *)
(***************************************************************************)
Drained == ring.frags = <<>>

Unused == {c \in Calls : truth[c].kind = "none"}

NextCall == CHOOSE c \in Unused : \A d \in Unused : c <= d

(* The tokens of the response of a given shape to call c about call id.    *)
Response(c, id, shape) ==
    [i \in 1..shape.interim |-> [t |-> "interim", call |-> c]]
    \o <<[t |-> "head", call |-> c, n |-> shape.n, framing |-> shape.framing,
          follow |-> shape.follow]>>
    \o [i \in 1..(shape.n - 1) |-> [t |-> "body", call |-> c, at |-> i]]
    \o <<[t |-> "fin", call |-> c, at |-> shape.n, result |-> shape.result, id |-> id]>>

(* Whether the body of a response can be followed past the buffer limit.   *)
CanBeFollowed(shape) ==
    shape.follow = "sse" \/ (shape.follow = "json" /\ shape.framing # "close")

(* The background calls a client can poll: it has read that they are queued. *)
Queued == {c \in Calls : truth[c].kind = "llm" /\ truth[c].done /\ truth[c].result = "queued"}

(* A request on an idle connection: clients do not pipeline. *)
Request(k, kind, id, shape, more) ==
    LET c == NextCall
        about == IF kind = "poll" THEN id ELSE c
    IN  /\ Drained
        /\ Unused # {}
        /\ conn[k].call = NoCall /\ ~conn[k].close
        /\ IF kind = "poll" THEN id \in Queued ELSE id = NoCall
        /\ conn' = [conn EXCEPT ![k] = [call |-> c, todo |-> Response(c, about, shape),
                                        more |-> more, close |-> shape.framing = "close"]]
        /\ Capture(k, "Write", <<[t |-> "req", call |-> c, kind |-> kind, id |-> id]>>, c,
                   [NoTruth EXCEPT !.kind = kind, !.id = id, !.result = shape.result,
                                   !.fits = 1 + more <= ReqLimit,
                                   !.follows = CanBeFollowed(shape)])
        /\ UNCHANGED <<streams, bg, ledger, cleanup, expired, swept>>

WriteMore(k) ==
    LET c == conn[k].call
    IN  /\ Drained
        /\ c # NoCall /\ conn[k].more > 0
        /\ conn' = [conn EXCEPT ![k].more = @ - 1]
        /\ Capture(k, "Write", <<[t |-> "more", call |-> c]>>, c, truth[c])
        /\ UNCHANGED <<streams, bg, ledger, cleanup, expired, swept>>

(* One SSL_read returns the next tokens of the response. *)
Read(k) ==
    LET c == conn[k].call
    IN  /\ Drained
        /\ c # NoCall
        /\ \E n \in 1..MaxRead \cap DOMAIN conn[k].todo :
             LET toks == SubSeq(conn[k].todo, 1, n)
                 over == n = Len(conn[k].todo)
                 answered == over \/ (~EarlyHeads /\ HasFinalHead(toks))
             IN  /\ conn' = [conn EXCEPT ![k].todo = SubSeq(@, n + 1, Len(@)),
                                         ![k].call = IF over THEN NoCall ELSE @,
                                         ![k].more = IF answered THEN 0 ELSE @]
                 /\ Capture(k, "Read", toks, c,
                            [truth[c] EXCEPT !.done = over])
        /\ UNCHANGED <<streams, bg, ledger, cleanup, expired, swept>>

(* SSL_free; its closed record can be lost too.  The key is free again.    *)
Free(k) ==
    /\ Drained
    /\ conn' = [conn EXCEPT ![k] = NoConn]
    /\ \/ /\ ring' = [key |-> k, frags |-> <<Fragment("Closed", <<>>, 0, TRUE, FALSE)>>]
          /\ UNCHANGED losses
       \/ /\ losses < MaxLoss /\ "Closed" \in Lossy
          /\ losses' = losses + 1
          /\ UNCHANGED ring
    /\ UNCHANGED <<truth, streams, bg, ledger, cleanup, expired, swept>>

(***************************************************************************)
(* The agent.                                                              *)
(***************************************************************************)
(* route_event, under the locks of both maps. *)
RouteFragment ==
    /\ ring.frags # <<>>
    /\ Head(ring.frags).dir # "Closed"
    /\ ring' = [ring EXCEPT !.frags = Tail(@)]
    /\ \E x \in HandleFragment(Context(ring.key), Head(ring.frags)) :
         /\ streams' = [streams EXCEPT ![ring.key] = x.s]
         /\ bg' = x.bg
         /\ ledger' = LedgerOf(x)
    /\ UNCHANGED <<client, cleanup, expired, swept>>

RouteClosed ==
    /\ ring.frags # <<>>
    /\ Head(ring.frags).dir = "Closed"
    /\ ring' = [ring EXCEPT !.frags = Tail(@)]
    /\ streams' = [streams EXCEPT ![ring.key] = NewStream]
    /\ ledger' = LedgerOf(Close(Context(ring.key)))
    /\ UNCHANGED <<client, bg, cleanup, expired, swept>>

(* The cleanup task sleeps CLEANUP_INTERVAL_SECS: a tick passes for the    *)
(* streams and the background calls.                                       *)
Sleep ==
    /\ Ticking
    /\ cleanup = "idle"
    /\ cleanup' = "due"
    /\ streams' = [k \in Conns |-> [streams[k] EXCEPT !.idle = IF @ < Retention THEN @ + 1
                                                                 ELSE @]]
    /\ bg' = Older(bg)
    /\ UNCHANGED <<client, ring, ledger, expired, swept>>

(* The call whose response a stream waits for; a poll is none. *)
InProgress(s) == IF IsLlm(s) /\ s.cont = NoCall THEN {s.call} ELSE {}

(* Then it drops idle streams under the first lock, *)
SweepStreams ==
    LET idle == {k \in Conns : streams[k].idle >= Retention}
    IN  /\ cleanup = "due"
        /\ streams' = [k \in Conns |-> IF k \in idle THEN NewStream ELSE streams[k]]
        /\ swept' = swept \cup UNION {InProgress(streams[k]) : k \in idle}
        /\ cleanup' = "swept"
        /\ UNCHANGED <<client, ring, bg, ledger, expired>>

(* Mutant: expired calls are taken out and forgotten. *)
ExpireBackgroundForgets ==
    /\ cleanup = "swept"
    /\ bg' = Without(bg, Expired(bg))
    /\ cleanup' = "counting"
    /\ UNCHANGED <<client, ring, streams, ledger, expired, swept>>

(* takes expired background calls out under the second, *)
ExpireBackground ==
    /\ cleanup = "swept"
    /\ expired' = {bg[id].call : id \in Expired(bg)}
    /\ bg' = Without(bg, Expired(bg))
    /\ cleanup' = "counting"
    /\ UNCHANGED <<client, ring, streams, ledger, swept>>

(* and counts them one by one with neither lock held. *)
CountExpired ==
    /\ cleanup = "counting"
    /\ \/ /\ \E c \in expired :
               /\ expired' = expired \ {c}
               /\ ledger' = [ledger EXCEPT !.acc[c] = @ + 1, !.why[c] = "background_unfinished"]
          /\ UNCHANGED cleanup
       \/ /\ expired = {}
          /\ cleanup' = "idle"
          /\ UNCHANGED <<expired, ledger>>
    /\ UNCHANGED <<client, ring, streams, bg, swept>>

Clients ==
    \E k \in Conns :
        \/ \E kind \in Kinds, id \in Calls \cup {NoCall}, shape \in Shapes, more \in 0..MaxMore :
              Request(k, kind, id, shape, more)
        \/ WriteMore(k)
        \/ Read(k)
        \/ Free(k)

Cleanup == Sleep \/ SweepStreams \/ ExpireBackground \/ CountExpired

Next ==
    \/ Clients
    \/ RouteFragment \/ RouteClosed
    \/ Cleanup

Spec == Init /\ [][Next]_vars

(* The cleanup thread loops for as long as the agent runs.  Neither the    *)
(* clients nor the ring's reader need do anything.                         *)
FairSpec == Spec /\ WF_vars(Cleanup)

(***************************************************************************)
(* Properties.                                                             *)
(***************************************************************************)
StreamType ==
    [st : {"Detecting", "ProcessingRequest", "ProcessingResponse", "Finished"},
     call : Calls \cup {NoCall}, cont : Calls \cup {NoCall},
     wbuf : Seq(WriteToken), rbuf : Seq(ReadToken), hole : SUBSET {"ends", "parses"}, past : BOOLEAN,
     next : [at : Nat, call : Calls \cup {NoCall}],
     fragNext : 0..2, fragDir : {"Unknown", "Read", "Write"}, idle : 0..Retention]

LedgerType ==
    [acc : [Calls -> Nat], why : [Calls -> Reasons \cup {"", "recorded"}],
     seen : SUBSET Calls, lost : SUBSET Calls, wrong : SUBSET Calls]

(* The agent's own state keeps its types. *)
TypeOK ==
    /\ streams \in [Conns -> StreamType]
    /\ bg \in BackgroundMap
    /\ ledger \in LedgerType
    /\ cleanup \in {"idle", "due", "swept", "counting"}
    /\ expired \subseteq Calls
    /\ swept \subseteq Calls

Pending == {bg[id].call : id \in DOMAIN bg}

Current == UNION {InProgress(streams[k]) : k \in Conns}

(* No call is exported twice: recorded twice, counted unparsed twice, or   *)
(* both; whatever is lost in capture, and however polls on several         *)
(* connections, evictions and the cleanup task race for its result.        *)
AtMostOnce == \A c \in Calls : ledger.acc[c] <= 1

(* An exported call is nowhere anymore: no stream waits for its response,  *)
(* no poll can find it, and the cleanup task will not count it.            *)
ExportedCallIsOver ==
    \A c \in Calls : ledger.acc[c] > 0 =>
        c \notin Current \cup Pending \cup expired \cup swept

(* A stream settles its response as a poll's exactly when its request is a *)
(* poll: a continuation left behind would swallow the next call's usage.   *)
ContinuationMatchesRequest ==
    \A k \in Conns :
        LET s == streams[k]
        IN  IF IsLlm(s) THEN (s.cont # NoCall) = (truth[s.call].kind = "poll")
            ELSE s.cont = NoCall

(* The request noted behind a response is where resume_next_request cuts   *)
(* the written bytes.                                                      *)
NotedRequestIsAtItsOffset ==
    \A k \in Conns :
        LET s == streams[k]
        IN  MidResponse(s) /\ s.next # NoNext =>
               /\ s.next.at + 1 \in DOMAIN s.wbuf
               /\ s.wbuf[s.next.at + 1].t = "req"
               /\ s.wbuf[s.next.at + 1].call = s.next.call

(* Nothing is counted as lost in capture while the capture lost nothing.   *)
NoFalseCaptureLoss ==
    losses = 0 => \A c \in Calls : ledger.why[c] # "capture_lost"

(* While nothing was lost, no call is recorded from another's response.    *)
NoForeignUsage == losses = 0 => ledger.wrong = {}

Handled(c) == truth[c].kind = "llm" /\ truth[c].done /\ Drained /\ c \notin swept

(* A request over the buffer limit, or a response over it that cannot be   *)
(* followed.                                                               *)
TooLarge(c) ==
    \/ ledger.why[c] = "request_too_large" /\ ~truth[c].fits
    \/ ledger.why[c] = "response_too_large" /\ ~truth[c].follows

(* While nothing was lost, a generation call whose whole response was      *)
(* handled is recorded if it has usage, and waits for its result if it was *)
(* queued, unless its own size is over a limit; of a body followed past    *)
(* the limit no state is read, and the stream waits on.                    *)
CompleteWithoutLoss ==
    losses = 0 => \A c \in Calls : Handled(c) /\ ~TooLarge(c) =>
        CASE truth[c].result \in {"usage", "failed", "error"} -> ledger.why[c] = "recorded"
          [] truth[c].result = "queued" ->
                \/ c \in Pending \cup expired \/ ledger.acc[c] = 1
                \/ \E k \in Conns : c \in InProgress(streams[k]) /\ streams[k].past
          [] OTHER -> c \in Current \/ ledger.acc[c] = 1

(* A loss costs no call but those it hits: an exchange captured whole is   *)
(* recorded whatever was lost before it on the connection.                 *)
LossIsContained ==
    \A c \in Calls :
        /\ Handled(c) /\ ~truth[c].hit /\ ~TooLarge(c)
        /\ truth[c].result \in {"usage", "failed", "error"}
        => ledger.why[c] = "recorded"

(* The pipeline implements CallLedger. *)
Stage(c) ==
    CASE ledger.acc[c] > 0                  -> "exported"
      [] c \in Current                      -> "open"
      [] c \in Pending \cup expired         -> "waiting"
      [] c \in swept \cup ledger.lost       -> "dropped"
      [] OTHER                              -> "unseen"

Ledger == INSTANCE CallLedger WITH
    stage <- [c \in Calls |-> Stage(c)],
    verdict <- ledger.why

ImplementsLedger == Ledger!Spec

(* Every background call that waits is exported in the end: by a poll, by  *)
(* eviction, or by the cleanup task once polls stop.                       *)
BackgroundSettles ==
    \A c \in Calls : c \in Pending ~> ledger.acc[c] = 1

(* processor.rs: the next request must not sit behind the bytes of the     *)
(* exchange before it, where detection never looks.                        *)
NoRequestBehindOldBytes ==
    losses = 0 => \A k \in Conns : streams[k].st = "Detecting" =>
        \A i \in DOMAIN streams[k].wbuf : streams[k].wbuf[i].t = "req" => i = 1

(* README: an LLM call the agent saw but could not record is counted.      *)
(* The code breaks it: README, "Findings without a run".                   *)
SeenCallIsCounted ==
    \A c \in ledger.seen :
        \/ ledger.acc[c] > 0
        \/ c \in Current \cup Pending \cup expired \cup swept \cup ledger.lost
        \/ \E k \in Conns : MidResponse(streams[k]) /\ streams[k].next.call = c
=============================================================================
