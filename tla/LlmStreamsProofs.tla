-------------------------- MODULE LlmStreamsProofs --------------------------
(***************************************************************************)
(* Proofs about LlmStreams for every number of calls and connections, all  *)
(* limits and all response shapes.                                         *)
(*                                                                         *)
(* TypeOK is not inductive: recording and deferring a call put s.call in   *)
(* the ledger and the background map, so a stream that waits for a         *)
(* response must have one (GoodStream), and what reaches the ring must be  *)
(* made of the tokens of its direction (ClientOK).                         *)
(***************************************************************************)
EXTENDS LlmStreams, SequenceTheorems, WellFoundedInduction, TLAPS

ContextType ==
    [s : StreamType, bg : BackgroundMap,
     acc : [Calls -> Nat], why : [Calls -> Reasons \cup {"", "recorded"}],
     seen : SUBSET Calls, lost : SUBSET Calls, wrong : SUBSET Calls]

(* A stream that waits for a response knows the call. *)
GoodStream(s) == IsLlm(s) => s.call \in Calls

GoodContext(x) == x \in ContextType /\ GoodStream(x.s)

FragmentType ==
    [dir : {"Read", "Write", "Closed"}, toks : Seq(WriteToken) \cup Seq(ReadToken),
     off : 0..1, last : BOOLEAN, trunc : BOOLEAN]

GoodFragment(f) ==
    /\ f \in FragmentType
    /\ f.dir = "Write" => f.toks \in Seq(WriteToken)
    /\ f.dir = "Read" => f.toks \in Seq(ReadToken)

Verdicts == Reasons \cup {"recorded"}

(***************************************************************************)
(* The background map.                                                     *)
(***************************************************************************)
LEMMA BackgroundMapType ==
    \A b : b \in BackgroundMap <=>
            /\ DOMAIN b \subseteq Calls
            /\ b = [id \in DOMAIN b |-> b[id]]
            /\ \A id \in DOMAIN b : b[id] \in PendingCall
BY DEF BackgroundMap

(* BackgroundCalls::insert keeps the map's type, whatever it evicts. *)
LEMMA InsertType ==
    ASSUME NEW b \in BackgroundMap, NEW id \in Calls, NEW call \in Calls
    PROVE  Insert(b, id, call) \in BackgroundMap
<1> DEFINE new == Insert(b, id, call)
<1>1. DOMAIN b \subseteq Calls /\ \A i \in DOMAIN b : b[i] \in PendingCall
  BY BackgroundMapType
<1>2. DOMAIN new \subseteq Calls /\ new = [i \in DOMAIN new |-> new[i]]
  BY <1>1 DEF Insert
<1>3. [call |-> call, idle |-> 0] \in PendingCall
  BY BackgroundAssumption DEF PendingCall
<1>4. \A i \in DOMAIN new : new[i] \in PendingCall
  BY <1>1, <1>3 DEF Insert
<1> QED BY <1>2, <1>4, BackgroundMapType

(* BackgroundCalls::take keeps the map's type. *)
LEMMA WithoutType ==
    ASSUME NEW b \in BackgroundMap, NEW ids
    PROVE  Without(b, ids) \in BackgroundMap
<1>1. DOMAIN b \subseteq Calls /\ \A i \in DOMAIN b : b[i] \in PendingCall
  BY BackgroundMapType
<1> QED BY <1>1, BackgroundMapType DEF Without

(* BackgroundCalls::touch keeps the map's type. *)
LEMMA TouchType ==
    ASSUME NEW b \in BackgroundMap, NEW id
    PROVE  Touch(b, id) \in BackgroundMap
<1>1. /\ DOMAIN b \subseteq Calls /\ b = [i \in DOMAIN b |-> b[i]]
      /\ \A i \in DOMAIN b : b[i] \in PendingCall
  BY BackgroundMapType
<1>2. CASE id \in DOMAIN b
  <2>1. [b[id] EXCEPT !.idle = 0] \in PendingCall
    BY <1>1, <1>2, BackgroundAssumption DEF PendingCall
  <2> DEFINE new == [b EXCEPT ![id].idle = 0]
  <2>2. DOMAIN new = DOMAIN b /\ new = [i \in DOMAIN new |-> new[i]]
    BY <1>1
  <2>3. \A i \in DOMAIN new : new[i] \in PendingCall
    BY <1>1, <1>2, <2>1
  <2> QED BY <1>1, <1>2, <2>2, <2>3, BackgroundMapType DEF Touch
<1>3. CASE id \notin DOMAIN b
  BY <1>3 DEF Touch
<1> QED BY <1>2, <1>3

(* A second of the cleanup task ages the waiting calls within IdleTtl. *)
LEMMA OlderType ==
    ASSUME NEW b \in BackgroundMap
    PROVE  Older(b) \in BackgroundMap
<1> DEFINE new == Older(b)
<1>1. DOMAIN b \subseteq Calls /\ \A i \in DOMAIN b : b[i] \in PendingCall
  BY BackgroundMapType
<1>2. DOMAIN new \subseteq Calls /\ new = [i \in DOMAIN new |-> new[i]]
  BY <1>1 DEF Older
<1>3. ASSUME NEW i \in DOMAIN b
      PROVE  new[i] \in PendingCall
  BY <1>1, <1>3, BackgroundAssumption DEF Older, PendingCall
<1> QED BY <1>2, <1>3, BackgroundMapType DEF Older

(***************************************************************************)
(* The ledger and the stream.                                              *)
(***************************************************************************)
LEMMA AccountType ==
    ASSUME NEW x, GoodContext(x), NEW call, NEW verdict \in Verdicts
    PROVE  /\ GoodContext(Account(x, call, verdict))
           /\ Account(x, call, verdict).s = x.s
           /\ Account(x, call, verdict).bg = x.bg
<1>0. x.acc \in [Calls -> Nat]
  BY DEF GoodContext, ContextType
<1>1. [x.acc EXCEPT ![call] = @ + 1] \in [Calls -> Nat]
  <2>1. CASE call \in Calls
    BY <1>0, <2>1
  <2>2. CASE call \notin Calls
    BY <1>0, <2>2, ZenonT(20)
  <2> QED BY <2>1, <2>2
<1>2. [x.why EXCEPT ![call] = verdict] \in [Calls -> Reasons \cup {"", "recorded"}]
  BY DEF GoodContext, ContextType, Verdicts
<1> QED BY <1>1, <1>2 DEF GoodContext, ContextType, Account

(* record_usage keeps the context good. *)
LEMMA RecordUsageType ==
    ASSUME NEW x, GoodContext(x), NEW call \in Calls, NEW id
    PROVE  /\ GoodContext(RecordUsage(x, call, id))
           /\ RecordUsage(x, call, id).s = x.s
<1> DEFINE y == Account(x, call, "recorded")
<1>1. GoodContext(y) /\ y.s = x.s
  BY AccountType DEF Verdicts
<1> DEFINE z == [y EXCEPT !.wrong = @ \cup {call}]
<1>2. y \in ContextType /\ y.wrong \cup {call} \subseteq Calls
  BY <1>1 DEF GoodContext, ContextType
<1>3. z = [y EXCEPT !.wrong = y.wrong \cup {call}]
  OBVIOUS
<1>4. z \in ContextType /\ z.s = y.s
  BY <1>2, <1>3 DEF ContextType
<1>5. GoodContext(z) /\ z.s = y.s
  BY <1>1, <1>4 DEF GoodContext
<1> QED BY <1>1, <1>5 DEF RecordUsage

(* give_up keeps the context good. *)
LEMMA GiveUpType ==
    ASSUME NEW x, GoodContext(x), NEW call
    PROVE  GoodContext(GiveUp(x, call)) /\ GiveUp(x, call).s = x.s
BY AccountType DEF GiveUp, Verdicts, Reasons

(* A context whose stream was replaced, or one of the other parts. *)
LEMMA WithStream ==
    ASSUME NEW x, GoodContext(x), NEW s \in StreamType, GoodStream(s)
    PROVE  GoodContext([x EXCEPT !.s = s]) /\ [x EXCEPT !.s = s].s = s
BY DEF GoodContext, ContextType

(* A context whose background calls were replaced. *)
LEMMA WithBackground ==
    ASSUME NEW x, GoodContext(x), NEW b \in BackgroundMap
    PROVE  GoodContext([x EXCEPT !.bg = b]) /\ [x EXCEPT !.bg = b].s = x.s
BY DEF GoodContext, ContextType

(* A new StreamProcessor is a good stream. *)
LEMMA NewStreamType == NewStream \in StreamType /\ GoodStream(NewStream)
<1>1. <<>> \in Seq(WriteToken) /\ <<>> \in Seq(ReadToken)
  OBVIOUS
<1>2. 0 \in 0..Retention
  BY StreamsAssumption, BackgroundAssumption
<1>3. NewStream \in StreamType
  BY <1>1, <1>2 DEF NewStream, StreamType, NoNext
<1> QED BY <1>3 DEF NewStream, GoodStream, IsLlm

(* drop_response leaves a good stream. *)
LEMMA DropResponseType ==
    ASSUME NEW x, GoodContext(x), NEW reason \in Reasons
    PROVE  GoodContext(DropResponse(x, reason))
<1> DEFINE y == [x EXCEPT !.s.st = "Finished", !.s.cont = NoCall]
<1>1. GoodContext(y)
  BY DEF GoodContext, ContextType, GoodStream, IsLlm, StreamType
<1>2. GoodContext(Account(y, x.s.call, reason))
  BY <1>1, AccountType DEF Verdicts
<1> QED BY <1>1, <1>2 DEF DropResponse

(* reset leaves a good stream. *)
LEMMA ResetType ==
    ASSUME NEW x, GoodContext(x)
    PROVE  GoodContext(Reset(x))
BY NewStreamType, ZenonT(60) DEF GoodContext, ContextType, Reset, StreamType, GoodStream, IsLlm, NewStream

(* The write buffer over its limit gives up on the call, or is cleared. *)
LEMMA OverflowType ==
    ASSUME NEW x, GoodContext(x), NEW reason \in Reasons
    PROVE  \A y \in Overflow(x, reason) : GoodContext(y)
BY DropResponseType, ResetType DEF Overflow

(***************************************************************************)
(* Parsing: what a response parses to names a call.                        *)
(***************************************************************************)
Parsed == [result : Results, id : Calls]

(* A non-empty set of naturals has a least element. *)
LEMMA LeastNatural ==
    ASSUME NEW T \in SUBSET Nat, T # {}
    PROVE  \E m \in T : \A n \in T : m <= n
<1>1. PICK m \in T : \A n \in T : ~(<<n, m>> \in OpToRel(<, Nat))
  BY NatLessThanWellFounded, WFMin, Zenon
<1>2. \A n \in T : ~(n < m)
  BY <1>1 DEF OpToRel
<1> QED BY <1>2

(* What Final and Body leave of a read buffer is again one. *)
LEMMA FinalType ==
    ASSUME NEW buf \in Seq(ReadToken), Final(buf) # <<>>
    PROVE  Final(buf) \in Seq(ReadToken) /\ Body(buf) \in Seq(ReadToken)
<1> DEFINE at == SelectInSeq(buf, LAMBDA tok : tok.t # "interim")
           I == {i \in 1..Len(buf) : buf[i].t # "interim"}
<1>1. at # 0 /\ Final(buf) = SubSeq(buf, at, Len(buf))
  BY DEF Final
<1>2. at = Min(I) /\ I # {}
  BY <1>1 DEF SelectInSeq
<1>3. \E m \in I : \A n \in I : m <= n
  <2>1. I \in SUBSET Nat
    OBVIOUS
  <2> HIDE DEF I
  <2> QED BY <1>2, <2>1, LeastNatural
<1>4. at \in I
  BY <1>2, <1>3 DEF Min
<1>5. \A i \in at..Len(buf) : buf[i] \in ReadToken
  BY <1>4
<1>6. Final(buf) \in Seq(ReadToken)
  BY <1>1, <1>4, <1>5, SubSeqProperties
<1>7. Body(buf) \in Seq(ReadToken)
  BY <1>6, HeadTailProperties DEF Body
<1> QED BY <1>6, <1>7

(* parse_response_from returns a result, or nothing. *)
LEMMA ParseResponseType ==
    ASSUME NEW buf \in Seq(ReadToken), NEW hole
    PROVE  ParseResponse(buf, hole) \in Parsed \/ ParseResponse(buf, hole) = Unread
<1> DEFINE fins == {i \in DOMAIN Body(buf) : Body(buf)[i].t = "fin"}
           first == CHOOSE i \in fins : \A j \in fins : i <= j
<1>1. SUFFICES ASSUME HasFinalHead(buf), fins # {}
               PROVE  /\ Body(buf)[first].result \in Results
                      /\ Body(buf)[first].id \in Calls
  BY DEF ParseResponse, Parsed
<1>2. Body(buf) \in Seq(ReadToken)
  BY <1>1, FinalType DEF HasFinalHead
<1>3. \E i \in fins : \A j \in fins : i <= j
  <2>1. fins \in SUBSET Nat
    BY <1>2
  <2> HIDE DEF fins
  <2> QED BY <1>1, <2>1, LeastNatural
<1>4. first \in fins
  BY <1>3
<1>5. Body(buf)[first] \in ReadToken /\ Body(buf)[first].t = "fin"
  BY <1>2, <1>4
<1>6. Body(buf)[first] \in FinToken
  BY <1>5 DEF ReadToken, HeadToken, BodyToken, FinToken
<1> QED BY <1>6 DEF FinToken

(* PastLimit::take_usage returns a result, or nothing. *)
LEMMA ParseFollowedType ==
    ASSUME NEW buf \in Seq(ReadToken), NEW hole
    PROVE  \/ ParseFollowed(buf, hole) \in Parsed
           \/ ParseFollowed(buf, hole) = Unread
<1> DEFINE r == ParseResponse(buf, hole)
<1>1. r \in Parsed \/ r = Unread
  BY ParseResponseType
<1>2. CASE r \in Parsed
  <2>1. [r EXCEPT !.result = "error"] \in Parsed
    BY <1>2 DEF Parsed, Results
  <2> QED BY <1>2, <2>1 DEF ParseFollowed, UsageOnly
<1>3. CASE r = Unread
  BY <1>3 DEF ParseFollowed, UsageOnly, Unread
<1> QED BY <1>1, <1>2, <1>3

(***************************************************************************)
(* Settling.                                                               *)
(***************************************************************************)
LEMMA DeferType ==
    ASSUME NEW x, GoodContext(x), x.s.call \in Calls, NEW id \in Calls
    PROVE  \A y \in Defer(x, id) : GoodContext(y)
<1> DEFINE lost == x.lost \cup (IF id \in DOMAIN x.bg THEN {x.bg[id].call} ELSE {})
           new == Insert(x.bg, id, x.s.call)
           queued == [x EXCEPT !.bg = Insert(@, id, x.s.call),
                               !.lost = @ \cup (IF id \in DOMAIN x.bg THEN {x.bg[id].call}
                                                ELSE {})]
<1>1. new \in BackgroundMap
  BY InsertType DEF GoodContext, ContextType
<1>2. lost \subseteq Calls
  <2>1. \A i \in DOMAIN x.bg : x.bg[i] \in PendingCall
    BY BackgroundMapType DEF GoodContext, ContextType
  <2>2. \A i \in DOMAIN x.bg : x.bg[i].call \in Calls
    BY <2>1 DEF PendingCall
  <2>3. x.lost \subseteq Calls
    BY DEF GoodContext, ContextType
  <2> QED BY <2>2, <2>3
<1>3. GoodContext(queued)
  <2>1. queued = [x EXCEPT !.bg = new, !.lost = lost]
    OBVIOUS
  <2> HIDE DEF new, lost, queued
  <2> QED BY <1>1, <1>2, <2>1 DEF GoodContext, ContextType
<1>4. ASSUME NEW old
      PROVE  GoodContext(GiveUp([queued EXCEPT !.bg = Without(@, {old})], x.bg[old].call))
  <2> HIDE DEF queued
  <2>1. queued \in ContextType /\ Without(queued.bg, {old}) \in BackgroundMap
    BY <1>3, WithoutType DEF GoodContext, ContextType
  <2>2. GoodContext([queued EXCEPT !.bg = Without(@, {old})])
    BY <1>3, <2>1, WithBackground
  <2> QED BY <2>2, GiveUpType
<1> QED BY <1>3, <1>4 DEF Defer

(* settle_create keeps the context good. *)
LEMMA SettleCreateType ==
    ASSUME NEW x, GoodContext(x), x.s.call \in Calls, NEW r, r \in Parsed \/ r = Unread
    PROVE  \A y \in SettleCreate(x, r) : GoodContext(y)
<1>1. CASE r = Unread
  BY <1>1 DEF SettleCreate, Unread
<1>2. CASE r \in Parsed
  <2>1. r.id \in Calls
    BY <1>2 DEF Parsed
  <2> QED BY <2>1, RecordUsageType, DeferType DEF SettleCreate
<1> QED BY <1>1, <1>2

(* settle_poll keeps the context good. *)
LEMMA SettlePollType ==
    ASSUME NEW x, GoodContext(x), NEW r
    PROVE  \A y \in SettlePoll(x, r) : GoodContext(y)
<1> DEFINE id == x.s.cont
           done == [x EXCEPT !.s.cont = NoCall]
           touched == [done EXCEPT !.bg = Touch(@, id)]
           taken == [done EXCEPT !.bg = Without(@, {id})]
<1>1. GoodContext(done) /\ done.bg = x.bg
  BY DEF GoodContext, ContextType, StreamType, GoodStream, IsLlm
<1>2. done.bg \in BackgroundMap
  BY <1>1 DEF GoodContext, ContextType
<1>3. GoodContext(touched)
  <2> HIDE DEF done
  <2> QED BY <1>1, <1>2, TouchType, WithBackground
<1>4. GoodContext(taken)
  <2> HIDE DEF done
  <2> QED BY <1>1, <1>2, WithoutType, WithBackground
<1>5. ASSUME id \in DOMAIN x.bg
      PROVE  /\ GoodContext(GiveUp(taken, x.bg[id].call))
             /\ GoodContext(RecordUsage(taken, x.bg[id].call, r.id))
  <2>1. x.bg[id] \in PendingCall
    BY <1>1, <1>2, <1>5, BackgroundMapType
  <2>2. x.bg[id].call \in Calls
    BY <2>1 DEF PendingCall
  <2> HIDE DEF taken
  <2> QED BY <1>4, <2>2, GiveUpType, RecordUsageType
<1> HIDE DEF done, touched, taken
<1>6. \A y \in SettlePoll(x, r) :
         \/ y = touched \/ y = done
         \/ id \in DOMAIN x.bg /\ y = GiveUp(taken, x.bg[id].call)
         \/ id \in DOMAIN x.bg /\ y = RecordUsage(taken, x.bg[id].call, r.id)
  BY DEF SettlePoll, done, touched, taken
<1> QED BY <1>1, <1>3, <1>5, <1>6

(* settle keeps the context good. *)
LEMMA SettleType ==
    ASSUME NEW x, GoodContext(x), IsLlm(x.s), NEW r, r \in Parsed \/ r = Unread
    PROVE  \A y \in Settle(x, r) : GoodContext(y)
BY SettleCreateType, SettlePollType DEF Settle, GoodContext, GoodStream

(* Parsing a complete response and settling it keeps the context good. *)
LEMMA ParseAndSettleType ==
    ASSUME NEW x, GoodContext(x), IsLlm(x.s), NEW f
    PROVE  \A y \in ParseAndSettle(x, f) : GoodContext(y)
<1> DEFINE r == IF x.s.past THEN ParseFollowed(x.s.rbuf, x.s.hole)
                ELSE ParseResponse(x.s.rbuf, x.s.hole)
           touched == IF f.last /\ x.s.cont # NoCall THEN Touch(x.bg, x.s.cont) ELSE x.bg
           waiting == [x EXCEPT !.s.st = "ProcessingResponse", !.bg = touched]
<1>1. x.s.rbuf \in Seq(ReadToken)
  BY DEF GoodContext, ContextType, StreamType
<1>2. r \in Parsed \/ r = Unread
  BY <1>1, ParseResponseType, ParseFollowedType
<1>3. \A y \in Settle(x, r) : GoodContext(y)
  BY <1>2, SettleType
<1>4. ASSUME NEW y, GoodContext(y)
      PROVE  GoodContext([y EXCEPT !.s.st = "Finished"])
  BY <1>4 DEF GoodContext, ContextType, StreamType, GoodStream, IsLlm
<1>5. GoodContext(waiting)
  <2>1. touched \in BackgroundMap
    BY TouchType DEF GoodContext, ContextType
  <2> HIDE DEF touched
  <2> QED BY <2>1 DEF GoodContext, ContextType, StreamType, GoodStream, IsLlm
<1>6. \A y \in ParseAndSettle(x, f) :
         y = waiting \/ \E z \in Settle(x, r) : y = [z EXCEPT !.s.st = "Finished"]
  BY DEF ParseAndSettle, SettleOrWait
<1> QED BY <1>3, <1>4, <1>5, <1>6

(***************************************************************************)
(* Handling a fragment.                                                    *)
(***************************************************************************)
LEMMA RequestHeadType ==
    ASSUME NEW buf \in Seq(WriteToken), IsRequestHead(buf)
    PROVE  Head(buf).call \in Calls
<1>1. Head(buf) \in WriteToken /\ Head(buf).t = "req"
  BY HeadTailProperties DEF IsRequestHead
<1> QED BY <1>1 DEF WriteToken, ReqToken, MoreToken

(* detect leaves a good stream, a call or a poll recognised or not. *)
LEMMA DetectType ==
    ASSUME NEW x, GoodContext(x)
    PROVE  GoodContext(Detect(x))
<1> DEFINE first == Head(x.s.wbuf)
           llm == [x EXCEPT !.s.st = "ProcessingRequest", !.s.call = first.call,
                            !.seen = @ \cup {first.call}]
           poll == [x EXCEPT !.s.st = "ProcessingRequest", !.s.call = first.call,
                             !.s.cont = first.id]
           none == [x EXCEPT !.s.st = IF Len(x.s.wbuf) > DetectLimit THEN "Finished"
                                      ELSE "Detecting"]
<1>1. x.s.wbuf \in Seq(WriteToken)
  BY DEF GoodContext, ContextType, StreamType
<1>2. ASSUME IsRequestHead(x.s.wbuf)
      PROVE  GoodContext(llm)
  <2>1. first.call \in Calls
    BY <1>1, <1>2, RequestHeadType
  <2>2. x.seen \cup {first.call} \subseteq Calls
    BY <2>1 DEF GoodContext, ContextType
  <2> DEFINE seen == x.seen \cup {first.call}
  <2>3. llm = [x EXCEPT !.s.st = "ProcessingRequest", !.s.call = first.call, !.seen = seen]
    OBVIOUS
  <2> HIDE DEF seen, llm, first
  <2> QED BY <2>1, <2>2, <2>3
          DEF GoodContext, ContextType, StreamType, GoodStream, IsLlm, seen
<1>3. ASSUME IsRequestHead(x.s.wbuf), first.id \in DOMAIN x.bg
      PROVE  GoodContext(poll)
  <2>1. first.call \in Calls
    BY <1>1, <1>3, RequestHeadType
  <2>2. first.id \in Calls
    BY <1>3, BackgroundMapType DEF GoodContext, ContextType
  <2> HIDE DEF first
  <2> QED BY <2>1, <2>2 DEF GoodContext, ContextType, StreamType, GoodStream, IsLlm
<1>4. GoodContext(none)
  BY DEF GoodContext, ContextType, StreamType, GoodStream, IsLlm
<1> HIDE DEF llm, poll, none
<1>5. \/ Detect(x) = none
      \/ IsRequestHead(x.s.wbuf) /\ Detect(x) = llm
      \/ IsRequestHead(x.s.wbuf) /\ first.id \in DOMAIN x.bg /\ Detect(x) = poll
  BY DEF Detect, llm, poll, none
<1> QED BY <1>2, <1>3, <1>4, <1>5

(* A Write event keeps the context good. *)
LEMMA HandleWriteType ==
    ASSUME NEW x, GoodContext(x), NEW f, f.toks \in Seq(WriteToken)
    PROVE  \A y \in HandleWrite(x, f) : GoodContext(y)
<1> DEFINE u == IF x.s.st = "Finished" THEN Reset(x) ELSE x
           z == [u EXCEPT !.s.wbuf = @ \o f.toks]
<1>1. GoodContext(u)
  BY ResetType
<1>2. GoodContext(z)
  <2> HIDE DEF u
  <2>1. u.s.wbuf \o f.toks \in Seq(WriteToken)
    BY <1>1, ConcatProperties DEF GoodContext, ContextType, StreamType
  <2> DEFINE w == u.s.wbuf \o f.toks
  <2>2. z = [u EXCEPT !.s.wbuf = w]
    OBVIOUS
  <2> HIDE DEF w, z
  <2> QED BY <1>1, <2>1, <2>2
          DEF GoodContext, ContextType, StreamType, GoodStream, IsLlm, w
<1>3. \A y \in Overflow(u, "request_too_large") : GoodContext(y)
  <2> HIDE DEF u
  <2> QED BY <1>1, OverflowType DEF Reasons
<1>4. GoodContext(Detect(z))
  BY <1>2, DetectType
<1>5. z.s.st = "ProcessingResponse" => \A y \in ParseAndSettle(z, f) : GoodContext(y)
  <2> HIDE DEF z
  <2>1. z.s.st = "ProcessingResponse" => IsLlm(z.s)
    BY DEF IsLlm
  <2> QED BY <1>2, <2>1, ParseAndSettleType
<1> QED BY <1>2, <1>3, <1>4, <1>5 DEF HandleWrite

(* A Read that belongs to no call leaves a good stream. *)
LEMMA IgnoreReadType ==
    ASSUME NEW x, GoodContext(x), NEW f
    PROVE  \A y \in IgnoreRead(x, f) : GoodContext(y)
<1>1. <<>> \in Seq(WriteToken)
  OBVIOUS
<1>2. GoodContext([x EXCEPT !.s.wbuf = <<>>])
  BY <1>1 DEF GoodContext, ContextType, StreamType, GoodStream, IsLlm
<1> QED BY <1>2 DEF IgnoreRead

(* A Read event keeps the context good. *)
LEMMA HandleReadType ==
    ASSUME NEW x, GoodContext(x), NEW f, f.toks \in Seq(ReadToken),
           NEW hole \in SUBSET {"ends", "parses"}
    PROVE  \A y \in HandleRead(x, f, hole) : GoodContext(y)
<1> DEFINE u == [x EXCEPT !.s.rbuf = @ \o f.toks, !.s.hole = hole]
           v == [u EXCEPT !.s.past = TRUE]
<1>1. ~IsLlm(x.s) => \A y \in HandleRead(x, f, hole) : GoodContext(y)
  BY IgnoreReadType DEF HandleRead
<1>2. SUFFICES ASSUME IsLlm(x.s)
               PROVE  \A y \in HandleRead(x, f, hole) : GoodContext(y)
  BY <1>1
<1>3. GoodContext(u) /\ IsLlm(u.s)
  <2>1. x.s.rbuf \o f.toks \in Seq(ReadToken)
    BY ConcatProperties DEF GoodContext, ContextType, StreamType
  <2> DEFINE b == x.s.rbuf \o f.toks
  <2>2. u = [x EXCEPT !.s.rbuf = b, !.s.hole = hole]
    OBVIOUS
  <2> HIDE DEF b, u
  <2> QED BY <1>2, <2>1, <2>2
          DEF GoodContext, ContextType, StreamType, GoodStream, IsLlm, b
<1>4. GoodContext(v) /\ IsLlm(v.s)
  <2> HIDE DEF u
  <2> QED BY <1>3 DEF GoodContext, ContextType, StreamType, GoodStream, IsLlm
<1>5. /\ \A y \in ParseAndSettle(u, f) : GoodContext(y)
      /\ \A y \in ParseAndSettle(v, f) : GoodContext(y)
      /\ \A y \in Overflow(u, "response_too_large") : GoodContext(y)
  <2> HIDE DEF u, v
  <2> QED BY <1>3, <1>4, ParseAndSettleType, OverflowType DEF Reasons
<1>6. \/ HandleRead(x, f, hole) = ParseAndSettle(u, f)
      \/ HandleRead(x, f, hole) = ParseAndSettle(v, f)
      \/ HandleRead(x, f, hole) = Overflow(u, "response_too_large")
  BY <1>2 DEF HandleRead
<1> QED BY <1>5, <1>6

(* A hole is one of the two a lost part of a body can be. *)
LEMMA HolesType ==
    ASSUME NEW buf, NEW hole \in Holes(buf)
    PROVE  hole \in SUBSET {"ends", "parses"}
BY DEF Holes

(* handle_event keeps the context good. *)
LEMMA HandleEventType ==
    ASSUME NEW x, GoodContext(x), NEW f, GoodFragment(f), f.dir # "Closed"
    PROVE  \A y \in HandleEvent(x, f) : GoodContext(y)
<1> DEFINE u == [x EXCEPT !.s.idle = 0]
<1>1. 0 \in 0..Retention
  BY StreamsAssumption, BackgroundAssumption
<1>2. GoodContext(u)
  BY <1>1 DEF GoodContext, ContextType, StreamType, GoodStream, IsLlm
<1> HIDE DEF u
<1>3. CASE f.dir = "Write"
  <2>1. f.toks \in Seq(WriteToken)
    BY <1>3 DEF GoodFragment
  <2> QED BY <1>2, <1>3, <2>1, HandleWriteType DEF HandleEvent, u
<1>4. CASE f.dir = "Read"
  <2>1. f.toks \in Seq(ReadToken)
    BY <1>4 DEF GoodFragment
  <2>2. \A hole \in Holes(x.s.rbuf \o f.toks) : \A y \in HandleRead(u, f, hole) : GoodContext(y)
    BY <1>2, <2>1, HolesType, HandleReadType
  <2>3. \A y \in HandleEvent(x, f) :
          \E hole \in Holes(x.s.rbuf \o f.toks) : y \in HandleRead(u, f, hole)
    BY <1>4 DEF HandleEvent, u
  <2> QED BY <2>2, <2>3
<1> QED BY <1>3, <1>4 DEF GoodFragment, FragmentType

(* note_next_request leaves a good stream. *)
LEMMA NoteNextType ==
    ASSUME NEW x, GoodContext(x), NEW f, f.toks \in Seq(WriteToken)
    PROVE  GoodContext(NoteNext(x, f))
<1> DEFINE request == Head(f.toks)
           seen == x.seen \cup (IF request.kind = "llm" THEN {request.call} ELSE {})
           next == [at |-> Len(x.s.wbuf), call |-> request.call]
           noted == [x EXCEPT !.s.next = [at |-> Len(x.s.wbuf), call |-> request.call],
                              !.seen = @ \cup (IF request.kind = "llm" THEN {request.call}
                                               ELSE {})]
<1>1. SUFFICES ASSUME IsRequestHead(f.toks)
               PROVE  GoodContext(noted)
  <2>1. GoodContext(noted) => GoodContext(Account(noted, x.s.next.call, "capture_lost"))
    BY AccountType DEF Verdicts, Reasons
  <2> QED BY <1>1, <2>1 DEF NoteNext
<1>2. request.call \in Calls
  BY <1>1, RequestHeadType
<1>3. seen \subseteq Calls
  BY <1>2 DEF GoodContext, ContextType
<1>4. next \in [at : Nat, call : Calls \cup {NoCall}]
  <2>1. Len(x.s.wbuf) \in Nat
    BY LenProperties DEF GoodContext, ContextType, StreamType
  <2> QED BY <1>2, <2>1
<1>5. noted = [x EXCEPT !.s.next = next, !.seen = seen]
  OBVIOUS
<1> HIDE DEF next, seen, noted, request
<1> QED BY <1>3, <1>4, <1>5, ZenonT(60) DEF GoodContext, ContextType, StreamType, GoodStream, IsLlm

(* resume_next_request keeps the context good. *)
LEMMA ResumeNextType ==
    ASSUME NEW x, GoodContext(x)
    PROVE  GoodContext(ResumeNext(x))
<1> DEFINE w == SubSeq(x.s.wbuf, x.s.next.at + 1, Len(x.s.wbuf))
           y == [x EXCEPT !.s.next = NoNext, !.s.rbuf = <<>>, !.s.hole = {},
                          !.s.wbuf = SubSeq(@, x.s.next.at + 1, Len(@))]
<1>1. x.s.wbuf \in Seq(WriteToken) /\ x.s.next.at \in Nat
  BY DEF GoodContext, ContextType, StreamType
<1>2. w \in Seq(WriteToken)
  <2>1. \A i \in x.s.next.at + 1 .. Len(x.s.wbuf) : x.s.wbuf[i] \in WriteToken
    BY <1>1
  <2> QED BY <1>1, <2>1, SubSeqProperties
<1>3. NoNext \in [at : Nat, call : Calls \cup {NoCall}] /\ <<>> \in Seq(ReadToken)
  BY DEF NoNext
<1>4. y = [x EXCEPT !.s.next = NoNext, !.s.rbuf = <<>>, !.s.hole = {}, !.s.wbuf = w]
  OBVIOUS
<1>5. GoodContext(y)
  <2> HIDE DEF w, y
  <2> QED BY <1>2, <1>3, <1>4 DEF GoodContext, ContextType, StreamType, GoodStream, IsLlm
<1> QED BY <1>5, DetectType DEF ResumeNext

(* handle_fragment keeps the context good. *)
LEMMA HandleFragmentType ==
    ASSUME NEW x, GoodContext(x), NEW f, GoodFragment(f), f.dir # "Closed"
    PROVE  \A y \in HandleFragment(x, f) : GoodContext(y)
<1> DEFINE fragNext == IF f.last THEN 0 ELSE f.off + 1
           tracked == [x EXCEPT !.s.fragNext = IF f.last THEN 0 ELSE f.off + 1,
                                !.s.fragDir = f.dir]
           drops == {tracked, DropResponse(tracked, "capture_lost"),
                     DropResponse(tracked, "next_request")}
<1>1. GoodContext(tracked)
  <2>1. fragNext \in 0..2 /\ f.dir \in {"Unknown", "Read", "Write"}
    BY DEF GoodFragment, FragmentType
  <2>2. tracked = [x EXCEPT !.s.fragNext = fragNext, !.s.fragDir = f.dir]
    OBVIOUS
  <2> HIDE DEF fragNext, tracked
  <2> QED BY <2>1, <2>2 DEF GoodContext, ContextType, StreamType, GoodStream, IsLlm
<1>2. \A d \in drops : GoodContext(d)
  <2> HIDE DEF tracked
  <2> QED BY <1>1, DropResponseType DEF Reasons
<1>3. \A d \in drops : /\ GoodContext(ResumeNext(d))
                       /\ f.dir = "Write" => GoodContext(NoteNext(d, f))
  <2> HIDE DEF drops
  <2> QED BY <1>2, ResumeNextType, NoteNextType DEF GoodFragment
<1> DEFINE started == UNION {{d, ResumeNext(d)} \cup
                             (IF f.dir = "Write" THEN {NoteNext(d, f)} ELSE {}) : d \in drops}
<1>4. \A u \in started : GoodContext(u) /\ \A y \in HandleEvent(u, f) : GoodContext(y)
  <2>1. \A u \in started : GoodContext(u)
    <3> HIDE DEF drops
    <3> QED BY <1>2, <1>3
  <2> HIDE DEF started
  <2> QED BY <2>1, HandleEventType
<1>5. \E u \in started : HandleFragment(x, f) = {u} \/ HandleFragment(x, f) = HandleEvent(u, f)
  <2> DEFINE outOfOrder == f.off # x.s.fragNext
             lostTail == outOfOrder /\ f.off = 0 /\ x.s.fragDir = "Read"
             lostHere == ((outOfOrder /\ f.off # 0) \/ f.trunc) /\ f.dir = "Read"
             gap == lostTail \/ lostHere
             resync == f.off = 0 /\ ~gap /\ LostTail(x.s, f)
             dropped == IF gap THEN DropResponse(tracked, "capture_lost")
                        ELSE IF f.dir = "Write" /\ AwaitsResponse(x.s)
                             THEN DropResponse(tracked, "next_request")
                        ELSE IF resync \/ (f.off = 0 /\ LostHead(x.s, f))
                             THEN DropResponse(tracked, "capture_lost")
                        ELSE tracked
             start == IF resync THEN ResumeNext(dropped)
                      ELSE IF f.off = 0 /\ f.dir = "Write" THEN NoteNext(dropped, f)
                      ELSE dropped
  <2>1. HandleFragment(x, f) = IF outOfOrder /\ f.off # 0 THEN {start} ELSE HandleEvent(start, f)
    BY DEF HandleFragment
  <2> HIDE DEF tracked, gap, resync
  <2>2. dropped \in drops
    OBVIOUS
  <2> HIDE DEF drops, dropped
  <2>3. start \in started
    BY <2>2
  <2> HIDE DEF start, started
  <2> QED BY <2>1, <2>3
<1> HIDE DEF started
<1> QED BY <1>4, <1>5

(***************************************************************************)
(* Clients and capture.                                                    *)
(***************************************************************************)
RingOK ==
    /\ ring \in [key : Conns \cup {NoCall}, frags : Seq(FragmentType)]
    /\ \A i \in DOMAIN ring.frags : GoodFragment(ring.frags[i])
    /\ ring.frags # <<>> => ring.key \in Conns

ConnOK ==
    conn \in [Conns -> [call : Calls \cup {NoCall}, todo : Seq(ReadToken), more : Nat,
                       close : BOOLEAN]]

(* A response is a sequence of tokens of one exchange. *)
LEMMA ResponseType ==
    ASSUME NEW c \in Calls, NEW id \in Calls, NEW shape \in Shapes
    PROVE  Response(c, id, shape) \in Seq(ReadToken)
<1> DEFINE interims == [i \in 1..shape.interim |-> [t |-> "interim", call |-> c]]
           head == <<[t |-> "head", call |-> c, n |-> shape.n, framing |-> shape.framing,
                      follow |-> shape.follow]>>
           bodies == [i \in 1..(shape.n - 1) |-> [t |-> "body", call |-> c, at |-> i]]
           fin == <<[t |-> "fin", call |-> c, at |-> shape.n, result |-> shape.result,
                     id |-> id]>>
<1>1. /\ shape.interim \in Nat /\ shape.n \in Nat \ {0} /\ shape.result \in Results
      /\ shape.framing \in {"length", "chunked", "close"}
      /\ shape.follow \in {"json", "sse", "no"}
  BY StreamsAssumption
<1>2. interims \in Seq(ReadToken)
  <2>1. [t |-> "interim", call |-> c] \in ReadToken
    BY DEF ReadToken
  <2> QED BY <1>1, <2>1
<1>3. head \in Seq(ReadToken)
  BY <1>1 DEF ReadToken, HeadToken
<1>4. bodies \in Seq(ReadToken)
  <2>1. \A i \in 1..(shape.n - 1) : [t |-> "body", call |-> c, at |-> i] \in ReadToken
    BY <1>1 DEF ReadToken, BodyToken
  <2>2. shape.n - 1 \in Nat
    BY <1>1
  <2> QED BY <2>1, <2>2
<1>5. fin \in Seq(ReadToken)
  BY <1>1 DEF ReadToken, FinToken
<1> HIDE DEF interims, head, bodies, fin
<1>6. (interims \o head \o bodies) \o fin \in Seq(ReadToken)
  BY <1>2, <1>3, <1>4, <1>5, ConcatProperties
<1> QED BY <1>6 DEF Response, interims, head, bodies, fin

(* The tokens of an SSL call in direction dir. *)
TokensOf(dir, toks) ==
    \/ dir = "Write" /\ toks \in Seq(WriteToken)
    \/ dir = "Read" /\ toks \in Seq(ReadToken)

(* A part of a sequence of tokens is one. *)
LEMMA SliceType ==
    ASSUME NEW T, NEW toks \in Seq(T), NEW i \in Nat, NEW j \in Nat, j <= Len(toks)
    PROVE  SubSeq(toks, i + 1, j) \in Seq(T)
<1>1. \A n \in i + 1 .. j : toks[n] \in T
  OBVIOUS
<1> QED BY <1>1, SubSeqProperties

(* The tokens of a part are tokens of the whole. *)
LEMMA SliceTokens ==
    ASSUME NEW dir, NEW toks, TokensOf(dir, toks),
           NEW i \in Nat, NEW j \in Nat, j <= Len(toks)
    PROVE  TokensOf(dir, SubSeq(toks, i + 1, j))
<1>1. CASE dir = "Write" /\ toks \in Seq(WriteToken)
  BY <1>1, SliceType DEF TokensOf
<1>2. CASE dir = "Read" /\ toks \in Seq(ReadToken)
  BY <1>2, SliceType DEF TokensOf
<1> QED BY <1>1, <1>2 DEF TokensOf

(* The fragments a captured or damaged SSL call is cut into. *)
LEMMA FragmentIsGood ==
    ASSUME NEW dir, NEW toks, TokensOf(dir, toks)
    PROVE  /\ GoodFragment(Fragment(dir, toks, 0, TRUE, FALSE))
           /\ GoodFragment(Fragment(dir, toks, 0, FALSE, FALSE))
           /\ GoodFragment(Fragment(dir, toks, 0, TRUE, TRUE))
           /\ GoodFragment(Fragment(dir, toks, 1, TRUE, FALSE))
BY DEF GoodFragment, FragmentType, Fragment, TokensOf

GoodFragments(frags) ==
    frags \in Seq(FragmentType) /\ \A i \in DOMAIN frags : GoodFragment(frags[i])

(* A call captured in one fragment is a good ring. *)
LEMMA OneFragment ==
    ASSUME NEW f, GoodFragment(f)
    PROVE  GoodFragments(<<f>>)
<1>1. f \in FragmentType
  BY DEF GoodFragment
<1>2. <<f>> \in Seq(FragmentType) /\ DOMAIN <<f>> = {1} /\ <<f>>[1] = f
  BY <1>1
<1> QED BY <1>2 DEF GoodFragments

(* A call captured in two fragments is a good ring. *)
LEMMA TwoFragments ==
    ASSUME NEW f, NEW g, GoodFragment(f), GoodFragment(g)
    PROVE  GoodFragments(<<f, g>>)
<1>1. f \in FragmentType /\ g \in FragmentType
  BY DEF GoodFragment
<1>2. /\ <<f, g>> \in Seq(FragmentType) /\ DOMAIN <<f, g>> = {1, 2}
      /\ <<f, g>>[1] = f /\ <<f, g>>[2] = g
  BY <1>1
<1> QED BY <1>2 DEF GoodFragments

(* emit_llm_event leaves a good ring. *)
LEMMA CaptureType ==
    ASSUME NEW k \in Conns, NEW dir, NEW toks, TokensOf(dir, toks), NEW c, NEW t,
           Capture(k, dir, toks, c, t)
    PROVE  RingOK'
<1>1. Len(toks) \in Nat
  BY LenProperties DEF TokensOf
<1>2. GoodFragment(Fragment(dir, toks, 0, TRUE, FALSE))
  BY FragmentIsGood
<1>3. ASSUME NEW i \in 1..(Len(toks) - 1)
      PROVE  /\ GoodFragment(Fragment(dir, SubSeq(toks, 1, i), 0, FALSE, FALSE))
             /\ GoodFragment(Fragment(dir, SubSeq(toks, 1, i), 0, TRUE, TRUE))
             /\ GoodFragment(Fragment(dir, SubSeq(toks, i + 1, Len(toks)), 1, TRUE, FALSE))
  <2>1. i \in Nat /\ i <= Len(toks) /\ 0 \in Nat /\ 0 + 1 = 1
    BY <1>1
  <2>2. TokensOf(dir, SubSeq(toks, 0 + 1, i))
    BY <2>1, SliceTokens
  <2>3. TokensOf(dir, SubSeq(toks, 1, i))
    BY <2>1, <2>2
  <2>4. TokensOf(dir, SubSeq(toks, i + 1, Len(toks)))
    BY <1>1, <2>1, SliceTokens
  <2> QED BY <2>3, <2>4, FragmentIsGood
<1>4. \A frags \in Whole1(dir, toks) : GoodFragments(frags)
  BY <1>2, OneFragment DEF Whole1
<1>5. \A frags \in Whole2(dir, toks) : GoodFragments(frags)
  BY <1>3, TwoFragments DEF Whole2
<1>6. \A frags \in Damaged(dir, toks) : GoodFragments(frags)
  <2>1. GoodFragments(<<>>)
    BY DEF GoodFragments
  <2> QED BY <1>3, <2>1, OneFragment, ZenonT(60) DEF Damaged
<1>7. \E frags : GoodFragments(frags) /\ ring' = [key |-> k, frags |-> frags]
  BY <1>4, <1>5, <1>6 DEF Capture, Captured
<1> QED BY <1>7 DEF RingOK, GoodFragments

(***************************************************************************)
(* Type correctness.                                                       *)
(***************************************************************************)
StreamsOK == \A k \in Conns : GoodStream(streams[k])

TypeInv == TypeOK /\ StreamsOK /\ ConnOK /\ RingOK

(* The agent starts with no stream and no waiting call. *)
LEMMA InitType == Init => TypeInv
<1> SUFFICES ASSUME Init PROVE TypeInv
  OBVIOUS
<1>1. streams \in [Conns -> StreamType] /\ StreamsOK
  BY NewStreamType DEF Init, StreamsOK
<1>2. bg \in BackgroundMap
  <2>1. DOMAIN NoBackground = {} /\ NoBackground = [id \in DOMAIN NoBackground |-> NoBackground[id]]
    BY DEF NoBackground
  <2> QED BY <2>1, BackgroundMapType DEF Init
<1>3. ledger \in LedgerType
  BY DEF Init, LedgerType
<1>4. ConnOK
  <2>1. NoConn \in [call : Calls \cup {NoCall}, todo : Seq(ReadToken), more : Nat,
                    close : BOOLEAN]
    BY DEF NoConn
  <2> QED BY <2>1 DEF Init, ConnOK
<1>5. RingOK
  <2>1. <<>> \in Seq(FragmentType) /\ DOMAIN <<>> = {}
    OBVIOUS
  <2> QED BY <2>1 DEF Init, RingOK, NoRing
<1>6. cleanup \in {"idle", "due", "swept", "counting"} /\ expired \subseteq Calls
      /\ swept \subseteq Calls
  BY DEF Init
<1> QED BY <1>1, <1>2, <1>3, <1>4, <1>5, <1>6 DEF TypeInv, TypeOK

(* The agent's half of the state, which clients leave alone. *)
AgentOK == TypeOK /\ StreamsOK

agentVars == <<streams, bg, ledger, cleanup, expired, swept>>

(* A client's step leaves the agent's state good. *)
LEMMA AgentUnchanged == AgentOK /\ UNCHANGED agentVars => AgentOK'
BY DEF AgentOK, agentVars, TypeOK, StreamsOK

(* The next exchange is one no client has made. *)
LEMMA NextCallType ==
    ASSUME Unused # {}
    PROVE  NextCall \in Calls
<1>1. Calls \subseteq Nat
  BY StreamsAssumption
<1>2. Unused \subseteq Calls
  BY DEF Unused
<1>3. Unused \in SUBSET Nat
  BY <1>1, <1>2
<1>4. \E c \in Unused : \A d \in Unused : c <= d
  BY <1>3, LeastNatural
<1>5. NextCall \in Unused
  BY <1>4, Zenon DEF NextCall
<1> QED BY <1>2, <1>5

(* A client writing a request keeps the inductive invariant. *)
LEMMA RequestType ==
    ASSUME TypeInv, NEW k \in Conns, NEW kind \in Kinds, NEW id \in Calls \cup {NoCall},
           NEW shape \in Shapes, NEW more \in 0..MaxMore, Request(k, kind, id, shape, more)
    PROVE  TypeInv'
<1> DEFINE c == NextCall
           about == IF kind = "poll" THEN id ELSE c
           todo == Response(c, about, shape)
           toks == <<[t |-> "req", call |-> c, kind |-> kind, id |-> id]>>
<1>1. c \in Calls
  BY NextCallType DEF Request
<1>2. about \in Calls
  BY <1>1 DEF Request, Queued
<1>3. todo \in Seq(ReadToken)
  BY <1>1, <1>2, ResponseType
<1>4. ConnOK'
  <2>1. more \in Nat /\ (shape.framing = "close") \in BOOLEAN
    BY StreamsAssumption
  <2>2. conn' = [conn EXCEPT ![k] = [call |-> c, todo |-> todo, more |-> more,
                                     close |-> shape.framing = "close"]]
    BY DEF Request
  <2> HIDE DEF c, todo
  <2> QED BY <1>1, <1>3, <2>1, <2>2 DEF TypeInv, ConnOK
<1>5. RingOK'
  <2>1. [t |-> "req", call |-> c, kind |-> kind, id |-> id] \in WriteToken
    BY <1>1, StreamsAssumption DEF WriteToken, ReqToken
  <2>2. toks \in Seq(WriteToken)
    BY <2>1
  <2>3. TokensOf("Write", toks)
    BY <2>2 DEF TokensOf
  <2>4. \E t : Capture(k, "Write", toks, c, t)
    BY DEF Request
  <2> HIDE DEF toks, c
  <2> QED BY <2>3, <2>4, CaptureType
<1>6. AgentOK'
  BY AgentUnchanged DEF Request, TypeInv, AgentOK, agentVars
<1> QED BY <1>4, <1>5, <1>6 DEF TypeInv, AgentOK

(* A client writing more of a body keeps the inductive invariant. *)
LEMMA WriteMoreType ==
    ASSUME TypeInv, NEW k \in Conns, WriteMore(k)
    PROVE  TypeInv'
<1> DEFINE c == conn[k].call
           toks == <<[t |-> "more", call |-> c]>>
<1>1. c \in Calls /\ conn[k].more - 1 \in Nat
  BY DEF WriteMore, TypeInv, ConnOK
<1>2. ConnOK'
  BY <1>1 DEF WriteMore, TypeInv, ConnOK
<1>3. RingOK'
  <2>1. TokensOf("Write", toks)
    BY <1>1 DEF TokensOf, WriteToken, MoreToken
  <2>2. \E t : Capture(k, "Write", toks, c, t)
    BY DEF WriteMore
  <2> HIDE DEF toks, c
  <2> QED BY <2>1, <2>2, CaptureType
<1>4. AgentOK'
  BY AgentUnchanged DEF WriteMore, TypeInv, AgentOK, agentVars
<1> QED BY <1>2, <1>3, <1>4 DEF TypeInv, AgentOK

(* A client reading a response keeps the inductive invariant. *)
LEMMA ReadType ==
    ASSUME TypeInv, NEW k \in Conns, Read(k)
    PROVE  TypeInv'
<1> DEFINE todo == conn[k].todo
<1>1. todo \in Seq(ReadToken)
  BY DEF TypeInv, ConnOK
<1>2. PICK n \in 1..MaxRead \cap DOMAIN todo :
         LET toks == SubSeq(todo, 1, n)
             over == n = Len(todo)
             answered == over \/ (~EarlyHeads /\ HasFinalHead(toks))
         IN  /\ conn' = [conn EXCEPT ![k].todo = SubSeq(@, n + 1, Len(@)),
                                     ![k].call = IF over THEN NoCall ELSE @,
                                     ![k].more = IF answered THEN 0 ELSE @]
             /\ Capture(k, "Read", toks, conn[k].call,
                        [truth[conn[k].call] EXCEPT !.done = over])
  BY DEF Read
<1>3. n \in Nat /\ n <= Len(todo) /\ Len(todo) \in Nat
  BY <1>1
<1>4. ConnOK'
  <2> DEFINE rest == SubSeq(todo, n + 1, Len(todo))
             call == IF n = Len(todo) THEN NoCall ELSE conn[k].call
             more == IF n = Len(todo) \/ (~EarlyHeads /\ HasFinalHead(SubSeq(todo, 1, n)))
                     THEN 0 ELSE conn[k].more
  <2>1. rest \in Seq(ReadToken)
    BY <1>1, <1>3, SliceType
  <2>2. call \in Calls \cup {NoCall} /\ more \in Nat
    BY DEF TypeInv, ConnOK
  <2>3. conn' = [conn EXCEPT ![k].todo = rest, ![k].call = call, ![k].more = more]
    BY <1>2
  <2> HIDE DEF rest, call, more
  <2> QED BY <2>1, <2>2, <2>3 DEF TypeInv, ConnOK
<1>5. RingOK'
  <2>1. SubSeq(todo, 0 + 1, n) \in Seq(ReadToken)
    BY <1>1, <1>3, SliceType
  <2>2. 0 + 1 = 1
    OBVIOUS
  <2>3. TokensOf("Read", SubSeq(todo, 1, n))
    BY <2>1, <2>2 DEF TokensOf
  <2> QED BY <1>2, <2>3, CaptureType
<1>6. AgentOK'
  BY AgentUnchanged DEF Read, TypeInv, AgentOK, agentVars
<1> QED BY <1>4, <1>5, <1>6 DEF TypeInv, AgentOK

(* SSL_free keeps the inductive invariant. *)
LEMMA FreeType ==
    ASSUME TypeInv, NEW k \in Conns, Free(k)
    PROVE  TypeInv'
<1>1. ConnOK'
  <2>1. NoConn \in [call : Calls \cup {NoCall}, todo : Seq(ReadToken), more : Nat,
                    close : BOOLEAN]
    BY DEF NoConn
  <2> QED BY <2>1 DEF Free, TypeInv, ConnOK
<1>2. RingOK'
  <2> DEFINE f == Fragment("Closed", <<>>, 0, TRUE, FALSE)
  <2>1. GoodFragment(f)
    BY DEF GoodFragment, FragmentType, Fragment
  <2>2. GoodFragments(<<f>>)
    BY <2>1, OneFragment
  <2>3. CASE ring' = [key |-> k, frags |-> <<f>>]
    <3> HIDE DEF f
    <3> QED BY <2>2, <2>3 DEF RingOK, GoodFragments
  <2>4. CASE UNCHANGED ring
    BY <2>4 DEF TypeInv, RingOK
  <2> QED BY <2>3, <2>4 DEF Free
<1>3. AgentOK'
  BY AgentUnchanged DEF Free, TypeInv, AgentOK, agentVars
<1> QED BY <1>1, <1>2, <1>3 DEF TypeInv, AgentOK

(* What is left in the ring once its first fragment was routed. *)
LEMMA PopType ==
    ASSUME TypeInv, ring.frags # <<>>, ring' = [ring EXCEPT !.frags = Tail(@)]
    PROVE  RingOK'
<1>1. Tail(ring.frags) \in Seq(FragmentType)
  BY HeadTailProperties DEF TypeInv, RingOK
<1>2. \A i \in DOMAIN Tail(ring.frags) : GoodFragment(Tail(ring.frags)[i])
  BY HeadTailProperties DEF TypeInv, RingOK
<1>3. ring'.frags = Tail(ring.frags) /\ ring'.key = ring.key
  BY DEF TypeInv, RingOK
<1>4. ring' \in [key : Conns \cup {NoCall}, frags : Seq(FragmentType)]
  BY <1>1 DEF TypeInv, RingOK
<1> QED BY <1>1, <1>2, <1>3, <1>4 DEF TypeInv, RingOK

(* The context route_event hands to a stream is good. *)
LEMMA ContextIsGood ==
    ASSUME TypeInv, NEW k \in Conns
    PROVE  GoodContext(Context(k))
BY DEF TypeInv, TypeOK, StreamsOK, Context, GoodContext, ContextType, LedgerType

(* Routing a fragment keeps the inductive invariant. *)
LEMMA RouteFragmentType ==
    ASSUME TypeInv, RouteFragment
    PROVE  TypeInv'
<1> DEFINE k == ring.key
           f == Head(ring.frags)
<1>1. k \in Conns /\ f.dir # "Closed"
  BY DEF RouteFragment, TypeInv, RingOK
<1>2. GoodFragment(f)
  <2>1. ring.frags \in Seq(FragmentType) /\ ring.frags # <<>>
    BY DEF RouteFragment, TypeInv, RingOK
  <2>2. 1 \in DOMAIN ring.frags /\ f = ring.frags[1]
    BY <2>1
  <2> QED BY <2>2 DEF TypeInv, RingOK
<1>3. PICK x \in HandleFragment(Context(k), f) :
        /\ streams' = [streams EXCEPT ![k] = x.s]
        /\ bg' = x.bg
        /\ ledger' = LedgerOf(x)
  BY DEF RouteFragment
<1>4. GoodContext(x)
  BY <1>1, <1>2, ContextIsGood, HandleFragmentType
<1>5. AgentOK'
  <2>1. x.s \in StreamType /\ GoodStream(x.s) /\ x.bg \in BackgroundMap
    BY <1>4 DEF GoodContext, ContextType
  <2>2. LedgerOf(x) \in LedgerType
    BY <1>4 DEF GoodContext, ContextType, LedgerType, LedgerOf
  <2>3. streams' \in [Conns -> StreamType] /\ StreamsOK'
    BY <1>1, <1>3, <2>1 DEF TypeInv, TypeOK, StreamsOK
  <2> QED BY <1>3, <2>1, <2>2, <2>3 DEF RouteFragment, TypeInv, TypeOK, AgentOK
<1>6. RingOK'
  BY PopType DEF RouteFragment, TypeInv, RingOK
<1>7. ConnOK'
  BY DEF RouteFragment, client, TypeInv, ConnOK
<1> QED BY <1>5, <1>6, <1>7 DEF TypeInv, AgentOK

(* Routing Closed keeps the inductive invariant. *)
LEMMA RouteClosedType ==
    ASSUME TypeInv, RouteClosed
    PROVE  TypeInv'
<1> DEFINE k == ring.key
           x == Close(Context(k))
<1>1. k \in Conns
  BY DEF RouteClosed, TypeInv, RingOK
<1>2. GoodContext(x)
  BY <1>1, ContextIsGood, DropResponseType DEF Close, Reasons
<1>3. AgentOK'
  <2>1. LedgerOf(x) \in LedgerType
    BY <1>2 DEF GoodContext, ContextType, LedgerType, LedgerOf
  <2>2. streams' \in [Conns -> StreamType] /\ StreamsOK'
    BY <1>1, NewStreamType DEF RouteClosed, TypeInv, TypeOK, StreamsOK
  <2> QED BY <2>1, <2>2 DEF RouteClosed, TypeInv, TypeOK, AgentOK
<1>4. RingOK'
  BY PopType DEF RouteClosed, TypeInv, RingOK
<1>5. ConnOK'
  BY DEF RouteClosed, client, TypeInv, ConnOK
<1> QED BY <1>3, <1>4, <1>5 DEF TypeInv, AgentOK

(* The stream keeps its type when only how long it is idle changes.       *)
LEMMA SleepType ==
    ASSUME TypeInv, Sleep
    PROVE  TypeInv'
<1>1. ASSUME NEW k \in Conns
      PROVE  /\ streams'[k] \in StreamType
             /\ GoodStream(streams'[k])
  <2> DEFINE idle == IF streams[k].idle < Retention THEN streams[k].idle + 1
                     ELSE streams[k].idle
  <2>1. streams[k] \in StreamType /\ GoodStream(streams[k])
    BY DEF TypeInv, TypeOK, StreamsOK
  <2>2. idle \in 0..Retention
    BY <2>1, StreamsAssumption DEF StreamType
  <2>3. streams'[k] = [streams[k] EXCEPT !.idle = idle]
    BY DEF Sleep
  <2> HIDE DEF idle
  <2> QED BY <2>1, <2>2, <2>3 DEF StreamType, GoodStream, IsLlm
<1>2. streams' \in [Conns -> StreamType] /\ StreamsOK'
  BY <1>1 DEF Sleep, StreamsOK
<1>3. bg' \in BackgroundMap
  BY OlderType DEF Sleep, TypeInv, TypeOK
<1>4. TypeOK'
  BY <1>2, <1>3 DEF Sleep, TypeInv, TypeOK
<1>5. ConnOK' /\ RingOK'
  BY DEF Sleep, client, TypeInv, ConnOK, RingOK
<1> QED BY <1>2, <1>4, <1>5 DEF TypeInv

(* Sweeping the idle streams keeps the inductive invariant. *)
LEMMA SweepType ==
    ASSUME TypeInv, SweepStreams
    PROVE  TypeInv'
<1>1. \A k \in Conns : streams'[k] = NewStream \/ streams'[k] = streams[k]
  BY DEF SweepStreams
<1>2. streams' \in [Conns -> StreamType] /\ StreamsOK'
  <2>1. NewStream \in StreamType /\ GoodStream(NewStream)
    BY NewStreamType
  <2>2. \A k \in Conns : streams'[k] \in StreamType /\ GoodStream(streams'[k])
    BY <1>1, <2>1 DEF TypeInv, TypeOK, StreamsOK
  <2> QED BY <2>2 DEF SweepStreams, StreamsOK
<1>3. swept' \subseteq Calls
  <2>1. \A k \in Conns : InProgress(streams[k]) \subseteq Calls
    BY DEF TypeInv, StreamsOK, GoodStream, InProgress
  <2> QED BY <2>1 DEF SweepStreams, TypeInv, TypeOK
<1>4. TypeOK'
  BY <1>2, <1>3 DEF SweepStreams, TypeInv, TypeOK
<1>5. ConnOK' /\ RingOK'
  BY DEF SweepStreams, client, TypeInv, ConnOK, RingOK
<1> QED BY <1>2, <1>4, <1>5 DEF TypeInv

(* Expiring background calls keeps the inductive invariant. *)
LEMMA ExpireType ==
    ASSUME TypeInv, ExpireBackground
    PROVE  TypeInv'
<1>1. bg \in BackgroundMap
  BY DEF TypeInv, TypeOK
<1>2. expired' \subseteq Calls
  <2>1. \A id \in DOMAIN bg : bg[id].call \in Calls
    BY <1>1, BackgroundMapType DEF PendingCall
  <2> QED BY <2>1 DEF ExpireBackground, Expired
<1>3. bg' \in BackgroundMap
  BY <1>1, WithoutType DEF ExpireBackground
<1>4. TypeOK'
  BY <1>2, <1>3 DEF ExpireBackground, TypeInv, TypeOK
<1>5. ConnOK' /\ RingOK' /\ StreamsOK'
  BY DEF ExpireBackground, client, TypeInv, ConnOK, RingOK, StreamsOK
<1> QED BY <1>4, <1>5 DEF TypeInv

(* Counting the expired calls keeps the inductive invariant. *)
LEMMA CountType ==
    ASSUME TypeInv, CountExpired
    PROVE  TypeInv'
<1>1. ledger' \in LedgerType /\ expired' \subseteq Calls
  <2>1. CASE UNCHANGED <<expired, ledger>>
    BY <2>1 DEF TypeInv, TypeOK
  <2>2. ASSUME NEW c \in expired,
               expired' = expired \ {c},
               ledger' = [ledger EXCEPT !.acc[c] = @ + 1, !.why[c] = "background_unfinished"]
        PROVE  ledger' \in LedgerType /\ expired' \subseteq Calls
    <3>1. c \in Calls /\ ledger \in LedgerType
      BY DEF TypeInv, TypeOK
    <3>2. [ledger.acc EXCEPT ![c] = @ + 1] \in [Calls -> Nat]
      <4> DEFINE acc == ledger.acc
      <4>1. acc \in [Calls -> Nat]
        BY <3>1 DEF LedgerType
      <4> HIDE DEF acc
      <4>2. [acc EXCEPT ![c] = acc[c] + 1] \in [Calls -> Nat]
        BY <3>1, <4>1
      <4> QED BY <4>2 DEF acc
    <3>3. [ledger.why EXCEPT ![c] = "background_unfinished"]
            \in [Calls -> Reasons \cup {"", "recorded"}]
      BY <3>1 DEF LedgerType, Reasons
    <3>4. ledger' = [ledger EXCEPT !.acc = [ledger.acc EXCEPT ![c] = @ + 1],
                                   !.why = [ledger.why EXCEPT ![c] = "background_unfinished"]]
      BY <2>2
    <3>5. ledger' \in LedgerType
      BY <3>1, <3>2, <3>3, <3>4 DEF LedgerType
    <3> QED BY <2>2, <3>5 DEF TypeInv, TypeOK
  <2> QED BY <2>1, <2>2 DEF CountExpired
<1>2. TypeOK'
  BY <1>1 DEF CountExpired, TypeInv, TypeOK
<1>3. ConnOK' /\ RingOK' /\ StreamsOK'
  BY DEF CountExpired, client, TypeInv, ConnOK, RingOK, StreamsOK
<1> QED BY <1>2, <1>3 DEF TypeInv

(* Every step of the clients, of the ring's reader and of the cleanup task *)
(* keeps the inductive invariant.                                          *)
LEMMA NextType == TypeInv /\ [Next]_vars => TypeInv'
<1> SUFFICES ASSUME TypeInv, [Next]_vars
             PROVE  TypeInv'
  OBVIOUS
<1>1. CASE Clients
  <2> PICK k \in Conns :
        \/ \E kind \in Kinds, id \in Calls \cup {NoCall}, shape \in Shapes, more \in 0..MaxMore :
              Request(k, kind, id, shape, more)
        \/ WriteMore(k)
        \/ Read(k)
        \/ Free(k)
    BY <1>1 DEF Clients
  <2> QED BY RequestType, WriteMoreType, ReadType, FreeType
<1>2. CASE RouteFragment
  BY <1>2, RouteFragmentType
<1>3. CASE RouteClosed
  BY <1>3, RouteClosedType
<1>4. CASE Cleanup
  BY <1>4, SleepType, SweepType, ExpireType, CountType DEF Cleanup
<1>5. CASE UNCHANGED vars
  BY <1>5 DEF vars, client, TypeInv, TypeOK, StreamsOK, ConnOK, RingOK
<1> QED BY <1>1, <1>2, <1>3, <1>4, <1>5 DEF Next

(* The agent's streams, background map and ledger keep their types through *)
(* every interleaving of handle_fragment, close and the cleanup task: in   *)
(* particular no buffer mixes tokens of both directions, and a call is     *)
(* recorded or deferred only by a stream that knows it.                    *)
THEOREM TypeCorrect == Spec => []TypeOK
<1>1. Init => TypeInv
  BY InitType
<1>2. TypeInv /\ [Next]_vars => TypeInv'
  BY NextType
<1>3. TypeInv => TypeOK
  BY DEF TypeInv
<1> QED BY <1>1, <1>2, <1>3, PTL DEF Spec
=============================================================================
