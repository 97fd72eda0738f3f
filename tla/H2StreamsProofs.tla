--------------------------- MODULE H2StreamsProofs ---------------------------
(***************************************************************************)
(* Proofs about H2Streams for any connections, stream ids, budgets and     *)
(* losses: a call is recorded or counted once, unless it became a stray,   *)
(* which it can on a connection joined in the middle only (Unjoined); what *)
(* is buffered is accounted for, within the budgets; and of a         *)
(* connection that is seen whole nothing is lost.                          *)
(*                                                                         *)
(* That a call was exported once does not say that nothing of it is to     *)
(* come: what could open its stream again is a DATA frame the server still *)
(* sends, or one that a scan for an anchor holds.  Neither is there, since *)
(* a call is only counted by a frame that is the server's last word on it  *)
(* (Finishes, Done), which lies behind all of its DATA in a scan as well   *)
(* (Ordered).                                                              *)
(*                                                                         *)
(* For the budgets, every operation on a connection keeps `buffered` at    *)
(* the sum of what its streams hold (Balanced): a sum over streams moves   *)
(* by what one of them does.  The node's counter is a sum over the         *)
(* connections that share it, and moves as a step's one connection does.   *)
(* A feed adds to it after its reader looked at it, and the other reader   *)
(* adds in between: so what is shared and what the readers at a feed may   *)
(* still add is bounded together (Fits).                                   *)
(*                                                                         *)
(* Of a connection seen whole the agent has, of each LLM call that runs, a *)
(* stream with all of the response so far, or has counted it (WholeInv).   *)
(* A frame is one turn of the call it is about (Turn), and reading it      *)
(* takes what is had of the call before to what is had after (TurnTracks). *)
(***************************************************************************)
EXTENDS H2Streams, SequenceTheorems, FiniteSetTheorems, WellFoundedInduction, TLAPS

(* The frames a client sends, and those a server does. *)
ServerFrame == {f \in Frame : f.type \in {"head", "data"} => f.id \in Ids}

ClientFrame == {f \in ServerFrame : f.type \in {"head", "huge", "other"} /\ ~f.end}

Brings(f, i) == f.type = "data" /\ f.id = i

Finishes(f, i) ==
    \/ f.id = i /\ (f.end \/ f.type = "reset")
    \/ f.type = "goaway" /\ i > f.id

(* The server says nothing more of a call. *)
Done(c, i) ==
    \/ opened[c] = "closed"
    \/ calls[c][i].stage \in {"over", "aborted"}
    \/ calls[c][i].stage = "none" /\ opened[c] = "going"

Over(c) == {i \in Ids : Done(c, i)}

Strays(c) == {i \in Ids : <<c, i>> \in history.strays}

Swept(c) == {i \in Ids : <<c, i>> \in history.swept}

Counts == [Ids -> [recorded : Nat, unparsed : Nat]]

Total(counts, i) == counts[i].recorded + counts[i].unparsed

CallsOK ==
    /\ calls \in [Conns -> [Ids -> Call]]
    /\ opened \in [Conns -> {"no", "yes", "going", "closed"}]

TablesOK ==
    /\ conn = [c \in Conns |-> conn[c]] /\ exported = [c \in Conns |-> exported[c]]
    /\ DOMAIN history = {"turned", "joined", "limited", "swept", "strays", "overlapped"}

DirOK(d, frames) ==
    DOMAIN d = {"lost", "scanning", "scan", "table"} /\ d.scan \in Seq(frames)

IsConn(k) ==
    /\ DOMAIN k = {"on", "midjoin", "quiet", "buffered", "client", "server", "streams"}
    /\ DirOK(k.client, ClientFrame) /\ DirOK(k.server, ServerFrame)
    /\ DOMAIN k.streams \subseteq Ids

(* In a scan the last word on a call is said by a server that is done with *)
(* it, and no DATA of the call is behind;                                  *)
Ordered(frames, over) ==
    \A i \in Ids : \A n \in DOMAIN frames : Finishes(frames[n], i) =>
        i \in over /\ \A m \in DOMAIN frames : m > n => ~Brings(frames[m], i)

(* nor does any scan hold DATA of a call that is counted already, but for  *)
(* one that was swept.                                                     *)
CountedOnce(frames, streams, counts, strays, swept, over) ==
    \A i \in Ids \ strays :
        \/ Total(counts, i) = 0
        \/ /\ Total(counts, i) = 1 /\ i \notin DOMAIN streams
           /\ i \in swept \/ (i \in over /\ \A m \in DOMAIN frames : ~Brings(frames[m], i))

(* A connection, its counts, strays and swept calls, and those that are    *)
(* over.                                                                   *)
Sound(k, counts, strays, swept, over) ==
    /\ IsConn(k) /\ counts \in Counts
    /\ Ordered(k.server.scan, over)
    /\ CountedOnce(k.server.scan, k.streams, counts, strays, swept, over)

Inv ==
    /\ CallsOK /\ TablesOK
    /\ \A c \in Conns : Sound(conn[c], exported[c], Strays(c), Swept(c), Over(c))

(***************************************************************************)
(* One frame.  What it does to a call is told by whether the context       *)
(* tracks the call, how often it counted it, and whether it is a stray or  *)
(* was swept.                                                              *)
(***************************************************************************)
IsCtx(x) ==
    /\ DOMAIN x = {"streams", "buffered", "table", "exported", "limited", "swept", "strays"}
    /\ DOMAIN x.streams \subseteq Ids /\ x.exported \in Counts
    /\ x.swept \subseteq Ids /\ x.strays \subseteq Ids

(* The streams ids go: nothing is counted, or each of them once.           *)
Leaves(x, y, ids) ==
    /\ IsCtx(y) /\ y.strays = x.strays /\ y.swept = x.swept /\ y.exported = x.exported
    /\ DOMAIN y.streams = DOMAIN x.streams \ ids

Drops(x, y, ids) ==
    /\ IsCtx(y) /\ y.strays = x.strays /\ y.swept = x.swept
    /\ DOMAIN y.streams = DOMAIN x.streams \ ids
    /\ \A i \in Ids : Total(y.exported, i) =
           Total(x.exported, i) + IF i \in ids \cap DOMAIN x.streams THEN 1 ELSE 0

(* Streams that are removed are in no table and change no count.           *)
LEMMA UntrackLeaves ==
    ASSUME NEW x, IsCtx(x), NEW ids
    PROVE  Leaves(x, Untrack(x, ids), ids)
PROOF
<1> DEFINE y == Untrack(x, ids)
<1>1. /\ DOMAIN y = DOMAIN x /\ y.streams = Without(x.streams, ids)
      /\ y.exported = x.exported /\ y.strays = x.strays /\ y.swept = x.swept
  BY DEF Untrack, IsCtx
<1>2. DOMAIN y.streams = DOMAIN x.streams \ ids
  BY <1>1 DEF Without, Restrict
<1> QED
  BY <1>1, <1>2 DEF Leaves, IsCtx

(* Counting ids unparsed adds one to each of them and to no other.         *)
LEMMA CountUnparsedCounts ==
    ASSUME NEW counts \in Counts, NEW ids
    PROVE  /\ CountUnparsed(counts, ids) \in Counts
           /\ \A i \in Ids : Total(CountUnparsed(counts, ids), i) =
                  Total(counts, i) + IF i \in ids THEN 1 ELSE 0
PROOF
<1> DEFINE new == CountUnparsed(counts, ids)
<1>1. DOMAIN new = Ids /\ new = [i \in Ids |-> new[i]]
  BY DEF CountUnparsed, Counts
<1>2. ASSUME NEW i \in Ids
      PROVE  /\ new[i] \in [recorded : Nat, unparsed : Nat]
             /\ Total(new, i) = Total(counts, i) + IF i \in ids THEN 1 ELSE 0
  <2>1. counts[i] \in [recorded : Nat, unparsed : Nat]
    BY DEF Counts
  <2>2. CASE i \in ids
    <3>1. new[i] = [counts[i] EXCEPT !.unparsed = @ + 1]
      BY <2>2 DEF CountUnparsed, Counts
    <3> QED
      BY <2>1, <2>2, <3>1 DEF Total
  <2>3. CASE i \notin ids
    <3>1. new[i] = counts[i]
      BY <2>3 DEF CountUnparsed, Counts
    <3> QED
      BY <2>1, <2>3, <3>1 DEF Total
  <2> QED
    BY <2>2, <2>3
<1> QED
  BY <1>1, <1>2 DEF Counts

(* Of the streams given up, those that were tracked are counted once.      *)
LEMMA DropStreamsDrops ==
    ASSUME NEW x, IsCtx(x), NEW ids
    PROVE  Drops(x, DropStreams(x, ids), ids)
PROOF
<1> DEFINE u == Untrack(x, ids)
           y == DropStreams(x, ids)
<1>1. Leaves(x, u, ids)
  BY UntrackLeaves
<1>2. /\ DOMAIN y = DOMAIN u /\ y.streams = u.streams /\ y.strays = u.strays
      /\ y.swept = u.swept
      /\ y.exported = CountUnparsed(x.exported, ids \cap DOMAIN x.streams)
  BY <1>1 DEF DropStreams, Leaves, IsCtx
<1>3. x.exported \in Counts
  BY DEF IsCtx
<1> HIDE DEF u, y
<1>4. /\ y.exported \in Counts
      /\ \A i \in Ids : Total(y.exported, i) =
             Total(x.exported, i) + IF i \in ids \cap DOMAIN x.streams THEN 1 ELSE 0
  BY <1>2, <1>3, CountUnparsedCounts
<1> QED
  BY <1>1, <1>2, <1>4 DEF Drops, Leaves, IsCtx, y

(* A stream that is counted under what. *)
LEMMA CountCounts ==
    ASSUME NEW x, IsCtx(x), NEW id \in Ids, NEW what \in {"recorded", "unparsed"}
    PROVE  LET y == Count(x, id, what)
           IN  /\ IsCtx(y) /\ y.streams = x.streams /\ y.strays = x.strays /\ y.swept = x.swept
               /\ \A i \in Ids : Total(y.exported, i) = Total(x.exported, i) + IF i = id THEN 1 ELSE 0
PROOF
<1> DEFINE y == Count(x, id, what)
<1>1. /\ DOMAIN y = DOMAIN x /\ y.streams = x.streams /\ y.strays = x.strays
      /\ y.swept = x.swept /\ y.exported = [x.exported EXCEPT ![id][what] = @ + 1]
  BY DEF Count, IsCtx
<1>2. x.exported \in Counts
  BY DEF IsCtx
<1>3. /\ DOMAIN y.exported = Ids
      /\ \A i \in Ids : i # id => y.exported[i] = x.exported[i]
      /\ y.exported[id] = [x.exported[id] EXCEPT ![what] = @ + 1]
      /\ y.exported = [i \in Ids |-> y.exported[i]]
  BY <1>1, <1>2 DEF Counts
<1>4. x.exported[id] \in [recorded : Nat, unparsed : Nat]
  BY <1>2 DEF Counts
<1>5. CASE what = "recorded"
  BY <1>1, <1>2, <1>3, <1>4, <1>5 DEF IsCtx, Total, Counts
<1>6. CASE what = "unparsed"
  BY <1>1, <1>2, <1>3, <1>4, <1>6 DEF IsCtx, Total, Counts
<1> QED
  BY <1>5, <1>6

(* A stream that is opened is that of a call not counted yet, of a stray,  *)
(* or of one that was not swept and that brings DATA or is on its way.     *)
MayOpen(x, y, f, cs, i) ==
    \/ Total(x.exported, i) = 0
    \/ i \in y.strays
    \/ i \notin x.swept /\ (Brings(f, i) \/ cs[i].stage = "sent")

(* What a frame does to call i: it leaves the count; or it is the last of  *)
(* the call, which is counted and goes.                                    *)
Effect(x, y, f, cs, i) ==
    \/ /\ Total(y.exported, i) = Total(x.exported, i)
       /\ i \in DOMAIN y.streams => i \in DOMAIN x.streams \/ MayOpen(x, y, f, cs, i)
    \/ /\ Total(y.exported, i) = Total(x.exported, i) + 1
       /\ i \notin DOMAIN y.streams /\ Finishes(f, i)
       /\ i \in DOMAIN x.streams \/ MayOpen(x, y, f, cs, i)

Effects(x, y, f, cs) ==
    /\ IsCtx(y) /\ x.strays \subseteq y.strays /\ y.swept = x.swept
    /\ \A i \in Ids : Effect(x, y, f, cs, i)

(* One more stream, and nothing else but a stray with an excuse.           *)
Reopens(x, y, id, excuse) ==
    /\ IsCtx(y) /\ y.exported = x.exported /\ y.swept = x.swept
    /\ DOMAIN y.streams = DOMAIN x.streams \cup {id}
    /\ x.strays \subseteq y.strays
    /\ excuse => Total(x.exported, id) = 0 \/ id \in y.strays

(* Opening a call's stream again is no more than that: a call that was     *)
(* counted becomes a stray if there is an excuse.                          *)
LEMMA ReopenReopens ==
    ASSUME NEW x, IsCtx(x), NEW id \in Ids, NEW s, NEW excuse
    PROVE  Reopens(x, Reopen(x, id, s, excuse), id, excuse)
PROOF
<1> DEFINE e == x.exported[id]
           strays == IF excuse /\ e.recorded + e.unparsed > 0 THEN x.strays \cup {id} ELSE x.strays
           marked == [x EXCEPT !.strays = strays]
           y == Open(marked, id, s)
<1>1. Reopen(x, id, s, excuse) = y
  BY DEF Reopen
<1>2. /\ IsCtx(marked) /\ marked.streams = x.streams /\ marked.exported = x.exported
      /\ marked.swept = x.swept /\ marked.strays = strays
  BY DEF IsCtx
<1>3. Total(x.exported, id) \in Nat /\ Total(x.exported, id) = e.recorded + e.unparsed
  BY DEF IsCtx, Counts, Total
<1>4. x.strays \subseteq strays /\ (excuse => Total(x.exported, id) = 0 \/ id \in strays)
  BY <1>3
<1> HIDE DEF marked, strays
<1>5. /\ IsCtx(y) /\ y.exported = marked.exported /\ y.strays = marked.strays
      /\ y.swept = marked.swept /\ DOMAIN y.streams = DOMAIN marked.streams \cup {id}
  BY <1>2 DEF Open, IsCtx
<1> QED
  BY <1>1, <1>2, <1>4, <1>5 DEF Reopens

(* It opens what it opens, whether that makes a stray or not. *)
LEMMA ReopenIs ==
    ASSUME NEW x, IsCtx(x), NEW id \in Ids, NEW s, NEW excuse
    PROVE  LET y == Reopen(x, id, s, excuse)
           IN  /\ IsCtx(y) /\ y.buffered = x.buffered /\ y.exported = x.exported
               /\ y.table = x.table /\ y.limited = x.limited
               /\ y.streams = [i \in DOMAIN x.streams \cup {id} |-> IF i = id THEN s ELSE x.streams[i]]
PROOF
<1> DEFINE e == x.exported[id]
           strays == IF excuse /\ e.recorded + e.unparsed > 0 THEN x.strays \cup {id} ELSE x.strays
           marked == [x EXCEPT !.strays = strays]
           y == Open(marked, id, s)
<1>1. Reopen(x, id, s, excuse) = y
  BY DEF Reopen
<1>2. /\ IsCtx(marked) /\ marked.streams = x.streams /\ marked.exported = x.exported
      /\ marked.buffered = x.buffered /\ marked.table = x.table /\ marked.limited = x.limited
  BY DEF IsCtx
<1> HIDE DEF marked, strays
<1>3. /\ IsCtx(y) /\ y.exported = marked.exported /\ y.buffered = marked.buffered
      /\ y.table = marked.table /\ y.limited = marked.limited
      /\ y.streams = [i \in DOMAIN marked.streams \cup {id} |->
                        IF i = id THEN s ELSE marked.streams[i]]
  BY <1>2 DEF Open, IsCtx
<1> QED
  BY <1>1, <1>2, <1>3

(* A request's head opens the stream of its call.                          *)
LEMMA RequestHeadEffects ==
    ASSUME NEW x, IsCtx(x), NEW f \in ServerFrame, f.type = "head", NEW cs,
           NEW call, call.stage = "sent" => cs[f.id].stage = "sent"
    PROVE  Effects(x, RequestHead(x, f, call), f, cs)
PROOF
<1> DEFINE excuse == call.stage # "sent" \/ f.id \in x.swept
           y == RequestHead(x, f, call)
<1>1. f.id \in Ids
  BY DEF ServerFrame
<1>2. CASE y = x
  BY <1>2 DEF Effects, Effect
<1>3. CASE y = [x EXCEPT !.limited = TRUE]
  BY <1>3 DEF Effects, Effect, IsCtx
<1>4. CASE y = Reopen(x, f.id, Opened, excuse)
  <2>1. Reopens(x, y, f.id, excuse)
    BY <1>1, <1>4, ReopenReopens
  <2> HIDE DEF y
  <2>2. MayOpen(x, y, f, cs, f.id)
    BY <2>1 DEF MayOpen, Reopens
  <2>3. Effects(x, y, f, cs)
    BY <2>1, <2>2 DEF Effects, Effect, Reopens
  <2> QED
    BY <2>3 DEF y
<1>5. y = x \/ y = [x EXCEPT !.limited = TRUE] \/ y = Reopen(x, f.id, Opened, excuse)
  BY DEF RequestHead
<1> QED
  BY <1>2, <1>3, <1>4, <1>5

(* The end of a stream removes it and counts it at most once.              *)
LEMMA StreamEndEffects ==
    ASSUME NEW x, IsCtx(x), NEW f \in ServerFrame, NEW call
    PROVE  LET y == StreamEnd(x, f, call)
           IN  /\ IsCtx(y) /\ y.strays = x.strays /\ y.swept = x.swept
               /\ \A i \in Ids :
                     \/ /\ Total(y.exported, i) = Total(x.exported, i)
                        /\ i \in DOMAIN y.streams => i \in DOMAIN x.streams
                     \/ /\ Total(y.exported, i) = Total(x.exported, i) + 1
                        /\ f.id = i /\ i \in DOMAIN x.streams /\ i \notin DOMAIN y.streams
PROOF
<1> DEFINE y == StreamEnd(x, f, call)
           id == f.id
<1>1. CASE id \notin DOMAIN x.streams
  <2>1. y = x
    BY <1>1 DEF StreamEnd
  <2> QED
    BY <2>1
<1>2. CASE id \in DOMAIN x.streams
  <2>1. id \in Ids
    BY <1>2 DEF IsCtx
  <2>2. PICK u \in {x, Count(x, id, "recorded"), Count(x, id, "unparsed")} : y = Untrack(u, {id})
    BY <1>2 DEF StreamEnd
  <2>3. /\ IsCtx(u) /\ u.streams = x.streams /\ u.strays = x.strays /\ u.swept = x.swept
        /\ \/ \A i \in Ids : Total(u.exported, i) = Total(x.exported, i)
           \/ \A i \in Ids : Total(u.exported, i) = Total(x.exported, i) + IF i = id THEN 1 ELSE 0
    <3>1. CASE u = x
      BY <3>1
    <3>2. CASE u = Count(x, id, "recorded")
      BY <2>1, <3>2, CountCounts
    <3>3. CASE u = Count(x, id, "unparsed")
      BY <2>1, <3>3, CountCounts
    <3> QED
      BY <3>1, <3>2, <3>3
  <2>4. Leaves(u, y, {id})
    BY <2>2, <2>3, UntrackLeaves
  <2>5. /\ IsCtx(y) /\ y.strays = x.strays /\ y.swept = x.swept /\ y.exported = u.exported
        /\ DOMAIN y.streams = DOMAIN x.streams \ {id}
    BY <2>3, <2>4 DEF Leaves
  <2>6. \A i \in Ids : Total(x.exported, i) \in Nat
    BY DEF IsCtx, Counts, Total
  <2> HIDE DEF y, id
  <2>7. \A i \in Ids :
           \/ /\ Total(y.exported, i) = Total(x.exported, i)
              /\ i \in DOMAIN y.streams => i \in DOMAIN x.streams
           \/ /\ Total(y.exported, i) = Total(x.exported, i) + 1
              /\ id = i /\ i \in DOMAIN x.streams /\ i \notin DOMAIN y.streams
    BY <1>2, <2>3, <2>5, <2>6
  <2> QED
    BY <2>5, <2>7 DEF y, id
<1> QED
  BY <1>1, <1>2

(* So what a frame brings before it ends the stream is what it does.       *)
LEMMA EndedEffects ==
    ASSUME NEW x, IsCtx(x), NEW z, IsCtx(z), x.strays \subseteq z.strays, z.swept = x.swept,
           z.exported = x.exported, NEW side, NEW f \in ServerFrame, NEW cs, NEW call,
           \A i \in DOMAIN z.streams : i \in DOMAIN x.streams \/ MayOpen(x, z, f, cs, i)
    PROVE  Effects(x, Ended(z, side, f, call), f, cs)
PROOF
<1>1. CASE side = "server" /\ f.end
  <2> DEFINE y == StreamEnd(z, f, call)
  <2>1. /\ IsCtx(y) /\ y.strays = z.strays /\ y.swept = z.swept
        /\ \A i \in Ids :
              \/ /\ Total(y.exported, i) = Total(z.exported, i)
                 /\ i \in DOMAIN y.streams => i \in DOMAIN z.streams
              \/ /\ Total(y.exported, i) = Total(z.exported, i) + 1
                 /\ f.id = i /\ i \in DOMAIN z.streams /\ i \notin DOMAIN y.streams
    BY StreamEndEffects
  <2> HIDE DEF y
  <2>2. \A i \in DOMAIN z.streams : i \in DOMAIN x.streams \/ MayOpen(x, y, f, cs, i)
    BY <2>1 DEF MayOpen
  <2>3. Effects(x, y, f, cs)
    BY <1>1, <2>1, <2>2 DEF Effects, Effect, Finishes
  <2> QED
    BY <1>1, <2>3 DEF Ended, y
<1>2. CASE ~(side = "server" /\ f.end)
  <2>1. Ended(z, side, f, call) = z
    BY <1>2 DEF Ended
  <2> QED
    BY <2>1 DEF Effects, Effect
<1> QED
  BY <1>1, <1>2

(* Every frame has one of the effects. *)
LEMMA OnFrameEffects ==
    ASSUME NEW x, IsCtx(x), NEW side \in {"client", "server"}, NEW f \in ServerFrame,
           NEW cs, NEW midjoin, NEW cap
    PROVE  Effects(x, OnFrame(x, side, f, cs, midjoin, cap), f, cs)
PROOF
<1> DEFINE call == IF f.id = 0 \/ f.type = "goaway" THEN NewCall ELSE cs[f.id]
           y == OnFrame(x, side, f, cs, midjoin, cap)
<1>0. f.type \in {"head", "huge", "data", "end", "reset", "goaway", "other"}
  BY DEF ServerFrame, Frame
<1> HIDE DEF call
<1>1. CASE f.type = "head" /\ side = "client"
  <2>1. y = RequestHead(x, f, call)
    BY <1>1 DEF OnFrame, call
  <2>2. call.stage = "sent" => cs[f.id].stage = "sent"
    BY DEF call, NewCall
  <2> QED
    BY <1>1, <2>1, <2>2, RequestHeadEffects
<1>2. CASE f.type = "head" /\ side = "server"
  <2> DEFINE z == ResponseHead(x, f, call)
  <2>1. y = Ended(z, side, f, call)
    BY <1>2 DEF OnFrame, call
  <2>2. /\ IsCtx(z) /\ z.strays = x.strays /\ z.swept = x.swept /\ z.exported = x.exported
        /\ DOMAIN z.streams = DOMAIN x.streams
    BY DEF ResponseHead, IsCtx
  <2> HIDE DEF z
  <2> QED
    BY <2>1, <2>2, EndedEffects
<1>3. CASE f.type = "huge"
  <2> DEFINE u == [x EXCEPT !.table = "forgotten", !.limited = TRUE]
             z == HeadersTooLarge(x, f)
  <2>1. y = Ended(z, side, f, call)
    BY <1>3 DEF OnFrame, call
  <2>2. /\ IsCtx(u) /\ u.strays = x.strays /\ u.swept = x.swept /\ u.exported = x.exported
        /\ u.streams = x.streams
    BY DEF IsCtx
  <2>3. Leaves(u, z, {f.id})
    BY <2>2, UntrackLeaves DEF HeadersTooLarge
  <2> HIDE DEF u, z
  <2> QED
    BY <2>1, <2>2, <2>3, EndedEffects DEF Leaves
<1>4. CASE f.type = "data"
  <2> DEFINE z == ResponseData(x, f, call, midjoin, cap)
  <2>1. y = Ended(z, side, f, call)
    BY <1>4 DEF OnFrame, call
  <2>2. f.id \in Ids
    BY <1>4 DEF ServerFrame
  <2> DEFINE more == Reopen(x, f.id, OpenedSpeculative, f.id \in x.swept)
  <2>3. PICK u \in {x, more} :
           \/ z = u
           \/ \E t, n : z = [u EXCEPT !.streams[f.id] = t, !.buffered = n]
    BY DEF ResponseData
  <2>4. /\ IsCtx(u) /\ x.strays \subseteq u.strays /\ u.swept = x.swept /\ u.exported = x.exported
        /\ DOMAIN u.streams \subseteq DOMAIN x.streams \cup {f.id}
        /\ f.id \in DOMAIN u.streams => f.id \in DOMAIN x.streams \/ MayOpen(x, u, f, cs, f.id)
    <3>1. CASE u = x
      BY <3>1
    <3>2. CASE u = more
      <4>1. Reopens(x, u, f.id, f.id \in x.swept)
        BY <2>2, <3>2, ReopenReopens
      <4>2. MayOpen(x, u, f, cs, f.id)
        BY <1>4, <4>1 DEF MayOpen, Reopens, Brings
      <4>3. /\ IsCtx(u) /\ x.strays \subseteq u.strays /\ u.swept = x.swept
            /\ u.exported = x.exported /\ DOMAIN u.streams = DOMAIN x.streams \cup {f.id}
        BY <4>1 DEF Reopens
      <4> QED
        BY <4>2, <4>3
    <3> QED
      BY <3>1, <3>2
  <2> HIDE DEF more, z
  <2>5. /\ IsCtx(z) /\ z.strays = u.strays /\ z.swept = u.swept /\ z.exported = u.exported
        /\ DOMAIN z.streams = DOMAIN u.streams
    <3>1. CASE z = u
      BY <2>4, <3>1
    <3>2. ASSUME NEW t, NEW n, z = [u EXCEPT !.streams[f.id] = t, !.buffered = n]
          PROVE  /\ IsCtx(z) /\ z.strays = u.strays /\ z.swept = u.swept
                 /\ z.exported = u.exported /\ DOMAIN z.streams = DOMAIN u.streams
      <4>1. IsCtx(u)
        BY <2>4
      <4> QED
        BY <3>2, <4>1 DEF IsCtx
    <3> QED
      BY <2>3, <3>1, <3>2
  <2>6. \A i \in DOMAIN z.streams : i \in DOMAIN x.streams \/ MayOpen(x, z, f, cs, i)
    BY <2>4, <2>5 DEF MayOpen
  <2> QED
    BY <2>1, <2>4, <2>5, <2>6, EndedEffects
<1>5. CASE f.type = "end"
  <2>1. y = Ended(x, side, f, call)
    BY <1>5 DEF OnFrame, call
  <2> QED
    BY <2>1, EndedEffects
<1>6. CASE f.type \in {"reset", "goaway"}
  <2> DEFINE ids == IF f.type = "reset" THEN {f.id} ELSE {id \in DOMAIN x.streams : id > f.id}
  <2>1. y = DropStreams(x, ids)
    BY <1>6 DEF OnFrame
  <2>2. \A i \in ids \cap DOMAIN x.streams : Finishes(f, i)
    BY <1>6 DEF Finishes
  <2>3. Drops(x, y, ids)
    BY <2>1, DropStreamsDrops
  <2>4. \A i \in Ids : Total(x.exported, i) \in Nat
    BY DEF IsCtx, Counts, Total
  <2> HIDE DEF ids, y
  <2>5. Effects(x, y, f, cs)
    BY <2>2, <2>3, <2>4 DEF Effects, Effect, Drops
  <2> QED
    BY <2>5 DEF y
<1>7. CASE f.type = "other"
  <2>1. y = x
    BY <1>7 DEF OnFrame
  <2> QED
    BY <2>1 DEF Effects, Effect
<1> QED
  BY <1>0, <1>1, <1>2, <1>3, <1>4, <1>5, <1>6, <1>7

(* What was read of stalled streams is counted, and they are swept.        *)
LEMMA SweepIdleSweeps ==
    ASSUME NEW x, IsCtx(x)
    PROVE  LET y == SweepIdle(x)
           IN  /\ IsCtx(y) /\ y.strays = x.strays /\ x.swept \subseteq y.swept
               /\ y.swept \subseteq x.swept \cup DOMAIN x.streams
               /\ \A i \in Ids :
                     \/ /\ Total(y.exported, i) = Total(x.exported, i)
                        /\ i \in DOMAIN y.streams => i \in DOMAIN x.streams
                     \/ /\ Total(y.exported, i) = Total(x.exported, i) + 1
                        /\ i \in DOMAIN x.streams /\ i \notin DOMAIN y.streams /\ i \in y.swept
PROOF
<1> DEFINE ids == Stalled(x)
           z == DropStreams(x, ids)
           y == SweepIdle(x)
<1>1. Drops(x, z, ids) /\ ids \subseteq Ids /\ ids \subseteq DOMAIN x.streams
  BY DropStreamsDrops DEF Stalled, IsCtx
<1>2. \A i \in Ids : Total(x.exported, i) \in Nat
  BY DEF IsCtx, Counts, Total
<1> HIDE DEF z, ids
<1>3. /\ DOMAIN y = DOMAIN z /\ y.streams = z.streams /\ y.exported = z.exported
      /\ y.strays = z.strays /\ y.swept = z.swept \cup ids
  BY <1>1 DEF SweepIdle, z, ids, Drops, IsCtx
<1> HIDE DEF y
<1>4. /\ IsCtx(y) /\ y.strays = x.strays /\ x.swept \subseteq y.swept
      /\ y.swept \subseteq x.swept \cup DOMAIN x.streams
  BY <1>1, <1>3 DEF Drops, IsCtx
<1>5. ASSUME NEW i \in Ids
      PROVE  \/ /\ Total(y.exported, i) = Total(x.exported, i)
                /\ i \in DOMAIN y.streams => i \in DOMAIN x.streams
             \/ /\ Total(y.exported, i) = Total(x.exported, i) + 1
                /\ i \in DOMAIN x.streams /\ i \notin DOMAIN y.streams /\ i \in y.swept
  BY <1>1, <1>2, <1>3 DEF Drops
<1> QED
  BY <1>4, <1>5 DEF y

(***************************************************************************)
(* The frames a call completes, by induction on their number.              *)
(***************************************************************************)
LEMMA Least ==
    ASSUME NEW T \in SUBSET Nat, T # {}
    PROVE  \E m \in T : \A n \in T : m <= n
PROOF
<1> DEFINE R == OpToRel(<, Nat)
<1>1. IsWellFoundedOn(R, Nat)
  BY NatLessThanWellFounded
<1>2. R = {ss \in Nat \X Nat : ss[1] < ss[2]}
  BY DEF OpToRel
<1> HIDE DEF R
<1>3. PICK m \in T : \A n \in T : ~(<<n, m>> \in R)
  BY <1>1, WFMin
<1>4. \A n \in T : <<n, m>> \in Nat \X Nat /\ <<n, m>>[1] = n /\ <<n, m>>[2] = m
  OBVIOUS
<1>5. \A n \in T : ~(n < m)
  BY <1>2, <1>3, <1>4
<1> QED
  BY <1>5

(* g tells the context after each of the first N frames. *)
Reading(g, N, x, side, frames, cs, midjoin, cap) ==
    g = [n \in 0 .. N |-> IF n = 0 THEN x ELSE OnFrame(g[n - 1], side, frames[n], cs, midjoin, cap)]

(* There is such a g for any number of frames: a least N without one would *)
(* have a predecessor with one, which g extends.                           *)
LEMMA ReadingExists ==
    ASSUME NEW x, NEW side, NEW frames, NEW cs, NEW midjoin, NEW cap, NEW N \in Nat
    PROVE  \E g : Reading(g, N, x, side, frames, cs, midjoin, cap)
PROOF
<1> DEFINE H(g, m) == Reading(g, m, x, side, frames, cs, midjoin, cap)
           T == {m \in Nat : ~\E g : H(g, m)}
<1> SUFFICES ASSUME T # {} PROVE FALSE
  OBVIOUS
<1>1. PICK m \in T : \A n \in T : m <= n
  BY Least
<1>2. CASE m = 0
  <2> DEFINE g == [n \in 0 .. 0 |-> x]
  <2>1. H(g, 0)
    BY DEF Reading
  <2> HIDE DEF g
  <2> QED
    BY <1>1, <1>2, <2>1
<1>3. CASE m # 0
  <2>1. m \in Nat /\ m - 1 \in Nat /\ ~(m <= m - 1)
    BY <1>3
  <2>2. m - 1 \notin T
    BY <1>1, <2>1
  <2>3. PICK h : H(h, m - 1)
    BY <2>1, <2>2
  <2> DEFINE last == OnFrame(h[m - 1], side, frames[m], cs, midjoin, cap)
             g == [n \in 0 .. m |-> IF n = m THEN last ELSE h[n]]
  <2>4. \A n \in 0 .. m - 1 : g[n] = h[n]
    BY <2>1
  <2>5. H(g, m)
    BY <2>1, <2>3 DEF Reading
  <2> HIDE DEF g, H
  <2> QED
    BY <1>1, <2>5
<1> QED
  BY <1>2, <1>3

(* The context before and after each of the frames that are read.          *)
Contexts(g, x, side, frames, cs, midjoin, cap) ==
    /\ g[0] = x /\ Reads(x, side, frames, cs, midjoin, cap) = g[Len(frames)]
    /\ \A n \in 1 .. Len(frames) : g[n] = OnFrame(g[n - 1], side, frames[n], cs, midjoin, cap)

(* So what Reads computes is reached frame by frame.                       *)
LEMMA ReadsSteps ==
    ASSUME NEW x, NEW side, NEW frames \in Seq(ServerFrame), NEW cs, NEW midjoin, NEW cap
    PROVE  \E g : Contexts(g, x, side, frames, cs, midjoin, cap)
PROOF
<1> DEFINE g == CHOOSE h : Reading(h, Len(frames), x, side, frames, cs, midjoin, cap)
<1>1. Len(frames) \in Nat
  OBVIOUS
<1>2. Reading(g, Len(frames), x, side, frames, cs, midjoin, cap)
  BY <1>1, ReadingExists
<1>3. Reads(x, side, frames, cs, midjoin, cap) = g[Len(frames)]
  BY DEF Reads, Reading
<1> HIDE DEF g
<1>4. g[0] = x /\ \A n \in 1 .. Len(frames) : g[n] = OnFrame(g[n - 1], side, frames[n], cs, midjoin, cap)
  BY <1>1, <1>2 DEF Reading
<1> QED
  BY <1>3, <1>4 DEF Contexts

(* When n frames are read, a call that is counted was swept, or is over:   *)
(* nothing that follows opens its stream again.  The calls in strays are   *)
(* left aside.                                                             *)
Once(x, strays, over, frames, n) ==
    \A i \in Ids \ (strays \cup x.strays) :
        \/ Total(x.exported, i) = 0
        \/ /\ Total(x.exported, i) = 1 /\ i \notin DOMAIN x.streams
           /\ \/ i \in x.swept
              \/ i \in over /\ \A m \in DOMAIN frames : m > n => ~Brings(frames[m], i)

NothingSent(over, cs) == \A i \in over : cs[i].stage # "sent"

(* One frame more.                                                         *)
LEMMA FrameOnce ==
    ASSUME NEW frames, NEW n \in Nat, n + 1 \in DOMAIN frames, NEW strays, NEW over, NEW cs,
           NothingSent(over, cs),
           Ordered(frames, over), DOMAIN frames \subseteq Nat,
           NEW x, Once(x, strays, over, frames, n), NEW y, Effects(x, y, frames[n + 1], cs)
    PROVE  Once(y, strays, over, frames, n + 1)
PROOF
<1> SUFFICES ASSUME NEW i \in Ids \ (strays \cup y.strays)
             PROVE  \/ Total(y.exported, i) = 0
                    \/ /\ Total(y.exported, i) = 1 /\ i \notin DOMAIN y.streams
                       /\ \/ i \in y.swept
                          \/ i \in over /\ \A m \in DOMAIN frames : m > n + 1 => ~Brings(frames[m], i)
  BY DEF Once
<1>1. i \in Ids \ (strays \cup x.strays) /\ Effect(x, y, frames[n + 1], cs, i) /\ y.swept = x.swept
  BY DEF Effects
<1>2. \/ Total(x.exported, i) = 0
      \/ /\ Total(x.exported, i) = 1 /\ i \notin DOMAIN x.streams
         /\ \/ i \in x.swept
            \/ i \in over /\ \A m \in DOMAIN frames : m > n => ~Brings(frames[m], i)
  BY <1>1 DEF Once
<1>3. \A m \in DOMAIN frames : m > n + 1 => m > n
  OBVIOUS
<1>4. CASE Total(x.exported, i) = 0
  BY <1>1, <1>4 DEF Effect, Ordered
<1>5. CASE Total(x.exported, i) = 1
  <2>1. ~MayOpen(x, y, frames[n + 1], cs, i)
    BY <1>2, <1>5 DEF NothingSent, MayOpen
  <2>2. Total(y.exported, i) = 1 /\ i \notin DOMAIN y.streams
    BY <1>1, <1>2, <1>5, <2>1 DEF Effect
  <2> QED
    BY <1>1, <1>2, <1>3, <1>5, <2>2
<1> QED
  BY <1>2, <1>4, <1>5

(* All of them: the first n after which the claim failed would be n = 0 or *)
(* follow one after which it held.                                         *)
LEMMA ReadsOnce ==
    ASSUME NEW frames \in Seq(ServerFrame), NEW side \in {"client", "server"}, NEW strays, NEW over,
           NEW cs, NEW midjoin, NEW cap,
           NothingSent(over, cs),
           Ordered(frames, over),
           NEW x, IsCtx(x), Once(x, strays, over, frames, 0)
    PROVE  LET y == Reads(x, side, frames, cs, midjoin, cap)
           IN  IsCtx(y) /\ x.strays \subseteq y.strays /\ Once(y, strays, over, frames, Len(frames))
PROOF
<1> DEFINE len == Len(frames)
<1>0. PICK g : Contexts(g, x, side, frames, cs, midjoin, cap)
  BY ReadsSteps
<1>1. /\ g[0] = x /\ Reads(x, side, frames, cs, midjoin, cap) = g[len]
      /\ \A n \in 1 .. len : g[n] = OnFrame(g[n - 1], side, frames[n], cs, midjoin, cap)
  BY <1>0 DEF Contexts
<1>2. len \in Nat /\ DOMAIN frames = 1 .. len
  OBVIOUS
<1> DEFINE Good(n) == IsCtx(g[n]) /\ x.strays \subseteq g[n].strays /\ Once(g[n], strays, over, frames, n)
           T == {n \in 0 .. len : ~Good(n)}
<1>3. ASSUME NEW n \in Nat, n + 1 \in 1 .. len, Good(n)
      PROVE  Good(n + 1)
  <2>1. g[n + 1] = OnFrame(g[n], side, frames[n + 1], cs, midjoin, cap) /\ frames[n + 1] \in ServerFrame
    BY <1>1, <1>2, <1>3
  <2>2. Effects(g[n], g[n + 1], frames[n + 1], cs)
    BY <1>3, <2>1, OnFrameEffects
  <2>3. Once(g[n + 1], strays, over, frames, n + 1)
    BY <1>2, <1>3, <2>2, FrameOnce
  <2> QED
    BY <1>3, <2>2, <2>3 DEF Effects
<1>4. Good(0)
  BY <1>1
<1> HIDE DEF Good
<1>5. Good(len)
  <2> SUFFICES ASSUME T # {} PROVE FALSE
    BY <1>2
  <2>0. T \in SUBSET Nat
    BY <1>2
  <2> HIDE DEF T
  <2>1. PICK m \in T : \A n \in T : m <= n
    BY <2>0, Least
  <2> USE DEF T
  <2>2. m # 0 /\ m - 1 \in Nat /\ m - 1 \in 0 .. len /\ ~(m <= m - 1) /\ m \in 1 .. len
    BY <1>2, <1>4, <2>1
  <2>3. Good(m - 1)
    BY <2>1, <2>2
  <2> QED
    BY <1>3, <2>1, <2>2, <2>3
<1> QED
  BY <1>1, <1>5 DEF Good

(***************************************************************************)
(* Feeding a connection.                                                   *)
(***************************************************************************)
(* A frame behind a scan in order.  over grows to later. *)
LEMMA OrderedAppend ==
    ASSUME NEW frames \in Seq(ServerFrame), NEW f \in ServerFrame, NEW over, NEW later, over \subseteq later,
           Ordered(frames, over), \A i \in Ids : Finishes(f, i) => i \in later,
           \A i \in Ids : Brings(f, i) => i \notin over
    PROVE  Ordered(Append(frames, f), later)
PROOF
<1> DEFINE new == Append(frames, f)
           len == Len(frames)
<1>1. /\ len \in Nat /\ DOMAIN frames = 1 .. len /\ DOMAIN new = 1 .. len + 1 /\ new[len + 1] = f
      /\ \A n \in 1 .. len : new[n] = frames[n]
  BY AppendProperties
<1> HIDE DEF new, len
<1> SUFFICES ASSUME NEW i \in Ids, NEW n \in DOMAIN new, Finishes(new[n], i)
             PROVE  i \in later /\ \A m \in DOMAIN new : m > n => ~Brings(new[m], i)
  BY DEF Ordered, new
<1>2. CASE n \in 1 .. len
  <2>1. i \in over /\ \A m \in DOMAIN frames : m > n => ~Brings(frames[m], i)
    BY <1>1, <1>2 DEF Ordered
  <2> QED
    BY <1>1, <2>1
<1>3. CASE n = len + 1
  BY <1>1, <1>3
<1> QED
  BY <1>1, <1>2, <1>3

(* What feeding leads to: a context x, and what its direction then holds.  *)
Leads(c, k, side, f, loss, held, strays, over, x, dir, midjoin) ==
    /\ IsCtx(x) /\ Once(x, strays, over, dir.scan, 0)
    /\ DOMAIN dir = {"lost", "scanning", "scan", "table"}
    /\ \/ dir.scan = Append(held, f)
       \/ dir.scan = <<>>
       \/ (loss = "end" /\ dir.scan = <<EndOf(f)>>)
    /\ conn' = [conn EXCEPT ![c] = Fed(k, side, midjoin, x, dir)]
    /\ exported' = [exported EXCEPT ![c] = x.exported]
    /\ history'.strays = history.strays \cup ({c} \X x.strays)
    /\ history'.swept = history.swept \cup ({c} \X x.swept)
    /\ DOMAIN history' = DOMAIN history

(* Whether the frames are read now or wait in a scan, and whatever the     *)
(* sweep of idle streams then does.                                        *)
LEMMA FeedReads ==
    ASSUME NEW c \in Conns, NEW k, IsConn(k), NEW side \in {"client", "server"}, NEW f \in ServerFrame,
           NEW loss, Feed(c, k, side, f, loss), TablesOK, exported[c] \in Counts,
           NEW held \in Seq(ServerFrame), held = IF k[side].lost THEN <<>> ELSE k[side].scan,
           NEW strays, NEW over, NEW cs, cs = calls'[c],
           NothingSent(over, cs),
           Ordered(Append(held, f), over),
           CountedOnce(Append(held, f), k.streams, exported[c], strays, Swept(c), over)
    PROVE  \E x, dir, midjoin : Leads(c, k, side, f, loss, held, strays, over, x, dir, midjoin)
PROOF
<1> DEFINE d == IF k[side].lost THEN Rescan ELSE k[side]
           midjoin == k.midjoin \/ (k[side].lost /\ side = "client")
           scan == Append(d.scan, f)
           waits == d.scanning /\ Len(scan) < Run
           before == [streams |-> k.streams, buffered |-> k.buffered, table |-> d.table,
                      exported |-> exported[c], limited |-> FALSE,
                      swept |-> {i \in Ids : <<c, i>> \in history.swept}, strays |-> {}]
           cap == Cap(k, midjoin, loaded[Reader(c)])
           read == Reads(before, side, scan, calls'[c], midjoin, cap)
           after == IF waits THEN before ELSE read
           x == SweepIdle(after)
           left == IF waits THEN scan ELSE IF loss = "end" THEN <<EndOf(f)>> ELSE <<>>
           dir == [lost |-> loss = "tail" \/ (loss = "end" /\ waits), scanning |-> waits,
                   scan |-> left, table |-> x.table]
<1>1. scan = Append(held, f)
  BY DEF Rescan
<1>2. /\ conn' = [conn EXCEPT ![c] = Fed(k, side, midjoin, x, dir)]
      /\ exported' = [exported EXCEPT ![c] = x.exported]
  BY DEF Feed
<1>3. /\ history'.strays = history.strays \cup ({c} \X x.strays)
      /\ history'.swept = history.swept \cup ({c} \X x.swept)
      /\ DOMAIN history' = DOMAIN history
  <2>1. /\ history'.strays = history.strays \cup ({c} \X x.strays)
        /\ history'.swept = history.swept \cup ({c} \X x.swept)
        /\ DOMAIN history' = {"turned", "joined", "limited", "swept", "strays", "overlapped"}
    BY DEF Feed
  <2> QED
    BY <2>1 DEF TablesOK
<1>4. IsCtx(before)
  BY DEF IsCtx, IsConn
<1>5. Once(before, strays, over, scan, 0)
  BY <1>1 DEF Once, CountedOnce, Swept
<1>6. scan \in Seq(ServerFrame) /\ Ordered(scan, over)
  BY <1>1, AppendProperties
<1> HIDE DEF d, midjoin, scan, before, cap, waits
<1>7. IsCtx(after) /\ Once(after, strays, over, left, 0)
  <2>1. CASE waits
    BY <1>4, <1>5, <2>1
  <2>2. CASE ~waits
    <3>1. IsCtx(read) /\ Once(read, strays, over, scan, Len(scan))
      BY <1>4, <1>5, <1>6, ReadsOnce
    <3>2. \A i : \A m \in DOMAIN left : ~Brings(left[m], i)
      <4>1. CASE left = <<>>
        BY <4>1
      <4>2. CASE left = <<EndOf(f)>>
        <5>1. DOMAIN left = {1} /\ left[1] = EndOf(f)
          BY <4>2
        <5>2. EndOf(f).type = "end"
          BY DEF EndOf, ServerFrame, Frame
        <5> QED
          BY <5>1, <5>2 DEF Brings
      <4> QED
        BY <2>2, <4>1, <4>2
    <3>3. after = read
      BY <2>2
    <3> HIDE DEF left, after, read
    <3> QED
      BY <3>1, <3>2, <3>3 DEF Once
  <2> QED
    BY <2>1, <2>2
<1> HIDE DEF left, after
<1>8. /\ IsCtx(x) /\ x.strays = after.strays /\ after.swept \subseteq x.swept
      /\ \A i \in Ids :
            \/ /\ Total(x.exported, i) = Total(after.exported, i)
               /\ i \in DOMAIN x.streams => i \in DOMAIN after.streams
            \/ /\ Total(x.exported, i) = Total(after.exported, i) + 1
               /\ i \in DOMAIN after.streams /\ i \notin DOMAIN x.streams /\ i \in x.swept
  BY <1>7, SweepIdleSweeps
<1> HIDE DEF x
<1>9. Once(x, strays, over, left, 0)
  BY <1>7, <1>8 DEF Once
<1>10. DOMAIN dir = {"lost", "scanning", "scan", "table"} /\ dir.scan = left
  OBVIOUS
<1>11. left = scan \/ left = <<>> \/ (loss = "end" /\ left = <<EndOf(f)>>)
  BY DEF left
<1> HIDE DEF dir
<1>12. Leads(c, k, side, f, loss, held, strays, over, x, dir, midjoin)
  BY <1>1, <1>2, <1>3, <1>8, <1>9, <1>10, <1>11 DEF Leads
<1> QED
  BY <1>12

(* A client's frames are frames; what stands for the end of a frame is     *)
(* one.                                                                    *)
LEMMA FrameTypes ==
    /\ Rescan.scan = <<>> /\ ClientFrame \subseteq ServerFrame
    /\ \A frames \in Seq(ClientFrame) : frames \in Seq(ServerFrame)
    /\ \A f \in ServerFrame : EndOf(f) \in ServerFrame /\ EndOf(f).type = "end" /\ EndOf(f).id = f.id
PROOF
<1>1. ClientFrame \subseteq ServerFrame /\ Rescan.scan = <<>>
  BY DEF ClientFrame, Rescan
<1>2. \A frames \in Seq(ClientFrame) : frames \in Seq(ServerFrame)
  BY <1>1
<1>3. ASSUME NEW f \in ServerFrame
      PROVE  EndOf(f) \in ServerFrame /\ EndOf(f).type = "end" /\ EndOf(f).id = f.id
  BY DEF ServerFrame, EndOf, Frame
<1> QED
  BY <1>1, <1>2, <1>3

(* Each side is fed its own direction.                                     *)
LEMMA FedIs ==
    ASSUME NEW k, IsConn(k), NEW midjoin, NEW x, IsCtx(x), NEW dir
    PROVE  /\ LET y == Fed(k, "client", midjoin, x, dir)
              IN  DirOK(dir, ClientFrame) =>
                     IsConn(y) /\ y.server = k.server /\ y.streams = x.streams
           /\ LET y == Fed(k, "server", midjoin, x, dir)
              IN  DirOK(dir, ServerFrame) =>
                     IsConn(y) /\ y.server = dir /\ y.streams = x.streams
PROOF
<1>1. LET y == Fed(k, "client", midjoin, x, dir)
      IN  /\ DOMAIN y = DOMAIN k /\ y.server = k.server /\ y.client = dir /\ y.streams = x.streams
  BY DEF Fed, IsConn
<1>2. LET y == Fed(k, "server", midjoin, x, dir)
      IN  /\ DOMAIN y = DOMAIN k /\ y.server = dir /\ y.client = k.client /\ y.streams = x.streams
  BY DEF Fed, IsConn
<1> QED
  BY <1>1, <1>2 DEF IsConn, IsCtx

(* A connection moves on to new, with new counts, more strays and more     *)
(* calls that were swept.                                                  *)
Moves(c, new, counts, more, idle) ==
    /\ conn' = [conn EXCEPT ![c] = new]
    /\ exported' = [exported EXCEPT ![c] = counts]
    /\ history'.strays = history.strays \cup ({c} \X more)
    /\ history'.swept = history.swept \cup ({c} \X idle)
    /\ DOMAIN history' = DOMAIN history /\ more \subseteq Ids /\ idle \subseteq Ids

(* A server's frame: what it finishes is over now, what it brings was not. *)
LEMMA ServerFeedSound ==
    ASSUME NEW c \in Conns, NEW k, NEW f \in ServerFrame, NEW loss, TablesOK,
           NEW strays, NEW was, NEW over, was \subseteq over,
           NEW swept, swept = Swept(c), Sound(k, exported[c], strays, swept, was),
           Feed(c, k, "server", f, loss),
           NEW cs, cs = calls'[c], NothingSent(over, cs),
           \A i \in Ids : (Finishes(f, i) => i \in over) /\ (Brings(f, i) => i \notin was),
           loss = "end" => f.id \in over
    PROVE  \E new, counts, more, idle :
               /\ Moves(c, new, counts, more, idle)
               /\ Sound(new, counts, strays \cup more, swept \cup idle, over)
PROOF
<1>1. IsConn(k) /\ exported[c] \in Counts /\ Ordered(k.server.scan, was)
  BY DEF Sound
<1>2. PICK held \in Seq(ServerFrame) : held = IF k.server.lost THEN <<>> ELSE k.server.scan
  <2>1. k.server.scan \in Seq(ServerFrame)
    BY <1>1 DEF IsConn, DirOK
  <2> QED
    BY <2>1, EmptySeq
<1>3. Ordered(held, was)
  BY <1>1, <1>2 DEF Ordered
<1> DEFINE scan == Append(held, f)
           len == Len(held)
<1>4. /\ len \in Nat /\ DOMAIN held = 1 .. len /\ DOMAIN scan = 1 .. len + 1 /\ scan[len + 1] = f
      /\ \A n \in 1 .. len : scan[n] = held[n]
      /\ scan \in Seq(ServerFrame)
  BY AppendProperties
<1>5. Ordered(scan, over)
  BY <1>3, OrderedAppend
<1> HIDE DEF scan, len
<1>6. CountedOnce(scan, k.streams, exported[c], strays, swept, over)
  <2> SUFFICES ASSUME NEW i \in Ids \ strays, Total(exported[c], i) # 0, i \notin swept
               PROVE  /\ Total(exported[c], i) = 1 /\ i \notin DOMAIN k.streams /\ i \in over
                      /\ \A m \in DOMAIN scan : ~Brings(scan[m], i)
    BY DEF CountedOnce, Sound
  <2>1. /\ Total(exported[c], i) = 1 /\ i \notin DOMAIN k.streams /\ i \in was
        /\ \A m \in DOMAIN k.server.scan : ~Brings(k.server.scan[m], i)
    BY DEF Sound, CountedOnce
  <2>2. \A m \in DOMAIN held : ~Brings(held[m], i)
    BY <1>2, <2>1
  <2>3. ~Brings(f, i)
    BY <2>1
  <2>4. \A m \in DOMAIN scan : ~Brings(scan[m], i)
    BY <1>4, <2>2, <2>3
  <2> QED
    BY <2>1, <2>4
<1>7. PICK x, dir, midjoin :
         Leads(c, k, "server", f, loss, held, strays, over, x, dir, midjoin)
  BY <1>1, <1>2, <1>5, <1>6, FeedReads DEF scan
<1>7a. /\ IsCtx(x) /\ Once(x, strays, over, dir.scan, 0)
      /\ DOMAIN dir = {"lost", "scanning", "scan", "table"}
      /\ \/ dir.scan = scan
         \/ dir.scan = <<>>
         \/ (loss = "end" /\ dir.scan = <<EndOf(f)>>)
      /\ conn' = [conn EXCEPT ![c] = Fed(k, "server", midjoin, x, dir)]
      /\ exported' = [exported EXCEPT ![c] = x.exported]
      /\ history'.strays = history.strays \cup ({c} \X x.strays)
      /\ history'.swept = history.swept \cup ({c} \X x.swept)
      /\ DOMAIN history' = DOMAIN history
  BY <1>7 DEF Leads, scan
<1> DEFINE new == Fed(k, "server", midjoin, x, dir)
<1>8. /\ EndOf(f) \in ServerFrame
      /\ \A i \in Ids : ~Brings(EndOf(f), i) /\ (Finishes(EndOf(f), i) => i = f.id)
  BY FrameTypes DEF Brings, Finishes
<1>9. dir.scan \in Seq(ServerFrame) /\ Ordered(dir.scan, over)
  <2>1. CASE dir.scan = scan
    BY <1>4, <1>5, <2>1
  <2>2. CASE dir.scan = <<>>
    BY <2>2 DEF Ordered
  <2>3. CASE loss = "end" /\ dir.scan = <<EndOf(f)>>
    <3>1. DOMAIN dir.scan = {1} /\ dir.scan[1] = EndOf(f) /\ dir.scan \in Seq(ServerFrame)
      BY <1>8, <2>3
    <3> QED
      BY <1>8, <2>3, <3>1 DEF Ordered
  <2> QED
    BY <1>7a, <2>1, <2>2, <2>3
<1>10. IsConn(new) /\ new.server = dir /\ new.streams = x.streams
  BY <1>1, <1>7a, <1>9, FedIs DEF DirOK
<1> HIDE DEF new
<1>11. CountedOnce(new.server.scan, new.streams, x.exported, strays \cup x.strays,
              swept \cup x.swept, over)
  <2>1. DOMAIN dir.scan \subseteq Nat /\ \A m \in DOMAIN dir.scan : m > 0
    BY <1>9
  <2> QED
    BY <1>7a, <1>10, <2>1 DEF CountedOnce, Once
<1>12. Sound(new, x.exported, strays \cup x.strays, swept \cup x.swept, over)
  BY <1>7a, <1>9, <1>10, <1>11 DEF Sound, IsCtx
<1>13. Moves(c, new, x.exported, x.strays, x.swept)
  BY <1>7a DEF Moves, new, IsCtx
<1> QED
  BY <1>12, <1>13

(* What a client sends finishes nothing and is no DATA, so the server's    *)
(* side stays as it is.                                                    *)
LEMMA ClientFeedSound ==
    ASSUME NEW c \in Conns, NEW k, NEW f \in ClientFrame, NEW loss, loss # "end", TablesOK,
           NEW strays, NEW was, NEW over, was \subseteq over,
           NEW swept, swept = Swept(c), Sound(k, exported[c], strays, swept, was),
           Feed(c, k, "client", f, loss),
           NEW cs, cs = calls'[c], NothingSent(over, cs)
    PROVE  \E new, counts, more, idle :
               /\ Moves(c, new, counts, more, idle)
               /\ Sound(new, counts, strays \cup more, swept \cup idle, over)
PROOF
<1>1. IsConn(k) /\ exported[c] \in Counts /\ Ordered(k.server.scan, over)
  BY DEF Sound, Ordered
<1>2. PICK held \in Seq(ClientFrame) : held = IF k.client.lost THEN <<>> ELSE k.client.scan
  <2>1. k.client.scan \in Seq(ClientFrame)
    BY <1>1 DEF IsConn, DirOK
  <2> QED
    BY <2>1, EmptySeq
<1> DEFINE scan == Append(held, f)
           left == {i \in over : \A m \in DOMAIN k.server.scan : ~Brings(k.server.scan[m], i)}
<1>3. scan \in Seq(ClientFrame)
  BY AppendProperties
<1>4. \A m \in DOMAIN scan : scan[m] \in ClientFrame
  BY <1>3
<1>5. \A g \in ClientFrame, i \in Ids : ~Brings(g, i) /\ ~Finishes(g, i)
  BY DEF Brings, Finishes, ClientFrame
<1>6. held \in Seq(ServerFrame) /\ f \in ServerFrame
  BY FrameTypes
<1> HIDE DEF scan
<1>7. Ordered(scan, left) /\ NothingSent(left, cs)
  BY <1>4, <1>5 DEF Ordered, NothingSent
<1>8. CountedOnce(scan, k.streams, exported[c], strays, swept, left)
  BY <1>4, <1>5 DEF Sound, CountedOnce
<1> HIDE DEF left
<1>9. PICK x, dir, midjoin :
         Leads(c, k, "client", f, loss, held, strays, left, x, dir, midjoin)
  BY <1>1, <1>2, <1>6, <1>7, <1>8, FeedReads DEF scan
<1>9a. /\ IsCtx(x) /\ Once(x, strays, left, dir.scan, 0)
      /\ DOMAIN dir = {"lost", "scanning", "scan", "table"}
      /\ \/ dir.scan = scan
         \/ dir.scan = <<>>
         \/ (loss = "end" /\ dir.scan = <<EndOf(f)>>)
      /\ conn' = [conn EXCEPT ![c] = Fed(k, "client", midjoin, x, dir)]
      /\ exported' = [exported EXCEPT ![c] = x.exported]
      /\ history'.strays = history.strays \cup ({c} \X x.strays)
      /\ history'.swept = history.swept \cup ({c} \X x.swept)
      /\ DOMAIN history' = DOMAIN history
  BY <1>9 DEF Leads, scan
<1> DEFINE new == Fed(k, "client", midjoin, x, dir)
<1>10. dir.scan \in Seq(ClientFrame)
  BY <1>3, <1>9a, EmptySeq
<1>11. IsConn(new) /\ new.server = k.server /\ new.streams = x.streams
  BY <1>1, <1>9a, <1>10, FedIs DEF DirOK
<1> HIDE DEF new
<1>12. CountedOnce(new.server.scan, new.streams, x.exported, strays \cup x.strays,
              swept \cup x.swept, over)
  BY <1>9a, <1>11 DEF CountedOnce, Once, left
<1>13. Sound(new, x.exported, strays \cup x.strays, swept \cup x.swept, over)
  BY <1>1, <1>9a, <1>11, <1>12 DEF Sound, IsCtx
<1>14. Moves(c, new, x.exported, x.strays, x.swept)
  BY <1>9a DEF Moves, new, IsCtx
<1> QED
  BY <1>13, <1>14

(* A connection stays sound when more calls are over, swept or strays.     *)
LEMMA SoundGrows ==
    ASSUME NEW k, NEW counts, NEW strays, NEW more, strays \subseteq more,
           NEW swept, NEW idle, swept \subseteq idle,
           NEW was, NEW over, was \subseteq over, Sound(k, counts, strays, swept, was)
    PROVE  Sound(k, counts, more, idle, over)
BY DEF Sound, Ordered, CountedOnce

(* The calls and the connections keep their types and calls stay over.     *)
Grows == CallsOK' /\ \A d \in Conns : Over(d) \subseteq Over(d)'

(* A frame comes before the end of its call, and says no more than is so.  *)
Says(c, side, f) ==
    /\ f \in ServerFrame /\ (side = "client" => f \in ClientFrame)
    /\ \A i \in Ids : (Finishes(f, i) => i \in Over(c)') /\ (Brings(f, i) => i \notin Over(c))

(* Only one connection moves.                                              *)
LEMMA MovesKeepsInv ==
    ASSUME Inv, Grows, NEW c \in Conns, NEW new, NEW counts, NEW more, NEW idle,
           NEW over, over = Over(c)', Moves(c, new, counts, more, idle),
           Sound(new, counts, Strays(c) \cup more, Swept(c) \cup idle, over)
    PROVE  Inv'
PROOF
<1>1. /\ DOMAIN conn = Conns /\ DOMAIN exported = Conns
      /\ DOMAIN history = {"turned", "joined", "limited", "swept", "strays", "overlapped"}
  BY DEF Inv, TablesOK
<1>2. /\ conn' = [conn EXCEPT ![c] = new]
      /\ exported' = [exported EXCEPT ![c] = counts]
      /\ history'.strays = history.strays \cup ({c} \X more)
      /\ history'.swept = history.swept \cup ({c} \X idle)
      /\ DOMAIN history' = DOMAIN history
  BY DEF Moves
<1>3. TablesOK'
  BY <1>1, <1>2 DEF TablesOK
<1>4. ASSUME NEW d \in Conns
      PROVE  Sound(conn[d], exported[d], Strays(d), Swept(d), Over(d))'
  <2>1. CASE d = c
    <3>1. conn'[d] = new /\ exported'[d] = counts
      BY <1>1, <1>2, <2>1
    <3>2. /\ Strays(c) \cup more \subseteq {i \in Ids : <<c, i>> \in history'.strays}
          /\ Swept(c) \cup idle \subseteq {i \in Ids : <<c, i>> \in history'.swept}
      <4>1. \A i \in Strays(c) : i \in Ids /\ <<c, i>> \in history'.strays
        BY <1>2 DEF Strays
      <4>2. \A i \in more : <<c, i>> \in history'.strays
        BY <1>2
      <4>3. \A i \in Swept(c) : i \in Ids /\ <<c, i>> \in history'.swept
        BY <1>2 DEF Swept
      <4>4. \A i \in idle : <<c, i>> \in history'.swept
        BY <1>2
      <4>5. more \subseteq Ids /\ idle \subseteq Ids
        BY DEF Moves
      <4> QED
        BY <4>1, <4>2, <4>3, <4>4, <4>5
    <3> QED
      BY <2>1, <3>1, <3>2, SoundGrows DEF Strays, Swept
  <2>2. CASE d # c
    <3>1. conn'[d] = conn[d] /\ exported'[d] = exported[d]
      BY <1>1, <1>2, <2>2
    <3>2. Strays(d) \subseteq Strays(d)' /\ Swept(d) \subseteq Swept(d)'
      BY <1>2 DEF Strays, Swept
    <3>3. Over(d) \subseteq Over(d)'
      BY DEF Grows
    <3>4. Sound(conn[d], exported[d], Strays(d), Swept(d), Over(d))
      BY DEF Inv
    <3> QED
      BY <3>1, <3>2, <3>3, <3>4, SoundGrows
  <2> QED
    BY <2>1, <2>2
<1> QED
  BY <1>3, <1>4 DEF Inv, Grows

(* So a frame that is heard keeps the invariant, with or without a loss. *)
LEMMA FeedKeepsInv ==
    ASSUME Inv, Grows, NEW c \in Conns, opened'[c] # "closed",
           NEW side \in {"client", "server"}, NEW f, Says(c, side, f),
           NEW k, Sound(k, exported[c], Strays(c), Swept(c), Over(c)),
           NEW loss, loss = "end" => side = "server" /\ f.id \in Over(c)',
           Feed(c, k, side, f, loss)
    PROVE  Inv'
PROOF
<1>1. PICK over : over = Over(c)'
  OBVIOUS
<1>2. PICK was : was = Over(c)
  OBVIOUS
<1>3. PICK strays : strays = Strays(c)
  OBVIOUS
<1>4. PICK cs : cs = calls'[c]
  OBVIOUS
<1>3a. PICK swept : swept = Swept(c)
  OBVIOUS
<1>5. was \subseteq over /\ TablesOK /\ Sound(k, exported[c], strays, swept, was)
  BY <1>1, <1>2, <1>3, <1>3a DEF Grows, Inv
<1>6. NothingSent(over, cs)
  BY <1>1, <1>4 DEF NothingSent, Over, Done
<1>7. /\ f \in ServerFrame /\ (side = "client" => f \in ClientFrame)
      /\ \A i \in Ids : (Finishes(f, i) => i \in over) /\ (Brings(f, i) => i \notin was)
      /\ loss = "end" => side = "server" /\ f.id \in over
  BY <1>1, <1>2 DEF Says
<1>8. \E new, counts, more, idle :
         /\ Moves(c, new, counts, more, idle)
         /\ Sound(new, counts, strays \cup more, swept \cup idle, over)
  <2>1. CASE side = "server"
    BY <1>3a, <1>4, <1>5, <1>6, <1>7, <2>1, ServerFeedSound
  <2>2. CASE side = "client"
    BY <1>3a, <1>4, <1>5, <1>6, <1>7, <2>2, ClientFeedSound
  <2> QED
    BY <2>1, <2>2
<1>9. PICK new, counts, more, idle :
         /\ Moves(c, new, counts, more, idle)
         /\ Sound(new, counts, strays \cup more, swept \cup idle, over)
  BY <1>8
<1> QED
  BY <1>1, <1>3, <1>3a, <1>9, MovesKeepsInv

(* What capture leaves of a frame.  A table that was lost to the call does *)
(* no harm, nor does a client heard from the middle.                       *)
LEMMA TableLossSound ==
    ASSUME NEW k, NEW table, NEW side \in {"client", "server"}, NEW counts, NEW strays, NEW swept,
           NEW over, Sound(k, counts, strays, swept, over)
    PROVE  Sound([k EXCEPT ![side].table = table], counts, strays, swept, over)
PROOF
<1> DEFINE new == [k EXCEPT ![side] = [k[side] EXCEPT !.table = table]]
<1>1. IsConn(k)
  BY DEF Sound
<1>2. /\ DOMAIN new = DOMAIN k /\ new.streams = k.streams
      /\ DOMAIN new.client = DOMAIN k.client /\ new.client.scan = k.client.scan
      /\ DOMAIN new.server = DOMAIN k.server /\ new.server.scan = k.server.scan
  <2>1. CASE side = "client"
    BY <1>1, <2>1 DEF IsConn, DirOK
  <2>2. CASE side = "server"
    BY <1>1, <2>2 DEF IsConn, DirOK
  <2> QED
    BY <2>1, <2>2
<1>3. [k EXCEPT ![side].table = table] = new
  OBVIOUS
<1> HIDE DEF new
<1> QED
  BY <1>2, <1>3 DEF Sound, IsConn, DirOK

(* A connection the agent joins or does not watch holds no frame and no    *)
(* stream,                                                                 *)
LEMMA FreshConns ==
    /\ IsConn(Joined) /\ Joined.server.scan = <<>> /\ Joined.streams = <<>>
    /\ IsConn(Off) /\ Off.server.scan = <<>> /\ Off.streams = <<>>
PROOF
<1>1. /\ DOMAIN NewDir = {"lost", "scanning", "scan", "table"} /\ NewDir.scan = <<>>
      /\ Off.client = NewDir /\ Off.server = NewDir /\ Off.streams = <<>>
      /\ DOMAIN Off = {"on", "midjoin", "quiet", "buffered", "client", "server", "streams"}
  BY DEF Off, NewDir
<1> DEFINE client == [NewDir EXCEPT !.table = "forgotten"]
           server == [NewDir EXCEPT !.lost = TRUE]
<1>2. /\ Joined.client = client /\ Joined.server = server /\ Joined.streams = <<>>
      /\ DOMAIN Joined = DOMAIN Off
  BY <1>1 DEF Joined
<1>3. /\ DOMAIN client = DOMAIN NewDir /\ client.scan = <<>>
      /\ DOMAIN server = DOMAIN NewDir /\ server.scan = <<>>
  BY <1>1
<1> HIDE DEF client, server
<1>4. IsConn(Joined) /\ IsConn(Off)
  <2>1. \A d, frames : DOMAIN d = DOMAIN NewDir /\ d.scan = <<>> => DirOK(d, frames)
    BY <1>1 DEF DirOK
  <2>2. \A frames : DirOK(client, frames) /\ DirOK(server, frames) /\ DirOK(NewDir, frames)
    BY <1>1, <1>3, <2>1
  <2>3. DOMAIN <<>> \subseteq Ids
    OBVIOUS
  <2> QED
    BY <1>1, <1>2, <2>2, <2>3 DEF IsConn
<1> QED
  BY <1>1, <1>2, <1>3, <1>4

(* so it is sound whatever was counted of it.                              *)
LEMMA JoinedSound ==
    ASSUME NEW k, NEW counts, NEW strays, NEW swept, NEW over, Sound(k, counts, strays, swept, over)
    PROVE  Sound(Joined, counts, strays, swept, over) /\ Sound(Off, counts, strays, swept, over)
PROOF
<1>1. \A s : s.server.scan = <<>> => Ordered(s.server.scan, over)
  BY DEF Ordered
<1>2. \A s : s.server.scan = <<>> /\ s.streams = <<>> =>
         CountedOnce(s.server.scan, s.streams, counts, strays, swept, over)
  BY DEF CountedOnce, Sound
<1> QED
  BY <1>1, <1>2, FreshConns DEF Sound

(* A frame with a hole or without its end says no more than the whole one. *)
LEMMA DamagedFrames ==
    ASSUME NEW c, NEW side, NEW f, Says(c, side, f)
    PROVE  /\ f.type = "data" => Says(c, side, [f EXCEPT !.part = 0])
           /\ LET torn == [f EXCEPT !.type = IF f.type = "data" THEN "data" ELSE "other",
                                    !.part = 0, !.end = FALSE]
              IN  Says(c, side, torn) /\ torn.id = f.id
PROOF
<1>1. f \in Frame /\ (f.type \in {"head", "data"} => f.id \in Ids)
  BY DEF Says, ServerFrame
<1>2. 0 \in 0 .. Parts
  BY H2Assumption
<1>3. side = "client" => f.type \in {"head", "huge", "other"} /\ ~f.end
  BY DEF Says, ClientFrame
<1> DEFINE holed == [f EXCEPT !.part = 0]
           torn == [f EXCEPT !.type = IF f.type = "data" THEN "data" ELSE "other",
                             !.part = 0, !.end = FALSE]
<1>4. /\ holed \in Frame /\ holed.type = f.type /\ holed.id = f.id /\ holed.end = f.end
  BY <1>1, <1>2 DEF Frame
<1>5. /\ torn \in Frame /\ torn.type = (IF f.type = "data" THEN "data" ELSE "other")
      /\ torn.id = f.id /\ torn.end = FALSE
  BY <1>1, <1>2 DEF Frame
<1> HIDE DEF holed, torn
<1>6. f.type = "data" => Says(c, side, holed)
  BY <1>1, <1>3, <1>4 DEF Says, ServerFrame, ClientFrame, Finishes, Brings
<1>7. Says(c, side, torn)
  BY <1>1, <1>3, <1>5 DEF Says, ServerFrame, ClientFrame, Finishes, Brings
<1> QED
  BY <1>5, <1>6, <1>7 DEF holed, torn

(* What is heard of a damaged call, case by case. *)
LEMMA DamagedCases ==
    ASSUME NEW c, NEW side, NEW f, Damaged(c, side, f)
    PROVE  LET torn == [f EXCEPT !.type = IF f.type = "data" THEN "data" ELSE "other",
                                 !.part = 0, !.end = FALSE]
               holed == [f EXCEPT !.part = 0]
           IN  \/ f.type = "data" /\ Feed(c, conn[c], side, holed, "none")
               \/ f.type = "data" /\ f.end /\ Feed(c, conn[c], side, torn, "end")
               \/ Feed(c, conn[c], side, torn, "tail")
               \/ /\ conn' = [conn EXCEPT ![c][side].table =
                        IF f.type \in {"head", "huge"} THEN "astray" ELSE @]
                  /\ UNCHANGED <<node, loaded, exported, history>>
PROOF
<1> DEFINE torn == [f EXCEPT !.type = IF f.type = "data" THEN "data" ELSE "other",
                             !.part = 0, !.end = FALSE]
           holed == [f EXCEPT !.part = 0]
           heard == {<<torn, "tail">>} \cup
                    IF f.type # "data" THEN {}
                    ELSE {<<holed, "none">>} \cup IF f.end THEN {<<torn, "end">>} ELSE {}
<1>1. \/ \E h \in heard : Feed(c, conn[c], side, h[1], h[2])
      \/ /\ conn' = [conn EXCEPT ![c][side].table =
               IF f.type \in {"head", "huge"} THEN "astray" ELSE @]
         /\ UNCHANGED <<node, loaded, exported, history>>
  BY DEF Damaged
<1> HIDE DEF torn, holed
<1>2. CASE \E h \in heard : Feed(c, conn[c], side, h[1], h[2])
  <2>1. PICK h \in heard : Feed(c, conn[c], side, h[1], h[2])
    BY <1>2
  <2>2. \/ h = <<torn, "tail">>
        \/ f.type = "data" /\ h = <<holed, "none">>
        \/ f.type = "data" /\ f.end /\ h = <<torn, "end">>
    OBVIOUS
  <2> HIDE DEF heard
  <2>3. CASE h = <<torn, "tail">>
    <3>1. h[1] = torn /\ h[2] = "tail"
      BY <2>3
    <3>2. Feed(c, conn[c], side, torn, "tail")
      BY <2>1, <3>1
    <3> QED
      BY <3>2 DEF torn
  <2>4. CASE f.type = "data" /\ h = <<holed, "none">>
    <3>1. h[1] = holed /\ h[2] = "none"
      BY <2>4
    <3>2. Feed(c, conn[c], side, holed, "none")
      BY <2>1, <3>1
    <3> QED
      BY <2>4, <3>2 DEF holed
  <2>5. CASE f.type = "data" /\ f.end /\ h = <<torn, "end">>
    <3>1. h[1] = torn /\ h[2] = "end"
      BY <2>5
    <3>2. Feed(c, conn[c], side, torn, "end")
      BY <2>1, <3>1
    <3> QED
      BY <2>5, <3>2 DEF torn
  <2> QED
    BY <2>2, <2>3, <2>4, <2>5
<1> QED
  BY <1>1, <1>2

(* So a frame keeps the invariant, seen, joined, damaged or missed.        *)
LEMMA CaptureKeepsInv ==
    ASSUME Inv, Grows, NEW c \in Conns, opened'[c] # "closed",
           NEW side \in {"client", "server"}, NEW f, Says(c, side, f), Capture(c, side, f)
    PROVE  Inv'
PROOF
<1>1. Sound(conn[c], exported[c], Strays(c), Swept(c), Over(c))
  BY DEF Inv
<1>2. CASE UNCHANGED <<conn, exported, history>>
  <2>1. TablesOK'
    BY <1>2 DEF Inv, TablesOK
  <2>2. ASSUME NEW d \in Conns
        PROVE  Sound(conn[d], exported[d], Strays(d), Swept(d), Over(d))'
    <3>1. /\ conn'[d] = conn[d] /\ exported'[d] = exported[d]
          /\ Strays(d)' = Strays(d) /\ Swept(d)' = Swept(d)
      BY <1>2 DEF Strays, Swept
    <3>2. Over(d) \subseteq Over(d)' /\ Sound(conn[d], exported[d], Strays(d), Swept(d), Over(d))
      BY DEF Inv, Grows
    <3> QED
      BY <3>1, <3>2, SoundGrows
  <2> QED
    BY <2>1, <2>2 DEF Inv, Grows
<1>3. CASE Feed(c, conn[c], side, f, "none")
  BY <1>1, <1>3, FeedKeepsInv
<1>4. CASE Join(c, side, f)
  BY <1>1, <1>4, JoinedSound, FeedKeepsInv DEF Join
<1>5. CASE Damaged(c, side, f)
  <2> DEFINE torn == [f EXCEPT !.type = IF f.type = "data" THEN "data" ELSE "other",
                               !.part = 0, !.end = FALSE]
             holed == [f EXCEPT !.part = 0]
  <2>1. /\ f.type = "data" => Says(c, side, holed)
        /\ Says(c, side, torn) /\ torn.id = f.id
    BY DamagedFrames
  <2>2. \/ f.type = "data" /\ Feed(c, conn[c], side, holed, "none")
        \/ f.type = "data" /\ f.end /\ Feed(c, conn[c], side, torn, "end")
        \/ Feed(c, conn[c], side, torn, "tail")
        \/ /\ conn' = [conn EXCEPT ![c][side].table =
                 IF f.type \in {"head", "huge"} THEN "astray" ELSE @]
           /\ UNCHANGED <<node, loaded, exported, history>>
    BY <1>5, DamagedCases
  <2> HIDE DEF torn, holed
  <2>3. CASE f.type = "data" /\ Feed(c, conn[c], side, holed, "none")
    BY <1>1, <2>1, <2>3, FeedKeepsInv
  <2>4. CASE f.type = "data" /\ f.end /\ Feed(c, conn[c], side, torn, "end")
    <3>1. side = "server" /\ f.id \in Over(c)'
      BY <2>4 DEF Says, ClientFrame, ServerFrame, Finishes
    <3> QED
      BY <1>1, <2>1, <2>4, <3>1, FeedKeepsInv
  <2>5. CASE Feed(c, conn[c], side, torn, "tail")
    BY <1>1, <2>1, <2>5, FeedKeepsInv
  <2>6. CASE /\ conn' = [conn EXCEPT ![c][side].table =
                    IF f.type \in {"head", "huge"} THEN "astray" ELSE @]
             /\ UNCHANGED <<node, loaded, exported, history>>
    <3> DEFINE table == IF f.type \in {"head", "huge"} THEN "astray" ELSE conn[c][side].table
               new == [conn[c] EXCEPT ![side].table = table]
    <3>1. conn' = [conn EXCEPT ![c] = new]
      BY <2>6
    <3>2. exported' = [exported EXCEPT ![c] = exported[c]]
      BY <2>6 DEF Inv, TablesOK
    <3>3. Moves(c, new, exported[c], {}, {})
      BY <2>6, <3>1, <3>2 DEF Moves
    <3>4. Sound(new, exported[c], Strays(c), Swept(c), Over(c)')
      BY <1>1, SoundGrows, TableLossSound DEF Grows
    <3> HIDE DEF new
    <3> QED
      BY <3>3, <3>4, MovesKeepsInv
  <2> QED
    BY <2>2, <2>3, <2>4, <2>5, <2>6
<1> QED
  BY <1>2, <1>3, <1>4, <1>5 DEF Capture

(***************************************************************************)
(* The actions.                                                            *)
(***************************************************************************)
LEMMA CallGrows ==
    ASSUME Inv, NEW c \in Conns, NEW id \in Ids, NEW call \in Call, id \notin Over(c),
           calls' = [calls EXCEPT ![c] = [calls[c] EXCEPT ![id] = call]], UNCHANGED opened
    PROVE  Grows /\ (call.stage \in {"over", "aborted"} => id \in Over(c)')
PROOF
<1>1. calls \in [Conns -> [Ids -> Call]] /\ opened \in [Conns -> {"no", "yes", "going", "closed"}]
  BY DEF Inv, CallsOK
<1>2. CallsOK'
  BY <1>1 DEF CallsOK
<1>3. ASSUME NEW d \in Conns, NEW i \in Over(d)
      PROVE  i \in Over(d)'
  <2>1. d # c \/ i # id
    OBVIOUS
  <2>2. i \in Ids /\ calls'[d][i] = calls[d][i]
    BY <1>1, <2>1 DEF Over
  <2> QED
    BY <2>2 DEF Over, Done
<1>4. call.stage \in {"over", "aborted"} => id \in Over(c)'
  BY <1>1 DEF Over, Done
<1> QED
  BY <1>2, <1>3, <1>4 DEF Grows

(* The frames there are say no more than is so. *)
LEMMA FrameSays ==
    ASSUME NEW c \in Conns, NEW side \in {"client", "server"},
           NEW f \in Frame, f.type \in {"head", "data"} => f.id \in Ids,
           side = "client" => f.type \in {"head", "huge", "other"} /\ ~f.end,
           f.end \/ f.type = "reset" => f.id \in Over(c)',
           f.type = "goaway" => \A i \in Ids : i > f.id => i \in Over(c)',
           f.type = "data" => f.id \notin Over(c)
    PROVE  Says(c, side, f)
BY DEF Says, ServerFrame, ClientFrame, Finishes, Brings

(* Call i goes on from a to b when a frame is said: *)
Silent(a, b, f, i) ==
    /\ b = a /\ (i # f.id \/ f.type = "goaway")
    /\ f.type = "goaway" /\ i > f.id => a.stage \notin {"sent", "answered"}

GivenUp(b, f) == b.stage = "aborted" /\ f.type \in {"other", "reset", "goaway"}

Asked(a, b, side, f, i) ==
    /\ side = "client" /\ f.type \in {"head", "huge"} /\ f.id = i
    /\ a.stage = "none" /\ b.stage = "sent" /\ b.sent = 0

Alike(a, b) == a.stage \in {"sent", "answered"} /\ b.llm = a.llm /\ b.kind = a.kind

Answered(a, b, side, f, i) ==
    /\ side = "server" /\ f.type \in {"head", "huge"} /\ f.id = i /\ Alike(a, b) /\ b.sent = a.sent
    /\ \/ ~f.end /\ a.stage = "sent" /\ b.stage = "answered"
       \/ f.end /\ a.stage = "answered" /\ b.stage = "over" /\ b.sent = Parts

Sent(a, b, side, f, i) ==
    /\ side = "server" /\ f.type = "data" /\ f.id = i /\ Alike(a, b)
    /\ a.stage = "answered" /\ f.part = a.sent + 1 /\ b.sent = a.sent + 1
    /\ IF f.end THEN b.stage = "over" /\ b.sent = Parts ELSE b.stage = "answered"

Turn(a, b, side, f, i) ==
    /\ a \in Call /\ b \in Call
    /\ \/ Silent(a, b, f, i) \/ GivenUp(b, f) \/ Asked(a, b, side, f, i)
       \/ Answered(a, b, side, f, i) \/ Sent(a, b, side, f, i)

Turns(c, side, f) == \A i \in Ids : Turn(calls[c][i], calls'[c][i], side, f, i)

(* A frame is said and captured, of a connection that stays open.          *)
Heard(c) ==
    /\ Grows /\ opened[c] \in {"yes", "going"} /\ opened'[c] \in {"yes", "going"}
    /\ \A d \in Conns \ {c} : opened'[d] = opened[d] /\ calls'[d] = calls[d]
    /\ \E side \in {"client", "server"} : \E f : Says(c, side, f) /\ Turns(c, side, f) /\ Capture(c, side, f)

(* Whatever its luck, a frame of that kind says how the calls of c go on,  *)
(* and those of others do not.                                             *)
Tells(c, side, type, id, part, end) ==
    /\ \A d \in Conns \ {c} : calls'[d] = calls[d]
    /\ \A f \in Frame :
          f.type = type /\ f.id = id /\ f.part = part /\ f.end = end => Turns(c, side, f)

(* One call goes on from what it was, and all others are as they were. *)
LEMMA OneTells ==
    ASSUME Inv, NEW c \in Conns, NEW id \in Ids, NEW call \in Call,
           calls' = [calls EXCEPT ![c] = [calls[c] EXCEPT ![id] = call]],
           NEW side, NEW type, NEW about, NEW part, NEW end,
           about = id \/ (type = "other" /\ about = 0), type # "goaway",
           \A f \in Frame : f.type = type /\ f.id = about /\ f.part = part /\ f.end = end
                          => Turn(calls[c][id], call, side, f, id)
    PROVE  Tells(c, side, type, about, part, end)
PROOF
<1>1. calls \in [Conns -> [Ids -> Call]]
  BY DEF Inv, CallsOK
<1>2. ASSUME NEW f \in Frame, f.type = type, f.id = about, f.part = part, f.end = end, NEW i \in Ids
      PROVE  Turn(calls[c][i], calls'[c][i], side, f, i)
  <2>1. CASE i = id
    BY <1>1, <1>2, <2>1
  <2>2. CASE i # id
    <3>1. calls'[c][i] = calls[c][i] /\ calls[c][i] \in Call
      BY <1>1, <2>2
    <3>2. i # f.id /\ f.type # "goaway"
      BY <1>2, <2>2, H2Assumption
    <3> QED
      BY <3>1, <3>2 DEF Turn, Silent
  <2> QED
    BY <2>1, <2>2
<1>3. \A d \in Conns \ {c} : calls'[d] = calls[d]
  BY <1>1
<1> QED
  BY <1>2, <1>3 DEF Turns, Tells

(* An action that sends such a frame has it heard.                         *)
LEMMA SendsIsHeard ==
    ASSUME Inv, Grows, NEW c \in Conns, opened[c] \in {"yes", "going"},
           NEW side \in {"client", "server"}, NEW type \in {"head", "huge", "data", "reset", "other"},
           NEW id \in Ids \cup {0}, NEW part \in 0 .. Parts, NEW end \in BOOLEAN,
           type \in {"head", "data"} => id \in Ids,
           side = "client" => type \in {"head", "huge", "other"} /\ ~end,
           end \/ type = "reset" => id \in Over(c)',
           type = "data" => id \notin Over(c),
           Tells(c, side, type, id, part, end),
           Sends(c, side, type, id, part, end)
    PROVE  Heard(c)
PROOF
<1>1. PICK luck \in BOOLEAN :
         Capture(c, side, [type |-> type, id |-> id, part |-> part, end |-> end, luck |-> luck])
  BY DEF Sends
<1> DEFINE f == [type |-> type, id |-> id, part |-> part, end |-> end, luck |-> luck]
<1>2. f \in Frame /\ f.type = type /\ f.id = id /\ f.part = part /\ f.end = end
  BY DEF Frame
<1>3. Capture(c, side, f) /\ UNCHANGED opened
  BY <1>1 DEF Sends
<1> HIDE DEF f
<1>4. Says(c, side, f) /\ Turns(c, side, f)
  BY <1>2, FrameSays DEF Tells
<1>5. \A d \in Conns \ {c} : opened'[d] = opened[d] /\ calls'[d] = calls[d]
  BY <1>3 DEF Tells
<1> QED
  BY <1>3, <1>4, <1>5 DEF Heard

(* A new request: nothing of it can be counted yet.                        *)
LEMMA RequestIsHeard ==
    ASSUME Inv, NEW c \in Conns, NEW id \in Ids, NEW llm \in BOOLEAN, NEW kind \in Kinds,
           NEW type \in Heads, Request(c, id, llm, kind, type)
    PROVE  Heard(c)
PROOF
<1> DEFINE call == [stage |-> "sent", llm |-> llm, kind |-> kind, sent |-> 0]
<1>0. id >= id /\ 0 \in 0 .. Parts /\ type \in {"head", "huge"}
  BY H2Assumption
<1>1. /\ opened[c] = "yes" /\ calls[c][id].stage = "none"
      /\ calls' = [calls EXCEPT ![c][id] = call]
      /\ Sends(c, "client", type, id, 0, FALSE) /\ UNCHANGED opened
  <2>1. /\ opened[c] = "yes" /\ \A i \in Ids : i >= id => calls[c][i].stage = "none"
        /\ calls' = [calls EXCEPT ![c][id] = call]
        /\ Sends(c, "client", type, id, 0, FALSE)
    BY DEF Request
  <2> QED
    BY <1>0, <2>1 DEF Sends
<1>2. call \in Call
  BY <1>0 DEF Call
<1>3. id \notin Over(c)
  BY <1>1 DEF Over, Done
<1>4. calls[c][id] \in Call /\ call.stage = "sent" /\ call.sent = 0
  BY DEF Inv, CallsOK
<1> HIDE DEF call
<1>5. Grows
  BY <1>1, <1>2, <1>3, CallGrows
<1>6. \A f \in Frame : f.type = type /\ f.id = id /\ f.part = 0 /\ f.end = FALSE
                     => Turn(calls[c][id], call, "client", f, id)
  BY <1>0, <1>1, <1>2, <1>4 DEF Turn, Asked
<1>7. Tells(c, "client", type, id, 0, FALSE)
  BY <1>0, <1>1, <1>2, <1>6, OneTells
<1> QED
  BY <1>0, <1>1, <1>5, <1>7, SendsIsHeard

Restaged(c, id, call, stage) ==
    /\ call \in Call /\ call.stage = stage /\ Alike(calls[c][id], call)
    /\ call.sent = calls[c][id].sent /\ calls[c][id] \in Call
    /\ calls' = [calls EXCEPT ![c] = [calls[c] EXCEPT ![id] = call]]

(* The stage of a call that runs moves on to stage.                        *)
LEMMA StageGrows ==
    ASSUME Inv, NEW c \in Conns, NEW id \in Ids, NEW stage \in {"answered", "aborted", "over"},
           Alive(c), calls[c][id].stage \in {"sent", "answered"},
           calls' = [calls EXCEPT ![c][id].stage = stage], UNCHANGED opened
    PROVE  /\ Grows /\ opened[c] \in {"yes", "going"} /\ id \notin Over(c)
           /\ stage # "answered" => id \in Over(c)'
           /\ \E call : Restaged(c, id, call, stage)
PROOF
<1>1. calls[c][id] \in Call
  BY DEF Inv, CallsOK
<1>2. PICK call : call = [calls[c][id] EXCEPT !.stage = stage]
  OBVIOUS
<1>3. /\ call \in Call /\ call.stage = stage /\ call.sent = calls[c][id].sent
      /\ call.llm = calls[c][id].llm /\ call.kind = calls[c][id].kind
  BY <1>1, <1>2 DEF Call
<1>4. id \notin Over(c) /\ opened[c] \in {"yes", "going"}
  BY DEF Over, Done, Alive
<1>5. calls' = [calls EXCEPT ![c] = [calls[c] EXCEPT ![id] = call]]
  BY <1>2
<1>6. Restaged(c, id, call, stage)
  BY <1>1, <1>3, <1>5 DEF Restaged, Alike
<1> QED
  BY <1>3, <1>4, <1>5, <1>6, CallGrows

(* A call that is given up is over, though the server says nothing of it.  *)
LEMMA AbortIsHeard ==
    ASSUME Inv, NEW c \in Conns, NEW id \in Ids, Abort(c, id)
    PROVE  Heard(c)
PROOF
<1>0. 0 \in 0 .. Parts
  BY H2Assumption
<1>1. /\ Grows /\ opened[c] \in {"yes", "going"} /\ Sends(c, "client", "other", 0, 0, FALSE)
      /\ \E call : Restaged(c, id, call, "aborted")
  BY StageGrows DEF Abort, Sends
<1>2. PICK call : Restaged(c, id, call, "aborted")
  BY <1>1
<1>3. \A f \in Frame : f.type = "other" /\ f.id = 0 /\ f.part = 0 /\ f.end = FALSE
                     => Turn(calls[c][id], call, "client", f, id)
  BY <1>2 DEF Restaged, Turn, GivenUp
<1>4. Tells(c, "client", "other", 0, 0, FALSE)
  BY <1>2, <1>3, OneTells DEF Restaged
<1> QED
  BY <1>0, <1>1, <1>4, SendsIsHeard

(* A response's head finishes nothing.                                     *)
LEMMA AnswerIsHeard ==
    ASSUME Inv, NEW c \in Conns, NEW id \in Ids, NEW type \in Heads, Answer(c, id, type)
    PROVE  Heard(c)
PROOF
<1>0. 0 \in 0 .. Parts /\ type \in {"head", "huge"}
  BY H2Assumption
<1>1. /\ Grows /\ opened[c] \in {"yes", "going"} /\ Sends(c, "server", type, id, 0, FALSE)
      /\ \E call : Restaged(c, id, call, "answered")
  BY StageGrows DEF Answer, Sends
<1>2. PICK call : Restaged(c, id, call, "answered")
  BY <1>1
<1>3. \A f \in Frame : f.type = type /\ f.id = id /\ f.part = 0 /\ f.end = FALSE
                     => Turn(calls[c][id], call, "server", f, id)
  BY <1>0, <1>2 DEF Restaged, Turn, Answered, Answer
<1>4. Tells(c, "server", type, id, 0, FALSE)
  BY <1>0, <1>2, <1>3, OneTells DEF Restaged
<1> QED
  BY <1>0, <1>1, <1>4, SendsIsHeard

(* Trailers are the last word on a call that ends with them.               *)
LEMMA TrailersIsHeard ==
    ASSUME Inv, NEW c \in Conns, NEW id \in Ids, NEW type \in Heads, Trailers(c, id, type)
    PROVE  Heard(c)
PROOF
<1>0. 0 \in 0 .. Parts /\ type \in {"head", "huge"}
  BY H2Assumption
<1>1. /\ Grows /\ opened[c] \in {"yes", "going"} /\ Sends(c, "server", type, id, 0, TRUE)
      /\ id \in Over(c)' /\ \E call : Restaged(c, id, call, "over")
  BY StageGrows DEF Trailers, Sends
<1>2. PICK call : Restaged(c, id, call, "over")
  BY <1>1
<1>3. \A f \in Frame : f.type = type /\ f.id = id /\ f.part = 0 /\ f.end = TRUE
                     => Turn(calls[c][id], call, "server", f, id)
  BY <1>0, <1>2 DEF Restaged, Turn, Answered, Trailers
<1>4. Tells(c, "server", type, id, 0, TRUE)
  BY <1>0, <1>2, <1>3, OneTells DEF Restaged
<1> QED
  BY <1>0, <1>1, <1>4, SendsIsHeard

(* A reset is the last word on its call,                                   *)
LEMMA ResetIsHeard ==
    ASSUME Inv, NEW c \in Conns, NEW id \in Ids, Reset(c, id)
    PROVE  Heard(c)
PROOF
<1>0. 0 \in 0 .. Parts
  BY H2Assumption
<1>1. /\ Grows /\ opened[c] \in {"yes", "going"} /\ Sends(c, "server", "reset", id, 0, FALSE)
      /\ id \in Over(c)' /\ \E call : Restaged(c, id, call, "aborted")
  BY StageGrows DEF Reset, Sends
<1>2. PICK call : Restaged(c, id, call, "aborted")
  BY <1>1
<1>3. \A f \in Frame : f.type = "reset" /\ f.id = id /\ f.part = 0 /\ f.end = FALSE
                     => Turn(calls[c][id], call, "server", f, id)
  BY <1>2 DEF Restaged, Turn, GivenUp
<1>4. Tells(c, "server", "reset", id, 0, FALSE)
  BY <1>2, <1>3, OneTells DEF Restaged
<1> QED
  BY <1>0, <1>1, <1>4, SendsIsHeard

(* and so is the DATA that ends a body; no other DATA follows.             *)
LEMMA BodyIsHeard ==
    ASSUME Inv, NEW c \in Conns, NEW id \in Ids, NEW end \in BOOLEAN, Body(c, id, end)
    PROVE  Heard(c)
PROOF
<1> DEFINE call == calls[c][id]
           next == [call EXCEPT !.sent = @ + 1, !.stage = IF end THEN "over" ELSE @]
<1>1. Parts \in Nat /\ call \in Call
  BY H2Assumption DEF Inv, CallsOK
<1>2. /\ Alive(c) /\ call.stage = "answered" /\ call.sent < Parts
      /\ calls' = [calls EXCEPT ![c] = [calls[c] EXCEPT ![id] = next]]
      /\ Sends(c, "server", "data", id, call.sent + 1, end) /\ UNCHANGED opened
  <2>1. /\ Alive(c) /\ call.stage = "answered" /\ call.sent < Parts
        /\ calls' = [calls EXCEPT ![c][id] = next]
        /\ Sends(c, "server", "data", id, call.sent + 1, end)
    BY DEF Body
  <2> HIDE DEF next
  <2> QED
    BY <2>1 DEF Sends
<1>3. call.sent \in 0 .. Parts /\ call.sent + 1 \in 0 .. Parts
  BY <1>1, <1>2 DEF Call
<1>4. /\ next \in Call /\ next.sent = call.sent + 1 /\ Alike(call, next)
      /\ next.stage = IF end THEN "over" ELSE "answered"
  BY <1>1, <1>2, <1>3 DEF Call, Alike
<1>5. id \notin Over(c) /\ opened[c] \in {"yes", "going"}
  BY <1>2 DEF Over, Done, Alive
<1> HIDE DEF next
<1>6. Grows /\ (end => id \in Over(c)')
  BY <1>2, <1>4, <1>5, CallGrows
<1>7. end => next.sent = Parts
  BY <1>4 DEF Body
<1>8. \A f \in Frame : f.type = "data" /\ f.id = id /\ f.part = call.sent + 1 /\ f.end = end
                     => Turn(call, next, "server", f, id)
  BY <1>1, <1>2, <1>4, <1>7 DEF Turn, Sent
<1>9. Tells(c, "server", "data", id, call.sent + 1, end)
  BY <1>2, <1>4, <1>8, OneTells
<1> QED
  BY <1>2, <1>3, <1>5, <1>6, <1>9, SendsIsHeard

(* Frames of no call.                                                      *)
LEMMA OtherIsHeard ==
    ASSUME Inv, NEW c \in Conns, NEW side \in {"client", "server"}, Other(c, side)
    PROVE  Heard(c)
PROOF
<1>0. 0 \in 0 .. Parts
  BY H2Assumption
<1>1. UNCHANGED <<calls, opened>> /\ opened[c] \in {"yes", "going"} /\ Sends(c, side, "other", 0, 0, FALSE)
  BY DEF Other, Sends, Alive
<1>2. Grows
  BY <1>1 DEF Grows, Inv, CallsOK, Over, Done
<1>3. Tells(c, side, "other", 0, 0, FALSE)
  <2> SUFFICES ASSUME NEW f \in Frame, f.type = "other", f.id = 0, NEW i \in Ids
               PROVE  Turn(calls[c][i], calls'[c][i], side, f, i)
    BY <1>1 DEF Tells, Turns
  <2>1. calls'[c][i] = calls[c][i] /\ calls[c][i] \in Call /\ i # f.id
    BY <1>1, H2Assumption DEF Inv, CallsOK
  <2> QED
    BY <2>1 DEF Turn, Silent
<1> QED
  BY <1>0, <1>1, <1>2, <1>3, SendsIsHeard

(* GOAWAY is the last word on the calls behind the last that is answered:  *)
(* those on their way are given up, and no request follows.                *)
LEMMA GoawayIsHeard ==
    ASSUME Inv, NEW c \in Conns, NEW last \in Ids \cup {0}, Goaway(c, last)
    PROVE  Heard(c)
PROOF
<1> DEFINE f == [type |-> "goaway", id |-> last, part |-> 0, end |-> FALSE, luck |-> FALSE]
           left == [i \in DOMAIN calls[c] |->
                       IF i > last /\ calls[c][i].stage \in {"sent", "answered"}
                       THEN [calls[c][i] EXCEPT !.stage = "aborted"] ELSE calls[c][i]]
<1>1. /\ opened[c] = "yes" /\ opened' = [opened EXCEPT ![c] = "going"]
      /\ calls' = [calls EXCEPT ![c] = left] /\ Capture(c, "server", f)
  BY DEF Goaway
<1>2. calls \in [Conns -> [Ids -> Call]] /\ opened \in [Conns -> {"no", "yes", "going", "closed"}]
  BY DEF Inv, CallsOK
<1>3. \A i \in Ids : /\ left[i] \in Call
                     /\ i > last => left[i].stage \in {"none", "over", "aborted"}
                     /\ calls[c][i].stage \in {"over", "aborted"} => left[i] = calls[c][i]
                     /\ left[i].stage = "aborted" \/ left[i] = calls[c][i]
  <2> SUFFICES ASSUME NEW i \in Ids
               PROVE  /\ left[i] \in Call
                      /\ i > last => left[i].stage \in {"none", "over", "aborted"}
                      /\ calls[c][i].stage \in {"over", "aborted"} => left[i] = calls[c][i]
                      /\ left[i].stage = "aborted" \/ left[i] = calls[c][i]
    OBVIOUS
  <2>1. /\ calls[c][i] \in Call /\ DOMAIN calls[c] = Ids
        /\ calls[c][i].stage \in {"none", "sent", "answered", "aborted", "over"}
    BY <1>2 DEF Call
  <2>2. CASE i > last /\ calls[c][i].stage \in {"sent", "answered"}
    <3>1. left[i] = [calls[c][i] EXCEPT !.stage = "aborted"]
      BY <2>1, <2>2
    <3> QED
      BY <2>1, <2>2, <3>1 DEF Call
  <2>3. CASE ~(i > last /\ calls[c][i].stage \in {"sent", "answered"})
    <3>1. left[i] = calls[c][i]
      BY <2>1, <2>3
    <3> QED
      BY <2>1, <2>3, <3>1
  <2> QED
    BY <2>2, <2>3
<1>4. left \in [Ids -> Call]
  BY <1>2, <1>3
<1> HIDE DEF left
<1>5. CallsOK'
  BY <1>1, <1>2, <1>4 DEF CallsOK
<1>6. Grows
  <2> SUFFICES ASSUME NEW d \in Conns, NEW i \in Over(d)
               PROVE  i \in Over(d)'
    BY <1>5 DEF Grows
  <2>1. CASE d = c
    BY <1>1, <1>2, <1>3, <2>1 DEF Over, Done
  <2>2. CASE d # c
    BY <1>1, <1>2, <2>2 DEF Over, Done
  <2> QED
    BY <2>1, <2>2
<1>7. \A i \in Ids : i > last => i \in Over(c)'
  BY <1>1, <1>2, <1>3 DEF Over, Done
<1>8. opened'[c] = "going" /\ \A d \in Conns \ {c} : opened'[d] = opened[d] /\ calls'[d] = calls[d]
  BY <1>1, <1>2
<1>9. 0 \in 0 .. Parts
  BY H2Assumption
<1>10. f \in Frame /\ f.type = "goaway" /\ f.id = last /\ f.end = FALSE
  BY <1>9 DEF Frame
<1> HIDE DEF f
<1>11. Says(c, "server", f)
  BY <1>7, <1>10, FrameSays
<1>12. Turns(c, "server", f)
  <2> SUFFICES ASSUME NEW i \in Ids
               PROVE  Turn(calls[c][i], calls'[c][i], "server", f, i)
    BY DEF Turns
  <2>1. calls'[c][i] = left[i] /\ left[i] \in Call /\ calls[c][i] \in Call
    BY <1>1, <1>2, <1>4
  <2>2. CASE left[i].stage = "aborted"
    BY <1>10, <2>1, <2>2 DEF Turn, GivenUp
  <2>3. CASE left[i] = calls[c][i]
    <3>1. i > f.id => calls[c][i].stage \notin {"sent", "answered"}
      BY <1>3, <1>10, <2>3
    <3> QED
      BY <1>10, <2>1, <2>3, <3>1 DEF Turn, Silent
  <2> QED
    BY <1>3, <2>2, <2>3
<1> QED
  BY <1>1, <1>6, <1>8, <1>11, <1>12 DEF Heard

(* Nothing is tracked when a connection opens.                             *)
LEMMA BeginKeepsInv ==
    ASSUME Inv, NEW c \in Conns, NEW seen \in Seen, Begin(c, seen)
    PROVE  Inv'
PROOF
<1>1. /\ opened[c] = "no" /\ opened' = [opened EXCEPT ![c] = "yes"]
      /\ conn' = [conn EXCEPT ![c].on = seen] /\ UNCHANGED <<calls, exported, history>>
  BY DEF Begin
<1>2. Grows
  BY <1>1 DEF Grows, Inv, CallsOK, Over, Done
<1> DEFINE k == [conn[c] EXCEPT !.on = seen]
<1>3. Sound(conn[c], exported[c], Strays(c), Swept(c), Over(c))
  BY DEF Inv
<1>4. DOMAIN k = DOMAIN conn[c] /\ \A field \in DOMAIN k : field # "on" => k[field] = conn[c][field]
  OBVIOUS
<1>5. k.client = conn[c].client /\ k.server = conn[c].server /\ k.streams = conn[c].streams
  BY <1>3, <1>4 DEF Sound, IsConn
<1>6. conn' = [conn EXCEPT ![c] = k]
  BY <1>1
<1> HIDE DEF k
<1>7. Sound(k, exported[c], Strays(c), Swept(c), Over(c))
  BY <1>3, <1>4, <1>5 DEF Sound, IsConn
<1>8. Sound(k, exported[c], Strays(c), Swept(c), Over(c)')
  BY <1>2, <1>7, SoundGrows DEF Grows
<1>9. Moves(c, k, exported[c], {}, {})
  BY <1>1, <1>6 DEF Moves, Inv, TablesOK
<1> QED
  BY <1>2, <1>8, <1>9, MovesKeepsInv

(* The streams still tracked are counted and gone, and all calls over.     *)
LEMMA CloseKeepsInv ==
    ASSUME Inv, NEW c \in Conns, Close(c)
    PROVE  Inv'
PROOF
<1> DEFINE k == conn[c]
           counts == CountUnparsed(exported[c], DOMAIN k.streams)
<1>1. /\ opened' = [opened EXCEPT ![c] = "closed"] /\ conn' = [conn EXCEPT ![c] = Off]
      /\ exported' = [exported EXCEPT ![c] = counts] /\ UNCHANGED <<calls, history>>
  BY DEF Close
<1>2. Grows
  BY <1>1 DEF Grows, Inv, CallsOK, Over, Done
<1>3. Ids = Over(c)'
  BY <1>1 DEF Inv, CallsOK, Over, Done
<1>4. /\ Sound(k, exported[c], Strays(c), Swept(c), Over(c)) /\ exported[c] \in Counts
      /\ DOMAIN k.streams \subseteq Ids
  BY DEF Inv, Sound, IsConn
<1>5. /\ counts \in Counts
      /\ \A i \in Ids : Total(counts, i) = Total(exported[c], i) + IF i \in DOMAIN k.streams THEN 1 ELSE 0
  BY <1>4, CountUnparsedCounts
<1> HIDE DEF k, counts
<1>6. Sound(Off, exported[c], Strays(c), Swept(c), Over(c))
  BY <1>4, JoinedSound
<1>7. Off.streams = <<>> /\ Off.server.scan = <<>>
  BY FreshConns
<1>8. CountedOnce(Off.server.scan, Off.streams, counts, Strays(c), Swept(c), Ids)
  <2> SUFFICES ASSUME NEW i \in Ids \ Strays(c), Total(counts, i) # 0
               PROVE  Total(counts, i) = 1
    BY <1>7 DEF CountedOnce
  <2>1. \/ Total(exported[c], i) = 0
        \/ Total(exported[c], i) = 1 /\ i \notin DOMAIN k.streams
    BY <1>4 DEF Sound, CountedOnce
  <2> QED
    BY <1>5, <2>1
<1>9. Sound(Off, counts, Strays(c) \cup {}, Swept(c) \cup {}, Ids)
  BY <1>5, <1>6, <1>7, <1>8 DEF Sound, Ordered
<1>10. Moves(c, Off, counts, {}, {})
  BY <1>1 DEF Moves
<1> QED
  BY <1>2, <1>3, <1>9, <1>10, MovesKeepsInv

(* A connection that is retired counts nothing.                            *)
LEMMA RetireKeepsInv ==
    ASSUME Inv, NEW c \in Conns, Retire(c)
    PROVE  Inv'
PROOF
<1>1. conn' = [conn EXCEPT ![c] = Off] /\ UNCHANGED <<calls, opened, exported, history>>
  BY DEF Retire
<1>2. Grows /\ Over(c)' = Over(c)
  BY <1>1 DEF Grows, Inv, CallsOK, Over, Done
<1>3. Sound(Off, exported[c], Strays(c), Swept(c), Over(c))
  BY JoinedSound DEF Inv
<1>4. Moves(c, Off, exported[c], {}, {})
  BY <1>1 DEF Moves, Inv, TablesOK
<1> QED
  BY <1>2, <1>3, <1>4, MovesKeepsInv

(* Time marks streams and connections idle.                                *)
LEMMA WaitKeepsInv ==
    ASSUME Inv, Wait
    PROVE  Inv'
PROOF
<1> DEFINE Waited(k) == [k EXCEPT !.quiet = TRUE,
                            !.streams = [i \in DOMAIN @ |-> [@[i] EXCEPT !.idle = TRUE]]]
<1>1. /\ conn' = [c \in DOMAIN conn |-> Waited(conn[c])]
      /\ UNCHANGED <<calls, opened, exported, history>>
  BY DEF Wait
<1>2. CallsOK'
  BY <1>1 DEF Inv, CallsOK
<1>3. ASSUME NEW k, IsConn(k)
      PROVE  /\ DOMAIN Waited(k) = DOMAIN k /\ Waited(k).client = k.client
             /\ Waited(k).server = k.server /\ DOMAIN Waited(k).streams = DOMAIN k.streams
  BY <1>3 DEF IsConn
<1> HIDE DEF Waited
<1>4. TablesOK'
  BY <1>1 DEF Inv, TablesOK
<1>5. ASSUME NEW c \in Conns
      PROVE  Sound(conn[c], exported[c], Strays(c), Swept(c), Over(c))'
  <2>1. conn'[c] = Waited(conn[c])
    BY <1>1 DEF Inv, TablesOK
  <2>2. /\ exported'[c] = exported[c] /\ Strays(c)' = Strays(c) /\ Swept(c)' = Swept(c)
        /\ Over(c)' = Over(c)
    BY <1>1 DEF Strays, Swept, Over, Done
  <2>3. Sound(conn[c], exported[c], Strays(c), Swept(c), Over(c))
    BY DEF Inv
  <2>4. Sound(Waited(conn[c]), exported[c], Strays(c), Swept(c), Over(c))
    BY <1>3, <2>3 DEF Sound, IsConn, CountedOnce
  <2> QED
    BY <2>1, <2>2, <2>4
<1> QED
  BY <1>2, <1>4, <1>5 DEF Inv

(* Nothing is counted at first.                                            *)
LEMMA InitInv == Init => Inv
PROOF
<1> SUFFICES ASSUME Init PROVE Inv
  OBVIOUS
<1>1. Parts \in Nat
  BY H2Assumption
<1>2. NewCall \in Call
  BY <1>1 DEF NewCall, Call
<1>3. CallsOK
  BY <1>2 DEF Init, CallsOK
<1>4. TablesOK
  BY DEF Init, TablesOK
<1>5. ASSUME NEW c \in Conns
      PROVE  Sound(conn[c], exported[c], Strays(c), Swept(c), Over(c))
  <2>1. conn[c] = Off /\ exported[c] = [i \in Ids |-> [recorded |-> 0, unparsed |-> 0]]
    BY DEF Init
  <2>2. exported[c] \in Counts /\ \A i \in Ids : Total(exported[c], i) = 0
    BY <2>1 DEF Counts, Total
  <2>3. IsConn(Off) /\ Off.server.scan = <<>>
    BY FreshConns
  <2> QED
    BY <2>1, <2>2, <2>3 DEF Sound, Ordered, CountedOnce
<1> QED
  BY <1>3, <1>4, <1>5 DEF Inv

(* Which steps there are.                                               *)
LEMMA NextIs ==
    ASSUME Inv, Next
    PROVE  \/ Wait
           \/ \E r \in Readers : Load(r)
           \/ \E c \in Conns : Heard(c) \/ (\E seen \in Seen : Begin(c, seen)) \/ Close(c) \/ Retire(c)
PROOF
<1>1. ASSUME NEW c \in Conns,
             \/ \E last \in Ids \cup {0} : Goaway(c, last)
             \/ \E side \in {"client", "server"} : Other(c, side)
      PROVE  Heard(c)
  BY <1>1, GoawayIsHeard, OtherIsHeard
<1>2. ASSUME NEW c \in Conns, NEW id \in Ids, NEW type \in Heads,
             \/ \E llm \in BOOLEAN, kind \in Kinds : Request(c, id, llm, kind, type)
             \/ Answer(c, id, type) \/ Trailers(c, id, type)
      PROVE  Heard(c)
  BY <1>2, RequestIsHeard, AnswerIsHeard, TrailersIsHeard
<1>3. ASSUME NEW c \in Conns, NEW id \in Ids,
             \/ \E end \in BOOLEAN : Body(c, id, end)
             \/ Abort(c, id) \/ Reset(c, id)
      PROVE  Heard(c)
  BY <1>3, BodyIsHeard, AbortIsHeard, ResetIsHeard
<1> QED
  BY <1>1, <1>2, <1>3 DEF Next

(* So every step keeps the invariant.                                      *)
LEMMA NextInv == Inv /\ [Next]_vars => Inv'
PROOF
<1> SUFFICES ASSUME Inv, [Next]_vars PROVE Inv'
  OBVIOUS
<1>1. CASE UNCHANGED <<calls, opened, conn, exported, history>>
  BY <1>1 DEF Inv, CallsOK, TablesOK, Strays, Swept, Over, Done
<1>2. ASSUME NEW c \in Conns, Heard(c)
      PROVE  Inv'
  BY <1>2, CaptureKeepsInv DEF Heard
<1>3. CASE UNCHANGED vars \/ \E r \in Readers : Load(r)
  BY <1>1, <1>3 DEF vars, Load
<1> QED
  BY <1>2, <1>3, NextIs, WaitKeepsInv, BeginKeepsInv, CloseKeepsInv, RetireKeepsInv

(***************************************************************************)
(* Of a connection that was never joined in the middle no call is a stray: *)
(* its streams are opened by the requests it sends, one each.              *)
(***************************************************************************)
Unopened(x, i) == i \notin DOMAIN x.streams /\ Total(x.exported, i) = 0 /\ i \notin x.swept

(* Nothing is opened, and no call becomes a stray.                         *)
Quiet(x, y) ==
    /\ IsCtx(y) /\ y.strays = x.strays /\ y.swept = x.swept
    /\ \A i \in Ids : Unopened(x, i) => Unopened(y, i)

(* The end of a stream is quiet.                                           *)
LEMMA EndedQuiet ==
    ASSUME NEW x, NEW z, Quiet(x, z), NEW side, NEW f \in ServerFrame, NEW call
    PROVE  Quiet(x, Ended(z, side, f, call))
PROOF
<1> DEFINE y == StreamEnd(z, f, call)
<1>1. /\ IsCtx(y) /\ y.strays = z.strays /\ y.swept = z.swept
      /\ \A i \in Ids :
            \/ /\ Total(y.exported, i) = Total(z.exported, i)
               /\ i \in DOMAIN y.streams => i \in DOMAIN z.streams
            \/ /\ Total(y.exported, i) = Total(z.exported, i) + 1
               /\ f.id = i /\ i \in DOMAIN z.streams /\ i \notin DOMAIN y.streams
  BY StreamEndEffects DEF Quiet
<1> HIDE DEF y
<1>2. Quiet(x, y)
  BY <1>1 DEF Quiet, Unopened
<1>3. Ended(z, side, f, call) = y \/ Ended(z, side, f, call) = z
  BY DEF Ended, y
<1> QED
  BY <1>2, <1>3

(* So is what a server sends on a connection whose client is in step.      *)
LEMMA ServerFrameQuiet ==
    ASSUME NEW x, IsCtx(x), NEW f \in ServerFrame, NEW cs, NEW cap
    PROVE  Quiet(x, OnFrame(x, "server", f, cs, FALSE, cap))
PROOF
<1> DEFINE call == IF f.id = 0 \/ f.type = "goaway" THEN NewCall ELSE cs[f.id]
           y == OnFrame(x, "server", f, cs, FALSE, cap)
<1>0. f.type \in {"head", "huge", "data", "end", "reset", "goaway", "other"}
  BY DEF ServerFrame, Frame
<1>a. Quiet(x, x)
  BY DEF Quiet
<1> HIDE DEF call
<1>1. CASE f.type = "head"
  <2> DEFINE z == ResponseHead(x, f, call)
  <2>1. y = Ended(z, "server", f, call)
    BY <1>1 DEF OnFrame, call
  <2>2. /\ IsCtx(z) /\ z.strays = x.strays /\ z.swept = x.swept /\ z.exported = x.exported
        /\ DOMAIN z.streams = DOMAIN x.streams
    BY DEF ResponseHead, IsCtx
  <2> HIDE DEF z
  <2>3. Quiet(x, z)
    BY <2>2 DEF Quiet, Unopened
  <2> QED
    BY <2>1, <2>3, EndedQuiet
<1>2. CASE f.type = "huge"
  <2> DEFINE u == [x EXCEPT !.table = "forgotten", !.limited = TRUE]
             z == HeadersTooLarge(x, f)
  <2>1. y = Ended(z, "server", f, call)
    BY <1>2 DEF OnFrame, call
  <2>2. /\ IsCtx(u) /\ u.strays = x.strays /\ u.swept = x.swept /\ u.exported = x.exported
        /\ u.streams = x.streams
    BY DEF IsCtx
  <2>3. Leaves(u, z, {f.id})
    BY <2>2, UntrackLeaves DEF HeadersTooLarge
  <2> HIDE DEF u, z
  <2>4. Quiet(x, z)
    BY <2>2, <2>3 DEF Quiet, Unopened, Leaves
  <2> QED
    BY <2>1, <2>4, EndedQuiet
<1>3. CASE f.type = "data"
  <2> DEFINE z == ResponseData(x, f, call, FALSE, cap)
  <2>1. y = Ended(z, "server", f, call)
    BY <1>3 DEF OnFrame, call
  <2>2. \/ z = x
        \/ \E t, n : z = [x EXCEPT !.streams[f.id] = t, !.buffered = n]
    BY DEF ResponseData
  <2> HIDE DEF z
  <2>3. /\ IsCtx(z) /\ z.strays = x.strays /\ z.swept = x.swept /\ z.exported = x.exported
        /\ DOMAIN z.streams = DOMAIN x.streams
    BY <2>2 DEF IsCtx
  <2>4. Quiet(x, z)
    BY <2>3 DEF Quiet, Unopened
  <2> QED
    BY <2>1, <2>4, EndedQuiet
<1>4. CASE f.type = "end"
  <2>1. y = Ended(x, "server", f, call)
    BY <1>4 DEF OnFrame, call
  <2> QED
    BY <1>a, <2>1, EndedQuiet
<1>5. CASE f.type \in {"reset", "goaway"}
  <2> DEFINE ids == IF f.type = "reset" THEN {f.id} ELSE {id \in DOMAIN x.streams : id > f.id}
  <2>1. y = DropStreams(x, ids)
    BY <1>5 DEF OnFrame
  <2>2. Drops(x, y, ids)
    BY <2>1, DropStreamsDrops
  <2> HIDE DEF ids, y
  <2>3. Quiet(x, y)
    BY <2>2 DEF Quiet, Unopened, Drops
  <2> QED
    BY <2>3 DEF y
<1>6. CASE f.type = "other"
  <2>1. y = x
    BY <1>6 DEF OnFrame
  <2> QED
    BY <1>a, <2>1
<1> QED
  BY <1>0, <1>1, <1>2, <1>3, <1>4, <1>5, <1>6

(* Two quiet steps are one. *)
LEMMA QuietTwice ==
    ASSUME NEW x, NEW y, NEW z, Quiet(x, y), Quiet(y, z)
    PROVE  Quiet(x, z)
BY DEF Quiet

(* All the frames a call completes, by induction as before.                *)
LEMMA ServerReadsQuiet ==
    ASSUME NEW frames \in Seq(ServerFrame), NEW cs, NEW cap, NEW x, IsCtx(x)
    PROVE  Quiet(x, Reads(x, "server", frames, cs, FALSE, cap))
PROOF
<1> DEFINE len == Len(frames)
<1>0. PICK g : Contexts(g, x, "server", frames, cs, FALSE, cap)
  BY ReadsSteps
<1>1. /\ g[0] = x /\ Reads(x, "server", frames, cs, FALSE, cap) = g[len]
      /\ \A n \in 1 .. len : g[n] = OnFrame(g[n - 1], "server", frames[n], cs, FALSE, cap)
  BY <1>0 DEF Contexts
<1>2. len \in Nat /\ \A n \in 1 .. len : frames[n] \in ServerFrame
  OBVIOUS
<1> DEFINE Good(n) == Quiet(x, g[n])
           T == {n \in 0 .. len : ~Good(n)}
<1>3. ASSUME NEW n \in Nat, n + 1 \in 1 .. len, Good(n)
      PROVE  Good(n + 1)
  <2>0. (n + 1) - 1 = n
    OBVIOUS
  <2>1. g[n + 1] = OnFrame(g[n], "server", frames[n + 1], cs, FALSE, cap) /\ frames[n + 1] \in ServerFrame
    <3>1. g[n + 1] = OnFrame(g[(n + 1) - 1], "server", frames[n + 1], cs, FALSE, cap)
      BY <1>1, <1>3
    <3> QED
      BY <1>2, <1>3, <2>0, <3>1
  <2>2. IsCtx(g[n])
    BY <1>3 DEF Quiet
  <2>3. Quiet(g[n], g[n + 1])
    BY <2>1, <2>2, ServerFrameQuiet
  <2> QED
    BY <1>3, <2>3, QuietTwice
<1>4. Good(0)
  BY <1>1 DEF Quiet
<1> HIDE DEF Good
<1>5. Good(len)
  <2> SUFFICES ASSUME T # {} PROVE FALSE
    BY <1>2
  <2>0. T \in SUBSET Nat
    BY <1>2
  <2> HIDE DEF T
  <2>1. PICK m \in T : \A n \in T : m <= n
    BY <2>0, Least
  <2> USE DEF T
  <2>2. m # 0 /\ m - 1 \in Nat /\ m - 1 \in 0 .. len /\ ~(m <= m - 1) /\ m \in 1 .. len
    BY <1>2, <1>4, <2>1
  <2>3. Good(m - 1)
    BY <2>1, <2>2
  <2> QED
    BY <1>3, <2>1, <2>2, <2>3
<1> QED
  BY <1>1, <1>5 DEF Good

(* A client's frame opens the stream of the request it is, if any.         *)
ClientQuiet(x, y, f) ==
    /\ IsCtx(y) /\ y.strays = x.strays /\ y.swept = x.swept
    /\ \A i \in Ids : Unopened(x, i) => Unopened(y, i) \/ (f.type = "head" /\ i = f.id)

(* What a client sends opens a stream of the call its head is about alone. *)
LEMMA ClientReadsQuiet ==
    ASSUME NEW f \in ClientFrame, NEW cs, NEW cap, NEW x, IsCtx(x),
           f.type = "head" => Unopened(x, f.id) /\ cs[f.id].stage = "sent"
    PROVE  ClientQuiet(x, Reads(x, "client", <<f>>, cs, FALSE, cap), f)
PROOF
<1> DEFINE call == IF f.id = 0 \/ f.type = "goaway" THEN NewCall ELSE cs[f.id]
           y == OnFrame(x, "client", f, cs, FALSE, cap)
<1>0. f \in ServerFrame /\ <<f>> \in Seq(ServerFrame) /\ f.type \in {"head", "huge", "other"} /\ ~f.end
  BY FrameTypes DEF ClientFrame
<1>1. Reads(x, "client", <<f>>, cs, FALSE, cap) = y
  <2>1. PICK g : Contexts(g, x, "client", <<f>>, cs, FALSE, cap)
    BY <1>0, ReadsSteps
  <2>2. Len(<<f>>) = 1 /\ <<f>>[1] = f /\ 1 \in 1 .. 1 /\ 1 - 1 = 0
    OBVIOUS
  <2> QED
    BY <2>1, <2>2 DEF Contexts
<1> HIDE DEF call
<1>2. CASE f.type = "head"
  <2> DEFINE excuse == call.stage # "sent" \/ f.id \in x.swept
             e == x.exported[f.id]
  <2>1. f.id \in Ids /\ call = cs[f.id]
    BY <1>0, <1>2, H2Assumption DEF ServerFrame, call
  <2>2. ~excuse
    BY <1>2, <2>1 DEF Unopened
  <2>3. y = RequestHead(x, f, call)
    BY <1>2 DEF OnFrame, call
  <2>4. y = x \/ y = [x EXCEPT !.limited = TRUE] \/ y = Reopen(x, f.id, Opened, excuse)
    BY <2>3 DEF RequestHead
  <2>5. CASE y = Reopen(x, f.id, Opened, excuse)
    <3> DEFINE marked == [x EXCEPT !.strays = x.strays]
    <3>1. y = Open(marked, f.id, Opened)
      BY <2>2, <2>5 DEF Reopen
    <3>2. /\ IsCtx(marked) /\ marked.streams = x.streams /\ marked.exported = x.exported
          /\ marked.swept = x.swept /\ marked.strays = x.strays
      BY DEF IsCtx
    <3> HIDE DEF marked, y
    <3>3. /\ IsCtx(y) /\ y.exported = marked.exported /\ y.strays = marked.strays
          /\ y.swept = marked.swept /\ DOMAIN y.streams = DOMAIN marked.streams \cup {f.id}
      BY <2>1, <3>1, <3>2 DEF Open, IsCtx
    <3>4. ClientQuiet(x, y, f)
      BY <1>2, <3>2, <3>3 DEF ClientQuiet, Unopened
    <3> QED
      BY <1>1, <3>4 DEF y
  <2>6. CASE y = x \/ y = [x EXCEPT !.limited = TRUE]
    <3> HIDE DEF y
    <3>1. ClientQuiet(x, y, f)
      BY <2>6 DEF ClientQuiet, Unopened, IsCtx
    <3> QED
      BY <1>1, <3>1 DEF y
  <2> QED
    BY <2>4, <2>5, <2>6
<1>3. CASE f.type = "huge"
  <2> DEFINE u == [x EXCEPT !.table = "forgotten", !.limited = TRUE]
             z == HeadersTooLarge(x, f)
  <2>1. y = z
    BY <1>0, <1>3 DEF OnFrame, Ended
  <2>2. /\ IsCtx(u) /\ u.strays = x.strays /\ u.swept = x.swept /\ u.exported = x.exported
        /\ u.streams = x.streams
    BY DEF IsCtx
  <2>3. Leaves(u, z, {f.id})
    BY <2>2, UntrackLeaves DEF HeadersTooLarge
  <2> HIDE DEF u, z
  <2>4. ClientQuiet(x, z, f)
    BY <2>2, <2>3 DEF ClientQuiet, Unopened, Leaves
  <2> QED
    BY <1>1, <2>1, <2>4
<1>4. CASE f.type = "other"
  <2>1. y = x
    BY <1>4 DEF OnFrame
  <2> QED
    BY <1>1, <2>1 DEF ClientQuiet
<1> QED
  BY <1>0, <1>2, <1>3, <1>4

(* Of a connection that was not joined in the middle, the client is in     *)
(* step, and of a call that was not sent nothing is known.                 *)
Unjoined(c) ==
    /\ ~conn[c].midjoin /\ ~conn[c].client.scanning /\ conn[c].client.scan = <<>>
    /\ Strays(c) = {}
    /\ \A i \in Ids : calls[c][i].stage = "none" =>
          i \notin DOMAIN conn[c].streams /\ Total(exported[c], i) = 0 /\ i \notin Swept(c)

UnjoinedInv == \A c \in Conns : c \notin history.joined => Unjoined(c)

(* A call that has not been sent was not before.                           *)
Goes(c, side, g) ==
    /\ \A i \in Ids : calls'[c][i].stage = "none" => calls[c][i].stage = "none"
    /\ side = "client" /\ g.type = "head" =>
          calls[c][g.id].stage = "none" /\ calls'[c][g.id].stage = "sent"

(* What feeding a connection changes.                                      *)
LEMMA FeedUnfolds ==
    ASSUME NEW c, NEW k, NEW side, NEW f, NEW loss, Feed(c, k, side, f, loss)
    PROVE  LET d == IF k[side].lost THEN Rescan ELSE k[side]
               midjoin == k.midjoin \/ (k[side].lost /\ side = "client")
               scan == Append(d.scan, f)
               waits == d.scanning /\ Len(scan) < Run
               before == [streams |-> k.streams, buffered |-> k.buffered, table |-> d.table,
                          exported |-> exported[c], limited |-> FALSE,
                          swept |-> {i \in Ids : <<c, i>> \in history.swept}, strays |-> {}]
               cap == Cap(k, midjoin, loaded[Reader(c)])
               after == IF waits THEN before
                        ELSE Reads(before, side, scan, calls'[c], midjoin, cap)
               x == SweepIdle(after)
               left == IF waits THEN scan ELSE IF loss = "end" THEN <<EndOf(f)>> ELSE <<>>
               dir == [lost |-> loss = "tail" \/ (loss = "end" /\ waits), scanning |-> waits,
                       scan |-> left, table |-> x.table]
           IN  /\ conn' = [conn EXCEPT ![c] = Fed(k, side, midjoin, x, dir)]
               /\ exported' = [exported EXCEPT ![c] = x.exported]
               /\ history'.strays = history.strays \cup ({c} \X x.strays)
               /\ history'.swept = history.swept \cup ({c} \X x.swept)
               /\ history'.joined = history.joined \cup IF midjoin THEN {c} ELSE {}
BY DEF Feed

(* What feeding the connection leads to if it is not joined after it.      *)
LEMMA FeedUnjoined ==
    ASSUME Inv, NEW c \in Conns, Unjoined(c), NEW side \in {"client", "server"}, NEW g \in ServerFrame,
           side = "client" => g \in ClientFrame, Goes(c, side, g),
           NEW loss, loss = "end" => side = "server",
           Feed(c, conn[c], side, g, loss), c \notin history'.joined
    PROVE  Unjoined(c)'
PROOF
<1> DEFINE k == conn[c]
           d == IF k[side].lost THEN Rescan ELSE k[side]
           midjoin == k.midjoin \/ (k[side].lost /\ side = "client")
           scan == Append(d.scan, g)
           waits == d.scanning /\ Len(scan) < Run
           before == [streams |-> k.streams, buffered |-> k.buffered, table |-> d.table,
                      exported |-> exported[c], limited |-> FALSE,
                      swept |-> {i \in Ids : <<c, i>> \in history.swept}, strays |-> {}]
           cap == Cap(k, midjoin, loaded[Reader(c)])
           read == Reads(before, side, scan, calls'[c], midjoin, cap)
           after == IF waits THEN before ELSE read
           x == SweepIdle(after)
           left == IF waits THEN scan ELSE IF loss = "end" THEN <<EndOf(g)>> ELSE <<>>
           dir == [lost |-> loss = "tail" \/ (loss = "end" /\ waits), scanning |-> waits,
                   scan |-> left, table |-> x.table]
<1>0. /\ TablesOK /\ IsConn(k) /\ exported[c] \in Counts
  BY DEF Inv, Sound
<1>1. /\ conn' = [conn EXCEPT ![c] = Fed(k, side, midjoin, x, dir)]
      /\ exported' = [exported EXCEPT ![c] = x.exported]
      /\ history'.strays = history.strays \cup ({c} \X x.strays)
      /\ history'.swept = history.swept \cup ({c} \X x.swept)
      /\ history'.joined = history.joined \cup IF midjoin THEN {c} ELSE {}
  BY FeedUnfolds
<1>2. midjoin = FALSE
  <2>1. midjoin \in BOOLEAN
    OBVIOUS
  <2> HIDE DEF midjoin
  <2>2. history'.joined = history.joined \cup IF midjoin THEN {c} ELSE {}
    BY <1>1
  <2> QED
    BY <2>1, <2>2
<1>3. IsCtx(before) /\ before.strays = {} /\ before.swept = Swept(c)
  BY <1>0 DEF IsCtx, IsConn, Swept
<1>4. \A i \in Ids : calls[c][i].stage = "none" => Unopened(before, i)
  BY DEF Unjoined, Unopened, Swept
<1> HIDE DEF before, cap, midjoin
<1>5. /\ IsCtx(after) /\ after.strays = {} /\ after.swept = Swept(c)
      /\ \A i \in Ids : calls'[c][i].stage = "none" => Unopened(after, i)
      /\ side = "client" => ~waits
  <2>1. CASE side = "client"
    <3>1. d = k.client /\ scan = <<g>> /\ waits = FALSE
      <4>1. ~k.client.lost /\ k[side] = k.client
        BY <1>2, <2>1 DEF midjoin
      <4>2. d = k.client
        BY <4>1
      <4>3. ~d.scanning /\ d.scan = <<>>
        BY <4>2 DEF Unjoined
      <4> HIDE DEF d
      <4>4. Append(<<>>, g) = <<g>>
        OBVIOUS
      <4> QED
        BY <4>2, <4>3, <4>4
    <3>2. g.type = "head" => Unopened(before, g.id) /\ calls'[c][g.id].stage = "sent"
      BY <1>4, <2>1 DEF Goes, ServerFrame
    <3>3. ClientQuiet(before, Reads(before, "client", <<g>>, calls'[c], FALSE, cap), g)
      BY <1>3, <2>1, <3>2, ClientReadsQuiet
    <3>4. ClientQuiet(before, after, g)
      BY <1>2, <2>1, <3>1, <3>3
    <3> HIDE DEF after, waits
    <3> QED
      BY <1>3, <1>4, <2>1, <3>1, <3>4 DEF ClientQuiet, Goes
  <2>2. CASE side = "server"
    <3>1. scan \in Seq(ServerFrame)
      BY <1>0, <2>2, FrameTypes, EmptySeq, AppendProperties DEF IsConn, DirOK
    <3> HIDE DEF scan
    <3>2. Quiet(before, read)
      BY <1>2, <1>3, <2>2, <3>1, ServerReadsQuiet
    <3>3. Quiet(before, after)
      BY <1>3, <3>2 DEF Quiet
    <3> HIDE DEF after
    <3> QED
      BY <1>3, <1>4, <2>2, <3>3 DEF Quiet, Goes
  <2> QED
    BY <2>1, <2>2
<1> HIDE DEF after
<1>6. /\ IsCtx(x) /\ x.strays = {} /\ Swept(c) \subseteq x.swept
      /\ \A i \in Ids : calls'[c][i].stage = "none" => Unopened(x, i)
  <2>1. /\ IsCtx(x) /\ x.strays = after.strays /\ after.swept \subseteq x.swept
        /\ x.swept \subseteq after.swept \cup DOMAIN after.streams
        /\ \A i \in Ids :
              \/ /\ Total(x.exported, i) = Total(after.exported, i)
                 /\ i \in DOMAIN x.streams => i \in DOMAIN after.streams
              \/ /\ Total(x.exported, i) = Total(after.exported, i) + 1
                 /\ i \in DOMAIN after.streams /\ i \notin DOMAIN x.streams /\ i \in x.swept
    BY <1>5, SweepIdleSweeps
  <2> HIDE DEF x
  <2> QED
    BY <1>5, <2>1 DEF Unopened
<1> HIDE DEF x, waits, left
<1>7. /\ conn'[c] = Fed(k, side, midjoin, x, dir) /\ exported'[c] = x.exported
      /\ Strays(c)' = {} /\ \A i \in Swept(c)' : i \in x.swept
  <2>1. DOMAIN conn = Conns /\ DOMAIN exported = Conns
    BY <1>0 DEF TablesOK
  <2>2. Strays(c)' = {}
    BY <1>1, <1>6 DEF Strays, Unjoined
  <2>3. \A i \in Swept(c)' : i \in x.swept
    BY <1>1, <1>6 DEF Swept
  <2> QED
    BY <1>1, <2>1, <2>2, <2>3
<1>8. dir.scanning = waits /\ dir.scan = left
  OBVIOUS
<1> HIDE DEF dir
<1>9. /\ conn'[c].midjoin = FALSE /\ conn'[c].streams = x.streams
      /\ conn'[c].client = IF side = "client" THEN dir ELSE k.client
  BY <1>0, <1>2, <1>7 DEF Fed, IsConn
<1>10. side = "client" => left = <<>>
  BY <1>5 DEF left
<1> QED
  BY <1>5, <1>6, <1>7, <1>8, <1>9, <1>10 DEF Unjoined, Unopened

(* A connection of which nothing is fed stays as it is.                    *)
LEMMA UnfedUnjoined ==
    ASSUME Inv, NEW c \in Conns, Unjoined(c),
           conn'[c].midjoin = conn[c].midjoin, conn'[c].client.scan = conn[c].client.scan,
           conn'[c].client.scanning = conn[c].client.scanning,
           DOMAIN conn'[c].streams = DOMAIN conn[c].streams,
           exported'[c] = exported[c], Strays(c)' = Strays(c), Swept(c)' = Swept(c),
           \A i \in Ids : calls'[c][i].stage = "none" => calls[c][i].stage = "none"
    PROVE  Unjoined(c)'
BY DEF Unjoined

(* A feed that shares the node's budget makes its connection joined.       *)
LEMMA FeedJoins ==
    ASSUME NEW c \in Conns, NEW k, NEW side, NEW f, NEW loss, Feed(c, k, side, f, loss)
    PROVE  LET midjoin == k.midjoin \/ (k[side].lost /\ side = "client")
           IN  history'.joined = history.joined \cup IF midjoin THEN {c} ELSE {}
BY DEF Feed

(* Nothing of the others is touched by a frame. *)
LEMMA CaptureLeavesOthers ==
    ASSUME TablesOK, NEW c \in Conns, NEW side, NEW f, Capture(c, side, f), losses \in Nat
    PROVE  /\ losses' = losses \/ losses' = losses + 1
           /\ history.limited \subseteq history'.limited /\ history.joined \subseteq history'.joined
           /\ \A d \in Conns \ {c} : /\ conn'[d] = conn[d] /\ exported'[d] = exported[d]
                                     /\ Strays(d)' = Strays(d) /\ Swept(d)' = Swept(d)
PROOF
<1>1. losses' = losses \/ losses' = losses + 1
  BY DEF Capture
<1>2. ASSUME NEW k, NEW g, NEW loss, Feed(c, k, side, g, loss)
      PROVE  /\ history.limited \subseteq history'.limited /\ history.joined \subseteq history'.joined
             /\ \A d \in Conns \ {c} : /\ conn'[d] = conn[d] /\ exported'[d] = exported[d]
                                       /\ Strays(d)' = Strays(d) /\ Swept(d)' = Swept(d)
  <2> DEFINE d == IF k[side].lost THEN Rescan ELSE k[side]
             midjoin == k.midjoin \/ (k[side].lost /\ side = "client")
             scan == Append(d.scan, g)
             waits == d.scanning /\ Len(scan) < Run
             before == [streams |-> k.streams, buffered |-> k.buffered, table |-> d.table,
                        exported |-> exported[c], limited |-> FALSE,
                        swept |-> {i \in Ids : <<c, i>> \in history.swept}, strays |-> {}]
             after == IF waits THEN before
                      ELSE Reads(before, side, scan, calls'[c], midjoin, Cap(k, midjoin, loaded[Reader(c)]))
             x == SweepIdle(after)
             dir == [lost |-> loss = "tail" \/ (loss = "end" /\ waits), scanning |-> waits,
                     scan |-> IF waits THEN scan ELSE IF loss = "end" THEN <<EndOf(g)>> ELSE <<>>,
                     table |-> x.table]
             new == Fed(k, side, midjoin, x, dir)
  <2>1. /\ conn' = [conn EXCEPT ![c] = new] /\ exported' = [exported EXCEPT ![c] = x.exported]
        /\ history'.limited = history.limited \cup IF x.limited THEN {c} ELSE {}
        /\ history'.joined = history.joined \cup IF midjoin THEN {c} ELSE {}
        /\ history'.strays = history.strays \cup ({c} \X x.strays)
        /\ history'.swept = history.swept \cup ({c} \X x.swept)
    BY <1>2 DEF Feed
  <2> HIDE DEF new, x, midjoin
  <2>2. ASSUME NEW e \in Conns \ {c}
        PROVE  Strays(e)' = Strays(e) /\ Swept(e)' = Swept(e)
    BY <2>1 DEF Strays, Swept
  <2> QED
    BY <2>1, <2>2 DEF TablesOK
<1>3. CASE \E k, g, loss : Feed(c, k, side, g, loss)
  BY <1>1, <1>2, <1>3
<1>4. CASE /\ \E new : conn' = [conn EXCEPT ![c] = new]
           /\ UNCHANGED <<exported, history>>
  BY <1>1, <1>4 DEF TablesOK, Strays, Swept
<1>5. CASE UNCHANGED <<conn, exported, history>>
  BY <1>1, <1>5 DEF Strays, Swept
<1>6. Damaged(c, side, f) => \/ \E k, g, loss : Feed(c, k, side, g, loss)
                            \/ /\ \E new : conn' = [conn EXCEPT ![c] = new]
                               /\ UNCHANGED <<exported, history>>
  BY DEF Damaged
<1> QED
  BY <1>3, <1>4, <1>5, <1>6 DEF Capture, Join

(* So a frame leaves it at that, unless the connection is joined by it.    *)
LEMMA CaptureUnjoined ==
    ASSUME Inv, UnjoinedInv, NEW c \in Conns, NEW side \in {"client", "server"}, NEW f,
           Says(c, side, f), Turns(c, side, f), Capture(c, side, f), losses \in Nat,
           c \notin history'.joined
    PROVE  Unjoined(c)'
PROOF
<1>0. TablesOK /\ IsConn(conn[c]) /\ f \in ServerFrame /\ (side = "client" => f \in ClientFrame)
  BY DEF Inv, Sound, Says
<1>1. Unjoined(c)
  <2>1. history.joined \subseteq history'.joined
    BY <1>0, CaptureLeavesOthers
  <2> QED
    BY <2>1 DEF UnjoinedInv
<1>2. Goes(c, side, f)
  <2>1. ASSUME NEW i \in Ids
        PROVE  Turn(calls[c][i], calls'[c][i], side, f, i)
    BY DEF Turns
  <2>2. ASSUME NEW i \in Ids, calls'[c][i].stage = "none"
        PROVE  calls[c][i].stage = "none"
    BY <2>1, <2>2 DEF Turn, Silent, GivenUp, Asked, Answered, Sent
  <2>3. CASE side = "client" /\ f.type = "head"
    <3>1. f.id \in Ids
      BY <1>0, <2>3 DEF ServerFrame
    <3> QED
      BY <2>1, <2>2, <2>3, <3>1 DEF Goes, Turn, Silent, GivenUp, Asked, Answered, Sent
  <2> QED
    BY <2>2, <2>3 DEF Goes
<1>3. CASE UNCHANGED <<conn, exported, history>>
  BY <1>1, <1>2, <1>3 DEF Unjoined, Goes, Strays, Swept
<1>4. CASE Feed(c, conn[c], side, f, "none")
  BY <1>0, <1>1, <1>2, <1>4, FeedUnjoined
<1>5. CASE Join(c, side, f)
  <2>1. Feed(c, Joined, side, f, "none") /\ Joined.midjoin
    BY <1>5 DEF Join, Joined, Off
  <2> HIDE DEF Joined
  <2> QED
    BY <2>1, FeedJoins
<1>6. CASE Damaged(c, side, f)
  <2> DEFINE torn == [f EXCEPT !.type = IF f.type = "data" THEN "data" ELSE "other",
                               !.part = 0, !.end = FALSE]
             holed == [f EXCEPT !.part = 0]
  <2>1. /\ f.type = "data" => Says(c, side, holed)
        /\ Says(c, side, torn) /\ torn.id = f.id
    BY DamagedFrames
  <2>2. \/ f.type = "data" /\ Feed(c, conn[c], side, holed, "none")
        \/ f.type = "data" /\ f.end /\ Feed(c, conn[c], side, torn, "end")
        \/ Feed(c, conn[c], side, torn, "tail")
        \/ /\ conn' = [conn EXCEPT ![c][side].table =
                 IF f.type \in {"head", "huge"} THEN "astray" ELSE @]
           /\ UNCHANGED <<node, loaded, exported, history>>
    BY <1>6, DamagedCases
  <2>3. torn.type # "head" /\ (f.type = "data" => holed.type # "head")
    BY <1>0 DEF ServerFrame, Frame
  <2> HIDE DEF torn, holed
  <2>4. CASE f.type = "data" /\ Feed(c, conn[c], side, holed, "none")
    BY <1>0, <1>1, <1>2, <2>1, <2>3, <2>4, FeedUnjoined DEF Goes, Says
  <2>5. CASE f.type = "data" /\ f.end /\ Feed(c, conn[c], side, torn, "end")
    <3>1. side = "server"
      BY <1>0, <2>5 DEF ClientFrame
    <3> QED
      BY <1>0, <1>1, <1>2, <2>1, <2>3, <2>5, <3>1, FeedUnjoined DEF Goes, Says
  <2>6. CASE Feed(c, conn[c], side, torn, "tail")
    BY <1>0, <1>1, <1>2, <2>1, <2>3, <2>6, FeedUnjoined DEF Goes, Says
  <2>7. CASE /\ conn' = [conn EXCEPT ![c][side].table =
                    IF f.type \in {"head", "huge"} THEN "astray" ELSE @]
             /\ UNCHANGED <<node, loaded, exported, history>>
    <3> DEFINE table == IF f.type \in {"head", "huge"} THEN "astray" ELSE conn[c][side].table
               new == [conn[c] EXCEPT ![side].table = table]
    <3>1. conn'[c] = new /\ Strays(c)' = Strays(c) /\ Swept(c)' = Swept(c) /\ exported'[c] = exported[c]
      BY <1>0, <2>7 DEF TablesOK, Strays, Swept
    <3> HIDE DEF table
    <3>2. /\ new.midjoin = conn[c].midjoin /\ new.streams = conn[c].streams
          /\ new.client.scan = conn[c].client.scan /\ new.client.scanning = conn[c].client.scanning
      BY <1>0 DEF IsConn, DirOK
    <3> HIDE DEF new
    <3> QED
      BY <1>1, <1>2, <3>1, <3>2, UnfedUnjoined DEF Goes
  <2> QED
    BY <2>2, <2>4, <2>5, <2>6, <2>7
<1> QED
  BY <1>3, <1>4, <1>5, <1>6 DEF Capture

(* Every step leaves it at that.                                           *)
LEMMA NextUnjoined == Inv /\ losses \in Nat /\ UnjoinedInv /\ [Next]_vars => UnjoinedInv'
PROOF
<1> SUFFICES ASSUME Inv, losses \in Nat, UnjoinedInv, [Next]_vars, NEW d \in Conns, d \notin history'.joined
             PROVE  Unjoined(d)'
  BY DEF UnjoinedInv
<1>0. TablesOK /\ IsConn(conn[d])
  BY DEF Inv, Sound
<1>1. CASE UNCHANGED vars \/ \E r \in Readers : Load(r)
  BY <1>1 DEF vars, Load, UnjoinedInv, Unjoined, Strays, Swept
<1>2. ASSUME NEW c \in Conns, Heard(c)
      PROVE  Unjoined(d)'
  <2>1. PICK side \in {"client", "server"} :
           \E f : Says(c, side, f) /\ Turns(c, side, f) /\ Capture(c, side, f)
    BY <1>2 DEF Heard
  <2>2. PICK f : Says(c, side, f) /\ Turns(c, side, f) /\ Capture(c, side, f)
    BY <2>1
  <2>3. CASE d = c
    BY <2>1, <2>2, <2>3, CaptureUnjoined
  <2>4. CASE d # c
    <3>1. /\ conn'[d] = conn[d] /\ exported'[d] = exported[d]
          /\ Strays(d)' = Strays(d) /\ Swept(d)' = Swept(d) /\ d \notin history.joined
      BY <1>0, <2>2, <2>4, CaptureLeavesOthers
    <3>2. calls'[d] = calls[d]
      BY <1>2, <2>4 DEF Heard
    <3> QED
      BY <3>1, <3>2, UnfedUnjoined DEF UnjoinedInv
  <2> QED
    BY <2>3, <2>4
<1>3. ASSUME NEW c \in Conns, NEW seen \in Seen, Begin(c, seen)
      PROVE  Unjoined(d)'
  <2> DEFINE k == [conn[c] EXCEPT !.on = seen]
  <2>1. conn' = [conn EXCEPT ![c] = k] /\ UNCHANGED <<calls, exported, history>>
    BY <1>3 DEF Begin
  <2>2. IsConn(conn[c])
    BY DEF Inv, Sound
  <2>3. k.midjoin = conn[c].midjoin /\ k.client = conn[c].client /\ k.streams = conn[c].streams
    BY <2>2 DEF IsConn
  <2> HIDE DEF k
  <2>4. conn'[d] = IF d = c THEN k ELSE conn[d]
    BY <1>0, <2>1 DEF TablesOK
  <2> QED
    BY <2>1, <2>3, <2>4, UnfedUnjoined DEF UnjoinedInv, Strays, Swept
<1>4. ASSUME NEW c \in Conns, Close(c)
      PROVE  Unjoined(d)'
  <2> DEFINE counts == CountUnparsed(exported[c], DOMAIN conn[c].streams)
  <2>1. /\ conn' = [conn EXCEPT ![c] = Off] /\ exported' = [exported EXCEPT ![c] = counts]
        /\ UNCHANGED <<calls, history>>
    BY <1>4 DEF Close
  <2>2. CASE d = c
    <3>1. Unjoined(c) /\ exported[c] \in Counts
      BY <2>1, <2>2 DEF UnjoinedInv, Inv, Sound
    <3>2. \A i \in Ids : Total(counts, i) = Total(exported[c], i) + IF i \in DOMAIN conn[c].streams THEN 1 ELSE 0
      BY <3>1, CountUnparsedCounts
    <3>3. conn'[c] = Off /\ exported'[c] = counts
      BY <1>0, <2>1 DEF TablesOK
    <3> HIDE DEF counts
    <3> QED
      BY <2>1, <2>2, <3>1, <3>2, <3>3 DEF Unjoined, Strays, Swept, Off, NewDir
  <2>3. CASE d # c
    <3>1. conn'[d] = conn[d] /\ exported'[d] = exported[d]
      BY <1>0, <2>1, <2>3 DEF TablesOK
    <3> QED
      BY <2>1, <3>1, UnfedUnjoined DEF UnjoinedInv, Strays, Swept
  <2> QED
    BY <2>2, <2>3
<1>5. ASSUME NEW c \in Conns, Retire(c)
      PROVE  Unjoined(d)'
  <2>1. conn' = [conn EXCEPT ![c] = Off] /\ UNCHANGED <<calls, exported, history>>
    BY <1>5 DEF Retire
  <2>2. conn'[d] = IF d = c THEN Off ELSE conn[d]
    BY <1>0, <2>1 DEF TablesOK
  <2> QED
    BY <2>1, <2>2 DEF UnjoinedInv, Unjoined, Strays, Swept, Off, NewDir
<1>6. CASE Wait
  <2> DEFINE k == [conn[d] EXCEPT !.quiet = TRUE,
                      !.streams = [i \in DOMAIN @ |-> [@[i] EXCEPT !.idle = TRUE]]]
  <2>1. conn'[d] = k /\ UNCHANGED <<calls, exported, history>>
    BY <1>0, <1>6 DEF Wait, TablesOK
  <2>2. k.midjoin = conn[d].midjoin /\ k.client = conn[d].client /\ DOMAIN k.streams = DOMAIN conn[d].streams
    BY <1>0 DEF IsConn
  <2> HIDE DEF k
  <2> QED
    BY <2>1, <2>2, UnfedUnjoined DEF UnjoinedInv, Strays, Swept
<1> QED
  BY <1>1, <1>2, <1>3, <1>4, <1>5, <1>6, NextIs

(* losses is a number. *)
LEMMA LossesAreNat == Inv /\ losses \in Nat /\ [Next]_vars => (losses \in Nat)'
PROOF
<1> SUFFICES ASSUME Inv, losses \in Nat, losses' # losses, Next PROVE losses' \in Nat
  BY DEF vars
<1>1. losses' = losses + 1 \/ losses' = losses
  BY NextIs DEF Wait, Load, Begin, Close, Retire, Heard, Capture
<1> QED
  BY <1>1

(* conn.rs: a call is recorded or counted unparsed once and not both, for  *)
(* any number of connections, streams and losses, unless it became a stray *)
(* of a connection that was joined in the middle.                          *)
THEOREM CallsAreCountedOnce == Spec => []AtMostOnce
PROOF
<1>1. Inv /\ UnjoinedInv => AtMostOnce
  <2> SUFFICES ASSUME Inv, UnjoinedInv, NEW c \in Conns, NEW i \in Ids,
                      exported[c][i].recorded + exported[c][i].unparsed > 1
               PROVE  <<c, i>> \in history.strays /\ c \in history.joined
    BY DEF AtMostOnce
  <2>1. CountedOnce(conn[c].server.scan, conn[c].streams, exported[c], Strays(c), Swept(c), Over(c))
    BY DEF Inv, Sound
  <2>2. i \in Strays(c)
    <3>1. Total(exported[c], i) # 0 /\ Total(exported[c], i) # 1
      BY DEF Total
    <3> QED
      BY <2>1, <3>1 DEF CountedOnce
  <2> QED
    BY <2>2 DEF Strays, UnjoinedInv, Unjoined
<1>2. Init => UnjoinedInv /\ losses \in Nat
  BY DEF Init, UnjoinedInv, Unjoined, Off, NewDir, Total, Strays, Swept
<1> QED
  BY <1>1, <1>2, InitInv, NextInv, LossesAreNat, NextUnjoined, PTL DEF Spec

(***************************************************************************)
(* Sums over finite sets.                                                  *)
(***************************************************************************)
(* Among finite sets there is one with the fewest elements.                *)
LEMMA LeastSet ==
    ASSUME NEW B, B # {}, \A s \in B : IsFiniteSet(s)
    PROVE  \E s \in B : \A t \in B : Cardinality(t) < Cardinality(s) => FALSE
PROOF
<1> DEFINE T == {Cardinality(s) : s \in B}
<1>1. T \in SUBSET Nat /\ T # {}
  BY FS_CardinalityType
<1> HIDE DEF T
<1>2. PICK m \in T : \A n \in T : m <= n
  BY <1>1, Least
<1>3. PICK s \in B : Cardinality(s) = m
  BY DEF T
<1>4. \A t \in B : Cardinality(t) \in T
  BY DEF T
<1>5. m \in Nat /\ \A t \in B : Cardinality(t) \in Nat /\ m <= Cardinality(t)
  BY <1>1, <1>2, <1>4
<1> QED
  BY <1>3, <1>5

First(s) == CHOOSE i \in s : TRUE

(* g sums up w over each set of A. *)
Sums(g, w, A) == g = [s \in A |-> IF s = {} THEN 0 ELSE w[First(s)] + g[s \ {First(s)}]]

(* A set without its first element is one element smaller. *)
LEMMA FirstGoes ==
    ASSUME NEW s, IsFiniteSet(s), s # {}
    PROVE  /\ First(s) \in s /\ IsFiniteSet(s \ {First(s)})
           /\ Cardinality(s) \in Nat /\ Cardinality(s \ {First(s)}) = Cardinality(s) - 1
           /\ Cardinality(s) # 0
PROOF
<1>1. First(s) \in s
  BY DEF First
<1> QED
  BY <1>1, FS_RemoveElement, FS_CardinalityType, FS_EmptySet

(* A set with the fewest elements of those without a sum would have its sum *)
(* from that of the set without its first element.                         *)
LEMMA SumsExist ==
    ASSUME NEW S, IsFiniteSet(S), NEW w
    PROVE  \E g : Sums(g, w, SUBSET S)
PROOF
<1> DEFINE Small(n) == {s \in SUBSET S : Cardinality(s) <= n}
           H(g, n) == Sums(g, w, Small(n))
           T == {n \in Nat : ~\E g : H(g, n)}
<1>1. \A s \in SUBSET S : IsFiniteSet(s) /\ Cardinality(s) \in Nat /\ Cardinality(s) <= Cardinality(S)
  BY FS_Subset, FS_CardinalityType
<1>2. T = {}
  <2> SUFFICES ASSUME T # {} PROVE FALSE
    OBVIOUS
  <2>1. PICK m \in T : \A n \in T : m <= n
    BY Least
  <2>2. CASE m = 0
    <3> DEFINE g == [s \in Small(0) |-> 0]
    <3>1. \A s \in Small(0) : s = {}
      BY <1>1, FS_EmptySet
    <3>2. g = [s \in Small(0) |-> IF s = {} THEN 0 ELSE w[First(s)] + g[s \ {First(s)}]]
      BY <3>1
    <3>3. H(g, 0)
      BY <3>2 DEF Sums
    <3> HIDE DEF g, H
    <3> QED
      BY <2>1, <2>2, <3>3
  <2>3. CASE m # 0
    <3>1. m \in Nat /\ m - 1 \in Nat /\ ~(m <= m - 1)
      BY <2>3
    <3>2. PICK h : H(h, m - 1)
      BY <2>1, <3>1
    <3> DEFINE g == [s \in Small(m) |-> IF s = {} THEN 0 ELSE w[First(s)] + h[s \ {First(s)}]]
    <3>3. \A s \in Small(m - 1) : s \in Small(m) /\ g[s] = h[s]
      <4>1. \A s \in Small(m - 1) : s \in Small(m)
        BY <1>1, <3>1
      <4>2. h = [s \in Small(m - 1) |-> IF s = {} THEN 0 ELSE w[First(s)] + h[s \ {First(s)}]]
        BY <3>2 DEF Sums
      <4> HIDE DEF Small
      <4>3. \A s \in Small(m - 1) : h[s] = IF s = {} THEN 0 ELSE w[First(s)] + h[s \ {First(s)}]
        BY <4>2
      <4> QED
        BY <4>1, <4>3
    <3>4. \A s \in Small(m) : s # {} => s \ {First(s)} \in Small(m - 1)
      BY <1>1, <3>1, FirstGoes
    <3> HIDE DEF Small
    <3>5. g = [s \in Small(m) |-> IF s = {} THEN 0 ELSE w[First(s)] + g[s \ {First(s)}]]
      BY <3>3, <3>4
    <3>6. H(g, m)
      BY <3>5 DEF Sums
    <3> HIDE DEF g, H
    <3> QED
      BY <2>1, <3>6
  <2> QED
    BY <2>2, <2>3
<1>3. Cardinality(S) \in Nat /\ Small(Cardinality(S)) = SUBSET S
  BY <1>1
<1> HIDE DEF Small
<1>4. \E g : H(g, Cardinality(S))
  BY <1>2, <1>3
<1> QED
  BY <1>3, <1>4

(* g sums w over every subset of S. *)
SumsOf(g, w, S) == Sums(g, w, SUBSET S)

(* The sums over the subsets of S and those of a smaller set are the same. *)
LEMMA SumsAgree ==
    ASSUME NEW S, IsFiniteSet(S), NEW T, T \in SUBSET S, NEW w, NEW g, NEW h,
           SumsOf(g, w, S), SumsOf(h, w, T)
    PROVE  g[T] = h[T]
PROOF
<1>0. Sums(g, w, SUBSET S) /\ Sums(h, w, SUBSET T)
  BY DEF SumsOf
<1> DEFINE B == {s \in SUBSET T : g[s] # h[s]}
<1> SUFFICES ASSUME B # {} PROVE FALSE
  OBVIOUS
<1>1. \A s \in SUBSET T : IsFiniteSet(s) /\ s \in SUBSET S
  BY FS_Subset
<1>2. PICK s \in B : \A t \in B : Cardinality(t) < Cardinality(s) => FALSE
  BY <1>1, LeastSet
<1>3. /\ g[s] = IF s = {} THEN 0 ELSE w[First(s)] + g[s \ {First(s)}]
      /\ h[s] = IF s = {} THEN 0 ELSE w[First(s)] + h[s \ {First(s)}]
  BY <1>0, <1>1 DEF Sums
<1>4. s # {}
  BY <1>3
<1>5. g[s \ {First(s)}] = h[s \ {First(s)}]
  <2>1. s \in SUBSET T /\ IsFiniteSet(s)
    BY <1>1
  <2> DEFINE r == s \ {First(s)}
  <2>2. r \in SUBSET T /\ Cardinality(r) < Cardinality(s)
    <3>1. Cardinality(s) \in Nat /\ Cardinality(s \ {First(s)}) = Cardinality(s) - 1
      BY <1>4, <2>1, FirstGoes
    <3> QED
      BY <2>1, <3>1
  <2> HIDE DEF r
  <2>3. r \notin B
    BY <1>2, <2>2
  <2>4. g[r] = h[r]
    BY <2>2, <2>3
  <2> QED
    BY <2>4 DEF r
<1> QED
  BY <1>3, <1>4, <1>5

(* So the sum over a set begins with its first element.                    *)
LEMMA SumOfFirst ==
    ASSUME NEW S, IsFiniteSet(S), NEW w
    PROVE  /\ SumFunctionOnSet(w, {}) = 0
           /\ S # {} => SumFunctionOnSet(w, S) = w[First(S)] + SumFunctionOnSet(w, S \ {First(S)})
PROOF
<1> DEFINE G(A) == CHOOSE g : Sums(g, w, SUBSET A)
<1>1. \A A : SumFunctionOnSet(w, A) = G(A)[A]
  BY DEF SumFunctionOnSet, FoldFunctionOnSet, MapThenFoldSet, Sums, First
<1>2. \A A : IsFiniteSet(A) => Sums(G(A), w, SUBSET A)
  BY SumsExist
<1> HIDE DEF G
<1>3. SumFunctionOnSet(w, {}) = 0
  <2>1. Sums(G({}), w, SUBSET {})
    BY <1>2, FS_EmptySet
  <2>2. G({})[{}] = 0
    BY <2>1 DEF Sums
  <2> QED
    BY <1>1, <2>2
<1>4. ASSUME S # {}
      PROVE  SumFunctionOnSet(w, S) = w[First(S)] + SumFunctionOnSet(w, S \ {First(S)})
  <2> DEFINE T == S \ {First(S)}
  <2>1. IsFiniteSet(T) /\ T \in SUBSET S
    BY <1>4, FirstGoes
  <2>2. Sums(G(S), w, SUBSET S) /\ Sums(G(T), w, SUBSET T)
    BY <1>2, <2>1
  <2>3. G(S)[S] = w[First(S)] + G(S)[T]
    BY <1>4, <2>2 DEF Sums
  <2>4. G(S)[T] = G(T)[T]
    <3> HIDE DEF T
    <3>1. SumsOf(G(S), w, S) /\ SumsOf(G(T), w, T)
      BY <2>2 DEF SumsOf
    <3> QED
      BY <2>1, <3>1, SumsAgree
  <2> QED
    BY <1>1, <2>3, <2>4
<1> QED
  BY <1>3, <1>4

(* The sum does not depend on the order: it may begin with any element. *)
LEMMA SumOfAny ==
    ASSUME NEW S, IsFiniteSet(S), NEW w, \A i \in S : w[i] \in Nat
    PROVE  /\ SumFunctionOnSet(w, S) \in Nat
           /\ \A i \in S : SumFunctionOnSet(w, S) = w[i] + SumFunctionOnSet(w, S \ {i})
PROOF
<1> DEFINE Sum(s) == SumFunctionOnSet(w, s)
           Good(s) == Sum(s) \in Nat /\ \A i \in s : Sum(s) = w[i] + Sum(s \ {i})
           B == {s \in SUBSET S : ~Good(s)}
<1>1. \A s \in SUBSET S : IsFiniteSet(s)
  BY FS_Subset
<1>2. Sum({}) = 0 /\ \A s \in SUBSET S : s # {} => Sum(s) = w[First(s)] + Sum(s \ {First(s)})
  BY <1>1, SumOfFirst
<1> HIDE DEF Sum
<1>3. B = {}
  <2> SUFFICES ASSUME B # {} PROVE FALSE
    OBVIOUS
  <2>1. PICK s \in B : \A t \in B : Cardinality(t) < Cardinality(s) => FALSE
    BY <1>1, LeastSet
  <2>2. s \in SUBSET S /\ IsFiniteSet(s) /\ ~Good(s) /\ Cardinality(s) \in Nat
    BY <1>1, <2>1, FS_CardinalityType
  <2>3. s # {}
    BY <1>2, <2>2
  <2>4. ASSUME NEW i \in s
        PROVE  Good(s \ {i})
    <3>1. Cardinality(s \ {i}) = Cardinality(s) - 1 /\ s \ {i} \in SUBSET S
      BY <2>2, FS_RemoveElement
    <3>2. Cardinality(s \ {i}) < Cardinality(s)
      BY <2>2, <3>1
    <3> HIDE DEF Good
    <3> QED
      BY <2>1, <3>1, <3>2
  <2> DEFINE f == First(s)
  <2>5. f \in s /\ Sum(s) = w[f] + Sum(s \ {f}) /\ Good(s \ {f}) /\ w[f] \in Nat
    BY <1>2, <2>2, <2>3, <2>4, FirstGoes
  <2> HIDE DEF f
  <2>6. ASSUME NEW i \in s, i # f
        PROVE  Sum(s) = w[i] + Sum(s \ {i})
    <3>1. Sum(s \ {f}) = w[i] + Sum((s \ {f}) \ {i})
      BY <2>5, <2>6
    <3>2. Sum(s \ {i}) = w[f] + Sum((s \ {i}) \ {f})
      BY <2>4, <2>5, <2>6
    <3>3. PICK rest : rest = (s \ {f}) \ {i} /\ rest = (s \ {i}) \ {f}
      OBVIOUS
    <3>4. Sum((s \ {f}) \ {i}) \in Nat /\ w[i] \in Nat
      <4>1. Good(s \ {f}) /\ i \in s \ {f}
        BY <2>5, <2>6
      <4>2. Cardinality((s \ {f}) \ {i}) < Cardinality(s) /\ (s \ {f}) \ {i} \in SUBSET S
        <5>1. IsFiniteSet(s \ {f}) /\ Cardinality(s \ {f}) = Cardinality(s) - 1
          BY <2>2, <2>5, FS_RemoveElement
        <5>2. Cardinality((s \ {f}) \ {i}) = Cardinality(s \ {f}) - 1
          BY <4>1, <5>1, FS_RemoveElement
        <5> QED
          BY <2>2, <5>1, <5>2
      <4> HIDE DEF Good
      <4>3. Good((s \ {f}) \ {i})
        BY <2>1, <4>2
      <4> QED
        BY <2>2, <2>6, <4>3 DEF Good
    <3>5. PICK n \in Nat : n = Sum(rest)
      BY <3>3, <3>4
    <3>6. Sum(s) = w[f] + (w[i] + n) /\ Sum(s \ {i}) = w[f] + n /\ w[i] \in Nat /\ w[f] \in Nat
      BY <2>5, <3>1, <3>2, <3>3, <3>4, <3>5
    <3> QED
      BY <3>6
  <2>7. Sum(s) \in Nat
    BY <2>5
  <2> QED
    BY <2>2, <2>5, <2>6, <2>7
<1>4. Good(S)
  BY <1>3
<1> QED
  BY <1>4 DEF Sum

(* Equal numbers have equal sums.                                          *)
LEMMA SumsEqual ==
    ASSUME NEW S, IsFiniteSet(S), NEW w, NEW v, \A i \in S : w[i] = v[i] /\ w[i] \in Nat
    PROVE  SumFunctionOnSet(w, S) = SumFunctionOnSet(v, S)
PROOF
<1> DEFINE Equal(s) == SumFunctionOnSet(w, s) = SumFunctionOnSet(v, s)
           B == {s \in SUBSET S : ~Equal(s)}
<1>1. \A s \in SUBSET S : IsFiniteSet(s)
  BY FS_Subset
<1>2. ASSUME NEW s \in SUBSET S, s # {}, Equal(s \ {First(s)})
      PROVE  Equal(s)
  <2>1. IsFiniteSet(s) /\ First(s) \in s
    BY <1>1, <1>2, FirstGoes
  <2>2. /\ SumFunctionOnSet(w, s) = w[First(s)] + SumFunctionOnSet(w, s \ {First(s)})
        /\ SumFunctionOnSet(v, s) = v[First(s)] + SumFunctionOnSet(v, s \ {First(s)})
    BY <1>2, <2>1, SumOfFirst
  <2>3. w[First(s)] = v[First(s)]
    BY <2>1
  <2> QED
    BY <1>2, <2>2, <2>3
<1>3. Equal({})
  BY SumOfFirst, FS_EmptySet
<1> HIDE DEF Equal
<1>4. B = {}
  <2> SUFFICES ASSUME B # {} PROVE FALSE
    OBVIOUS
  <2>1. PICK s \in B : \A t \in B : Cardinality(t) < Cardinality(s) => FALSE
    BY <1>1, LeastSet
  <2>2. s # {}
    BY <1>3, <2>1
  <2>3. Cardinality(s) \in Nat /\ Cardinality(s \ {First(s)}) = Cardinality(s) - 1
    BY <1>1, <2>1, <2>2, FirstGoes
  <2>4. Equal(s \ {First(s)})
    BY <2>1, <2>3
  <2> QED
    BY <1>2, <2>1, <2>2, <2>4
<1> QED
  BY <1>4 DEF Equal

(* The sum over a set is that over a part of it and the rest. *)
LEMMA SumsSplit ==
    ASSUME NEW S, IsFiniteSet(S), NEW w, \A i \in S : w[i] \in Nat, NEW T \in SUBSET S
    PROVE  /\ SumFunctionOnSet(w, S) = SumFunctionOnSet(w, T) + SumFunctionOnSet(w, S \ T)
           /\ SumFunctionOnSet(w, T) \in Nat /\ SumFunctionOnSet(w, S \ T) \in Nat
PROOF
<1> DEFINE Sum(s) == SumFunctionOnSet(w, s)
           Splits(t) == Sum(S) = Sum(t) + Sum(S \ t)
           B == {t \in SUBSET S : ~Splits(t)}
<1>1. \A s \in SUBSET S : IsFiniteSet(s)
  BY FS_Subset
<1>2. \A s \in SUBSET S : Sum(s) \in Nat /\ \A i \in s : Sum(s) = w[i] + Sum(s \ {i})
  BY <1>1, SumOfAny
<1>3. Sum({}) = 0
  BY SumOfFirst, FS_EmptySet
<1> HIDE DEF Sum
<1>4. Splits({})
  <2>1. S \ {} = S
    OBVIOUS
  <2> QED
    BY <1>2, <1>3, <2>1
<1>5. ASSUME NEW t \in SUBSET S, NEW i \in t, Splits(t \ {i})
      PROVE  Splits(t)
  <2>1. (S \ (t \ {i})) \ {i} = S \ t /\ i \in S \ (t \ {i})
    OBVIOUS
  <2>2. Sum(S \ (t \ {i})) = w[i] + Sum(S \ t)
    BY <1>2, <2>1
  <2>3. Sum(t) = w[i] + Sum(t \ {i})
    BY <1>2
  <2>4. /\ w[i] \in Nat /\ Sum(S \ t) \in Nat /\ Sum(t \ {i}) \in Nat
        /\ Sum(S) = Sum(t \ {i}) + Sum(S \ (t \ {i}))
    BY <1>2, <1>5
  <2> QED
    BY <2>2, <2>3, <2>4
<1> HIDE DEF Splits
<1>6. B = {}
  <2> SUFFICES ASSUME B # {} PROVE FALSE
    OBVIOUS
  <2>1. PICK t \in B : \A s \in B : Cardinality(s) < Cardinality(t) => FALSE
    BY <1>1, LeastSet
  <2>2. t # {} /\ IsFiniteSet(t)
    BY <1>1, <1>4, <2>1
  <2>3. PICK i \in t : TRUE
    BY <2>2
  <2>4. Cardinality(t) \in Nat /\ Cardinality(t \ {i}) = Cardinality(t) - 1
    BY <2>2, FS_RemoveElement, FS_CardinalityType
  <2>5. Splits(t \ {i})
    BY <2>1, <2>4
  <2> QED
    BY <1>5, <2>1, <2>5
<1>7. Splits(T)
  BY <1>6
<1> QED
  BY <1>2, <1>7 DEF Splits, Sum

(***************************************************************************)
(* What streams hold.                                                      *)
(***************************************************************************)
IsStream(s) ==
    /\ DOMAIN s = {"reads", "held", "parts", "got", "speculative", "idle"}
    /\ s.held \in Nat /\ s.got \in BOOLEAN
    /\ ~s.got => s.held = 0

Balanced(streams, buffered) ==
    /\ IsFiniteSet(DOMAIN streams) /\ \A i \in DOMAIN streams : IsStream(streams[i])
    /\ buffered = HeldBy(streams, DOMAIN streams)

(* A stream that holds something counts with it. *)
LEMMA HeldIsNat ==
    ASSUME NEW s, IsStream(s)
    PROVE  Held(s) \in Nat
BY DEF Held, IsStream

(* What the streams hold is what some of them hold and what the rest does. *)
LEMMA HeldSplits ==
    ASSUME NEW streams, NEW buffered, Balanced(streams, buffered),
           NEW ids \in SUBSET DOMAIN streams
    PROVE  /\ HeldBy(streams, ids) \in Nat /\ HeldBy(streams, DOMAIN streams \ ids) \in Nat
           /\ buffered = HeldBy(streams, ids) + HeldBy(streams, DOMAIN streams \ ids)
           /\ buffered \in Nat
PROOF
<1> DEFINE w == [i \in DOMAIN streams |-> Held(streams[i])]
<1>1. IsFiniteSet(DOMAIN streams) /\ \A i \in DOMAIN streams : w[i] \in Nat
  BY HeldIsNat DEF Balanced
<1>2. \A T : HeldBy(streams, T) = SumFunctionOnSet(w, T)
  BY DEF HeldBy
<1>3. buffered = HeldBy(streams, DOMAIN streams)
  BY DEF Balanced
<1> HIDE DEF w
<1>4. /\ SumFunctionOnSet(w, ids) \in Nat /\ SumFunctionOnSet(w, DOMAIN streams \ ids) \in Nat
      /\ SumFunctionOnSet(w, DOMAIN streams) =
             SumFunctionOnSet(w, ids) + SumFunctionOnSet(w, DOMAIN streams \ ids)
  BY <1>1, SumsSplit
<1> QED
  BY <1>2, <1>3, <1>4

(* Streams that hold the same hold the same together. *)
LEMMA HeldAlike ==
    ASSUME NEW streams, NEW others, NEW ids, IsFiniteSet(ids),
           ids \subseteq DOMAIN streams, ids \subseteq DOMAIN others,
           \A i \in ids : IsStream(streams[i]) /\ Held(others[i]) = Held(streams[i])
    PROVE  HeldBy(others, ids) = HeldBy(streams, ids)
PROOF
<1> DEFINE w == [i \in DOMAIN streams |-> Held(streams[i])]
           v == [i \in DOMAIN others |-> Held(others[i])]
<1>1. \A i \in ids : w[i] = v[i] /\ w[i] \in Nat
  BY HeldIsNat
<1>2. HeldBy(streams, ids) = SumFunctionOnSet(w, ids) /\ HeldBy(others, ids) = SumFunctionOnSet(v, ids)
  BY DEF HeldBy
<1> HIDE DEF w, v
<1>3. SumFunctionOnSet(w, ids) = SumFunctionOnSet(v, ids)
  BY <1>1, SumsEqual
<1> QED
  BY <1>2, <1>3

(* Streams that go take what they hold with them. *)
LEMMA WithoutBalanced ==
    ASSUME NEW streams, NEW buffered, Balanced(streams, buffered), NEW ids
    PROVE  LET gone == ids \cap DOMAIN streams
               rest == Saturating(buffered - HeldBy(streams, gone))
           IN  Balanced(Without(streams, ids), rest) /\ rest <= buffered
PROOF
<1> DEFINE gone == ids \cap DOMAIN streams
           left == DOMAIN streams \ ids
           new == Without(streams, ids)
<1>1. DOMAIN new = left /\ \A i \in left : new[i] = streams[i]
  BY DEF Without, Restrict
<1>2. DOMAIN streams \ gone = left
  OBVIOUS
<1>3. /\ HeldBy(streams, gone) \in Nat /\ HeldBy(streams, left) \in Nat
      /\ buffered = HeldBy(streams, gone) + HeldBy(streams, left)
  <2>1. gone \in SUBSET DOMAIN streams
    OBVIOUS
  <2> HIDE DEF gone, left
  <2> QED
    BY <1>2, <2>1, HeldSplits
<1>4. IsFiniteSet(left) /\ \A i \in DOMAIN streams : IsStream(streams[i])
  BY FS_Subset DEF Balanced
<1> HIDE DEF new
<1>5. HeldBy(new, left) = HeldBy(streams, left)
  BY <1>1, <1>4, HeldAlike
<1> HIDE DEF gone, left
<1>6. PICK g \in Nat : g = HeldBy(streams, gone)
  BY <1>3
<1>7. PICK l \in Nat : l = HeldBy(streams, left)
  BY <1>3
<1>8. Saturating(buffered - HeldBy(streams, gone)) = l /\ l <= buffered
  BY <1>3, <1>6, <1>7 DEF Saturating
<1>9. Balanced(new, l)
  BY <1>1, <1>4, <1>5, <1>7 DEF Balanced, left
<1> QED
  BY <1>8, <1>9 DEF new, gone

(* One stream that is new or changed counts with what it holds now. *)
LEMMA OneBalanced ==
    ASSUME NEW streams, NEW buffered, Balanced(streams, buffered), NEW id, NEW new,
           DOMAIN new = DOMAIN streams \cup {id}, IsStream(new[id]),
           \A i \in DOMAIN streams \ {id} : new[i] = streams[i],
           NEW was \in Nat, was = IF id \in DOMAIN streams THEN Held(streams[id]) ELSE 0
    PROVE  Balanced(new, buffered + Held(new[id]) - was) /\ was <= buffered
PROOF
<1> DEFINE others == DOMAIN streams \ {id}
<1>1. IsFiniteSet(DOMAIN streams) /\ \A i \in DOMAIN streams : IsStream(streams[i])
  BY DEF Balanced
<1>2. IsFiniteSet(others) /\ IsFiniteSet(DOMAIN new) /\ DOMAIN new \ {id} = others
  <2>1. IsFiniteSet(DOMAIN streams \cup {id})
    BY <1>1, FS_AddElement
  <2>2. IsFiniteSet(DOMAIN streams \ {id})
    BY <1>1, FS_RemoveElement
  <2>3. IsFiniteSet(others)
    BY <2>2
  <2>4. DOMAIN new \ {id} = others
    OBVIOUS
  <2> HIDE DEF others
  <2>5. IsFiniteSet(DOMAIN new)
    BY <2>1
  <2> QED
    BY <2>3, <2>4, <2>5
<1>3. \A i \in DOMAIN new : IsStream(new[i])
  BY <1>1
<1> DEFINE w == [i \in DOMAIN streams |-> Held(streams[i])]
           v == [i \in DOMAIN new |-> Held(new[i])]
<1>4. (\A i \in DOMAIN streams : w[i] \in Nat) /\ \A i \in DOMAIN new : v[i] \in Nat
  BY <1>1, <1>3, HeldIsNat
<1>5. /\ \A T : HeldBy(streams, T) = SumFunctionOnSet(w, T)
      /\ \A T : HeldBy(new, T) = SumFunctionOnSet(v, T)
  BY DEF HeldBy
<1>6. HeldBy(new, others) = HeldBy(streams, others)
  BY <1>1, <1>2, HeldAlike
<1>7. v[id] = Held(new[id]) /\ (id \in DOMAIN streams => w[id] = was)
  OBVIOUS
<1> HIDE DEF others, w, v
<1>8. HeldBy(new, DOMAIN new) = Held(new[id]) + HeldBy(new, others)
  <2>1. id \in DOMAIN new
    OBVIOUS
  <2>2. SumFunctionOnSet(v, DOMAIN new) = v[id] + SumFunctionOnSet(v, DOMAIN new \ {id})
    BY <1>2, <1>4, <2>1, SumOfAny
  <2> QED
    BY <1>2, <1>5, <1>7, <2>2
<1>9. buffered = was + HeldBy(streams, others) /\ HeldBy(streams, others) \in Nat
  <2>1. buffered = HeldBy(streams, DOMAIN streams)
    BY DEF Balanced
  <2>2. SumFunctionOnSet(w, DOMAIN streams) \in Nat
    BY <1>1, <1>4, SumOfAny
  <2>3. CASE id \in DOMAIN streams
    <3>1. SumFunctionOnSet(w, DOMAIN streams) = w[id] + SumFunctionOnSet(w, DOMAIN streams \ {id})
      BY <1>1, <1>4, <2>3, SumOfAny
    <3>2. \A i \in others : w[i] \in Nat
      BY <1>4 DEF others
    <3>3. SumFunctionOnSet(w, others) \in Nat
      BY <1>2, <3>2, SumOfAny
    <3> QED
      BY <1>5, <1>7, <2>1, <2>3, <3>1, <3>3 DEF others
  <2>4. CASE id \notin DOMAIN streams
    <3>1. others = DOMAIN streams /\ was = 0
      BY <2>4 DEF others
    <3>2. HeldBy(streams, others) = buffered /\ buffered \in Nat
      BY <1>5, <2>1, <2>2, <3>1
    <3> QED
      BY <3>1, <3>2
  <2> QED
    BY <2>3, <2>4
<1>10. PICK r \in Nat : r = HeldBy(streams, others)
  BY <1>9
<1>11. Held(new[id]) \in Nat
  BY HeldIsNat
<1>12. HeldBy(new, DOMAIN new) = buffered + Held(new[id]) - was
  BY <1>6, <1>8, <1>9, <1>10, <1>11
<1> QED
  BY <1>2, <1>3, <1>9, <1>10, <1>12 DEF Balanced

(***************************************************************************)
(* What a frame does to the buffered bytes.                                *)
(***************************************************************************)
Within(x) == IsCtx(x) /\ Balanced(x.streams, x.buffered)

(* The bytes may grow up to cap only. *)
Bounded(x, y, cap) == Within(y) /\ (y.buffered <= x.buffered \/ y.buffered <= cap)

(* Streams removed give back what they held. *)
LEMMA UntrackBounded ==
    ASSUME NEW x, Within(x), NEW ids, NEW cap
    PROVE  Bounded(x, Untrack(x, ids), cap)
PROOF
<1> DEFINE y == Untrack(x, ids)
           gone == ids \cap DOMAIN x.streams
<1>1. IsCtx(y)
  BY UntrackLeaves DEF Within, Leaves
<1>2. y.streams = Without(x.streams, ids) /\ y.buffered = Saturating(x.buffered - HeldBy(x.streams, gone))
  BY DEF Untrack, Within, IsCtx
<1>3. /\ Balanced(Without(x.streams, ids), Saturating(x.buffered - HeldBy(x.streams, gone)))
      /\ Saturating(x.buffered - HeldBy(x.streams, gone)) <= x.buffered
  BY WithoutBalanced DEF Within
<1> HIDE DEF y
<1> QED
  BY <1>1, <1>2, <1>3 DEF Bounded, Within, y

(* So do streams given up and counted,                                     *)
LEMMA DropStreamsBounded ==
    ASSUME NEW x, Within(x), NEW ids, NEW cap
    PROVE  Bounded(x, DropStreams(x, ids), cap)
PROOF
<1> DEFINE u == Untrack(x, ids)
           y == DropStreams(x, ids)
<1>1. Bounded(x, u, cap)
  BY UntrackBounded
<1>2. IsCtx(y)
  BY DropStreamsDrops DEF Within, Drops
<1>3. y.streams = u.streams /\ y.buffered = u.buffered
  BY <1>1 DEF DropStreams, Bounded, Within, IsCtx
<1> HIDE DEF y, u
<1>4. Bounded(x, y, cap)
  BY <1>1, <1>2, <1>3 DEF Bounded, Within
<1> QED
  BY <1>4 DEF y

(* and those that stalled.                                                 *)
LEMMA SweepIdleBounded ==
    ASSUME NEW x, Within(x), NEW cap
    PROVE  Bounded(x, SweepIdle(x), cap)
PROOF
<1> DEFINE u == DropStreams(x, Stalled(x))
           y == SweepIdle(x)
<1>1. Bounded(x, u, cap)
  BY DropStreamsBounded
<1>2. IsCtx(y)
  BY SweepIdleSweeps DEF Within
<1>3. y.streams = u.streams /\ y.buffered = u.buffered
  BY <1>1 DEF SweepIdle, Bounded, Within, IsCtx
<1> HIDE DEF y, u
<1>4. Bounded(x, y, cap)
  BY <1>1, <1>2, <1>3 DEF Bounded, Within
<1> QED
  BY <1>4 DEF y

(* A stream is opened empty. *)
LEMMA FreshStreams ==
    /\ IsStream(Opened) /\ Held(Opened) = 0
    /\ IsStream(OpenedSpeculative) /\ Held(OpenedSpeculative) = 0
BY DEF IsStream, Held, Opened, OpenedSpeculative

(* So opening one changes nothing of what is buffered.                     *)
LEMMA ReopenBounded ==
    ASSUME NEW x, Within(x), NEW id \in Ids, id \notin DOMAIN x.streams,
           NEW s \in {Opened, OpenedSpeculative}, NEW excuse, NEW cap
    PROVE  LET y == Reopen(x, id, s, excuse)
           IN  Bounded(x, y, cap) /\ y.buffered = x.buffered /\ id \in DOMAIN y.streams
PROOF
<1> DEFINE y == Reopen(x, id, s, excuse)
<1>0. /\ IsCtx(y) /\ y.buffered = x.buffered
      /\ y.streams = [i \in DOMAIN x.streams \cup {id} |-> IF i = id THEN s ELSE x.streams[i]]
  BY ReopenIs DEF Within
<1> HIDE DEF y
<1>1. IsCtx(y) /\ DOMAIN y.streams = DOMAIN x.streams \cup {id}
  BY <1>0
<1>2. /\ y.buffered = x.buffered /\ y.streams[id] = s
      /\ \A i \in DOMAIN x.streams \ {id} : y.streams[i] = x.streams[i]
  BY <1>0
<1>3. IsStream(s) /\ Held(s) = 0
  BY FreshStreams
<1>4. Balanced(y.streams, x.buffered + Held(y.streams[id]) - 0)
  <2>1. /\ Balanced(x.streams, x.buffered) /\ IsStream(y.streams[id])
        /\ 0 = IF id \in DOMAIN x.streams THEN Held(x.streams[id]) ELSE 0
    BY <1>2, <1>3 DEF Within
  <2> QED
    BY <1>1, <1>2, <2>1, OneBalanced
<1>5. x.buffered \in Nat
  BY HeldSplits DEF Within
<1>6. y.buffered = x.buffered + Held(y.streams[id]) - 0 /\ y.buffered <= x.buffered
  BY <1>2, <1>3, <1>5
<1> QED
  BY <1>1, <1>4, <1>6, <1>2 DEF Bounded, Within, y

(* A head that resets a stream finds nothing in it. *)
LEMMA ResponseHeadersHolds ==
    ASSUME NEW s, IsStream(s), NEW format
    PROVE  LET t == ResponseHeaders(s, format) IN IsStream(t) /\ Held(t) = Held(s)
BY DEF IsStream, ResponseHeaders, Held

(* A stream takes a part only when there is room for it. *)
LEMMA TakeHolds ==
    ASSUME NEW s, IsStream(s), NEW part, NEW room \in Nat
    PROVE  LET t == Take(s, part, room)
           IN  IsStream(t) /\ (Held(t) <= Held(s) \/ (room >= 1 /\ Held(t) = Held(s) + 1))
PROOF
<1> DEFINE u == [s EXCEPT !.idle = FALSE, !.got = TRUE]
           t == Take(s, part, room)
<1>1. IsStream(u) /\ u.held = s.held /\ u.reads = s.reads /\ u.held \in Nat /\ u.got = TRUE
  BY DEF IsStream
<1>2. Held(u) = Held(s)
  BY <1>1 DEF Held
<1> HIDE DEF u
<1>3. CASE u.reads = "dropped"
  <2>1. t = u
    BY <1>3 DEF Take, u
  <2> QED
    BY <1>1, <1>2, <2>1, HeldIsNat
<1>4. CASE u.reads = "sse"
  <2>1. t = [u EXCEPT !.parts = @ \cup {part}]
    BY <1>4 DEF Take, u
  <2> QED
    BY <1>1, <1>2, <1>4, <2>1 DEF IsStream, Held
<1>5. CASE u.reads \notin {"dropped", "sse"} /\ (room < 1 \/ u.held + 1 > StreamCap)
  <2>1. t = [u EXCEPT !.reads = "dropped", !.held = 0, !.parts = {}]
    BY <1>5 DEF Take, u
  <2> QED
    BY <1>1, <1>2, <1>5, <2>1 DEF IsStream, Held
<1>6. CASE u.reads \notin {"dropped", "sse"} /\ ~(room < 1 \/ u.held + 1 > StreamCap)
  <2>1. t = [u EXCEPT !.held = @ + 1, !.parts = @ \cup {part}]
    BY <1>6 DEF Take, u
  <2> QED
    BY <1>1, <1>2, <1>6, <2>1 DEF IsStream, Held
<1> QED
  BY <1>3, <1>4, <1>5, <1>6

(* Stream id becomes t, which holds no more than before or finds room.     *)
LEMMA ChangeBounded ==
    ASSUME NEW x, Within(x), NEW id \in DOMAIN x.streams, NEW t, IsStream(t), NEW cap \in Int,
           NEW was \in Nat, was = Held(x.streams[id]), NEW now \in Nat, now = Held(t),
           now <= was \/ x.buffered + now - was <= cap,
           NEW y, y = [x EXCEPT !.streams[id] = t, !.buffered = x.buffered + now - was]
    PROVE  Bounded(x, y, cap)
PROOF
<1>1. /\ IsCtx(y) /\ y.buffered = x.buffered + now - was /\ DOMAIN y.streams = DOMAIN x.streams
      /\ y.streams[id] = t /\ \A i \in DOMAIN x.streams \ {id} : y.streams[i] = x.streams[i]
  BY DEF Within, IsCtx
<1>2. /\ Balanced(x.streams, x.buffered) /\ DOMAIN y.streams = DOMAIN x.streams \cup {id}
      /\ IsStream(y.streams[id]) /\ was = IF id \in DOMAIN x.streams THEN Held(x.streams[id]) ELSE 0
  BY <1>1 DEF Within
<1>3. Balanced(y.streams, x.buffered + Held(y.streams[id]) - was)
  BY <1>1, <1>2, OneBalanced
<1>4. x.buffered \in Nat
  BY HeldSplits DEF Within
<1>5. y.buffered <= x.buffered \/ y.buffered <= cap
  BY <1>1, <1>4
<1> QED
  BY <1>1, <1>3, <1>5 DEF Bounded, Within

(* Nothing changes that counts. *)
LEMMA SameBounded ==
    ASSUME NEW x, Within(x), NEW y, IsCtx(y), y.streams = x.streams, y.buffered = x.buffered, NEW cap
    PROVE  Bounded(x, y, cap)
PROOF
<1>1. x.buffered \in Nat
  BY HeldSplits DEF Within
<1> QED
  BY <1>1 DEF Bounded, Within

(* Two steps that keep to cap keep to it together.                         *)
LEMMA BoundedTwice ==
    ASSUME NEW x, Within(x), NEW cap \in Int, NEW y, Bounded(x, y, cap), NEW z, Bounded(y, z, cap)
    PROVE  Bounded(x, z, cap)
PROOF
<1>1. x.buffered \in Nat /\ y.buffered \in Nat /\ z.buffered \in Nat
  BY HeldSplits DEF Bounded, Within
<1> QED
  BY <1>1 DEF Bounded

(* A request opens at most an empty stream.                                *)
LEMMA RequestHeadBounded ==
    ASSUME NEW x, Within(x), NEW f \in ServerFrame, f.type = "head", NEW call, NEW cap \in Int
    PROVE  Bounded(x, RequestHead(x, f, call), cap)
PROOF
<1> DEFINE excuse == call.stage # "sent" \/ f.id \in x.swept
           y == RequestHead(x, f, call)
<1>0. f.id \in Ids
  BY DEF ServerFrame
<1>1. CASE y = x
  BY <1>1, SameBounded DEF Within
<1>2. CASE y = [x EXCEPT !.limited = TRUE]
  <2>1. IsCtx(y) /\ y.streams = x.streams /\ y.buffered = x.buffered
    BY <1>2 DEF Within, IsCtx
  <2> QED
    BY <2>1, SameBounded
<1>3. CASE y = Reopen(x, f.id, Opened, excuse) /\ f.id \notin DOMAIN x.streams
  BY <1>0, <1>3, ReopenBounded
<1> QED
  BY <1>1, <1>2, <1>3 DEF RequestHead

(* A response's head leaves what its stream holds.                         *)
LEMMA ResponseHeadBounded ==
    ASSUME NEW x, Within(x), NEW f, NEW call, NEW cap \in Int
    PROVE  Bounded(x, ResponseHead(x, f, call), cap)
PROOF
<1> DEFINE format == IF x.table = "whole" \/ f.luck THEN Format(call.kind) ELSE "json"
           y == ResponseHead(x, f, call)
<1>1. CASE f.id \notin DOMAIN x.streams
  <2>1. y = x
    BY <1>1 DEF ResponseHead
  <2> QED
    BY <2>1, SameBounded DEF Within
<1>2. CASE f.id \in DOMAIN x.streams
  <2>1. PICK t : t = ResponseHeaders(x.streams[f.id], format)
    OBVIOUS
  <2>2. IsStream(x.streams[f.id])
    BY <1>2 DEF Within, Balanced
  <2>3. IsStream(t) /\ Held(t) = Held(x.streams[f.id]) /\ Held(t) \in Nat
    BY <2>1, <2>2, ResponseHeadersHolds, HeldIsNat
  <2>4. y = [x EXCEPT !.streams[f.id] = t]
    BY <1>2, <2>1 DEF ResponseHead
  <2>5. x.buffered \in Nat
    BY HeldSplits DEF Within
  <2>6. PICK held \in Nat : held = Held(t)
    BY <2>3
  <2>7. y = [x EXCEPT !.streams[f.id] = t, !.buffered = x.buffered + held - held]
    <3>1. x.buffered + held - held = x.buffered
      BY <2>5
    <3> QED
      BY <2>4, <3>1 DEF Within, IsCtx
  <2> HIDE DEF y
  <2>8. held <= held
    OBVIOUS
  <2>9. Bounded(x, y, cap)
    BY <1>2, <2>3, <2>6, <2>7, <2>8, ChangeBounded
  <2> QED
    BY <2>9 DEF y
<1> QED
  BY <1>1, <1>2

(* DATA is held if there is room, and its stream is given up if not.       *)
LEMMA ResponseDataBounded ==
    ASSUME NEW x, Within(x), NEW f \in ServerFrame, f.type = "data", NEW call, NEW midjoin,
           NEW cap \in Int
    PROVE  Bounded(x, ResponseData(x, f, call, midjoin, cap), cap)
PROOF
<1> DEFINE opens == midjoin /\ f.id \notin DOMAIN x.streams /\ ~Full(x) /\ LooksRecordable(f, call)
           y == IF opens THEN Reopen(x, f.id, OpenedSpeculative, f.id \in x.swept) ELSE x
           s == y.streams[f.id]
           room == Saturating(cap - y.buffered)
           t == Take(s, f.part, room)
           z == ResponseData(x, f, call, midjoin, cap)
<1>0. f.id \in Ids
  BY DEF ServerFrame
<1>1. Bounded(x, y, cap)
  <2>1. CASE opens
    BY <1>0, <2>1, ReopenBounded
  <2>2. CASE ~opens
    BY <2>2, SameBounded DEF Within
  <2> QED
    BY <2>1, <2>2
<1>2. z = IF f.id \notin DOMAIN y.streams THEN y
          ELSE [y EXCEPT !.streams[f.id] = t, !.buffered = @ + Held(t) - Held(s)]
  BY DEF ResponseData
<1> HIDE DEF y, z, opens
<1>3. Within(y)
  BY <1>1 DEF Bounded
<1>4. CASE f.id \notin DOMAIN y.streams
  BY <1>1, <1>2, <1>4 DEF z
<1>5. CASE f.id \in DOMAIN y.streams
  <2>1. y.buffered \in Nat
    BY <1>3, HeldSplits DEF Within
  <2>2. room \in Nat /\ (room >= 1 => y.buffered + 1 <= cap)
    BY <2>1 DEF Saturating
  <2>3. IsStream(s)
    BY <1>3, <1>5 DEF Within, Balanced
  <2> HIDE DEF s, room
  <2>4. IsStream(t) /\ (Held(t) <= Held(s) \/ (room >= 1 /\ Held(t) = Held(s) + 1))
    BY <2>2, <2>3, TakeHolds
  <2> HIDE DEF t
  <2>5. PICK was \in Nat : was = Held(s)
    BY <2>3, HeldIsNat
  <2>6. PICK now \in Nat : now = Held(t)
    BY <2>4, HeldIsNat
  <2>7. now <= was \/ y.buffered + now - was <= cap
    BY <2>1, <2>2, <2>4, <2>5, <2>6
  <2>8. z = [y EXCEPT !.streams[f.id] = t, !.buffered = y.buffered + now - was]
    BY <1>2, <1>5, <2>5, <2>6 DEF Within, IsCtx
  <2>9. was = Held(y.streams[f.id])
    BY <2>5 DEF s
  <2>10. Bounded(y, z, cap)
    BY <1>3, <1>5, <2>4, <2>6, <2>7, <2>8, <2>9, ChangeBounded
  <2> QED
    BY <1>1, <2>10, BoundedTwice DEF z
<1> QED
  BY <1>4, <1>5

(* A stream that ends gives back what it held,                             *)
LEMMA StreamEndBounded ==
    ASSUME NEW x, Within(x), NEW f, NEW call, NEW cap \in Int
    PROVE  Bounded(x, StreamEnd(x, f, call), cap)
PROOF
<1> DEFINE y == StreamEnd(x, f, call)
           id == f.id
<1>1. CASE id \notin DOMAIN x.streams
  <2>1. y = x
    BY <1>1 DEF StreamEnd
  <2> QED
    BY <2>1, SameBounded DEF Within
<1>2. CASE id \in DOMAIN x.streams
  <2>1. id \in Ids
    BY <1>2 DEF Within, IsCtx
  <2>2. PICK u \in {x, Count(x, id, "recorded"), Count(x, id, "unparsed")} : y = Untrack(u, {id})
    BY <1>2 DEF StreamEnd
  <2>3. IsCtx(u)
    <3>1. CASE u = x
      BY <3>1 DEF Within
    <3>2. CASE u = Count(x, id, "recorded")
      BY <2>1, <3>2, CountCounts DEF Within
    <3>3. CASE u = Count(x, id, "unparsed")
      BY <2>1, <3>3, CountCounts DEF Within
    <3> QED
      BY <2>2, <3>1, <3>2, <3>3
  <2>4. u.streams = x.streams /\ u.buffered = x.buffered
    BY <2>2 DEF Count, Within, IsCtx
  <2>5. Bounded(x, u, cap)
    BY <2>3, <2>4, SameBounded
  <2> HIDE DEF y
  <2>6. Bounded(u, y, cap)
    BY <2>2, <2>5, UntrackBounded DEF Bounded
  <2>7. Bounded(x, y, cap)
    BY <2>5, <2>6, BoundedTwice
  <2> QED
    BY <2>7 DEF y
<1> QED
  BY <1>1, <1>2

(* at the end of any frame.                                                *)
LEMMA EndedBounded ==
    ASSUME NEW x, Within(x), NEW cap \in Int, NEW z, Bounded(x, z, cap), NEW side, NEW f, NEW call
    PROVE  Bounded(x, Ended(z, side, f, call), cap)
PROOF
<1>1. Within(z)
  BY DEF Bounded
<1>2. Bounded(z, Ended(z, side, f, call), cap)
  BY <1>1, StreamEndBounded, SameBounded DEF Ended, Within
<1> QED
  BY <1>2, BoundedTwice

(* No frame makes a connection hold more than cap. *)
LEMMA OnFrameBounded ==
    ASSUME NEW x, Within(x), NEW side \in {"client", "server"}, NEW f \in ServerFrame,
           NEW cs, NEW midjoin, NEW cap \in Int
    PROVE  Bounded(x, OnFrame(x, side, f, cs, midjoin, cap), cap)
PROOF
<1> DEFINE call == IF f.id = 0 \/ f.type = "goaway" THEN NewCall ELSE cs[f.id]
           y == OnFrame(x, side, f, cs, midjoin, cap)
<1>0. f.type \in {"head", "huge", "data", "end", "reset", "goaway", "other"}
  BY DEF ServerFrame, Frame
<1>00. Bounded(x, x, cap)
  BY SameBounded DEF Within
<1> HIDE DEF call
<1>1. CASE f.type = "head" /\ side = "client"
  <2>1. y = RequestHead(x, f, call)
    BY <1>1 DEF OnFrame, call
  <2> QED
    BY <1>1, <2>1, RequestHeadBounded
<1>2. CASE f.type = "head" /\ side = "server"
  <2>1. y = Ended(ResponseHead(x, f, call), side, f, call)
    BY <1>2 DEF OnFrame, call
  <2> QED
    BY <2>1, ResponseHeadBounded, EndedBounded
<1>3. CASE f.type = "huge"
  <2> DEFINE u == [x EXCEPT !.table = "forgotten", !.limited = TRUE]
  <2>1. y = Ended(Untrack(u, {f.id}), side, f, call)
    BY <1>3 DEF OnFrame, call, HeadersTooLarge
  <2>2. IsCtx(u) /\ u.streams = x.streams /\ u.buffered = x.buffered
    BY DEF Within, IsCtx
  <2> HIDE DEF u
  <2>3. Bounded(x, u, cap)
    BY <2>2, SameBounded
  <2>4. Bounded(x, Untrack(u, {f.id}), cap)
    BY <2>3, UntrackBounded, BoundedTwice DEF Bounded
  <2> QED
    BY <2>1, <2>4, EndedBounded
<1>4. CASE f.type = "data"
  <2>1. y = Ended(ResponseData(x, f, call, midjoin, cap), side, f, call)
    BY <1>4 DEF OnFrame, call
  <2> QED
    BY <1>4, <2>1, ResponseDataBounded, EndedBounded
<1>5. CASE f.type = "end"
  <2>1. y = Ended(x, side, f, call)
    BY <1>5 DEF OnFrame, call
  <2> QED
    BY <1>00, <2>1, EndedBounded
<1>6. CASE f.type \in {"reset", "goaway"}
  <2>1. \E ids : y = DropStreams(x, ids)
    BY <1>6 DEF OnFrame
  <2> QED
    BY <2>1, DropStreamsBounded
<1>7. CASE f.type = "other"
  <2>1. y = x
    BY <1>7 DEF OnFrame
  <2> QED
    BY <1>00, <2>1
<1> QED
  BY <1>0, <1>1, <1>2, <1>3, <1>4, <1>5, <1>6, <1>7

(* Nor do the frames a call completes. *)
LEMMA ReadsBounded ==
    ASSUME NEW x, Within(x), NEW side \in {"client", "server"}, NEW frames \in Seq(ServerFrame),
           NEW cs, NEW midjoin, NEW cap \in Int
    PROVE  Bounded(x, Reads(x, side, frames, cs, midjoin, cap), cap)
PROOF
<1> DEFINE len == Len(frames)
<1>0. PICK g : Contexts(g, x, side, frames, cs, midjoin, cap)
  BY ReadsSteps
<1>1. /\ g[0] = x /\ Reads(x, side, frames, cs, midjoin, cap) = g[len]
      /\ \A n \in 1 .. len : g[n] = OnFrame(g[n - 1], side, frames[n], cs, midjoin, cap)
  BY <1>0 DEF Contexts
<1>2. len \in Nat /\ DOMAIN frames = 1 .. len
  OBVIOUS
<1> DEFINE Good(n) == Bounded(x, g[n], cap)
           T == {n \in 0 .. len : ~Good(n)}
<1>3. ASSUME NEW n \in Nat, n + 1 \in 1 .. len, Good(n)
      PROVE  Good(n + 1)
  <2>1. g[n + 1] = OnFrame(g[n], side, frames[n + 1], cs, midjoin, cap) /\ frames[n + 1] \in ServerFrame
    BY <1>1, <1>2, <1>3
  <2>2. Bounded(g[n], g[n + 1], cap)
    BY <1>3, <2>1, OnFrameBounded DEF Bounded
  <2> QED
    BY <1>3, <2>2, BoundedTwice
<1>4. Good(0)
  BY <1>1, SameBounded DEF Within
<1> HIDE DEF Good
<1>5. Good(len)
  <2> SUFFICES ASSUME T # {} PROVE FALSE
    BY <1>2
  <2>0. T \in SUBSET Nat
    BY <1>2
  <2> HIDE DEF T
  <2>1. PICK m \in T : \A n \in T : m <= n
    BY <2>0, Least
  <2> USE DEF T
  <2>2. m # 0 /\ m - 1 \in Nat /\ m - 1 \in 0 .. len /\ ~(m <= m - 1) /\ m \in 1 .. len
    BY <1>2, <1>4, <2>1
  <2>3. Good(m - 1)
    BY <2>1, <2>2
  <2> QED
    BY <1>3, <2>1, <2>2, <2>3
<1> QED
  BY <1>1, <1>5 DEF Good

(***************************************************************************)
(* What the connections of a node share.                                   *)
(***************************************************************************)
Share(k) == IF k.midjoin THEN k.buffered ELSE 0

Limit(k) == IF k.midjoin THEN MidjoinCap ELSE ConnCap

(* A connection's bytes are its streams', and one that turned aside within *)
(* its cap.                                                                *)
Keeps(c) ==
    /\ Balanced(conn[c].streams, conn[c].buffered) /\ conn[c].midjoin \in BOOLEAN
    /\ conn[c].midjoin => conn[c].on
    /\ conn[c].on => opened[c] # "no"
    /\ c \notin history.turned => conn[c].buffered <= Limit(conn[c])

Sharers == {c \in Conns : conn[c].midjoin}

(* What a reader may still add to the node's bytes, that has loaded n.     *)
Allowed(n) == IF Saturating(NodeCap - n) <= MidjoinCap THEN Saturating(NodeCap - n) ELSE MidjoinCap

Pending(n) == IF n = -1 THEN 0 ELSE Allowed(n)

(* n bytes are shared: with what both readers may still add they are over  *)
(* the cap by one connection's at most; and until readers overlapped, they *)
(* are within it and no reader has seen less of them.                      *)
Fits(n, loads, over) ==
    /\ n + Pending(loads["ssl"]) + Pending(loads["plain"]) <= NodeCap + MidjoinCap
    /\ over \/ (n <= NodeCap /\ \A r \in Readers : loads[r] = -1 \/ n <= loads[r])

Loads(loads) ==
    loads = [r \in Readers |-> loads[r]] /\ \A r \in Readers : loads[r] = -1 \/ loads[r] \in Nat

BudgetInv ==
    /\ node \in Nat /\ Loads(loaded) /\ IsFiniteSet(Sharers)
    /\ \A c \in Conns : Keeps(c)
    /\ history.turned = {} => node = Shared /\ Fits(node, loaded, history.overlapped)

(* What may be added is a number within a connection's cap, and nothing    *)
(* that the cap does not leave.                                            *)
LEMMA PendingIs ==
    ASSUME NEW n, n = -1 \/ n \in Nat
    PROVE  /\ Pending(n) \in Nat /\ Pending(n) <= MidjoinCap
           /\ n \in Nat => Pending(n) = 0 \/ n + Pending(n) <= NodeCap
BY H2Assumption DEF Pending, Allowed, Saturating

(* Fewer bytes fit as well. *)
LEMMA LessFits ==
    ASSUME NEW loads, Loads(loads), NEW n \in Nat, NEW m \in Nat, m <= n,
           NEW over, Fits(n, loads, over)
    PROVE  Fits(m, loads, over)
PROOF
<1>1. PICK a \in Nat, b \in Nat : a = Pending(loads["ssl"]) /\ b = Pending(loads["plain"])
  BY PendingIs DEF Loads, Readers
<1>2. n + a + b <= NodeCap + MidjoinCap
  BY <1>1 DEF Fits
<1>3. m + a + b <= NodeCap + MidjoinCap
  BY <1>2, H2Assumption
<1>4. over \/ (m <= NodeCap /\ \A r \in Readers : loads[r] = -1 \/ m <= loads[r])
  BY H2Assumption DEF Fits, Loads
<1> QED
  BY <1>1, <1>3, <1>4 DEF Fits

(* Bytes that fit do not reach the counter's width. *)
LEMMA FitsWithin ==
    ASSUME NEW loads, Loads(loads), NEW n \in Nat, NEW over, Fits(n, loads, over)
    PROVE  /\ n <= NodeCap + MidjoinCap /\ n < Word
           /\ over \/ n <= NodeCap
PROOF
<1>1. PICK a \in Nat, b \in Nat : a = Pending(loads["ssl"]) /\ b = Pending(loads["plain"])
  BY PendingIs DEF Loads, Readers
<1>2. n + a + b <= NodeCap + MidjoinCap
  BY <1>1 DEF Fits
<1> QED
  BY <1>2, H2Assumption DEF Fits

(* One connection of those that share changes its part only. *)
LEMMA SharedMoves ==
    ASSUME IsFiniteSet(Sharers), \A d \in Conns : conn[d].buffered \in Nat,
           NEW c \in Conns, NEW new, new.midjoin \in BOOLEAN, conn[c].midjoin \in BOOLEAN,
           new.buffered \in Nat,
           conn'[c] = new, \A d \in Conns \ {c} : conn'[d] = conn[d]
    PROVE  /\ IsFiniteSet(Sharers)'
           /\ Shared \in Nat /\ Share(conn[c]) <= Shared
           /\ Shared' = Shared - Share(conn[c]) + Share(new)
PROOF
<1> DEFINE M == {d \in Conns : conn[d].midjoin}
           N == {d \in Conns : conn'[d].midjoin}
           w == [d \in Conns |-> conn[d].buffered]
           v == [d \in Conns |-> conn'[d].buffered]
           rest == M \ {c}
<1>1. /\ IsFiniteSet(M) /\ Shared = SumFunctionOnSet(w, M) /\ Shared' = SumFunctionOnSet(v, N)
      /\ Sharers' = N
  BY DEF Shared, Sharers
<1>2. /\ N \ {c} = rest /\ (c \in N <=> new.midjoin) /\ (c \in M <=> conn[c].midjoin)
      /\ M \subseteq Conns /\ N \subseteq Conns
  OBVIOUS
<1>3. (\A d \in Conns : w[d] \in Nat /\ v[d] \in Nat) /\ w[c] = conn[c].buffered /\ v[c] = new.buffered
  OBVIOUS
<1>3a. /\ Share(conn[c]) = IF c \in M THEN w[c] ELSE 0
       /\ Share(new) = IF c \in N THEN v[c] ELSE 0
  BY <1>2, <1>3 DEF Share
<1>4. \A d \in rest : w[d] = v[d] /\ w[d] \in Nat
  OBVIOUS
<1>5. IsFiniteSet(rest)
  BY <1>1, FS_RemoveElement
<1>6. IsFiniteSet(N)
  <2>1. IsFiniteSet(rest \cup {c})
    BY <1>5, FS_AddElement
  <2>2. N \subseteq rest \cup {c}
    BY <1>2
  <2> HIDE DEF N, rest
  <2> QED
    BY <2>1, <2>2, FS_Subset
<1> HIDE DEF M, N, w, v
<1>7. SumFunctionOnSet(w, rest) = SumFunctionOnSet(v, rest)
  <2> HIDE DEF rest
  <2> QED
    BY <1>4, <1>5, SumsEqual
<1>8. SumFunctionOnSet(w, rest) \in Nat
  <2> HIDE DEF rest
  <2> QED
    BY <1>4, <1>5, SumOfAny
<1>9. SumFunctionOnSet(w, M) = Share(conn[c]) + SumFunctionOnSet(w, rest)
  <2>1. CASE c \in M
    <3>1. \A d \in M : w[d] \in Nat
      BY <1>2, <1>3
    <3>2. SumFunctionOnSet(w, M) = w[c] + SumFunctionOnSet(w, M \ {c})
      BY <1>1, <2>1, <3>1, SumOfAny
    <3> QED
      BY <1>3a, <2>1, <3>2
  <2>2. CASE c \notin M
    <3>1. rest = M
      BY <2>2
    <3>2. Share(conn[c]) = 0
      BY <1>3a, <2>2
    <3>3. PICK r \in Nat : r = SumFunctionOnSet(w, rest)
      BY <1>8
    <3>4. SumFunctionOnSet(w, M) = r
      BY <3>1, <3>3
    <3> QED
      BY <3>2, <3>3, <3>4
  <2> QED
    BY <2>1, <2>2
<1>10. SumFunctionOnSet(v, N) = Share(new) + SumFunctionOnSet(w, rest)
  <2>1. CASE c \in N
    <3>1. \A d \in N : v[d] \in Nat
      BY <1>2, <1>3
    <3>2. SumFunctionOnSet(v, N) = v[c] + SumFunctionOnSet(v, N \ {c})
      BY <1>6, <2>1, <3>1, SumOfAny
    <3> QED
      BY <1>2, <1>3a, <1>7, <2>1, <3>2
  <2>2. CASE c \notin N
    <3>1. N \ {c} = N
      BY <2>2
    <3>2. Share(new) = 0
      BY <1>3a, <2>2
    <3>3. PICK r \in Nat : r = SumFunctionOnSet(w, rest)
      BY <1>8
    <3>4. SumFunctionOnSet(v, N) = r
      BY <1>2, <1>7, <3>1, <3>3
    <3> QED
      BY <3>2, <3>3, <3>4
  <2> QED
    BY <2>1, <2>2
<1> HIDE DEF rest
<1>11. PICK r \in Nat : r = SumFunctionOnSet(w, rest)
  BY <1>8
<1>12. Share(conn[c]) \in Nat /\ Share(new) \in Nat
  BY DEF Share
<1>13. PICK s \in Nat : s = Share(conn[c])
  BY <1>12
<1>14. PICK t \in Nat : t = Share(new)
  BY <1>12
<1>15. Shared = s + r /\ Shared' = t + r
  BY <1>1, <1>9, <1>10, <1>11, <1>13, <1>14
<1> QED
  BY <1>1, <1>6, <1>13, <1>14, <1>15

(* A step that changes connection c to new, within the budgets. *)
LEMMA MovesKeepsBudgets ==
    ASSUME Inv, BudgetInv, NEW c \in Conns, NEW new,
           conn' = [conn EXCEPT ![c] = new],
           Balanced(new.streams, new.buffered), new.midjoin \in BOOLEAN,
           new.midjoin => new.on, new.on => opened'[c] # "no",
           \A d \in Conns \ {c} : opened'[d] = opened[d],
           history.turned \subseteq history'.turned,
           c \notin history'.turned => new.buffered <= Limit(new),
           node' \in Nat, Loads(loaded'),
           history'.turned = {} => /\ node' = node - Share(conn[c]) + Share(new)
                                   /\ Fits(node', loaded', history'.overlapped)
    PROVE  BudgetInv'
PROOF
<1>1. conn'[c] = new /\ \A d \in Conns \ {c} : conn'[d] = conn[d]
  BY DEF Inv, TablesOK
<1>2. \A d \in Conns : conn[d].buffered \in Nat /\ new.buffered \in Nat
  BY HeldSplits DEF BudgetInv, Keeps
<1>3. /\ IsFiniteSet(Sharers)'
      /\ Shared \in Nat /\ Shared' = Shared - Share(conn[c]) + Share(new)
  BY <1>1, <1>2, SharedMoves DEF BudgetInv, Keeps
<1>4. history'.turned = {} => node' = Shared'
  <2> SUFFICES ASSUME history'.turned = {}
               PROVE  node' = Shared'
    OBVIOUS
  <2>1. node = Shared
    BY DEF BudgetInv
  <2> QED
    BY <1>3, <2>1
<1>5. ASSUME NEW d \in Conns
      PROVE  Keeps(d)'
  <2>1. Keeps(d)
    BY DEF BudgetInv
  <2>2. CASE d = c
    BY <1>1, <2>2 DEF Keeps, Limit
  <2>3. CASE d # c
    BY <1>1, <2>1, <2>3 DEF Keeps, Limit
  <2> QED
    BY <2>2, <2>3
<1> QED
  BY <1>3, <1>4, <1>5 DEF BudgetInv

(* The less of two numbers. *)
LEMMA MinOfTwo ==
    ASSUME NEW a \in Int, NEW b \in Int
    PROVE  Min({a, b}) \in {a, b} /\ Min({a, b}) <= a /\ Min({a, b}) <= b
PROOF
<1>1. \E m \in {a, b} : \A n \in {a, b} : m <= n
  <2>1. CASE a <= b
    BY <2>1
  <2>2. CASE b <= a
    BY <2>2
  <2> QED
    BY <2>1, <2>2
<1>2. Min({a, b}) \in {a, b} /\ \A n \in {a, b} : Min({a, b}) <= n
  BY <1>1 DEF Min
<1> QED
  BY <1>2

(* What a connection may hold after a call. *)
LEMMA CapIs ==
    ASSUME NEW load, load = -1 \/ load \in Nat, NEW k, k.buffered \in Nat, NEW midjoin \in BOOLEAN,
           midjoin => load # -1
    PROVE  /\ Cap(k, midjoin, load) \in Int
           /\ midjoin => /\ Cap(k, midjoin, load) <= MidjoinCap
                         /\ Cap(k, midjoin, load) <= k.buffered + Pending(load)
           /\ ~midjoin => Cap(k, midjoin, load) = ConnCap
PROOF
<1>1. NodeCap \in Nat /\ MidjoinCap \in Nat /\ ConnCap \in Nat
  BY H2Assumption
<1>2. k.buffered + Saturating(NodeCap - load) \in Int
  BY <1>1 DEF Saturating
<1>3. /\ Room(k, load) \in Int /\ Room(k, load) <= MidjoinCap
      /\ Room(k, load) <= k.buffered + Saturating(NodeCap - load)
  <2> DEFINE m == k.buffered + Saturating(NodeCap - load)
  <2>1. Room(k, load) = Min({MidjoinCap, m}) /\ m \in Int /\ MidjoinCap \in Int
    BY <1>1, <1>2 DEF Room
  <2> HIDE DEF m
  <2>2. Room(k, load) \in {MidjoinCap, m} /\ Room(k, load) <= MidjoinCap /\ Room(k, load) <= m
    BY <2>1, MinOfTwo
  <2> QED
    BY <2>1, <2>2 DEF m
<1>4. PICK room \in Int : room = Room(k, load)
  BY <1>3
<1>5. load # -1 => room <= k.buffered + Pending(load)
  BY <1>1, <1>3, <1>4 DEF Pending, Allowed, Saturating
<1> QED
  BY <1>1, <1>3, <1>4, <1>5 DEF Cap

(* What feeding k does to its bytes and to the node's.                     *)
Spends(c, k, side, x, dir, midjoin) ==
    /\ Balanced(x.streams, x.buffered)
    /\ x.buffered <= k.buffered \/ x.buffered <= Cap(k, midjoin, loaded[Reader(c)])
    /\ midjoin \in BOOLEAN /\ (k.midjoin => midjoin) /\ (midjoin <=> loaded[Reader(c)] # -1)
    /\ conn' = [conn EXCEPT ![c] = Fed(k, side, midjoin, x, dir)]
    /\ node' = IF midjoin THEN Reconciled(k.buffered, x.buffered) ELSE node
    /\ loaded' = [loaded EXCEPT ![Reader(c)] = -1]
    /\ history'.turned =
           history.turned \cup IF midjoin /\ ~k.midjoin /\ k.buffered > 0 THEN {c} ELSE {}
    /\ history'.overlapped <=>
           \/ history.overlapped
           \/ /\ midjoin /\ x.buffered > k.buffered
              /\ \E r \in Readers \ {Reader(c)} : loaded[r] # -1

(* Frames that wait spend nothing, and those that are read what there is. *)
LEMMA FeedSpends ==
    ASSUME Loads(loaded), NEW c \in Conns, NEW k, IsConn(k), NEW side \in {"client", "server"},
           NEW f \in ServerFrame, NEW loss, Feed(c, k, side, f, loss), exported[c] \in Counts,
           Balanced(k.streams, k.buffered), k.midjoin \in BOOLEAN
    PROVE  \E x, dir, midjoin : Spends(c, k, side, x, dir, midjoin)
PROOF
<1> DEFINE d == IF k[side].lost THEN Rescan ELSE k[side]
           midjoin == k.midjoin \/ (k[side].lost /\ side = "client")
           scan == Append(d.scan, f)
           waits == d.scanning /\ Len(scan) < Run
           before == [streams |-> k.streams, buffered |-> k.buffered, table |-> d.table,
                      exported |-> exported[c], limited |-> FALSE,
                      swept |-> {i \in Ids : <<c, i>> \in history.swept}, strays |-> {}]
           cap == Cap(k, midjoin, loaded[Reader(c)])
           read == Reads(before, side, scan, calls'[c], midjoin, cap)
           after == IF waits THEN before ELSE read
           x == SweepIdle(after)
           left == IF waits THEN scan ELSE IF loss = "end" THEN <<EndOf(f)>> ELSE <<>>
           dir == [lost |-> loss = "tail" \/ (loss = "end" /\ waits), scanning |-> waits,
                   scan |-> left, table |-> x.table]
<1>1. /\ conn' = [conn EXCEPT ![c] = Fed(k, side, midjoin, x, dir)]
      /\ node' = IF midjoin THEN Reconciled(k.buffered, x.buffered) ELSE node
      /\ loaded' = [loaded EXCEPT ![Reader(c)] = -1] /\ (midjoin <=> loaded[Reader(c)] # -1)
      /\ history'.turned =
             history.turned \cup IF midjoin /\ ~k.midjoin /\ k.buffered > 0 THEN {c} ELSE {}
      /\ history'.overlapped <=>
             \/ history.overlapped
             \/ /\ midjoin /\ x.buffered > k.buffered
                /\ \E r \in Readers \ {Reader(c)} : loaded[r] # -1
  BY DEF Feed, Idle
<1>2. scan \in Seq(ServerFrame)
  <2>1. k[side].scan \in Seq(ServerFrame) /\ Rescan.scan = <<>>
    BY FrameTypes DEF IsConn, DirOK
  <2> QED
    BY <2>1, AppendProperties, EmptySeq
<1>3. Within(before) /\ before.buffered = k.buffered
  BY DEF Within, IsCtx, IsConn
<1>4. midjoin \in BOOLEAN /\ (k.midjoin => midjoin)
  OBVIOUS
<1>5. k.buffered \in Nat
  BY HeldSplits
<1> HIDE DEF d, midjoin, scan, before, waits
<1>6. cap \in Int
  <2>1. Reader(c) \in Readers
    BY DEF Reader, Readers
  <2> QED
    BY <1>1, <1>4, <1>5, <2>1, CapIs DEF Loads
<1> HIDE DEF cap
<1>7. Bounded(before, after, cap)
  BY <1>2, <1>3, <1>6, ReadsBounded, SameBounded DEF Within
<1> HIDE DEF after
<1>8. Bounded(before, x, cap)
  BY <1>3, <1>6, <1>7, SweepIdleBounded, BoundedTwice DEF Bounded
<1> HIDE DEF x, dir
<1>9. Spends(c, k, side, x, dir, midjoin)
  BY <1>1, <1>3, <1>4, <1>8 DEF Spends, Bounded, Within, cap
<1> QED
  BY <1>9

(* A counter that stays in its width does not wrap. *)
LEMMA SmallMod ==
    ASSUME NEW w \in Nat, NEW n \in Nat, n < w
    PROVE  n % w = n
OBVIOUS

(* A connection that holds b for o adds what its reader may add at most:   *)
(* the bytes shared then fit with what the other reader may.               *)
LEMMA GrowthFits ==
    ASSUME Loads(loaded), NEW r \in Readers, NEW n \in Nat, NEW over, Fits(n, loaded, over),
           NEW b \in Nat, NEW o \in Nat, b <= o + Pending(loaded[r]), o <= n, loaded[r] # -1,
           NEW now \in Nat, now = n + b - o,
           NEW loads, Loads(loads), loads[r] = -1, \A q \in Readers \ {r} : loads[q] = loaded[q],
           NEW after, after <=> over \/ (b > o /\ \E q \in Readers \ {r} : loaded[q] # -1)
    PROVE  Fits(now, loads, after)
PROOF
<1>1. PICK q \in Readers : Readers = {r, q} /\ q # r
  BY DEF Readers
<1>2. PICK p \in Nat, w \in Nat : p = Pending(loaded[r]) /\ w = Pending(loaded[q])
  BY <1>1, PendingIs DEF Loads
<1>3. n + p + w <= NodeCap + MidjoinCap
  <2>1. PICK a \in Nat, e \in Nat : a = Pending(loaded["ssl"]) /\ e = Pending(loaded["plain"])
    BY PendingIs DEF Loads, Readers
  <2>2. n + a + e <= NodeCap + MidjoinCap
    BY <2>1 DEF Fits
  <2>3. (p = a /\ w = e) \/ (p = e /\ w = a)
    BY <1>1, <1>2, <2>1 DEF Readers
  <2> QED
    BY <2>2, <2>3, H2Assumption
<1>4. Pending(loads[r]) = 0 /\ Pending(loads[q]) = w
  BY <1>1, <1>2 DEF Pending
<1>5. now + Pending(loads["ssl"]) + Pending(loads["plain"]) <= NodeCap + MidjoinCap
  <2>1. now + w <= NodeCap + MidjoinCap
    BY <1>2, <1>3, H2Assumption
  <2>2. \/ Pending(loads["ssl"]) = 0 /\ Pending(loads["plain"]) = w
        \/ Pending(loads["plain"]) = 0 /\ Pending(loads["ssl"]) = w
    BY <1>1, <1>4 DEF Readers
  <2> QED
    BY <2>1, <2>2, H2Assumption
<1>6. ASSUME ~after
      PROVE  now <= NodeCap /\ (loads[q] = -1 \/ now <= loads[q])
  <2>1. n <= NodeCap /\ n <= loaded[r] /\ loaded[r] \in Nat
    BY <1>6 DEF Fits, Loads
  <2>2. loaded[q] = -1 \/ n <= loaded[q]
    BY <1>6 DEF Fits
  <2>3. CASE b <= o
    <3>1. now <= n
      BY <2>3
    <3> QED
      BY <1>1, <2>1, <2>2, <3>1, H2Assumption DEF Loads
  <2>4. CASE b > o
    <3>1. loads[q] = -1
      BY <1>1, <1>6, <2>4
    <3>2. p = 0 \/ loaded[r] + p <= NodeCap
      BY <1>2, <2>1, PendingIs
    <3>3. now <= n + p
      BY <1>2
    <3> QED
      BY <2>1, <3>1, <3>2, <3>3, H2Assumption
  <2> QED
    BY <2>3, <2>4
<1> QED
  BY <1>1, <1>5, <1>6 DEF Fits

(* What feeding leaves of the budgets. *)
LEMMA FeedKeepsBudgets ==
    ASSUME Inv, BudgetInv, NEW c \in Conns, opened'[c] # "no",
           \A d \in Conns \ {c} : opened'[d] = opened[d],
           NEW side \in {"client", "server"}, NEW f \in ServerFrame, NEW loss,
           NEW k, IsConn(k), k.on, k.midjoin \in BOOLEAN, Balanced(k.streams, k.buffered),
           k = conn[c] \/ (k.buffered = 0 /\ k.midjoin /\ ~conn[c].midjoin),
           Feed(c, k, side, f, loss)
    PROVE  BudgetInv'
PROOF
<1>1. node \in Nat /\ Loads(loaded) /\ exported[c] \in Counts /\ Keeps(c) /\ k.buffered \in Nat
  BY HeldSplits DEF BudgetInv, Inv, Sound
<1>2. PICK x, dir, midjoin : Spends(c, k, side, x, dir, midjoin)
  BY <1>1, FeedSpends
<1>3. /\ Balanced(x.streams, x.buffered)
      /\ x.buffered <= k.buffered \/ x.buffered <= Cap(k, midjoin, loaded[Reader(c)])
      /\ midjoin \in BOOLEAN /\ (k.midjoin => midjoin) /\ (midjoin <=> loaded[Reader(c)] # -1)
      /\ conn' = [conn EXCEPT ![c] = Fed(k, side, midjoin, x, dir)]
      /\ node' = IF midjoin THEN Reconciled(k.buffered, x.buffered) ELSE node
      /\ loaded' = [loaded EXCEPT ![Reader(c)] = -1]
      /\ history'.turned =
             history.turned \cup IF midjoin /\ ~k.midjoin /\ k.buffered > 0 THEN {c} ELSE {}
      /\ history'.overlapped <=>
             \/ history.overlapped
             \/ /\ midjoin /\ x.buffered > k.buffered
                /\ \E r \in Readers \ {Reader(c)} : loaded[r] # -1
  BY <1>2 DEF Spends
<1> DEFINE new == Fed(k, side, midjoin, x, dir)
<1>4. /\ new.streams = x.streams /\ new.buffered = x.buffered /\ new.midjoin = midjoin
      /\ new.on = k.on
  BY DEF Fed, IsConn
<1> HIDE DEF new
<1>5. /\ MidjoinCap \in Nat /\ ConnCap \in Nat /\ NodeCap \in Nat /\ Word \in Nat
      /\ Word > NodeCap + MidjoinCap
  BY H2Assumption
<1>5a. PICK r \in Readers : r = Reader(c)
  BY DEF Reader, Readers
<1>5b. PICK load : load = loaded[r] /\ (load = -1 \/ load \in Nat)
  BY <1>1, <1>5a DEF Loads
<1>5c. PICK m \in Int : /\ m = Cap(k, midjoin, load)
                        /\ midjoin => m <= MidjoinCap /\ m <= k.buffered + Pending(load)
                        /\ ~midjoin => m = ConnCap
  BY <1>1, <1>3, <1>5a, <1>5b, CapIs
<1>6. PICK b \in Nat, o \in Nat, p \in Nat : b = x.buffered /\ o = k.buffered /\ p = Pending(load)
  BY <1>1, <1>3, <1>5b, HeldSplits, PendingIs
<1>6a. b <= o \/ b <= m
  BY <1>3, <1>5a, <1>5b, <1>5c, <1>6
<1>6b. midjoin => m <= MidjoinCap /\ m <= o + p
  <2> SUFFICES ASSUME midjoin
               PROVE  m <= MidjoinCap /\ m <= o + p
    OBVIOUS
  <2>1. m <= MidjoinCap
    BY <1>5c
  <2>2. m <= k.buffered + Pending(load)
    BY <1>5c
  <2> QED
    BY <1>6, <2>1, <2>2
<1>7. history.turned \subseteq history'.turned
  BY <1>3
<1>8. c \notin history'.turned => new.buffered <= Limit(new)
  <2> SUFFICES ASSUME c \notin history'.turned
               PROVE  x.buffered <= IF midjoin THEN MidjoinCap ELSE ConnCap
    BY <1>4 DEF Limit
  <2>1. c \notin history.turned /\ (midjoin /\ ~k.midjoin => k.buffered = 0)
    BY <1>1, <1>3
  <2>2. k.buffered <= IF midjoin THEN MidjoinCap ELSE ConnCap
    <3>1. CASE k.buffered = 0
      BY <1>5, <3>1
    <3>2. CASE k.buffered # 0
      BY <1>1, <1>3, <2>1, <3>2 DEF Keeps, Limit
    <3> QED
      BY <3>1, <3>2
  <2>3. CASE midjoin
    <3>1. k.buffered <= MidjoinCap
      BY <2>2, <2>3
    <3>2. o <= MidjoinCap
      BY <1>6, <3>1
    <3>3. m <= MidjoinCap
      BY <1>6b, <2>3
    <3>4. b <= MidjoinCap
      BY <1>5, <1>6a, <3>2, <3>3
    <3> QED
      BY <1>6, <2>3, <3>4
  <2>4. CASE ~midjoin
    BY <1>5, <1>5c, <1>6, <1>6a, <2>2, <2>4
  <2> QED
    BY <2>3, <2>4
<1>9. node' \in Nat
  <2>1. CASE midjoin
    <3>1. node + b - o \in Int
      BY <1>1, <1>6
    <3>2. (node + b - o) % Word \in Nat
      BY <1>5, <3>1
    <3> QED
      BY <1>3, <1>6, <2>1, <3>2 DEF Reconciled
  <2> QED
    BY <1>1, <1>3, <2>1
<1>9a. Loads(loaded') /\ loaded'[r] = -1 /\ \A q \in Readers \ {r} : loaded'[q] = loaded[q]
  BY <1>1, <1>3, <1>5a DEF Loads
<1>10. ASSUME history'.turned = {}
       PROVE  /\ node' = node - Share(conn[c]) + Share(new)
              /\ Fits(node', loaded', history'.overlapped)
  <2>1. /\ node = Shared /\ Fits(node, loaded, history.overlapped)
        /\ midjoin /\ ~k.midjoin => k.buffered = 0
    BY <1>1, <1>3, <1>10 DEF BudgetInv
  <2>2. Share(conn[c]) <= Shared
    <3>1. \A d \in Conns : conn[d].buffered \in Nat
      BY HeldSplits DEF BudgetInv, Keeps
    <3>2. conn'[c] = new /\ \A d \in Conns \ {c} : conn'[d] = conn[d]
      BY <1>3 DEF Inv, TablesOK, new
    <3>3. /\ IsFiniteSet(Sharers) /\ conn[c].midjoin \in BOOLEAN
          /\ new.midjoin \in BOOLEAN /\ new.buffered \in Nat
      BY <1>1, <1>3, <1>4, <1>6 DEF BudgetInv, Keeps
    <3>4. PICK moved : moved = new
      OBVIOUS
    <3>5. /\ moved.midjoin \in BOOLEAN /\ moved.buffered \in Nat
          /\ conn'[c] = moved /\ \A d \in Conns \ {c} : conn'[d] = conn[d]
      BY <3>2, <3>3, <3>4
    <3>6. /\ IsFiniteSet(Sharers)'
          /\ Shared \in Nat /\ Share(conn[c]) <= Shared
          /\ Shared' = Shared - Share(conn[c]) + Share(moved)
      BY <3>1, <3>3, <3>5, SharedMoves
    <3> QED
      BY <3>6
  <2>3. Share(new) = IF midjoin THEN b ELSE 0
    BY <1>4, <1>6 DEF Share
  <2>4. CASE midjoin
    <3>1. Share(conn[c]) = o
      <4>1. CASE k = conn[c]
        BY <1>6, <2>1, <2>4, <4>1 DEF Share
      <4>2. CASE k.buffered = 0 /\ ~conn[c].midjoin
        BY <1>6, <4>2 DEF Share
      <4> QED
        BY <4>1, <4>2
    <3>2. PICK n \in Nat : n = node /\ o <= n
      BY <1>1, <2>1, <2>2, <3>1
    <3>3. b <= o + p
      <4>1. m <= o + p
        BY <1>6b, <2>4
      <4> QED
        BY <1>6a, <4>1
    <3>4. PICK now \in Nat : now = n + b - o
      BY <3>2
    <3>5. Fits(now, loaded', history'.overlapped)
      <4>1. PICK loads, after : loads = loaded' /\ after = history'.overlapped
        OBVIOUS
      <4>2. Fits(n, loaded, history.overlapped)
        BY <2>1, <3>2
      <4>3. b <= o + Pending(loaded[r])
        BY <1>5b, <1>6, <3>3
      <4>4. loaded[r] # -1
        BY <1>3, <1>5a, <2>4
      <4>5. Loads(loads) /\ loads[r] = -1 /\ \A q \in Readers \ {r} : loads[q] = loaded[q]
        BY <1>9a, <4>1
      <4>6. after <=> \/ history.overlapped
                      \/ b > o /\ \E q \in Readers \ {r} : loaded[q] # -1
        BY <1>3, <1>5a, <1>6, <2>4, <4>1
      <4>7. Fits(now, loads, after)
        BY <1>1, <3>2, <3>4, <4>2, <4>3, <4>4, <4>5, <4>6, GrowthFits
      <4> QED
        BY <4>1, <4>7
    <3>6. now % Word = now
      BY <1>5, <1>9a, <3>5, FitsWithin, SmallMod
    <3>7. node' = now
      BY <1>3, <1>6, <2>4, <3>2, <3>4, <3>6 DEF Reconciled
    <3> QED
      BY <2>3, <2>4, <3>1, <3>2, <3>4, <3>5, <3>7
  <2>5. CASE ~midjoin
    <3>1. Share(conn[c]) = 0 /\ Share(new) = 0 /\ node' = node
      BY <1>3, <2>3, <2>5 DEF Share
    <3>2. loaded' = loaded /\ (history'.overlapped <=> history.overlapped)
      BY <1>1, <1>3, <1>5a, <1>9a, <2>5 DEF Loads
    <3> QED
      BY <1>1, <2>1, <3>1, <3>2 DEF Fits
  <2> QED
    BY <1>3, <2>4, <2>5
<1> QED
  BY <1>3, <1>4, <1>7, <1>8, <1>9, <1>9a, <1>10, MovesKeepsBudgets DEF new

(* A connection the agent joins or does not watch buffers nothing. *)
LEMMA FreshBudgets ==
    /\ Balanced(Joined.streams, Joined.buffered) /\ Joined.buffered = 0 /\ Joined.midjoin = TRUE
    /\ Joined.on = TRUE
    /\ Balanced(Off.streams, Off.buffered) /\ Off.buffered = 0 /\ Off.midjoin = FALSE
PROOF
<1>1. /\ Joined.buffered = 0 /\ Joined.midjoin = TRUE /\ Joined.on = TRUE
      /\ Off.buffered = 0 /\ Off.midjoin = FALSE
  BY DEF Joined, Off
<1>2. Joined.streams = <<>> /\ Off.streams = <<>>
  BY FreshConns
<1>3. DOMAIN <<>> = {} /\ IsFiniteSet({})
  BY FS_EmptySet
<1>4. \A streams : HeldBy(streams, {}) = 0
  BY <1>3, SumOfFirst DEF HeldBy
<1>5. Balanced(<<>>, 0)
  BY <1>3, <1>4 DEF Balanced
<1> QED
  BY <1>1, <1>2, <1>5

(* A connection that is not counted on any more gives its share back. *)
LEMMA DroppedKeepsBudgets ==
    ASSUME Inv, BudgetInv, NEW c \in Conns, conn' = [conn EXCEPT ![c] = Off],
           node' = Dropped(conn[c]), loaded' = loaded, history' = history,
           \A d \in Conns \ {c} : opened'[d] = opened[d]
    PROVE  BudgetInv'
PROOF
<1> DEFINE k == conn[c]
<1>1. Keeps(c) /\ \A d \in Conns : conn[d].buffered \in Nat
  BY HeldSplits DEF BudgetInv, Keeps
<1>2. /\ Balanced(Off.streams, Off.buffered) /\ Off.buffered = 0 /\ Off.midjoin = FALSE
      /\ Share(Off) = 0 /\ 0 <= Limit(Off)
  BY FreshBudgets, H2Assumption DEF Share, Limit
<1>3. /\ ConnCap \in Nat /\ Word \in Nat /\ Word > 0 /\ NodeCap \in Nat
      /\ node \in Nat /\ Loads(loaded)
  BY H2Assumption DEF BudgetInv
<1>4. node' \in Nat
  <2>1. CASE k.midjoin
    <3>1. (node - k.buffered) % Word \in Nat
      <4>1. node - k.buffered \in Int
        BY <1>1, <1>3
      <4> QED
        BY <1>3, <4>1
    <3> QED
      BY <2>1, <3>1 DEF Dropped
  <2>2. CASE ~k.midjoin
    BY <1>3, <2>2 DEF Dropped
  <2> QED
    BY <2>1, <2>2
<1>5. ASSUME history'.turned = {}
      PROVE  /\ node' = node - Share(conn[c]) + Share(Off)
             /\ Fits(node', loaded', history'.overlapped)
  <2>1. node = Shared /\ Fits(node, loaded, history.overlapped) /\ node < Word
    BY <1>3, <1>5, FitsWithin DEF BudgetInv
  <2>2. Share(conn[c]) <= Shared /\ Share(conn[c]) \in Nat
    <3>1. conn'[c] = Off /\ \A d \in Conns \ {c} : conn'[d] = conn[d]
      BY DEF Inv, TablesOK
    <3>2. PICK moved : moved = Off
      OBVIOUS
    <3>3. /\ IsFiniteSet(Sharers) /\ conn[c].midjoin \in BOOLEAN
          /\ moved.midjoin \in BOOLEAN /\ moved.buffered \in Nat
      <4>1. IsFiniteSet(Sharers)
        BY DEF BudgetInv
      <4>2. conn[c].midjoin \in BOOLEAN
        BY <1>1 DEF Keeps
      <4>3. moved.midjoin \in BOOLEAN
        BY <1>2, <3>2
      <4>4. moved.buffered \in Nat
        BY <1>2, <3>2
      <4> QED
        BY <4>1, <4>2, <4>3, <4>4
    <3>3a. conn'[c] = moved /\ \A d \in Conns \ {c} : conn'[d] = conn[d]
      BY <3>1, <3>2
    <3>4. /\ IsFiniteSet(Sharers)'
          /\ Shared \in Nat /\ Share(conn[c]) <= Shared
          /\ Shared' = Shared - Share(conn[c]) + Share(moved)
      BY <1>1, <3>3, <3>3a, SharedMoves
    <3>5. Share(conn[c]) \in Nat
      <4>1. conn[c].buffered \in Nat
        BY <1>1
      <4> QED
        BY <4>1 DEF Share
    <3> QED
      BY <3>4, <3>5
  <2>3. node' = node - Share(conn[c])
    <3>1. CASE k.midjoin
      <4>1. Share(conn[c]) = k.buffered /\ node' = (node - k.buffered) % Word
        BY <3>1 DEF Share, Dropped
      <4>2. node - k.buffered \in Nat /\ node - k.buffered < Word
        BY <1>1, <1>3, <2>1, <2>2, <4>1
      <4> QED
        BY <1>3, <4>1, <4>2, SmallMod
    <3>2. CASE ~k.midjoin
      BY <1>3, <3>2 DEF Share, Dropped
    <3> QED
      BY <3>1, <3>2
  <2>4. PICK s \in Nat : s = Share(conn[c])
    BY <2>2
  <2>5. node' \in Nat /\ node' <= node
    BY <1>3, <2>1, <2>2, <2>3, <2>4
  <2>6. Fits(node', loaded, history.overlapped)
    BY <1>3, <2>1, <2>5, LessFits
  <2>7. node' = node - Share(conn[c]) + Share(Off)
    BY <1>2, <1>3, <2>3, <2>4
  <2> QED
    BY <2>6, <2>7
<1> HIDE DEF k
<1>6. Off.midjoin \in BOOLEAN /\ (Off.midjoin => Off.on) /\ (Off.on => opened'[c] # "no")
  BY <1>2 DEF Off
<1>7. history.turned \subseteq history'.turned /\ (c \notin history'.turned => Off.buffered <= Limit(Off))
  BY <1>2
<1>8. Loads(loaded')
  BY <1>3
<1> QED
  BY <1>2, <1>4, <1>5, <1>6, <1>7, <1>8, MovesKeepsBudgets

(* What changes nothing of what is buffered and joined, and no counter. *)
LEMMA AsideKeepsBudgets ==
    ASSUME Inv, BudgetInv, NEW c \in Conns, NEW new, conn' = [conn EXCEPT ![c] = new],
           new.streams = conn[c].streams, new.buffered = conn[c].buffered,
           new.midjoin = conn[c].midjoin, new.midjoin => new.on, new.on => opened'[c] # "no",
           \A d \in Conns \ {c} : opened'[d] = opened[d],
           node' = node, loaded' = loaded, history' = history
    PROVE  BudgetInv'
PROOF
<1>1. Keeps(c) /\ node \in Nat /\ Loads(loaded') /\ conn[c].buffered \in Nat
  BY HeldSplits DEF BudgetInv, Keeps
<1>2. Share(new) = Share(conn[c]) /\ Share(new) \in Nat /\ Limit(new) = Limit(conn[c])
  BY <1>1 DEF Share, Limit
<1>3. /\ Balanced(new.streams, new.buffered) /\ new.midjoin \in BOOLEAN
      /\ history.turned \subseteq history'.turned
      /\ c \notin history'.turned => new.buffered <= Limit(new)
  BY <1>1, <1>2 DEF Keeps
<1>4. history'.turned = {} => /\ node' = node - Share(conn[c]) + Share(new)
                             /\ Fits(node', loaded', history'.overlapped)
  BY <1>1, <1>2 DEF BudgetInv
<1> QED
  BY <1>1, <1>3, <1>4, MovesKeepsBudgets

(* Frames that are heard, or damaged, or missed. *)
LEMMA CaptureKeepsBudgets ==
    ASSUME Inv, BudgetInv, NEW c \in Conns, opened'[c] \in {"yes", "going"},
           \A d \in Conns \ {c} : opened'[d] = opened[d],
           NEW side \in {"client", "server"}, NEW f, Says(c, side, f), Capture(c, side, f)
    PROVE  BudgetInv'
PROOF
<1>1. opened'[c] # "no" /\ f \in ServerFrame /\ Keeps(c)
  BY DEF Says, BudgetInv
<1>2. IsConn(conn[c]) /\ conn[c].midjoin \in BOOLEAN /\ Balanced(conn[c].streams, conn[c].buffered)
  BY <1>1 DEF Inv, Sound, Keeps
<1>3. CASE UNCHANGED <<conn, node, loaded, history>>
  <2>1. ASSUME NEW d \in Conns
        PROVE  Keeps(d)'
    <3>1. Keeps(d)
      BY DEF BudgetInv
    <3>2. opened'[d] = opened[d] \/ opened'[d] # "no"
      BY <1>1
    <3> QED
      BY <1>3, <3>1, <3>2 DEF Keeps, Limit
  <2> QED
    BY <1>3, <2>1 DEF BudgetInv, Shared, Sharers
<1>4. CASE conn[c].on /\ Feed(c, conn[c], side, f, "none")
  BY <1>1, <1>2, <1>4, FeedKeepsBudgets
<1>5. CASE ~conn[c].on /\ Join(c, side, f)
  <2>1. ~conn[c].midjoin
    BY <1>1, <1>5 DEF Keeps
  <2>2. Feed(c, Joined, side, f, "none")
    BY <1>5 DEF Join
  <2>3. PICK k : k = Joined
    OBVIOUS
  <2>4. /\ IsConn(k) /\ k.on /\ k.midjoin \in BOOLEAN /\ Balanced(k.streams, k.buffered)
        /\ k.buffered = 0 /\ k.midjoin /\ Feed(c, k, side, f, "none")
    BY <2>2, <2>3, FreshBudgets, FreshConns
  <2> QED
    BY <1>1, <2>1, <2>4, FeedKeepsBudgets
<1>6. CASE conn[c].on /\ Damaged(c, side, f)
  <2> DEFINE torn == [f EXCEPT !.type = IF f.type = "data" THEN "data" ELSE "other",
                               !.part = 0, !.end = FALSE]
             holed == [f EXCEPT !.part = 0]
  <2>1. (f.type = "data" => holed \in ServerFrame) /\ torn \in ServerFrame
    BY DamagedFrames DEF Says
  <2>2. \/ f.type = "data" /\ Feed(c, conn[c], side, holed, "none")
        \/ f.type = "data" /\ f.end /\ Feed(c, conn[c], side, torn, "end")
        \/ Feed(c, conn[c], side, torn, "tail")
        \/ /\ conn' = [conn EXCEPT ![c][side].table =
                 IF f.type \in {"head", "huge"} THEN "astray" ELSE @]
           /\ UNCHANGED <<node, loaded, exported, history>>
    BY <1>6, DamagedCases
  <2> HIDE DEF torn, holed
  <2>3. CASE f.type = "data" /\ Feed(c, conn[c], side, holed, "none")
    BY <1>1, <1>2, <1>6, <2>1, <2>3, FeedKeepsBudgets
  <2>4. CASE \E loss : Feed(c, conn[c], side, torn, loss)
    BY <1>1, <1>2, <1>6, <2>1, <2>4, FeedKeepsBudgets
  <2>5. CASE /\ conn' = [conn EXCEPT ![c][side].table =
                    IF f.type \in {"head", "huge"} THEN "astray" ELSE @]
             /\ UNCHANGED <<node, loaded, exported, history>>
    <3> DEFINE dir == [conn[c][side] EXCEPT !.table =
                          IF f.type \in {"head", "huge"} THEN "astray" ELSE conn[c][side].table]
               new == [conn[c] EXCEPT ![side] = dir]
    <3>1. conn' = [conn EXCEPT ![c] = new]
      BY <2>5
    <3> HIDE DEF dir
    <3>2. /\ new.streams = conn[c].streams /\ new.buffered = conn[c].buffered
          /\ new.midjoin = conn[c].midjoin /\ new.on = conn[c].on
      BY <1>2 DEF IsConn
    <3> HIDE DEF new
    <3> QED
      BY <1>1, <1>6, <2>5, <3>1, <3>2, AsideKeepsBudgets
  <2> QED
    BY <2>2, <2>3, <2>4, <2>5
<1> QED
  BY <1>3, <1>4, <1>5, <1>6 DEF Capture

(* A connection that opens has nothing buffered.                           *)
LEMMA BeginKeepsBudgets ==
    ASSUME Inv, BudgetInv, NEW c \in Conns, NEW seen \in Seen, Begin(c, seen)
    PROVE  BudgetInv'
PROOF
<1>1. /\ opened[c] = "no" /\ opened' = [opened EXCEPT ![c] = "yes"]
      /\ conn' = [conn EXCEPT ![c].on = seen] /\ UNCHANGED <<node, loaded, history>>
  BY DEF Begin
<1>2. Keeps(c) /\ IsConn(conn[c])
  BY DEF BudgetInv, Inv, Sound
<1> DEFINE new == [conn[c] EXCEPT !.on = seen]
<1>3. /\ conn' = [conn EXCEPT ![c] = new]
      /\ new.streams = conn[c].streams /\ new.buffered = conn[c].buffered
      /\ new.midjoin = conn[c].midjoin
  BY <1>1, <1>2 DEF IsConn
<1> HIDE DEF new
<1>4. (new.midjoin => new.on) /\ (new.on => opened'[c] # "no")
  <2>1. opened'[c] = "yes"
    BY <1>1 DEF Inv, CallsOK
  <2> QED
    BY <1>1, <1>2, <1>3, <2>1 DEF Keeps
<1>5. \A d \in Conns \ {c} : opened'[d] = opened[d]
  BY <1>1
<1> QED
  BY <1>1, <1>3, <1>4, <1>5, AsideKeepsBudgets

(* Time changes nothing of what the streams hold. *)
LEMMA WaitKeepsBudgets ==
    ASSUME Inv, BudgetInv, Wait
    PROVE  BudgetInv'
PROOF
<1> DEFINE Idled(streams) == [i \in DOMAIN streams |-> [streams[i] EXCEPT !.idle = TRUE]]
           Waited(k) == [k EXCEPT !.quiet = TRUE, !.streams = Idled(k.streams)]
<1>1. /\ conn' = [c \in DOMAIN conn |-> Waited(conn[c])]
      /\ UNCHANGED <<opened, node, loaded, history>>
  BY DEF Wait
<1>2. ASSUME NEW s, IsStream(s)
      PROVE  IsStream([s EXCEPT !.idle = TRUE]) /\ Held([s EXCEPT !.idle = TRUE]) = Held(s)
  BY <1>2 DEF IsStream, Held
<1>3. ASSUME NEW streams, NEW buffered, Balanced(streams, buffered)
      PROVE  Balanced(Idled(streams), buffered)
  <2>1. /\ DOMAIN Idled(streams) = DOMAIN streams
        /\ \A i \in DOMAIN streams : Idled(streams)[i] = [streams[i] EXCEPT !.idle = TRUE]
    OBVIOUS
  <2> HIDE DEF Idled
  <2>2. IsFiniteSet(DOMAIN streams) /\ \A i \in DOMAIN streams : IsStream(streams[i])
    BY <1>3 DEF Balanced
  <2>3. \A i \in DOMAIN streams : IsStream(Idled(streams)[i]) /\ Held(Idled(streams)[i]) = Held(streams[i])
    BY <1>2, <2>1, <2>2
  <2>4. PICK others : others = Idled(streams)
    OBVIOUS
  <2>5. HeldBy(others, DOMAIN streams) = HeldBy(streams, DOMAIN streams)
    BY <2>1, <2>2, <2>3, <2>4, HeldAlike
  <2> QED
    BY <1>3, <2>1, <2>2, <2>3, <2>4, <2>5 DEF Balanced
<1>4. ASSUME NEW c \in Conns
      PROVE  /\ conn'[c].streams = Idled(conn[c].streams) /\ conn'[c].buffered = conn[c].buffered
             /\ conn'[c].midjoin = conn[c].midjoin /\ conn'[c].on = conn[c].on
  <2>1. conn'[c] = Waited(conn[c]) /\ IsConn(conn[c])
    BY <1>1 DEF Inv, TablesOK, Sound
  <2> HIDE DEF Idled
  <2> QED
    BY <2>1 DEF IsConn
<1> HIDE DEF Idled, Waited
<1>5. ASSUME NEW c \in Conns
      PROVE  Keeps(c)'
  <2>1. Keeps(c)
    BY DEF BudgetInv
  <2>2. Balanced(conn'[c].streams, conn'[c].buffered)
    BY <1>3, <1>4, <2>1 DEF Keeps
  <2> QED
    BY <1>1, <1>4, <2>1, <2>2 DEF Keeps, Limit
<1>6. {c \in Conns : conn'[c].midjoin} = {c \in Conns : conn[c].midjoin} /\ Sharers' = Sharers
  BY <1>4 DEF Sharers
<1>7. [c \in Conns |-> conn'[c].buffered] = [c \in Conns |-> conn[c].buffered]
  BY <1>4
<1>8. Shared' = Shared
  BY <1>6, <1>7 DEF Shared
<1> QED
  BY <1>1, <1>5, <1>6, <1>8 DEF BudgetInv

(* No byte is buffered at first.                                           *)
LEMMA InitBudgets == Init => BudgetInv
PROOF
<1> SUFFICES ASSUME Init PROVE BudgetInv
  OBVIOUS
<1>1. /\ \A c \in Conns : conn[c] = Off
      /\ node = 0 /\ history.turned = {} /\ loaded = [r \in Readers |-> -1]
  BY DEF Init
<1>2. /\ Balanced(Off.streams, Off.buffered) /\ Off.buffered = 0 /\ Off.midjoin = FALSE
      /\ ConnCap \in Nat /\ NodeCap \in Nat
  BY FreshBudgets, H2Assumption
<1>3. {c \in Conns : conn[c].midjoin} = {} /\ Sharers = {} /\ IsFiniteSet({})
  BY <1>1, <1>2, FS_EmptySet DEF Sharers
<1>4. Shared = 0
  <2>1. PICK w : w = [c \in Conns |-> conn[c].buffered]
    OBVIOUS
  <2>2. SumFunctionOnSet(w, {}) = 0
    BY <1>3, SumOfFirst
  <2> QED
    BY <1>3, <2>1, <2>2 DEF Shared
<1>5. ASSUME NEW c \in Conns
      PROVE  Keeps(c)
  <2>1. /\ Balanced(conn[c].streams, conn[c].buffered)
        /\ conn[c].buffered = 0 /\ conn[c].midjoin = FALSE
    BY <1>1, <1>2
  <2>2. Limit(conn[c]) = ConnCap
    BY <2>1 DEF Limit
  <2>3. conn[c].midjoin \in BOOLEAN /\ ~conn[c].midjoin
    BY <2>1
  <2>4. conn[c].buffered <= Limit(conn[c]) /\ ~conn[c].on
    BY <1>1, <1>2, <2>1, <2>2 DEF Off
  <2> QED
    BY <2>1, <2>3, <2>4 DEF Keeps
<1> QED
  <2>1. node \in Nat
    BY <1>1
  <2>2. IsFiniteSet(Sharers)
    BY <1>3
  <2>3. Loads(loaded)
    BY <1>1 DEF Loads
  <2>4. Fits(0, loaded, history.overlapped)
    BY <1>1, H2Assumption DEF Fits, Pending, Readers
  <2> QED
    BY <1>1, <1>4, <1>5, <2>1, <2>2, <2>3, <2>4 DEF BudgetInv

(* A reader that looks at the node's bytes may add what the cap leaves. *)
LEMMA LoadKeepsBudgets ==
    ASSUME Inv, BudgetInv, NEW r \in Readers, Load(r)
    PROVE  BudgetInv'
PROOF
<1>1. /\ loaded[r] = -1 /\ loaded' = [loaded EXCEPT ![r] = node]
      /\ UNCHANGED <<opened, conn, node, history>>
  BY DEF Load, Idle
<1>2. node \in Nat /\ Loads(loaded)
  BY DEF BudgetInv
<1>3. Loads(loaded') /\ loaded'[r] = node /\ \A q \in Readers \ {r} : loaded'[q] = loaded[q]
  BY <1>1, <1>2 DEF Loads
<1>4. ASSUME history.turned = {}
      PROVE  Fits(node, loaded', history.overlapped)
  <2>1. Fits(node, loaded, history.overlapped)
    BY <1>4 DEF BudgetInv
  <2>2. PICK q \in Readers : Readers = {r, q} /\ q # r
    BY DEF Readers
  <2>3. PICK p \in Nat, w \in Nat, e \in Nat :
           /\ p = Pending(node) /\ w = Pending(loaded[q]) /\ e = Pending(loaded[r])
           /\ w <= MidjoinCap /\ (p = 0 \/ node + p <= NodeCap)
    BY <1>2, <2>2, PendingIs DEF Loads
  <2>4. e = 0
    BY <1>1, <2>3 DEF Pending
  <2>5. node + w <= NodeCap + MidjoinCap
    <3>1. PICK a \in Nat, b \in Nat : a = Pending(loaded["ssl"]) /\ b = Pending(loaded["plain"])
      BY <1>2, PendingIs DEF Loads, Readers
    <3>2. node + a + b <= NodeCap + MidjoinCap
      BY <2>1, <3>1 DEF Fits
    <3>3. (w = a /\ e = b) \/ (w = b /\ e = a)
      BY <2>2, <2>3, <3>1 DEF Readers
    <3> QED
      BY <1>2, <2>4, <3>2, <3>3, H2Assumption
  <2>6. node + p + w <= NodeCap + MidjoinCap
    BY <1>2, <2>3, <2>5, H2Assumption
  <2>7. node + Pending(loaded'["ssl"]) + Pending(loaded'["plain"]) <= NodeCap + MidjoinCap
    <3>1. Pending(loaded'[r]) = p /\ Pending(loaded'[q]) = w
      BY <1>3, <2>2, <2>3
    <3>2. \/ Pending(loaded'["ssl"]) = p /\ Pending(loaded'["plain"]) = w
          \/ Pending(loaded'["ssl"]) = w /\ Pending(loaded'["plain"]) = p
      BY <2>2, <3>1 DEF Readers
    <3> QED
      BY <1>2, <2>6, <3>2, H2Assumption
  <2>8. \/ history.overlapped
        \/ node <= NodeCap /\ \A u \in Readers : loaded'[u] = -1 \/ node <= loaded'[u]
    BY <1>2, <1>3, <2>1 DEF Fits
  <2> QED
    BY <2>7, <2>8 DEF Fits
<1> QED
  BY <1>1, <1>2, <1>3, <1>4 DEF BudgetInv, Keeps, Limit, Shared, Sharers

(* So every step keeps the budgets.                                        *)
LEMMA NextBudgets == Inv /\ BudgetInv /\ [Next]_vars => BudgetInv'
PROOF
<1> SUFFICES ASSUME Inv, BudgetInv, [Next]_vars PROVE BudgetInv'
  OBVIOUS
<1>1. CASE UNCHANGED vars
  BY <1>1 DEF vars, BudgetInv, Keeps, Limit, Shared, Sharers
<1>2. ASSUME NEW c \in Conns, Heard(c)
      PROVE  BudgetInv'
  BY <1>2, CaptureKeepsBudgets DEF Heard
<1>3. ASSUME NEW c \in Conns, Close(c)
      PROVE  BudgetInv'
  <2>1. \A d \in Conns \ {c} : opened'[d] = opened[d]
    BY <1>3 DEF Close
  <2> QED
    BY <1>3, <2>1, DroppedKeepsBudgets DEF Close
<1>4. ASSUME NEW c \in Conns, Retire(c)
      PROVE  BudgetInv'
  <2>1. \A d \in Conns \ {c} : opened'[d] = opened[d]
    BY <1>4 DEF Retire
  <2> QED
    BY <1>4, <2>1, DroppedKeepsBudgets DEF Retire
<1> QED
  BY <1>1, <1>2, <1>3, <1>4, NextIs, WaitKeepsBudgets, BeginKeepsBudgets, LoadKeepsBudgets

(* conn.rs: the bytes a connection counts as buffered are those its streams *)
(* hold, after any frames, losses, sweeps and retirements.                 *)
THEOREM WhatIsBufferedIsHeld == Spec => []BufferedIsHeld
PROOF
<1>1. BudgetInv => BufferedIsHeld
  BY DEF BudgetInv, Keeps, Balanced, BufferedIsHeld, Buffers
<1> QED
  BY <1>1, InitInv, NextInv, InitBudgets, NextBudgets, PTL DEF Spec

(* conn.rs: MIDJOIN_NODE_BYTES is what the connections joined in the middle *)
(* buffer, however many there are, until one turns into such a connection  *)
(* with bytes buffered (the finding of NodeBytes).                         *)
THEOREM NodeCountsItsShares == Spec => []NodeIsShared
PROOF
<1>1. BudgetInv => NodeIsShared
  BY DEF BudgetInv, NodeIsShared
<1> QED
  BY <1>1, InitInv, NextInv, InitBudgets, NextBudgets, PTL DEF Spec

(* conn.rs: no connection passes its cap; and all that were joined in the  *)
(* middle do not pass MIDJOIN_NODE_CAP, unless a reader added bytes while  *)
(* the other was at a feed for which it had loaded the counter, and then   *)
(* by one connection's cap at most, however often that happens.            *)
THEOREM NoBudgetIsPassed == Spec => []WithinBudgets
PROOF
<1>1. BudgetInv => WithinBudgets
  <2> SUFFICES ASSUME BudgetInv PROVE WithinBudgets
    OBVIOUS
  <2>1. ASSUME history.turned = {}
        PROVE  Shared <= NodeCap + IF history.overlapped THEN MidjoinCap ELSE 0
    <3>1. node \in Nat /\ node = Shared /\ Loads(loaded) /\ Fits(node, loaded, history.overlapped)
      BY <2>1 DEF BudgetInv
    <3>2. Shared <= NodeCap + MidjoinCap /\ (history.overlapped \/ Shared <= NodeCap)
      BY <3>1, FitsWithin
    <3>3. NodeCap + 0 = NodeCap
      BY H2Assumption
    <3> QED
      BY <3>2, <3>3
  <2>2. \A c \in Conns \ history.turned :
           conn[c].buffered <= IF conn[c].midjoin THEN MidjoinCap ELSE ConnCap
    BY DEF BudgetInv, Keeps, Limit
  <2> QED
    BY <2>1, <2>2 DEF WithinBudgets
<1> QED
  BY <1>1, InitInv, NextInv, InitBudgets, NextBudgets, PTL DEF Spec

(***************************************************************************)
(* Connections seen whole.                                                 *)
(***************************************************************************)
(* The agent has heard all that was said on a connection, or will.         *)
Attended(c) ==
    /\ c \notin history.joined /\ losses = 0 /\ ~conn[c].midjoin
    /\ conn[c].on \/ opened[c] = "no"

InStep(d) == d.lost = FALSE /\ d.scanning = FALSE /\ d.scan = <<>>

(* Stream s has all of a response so far, or gave it up. *)
FollowedBy(s, call) ==
    /\ IsStream(s) /\ s.speculative = FALSE /\ s.got = (call.sent > 0)
    /\ \/ s.reads = "dropped"
       \/ s.reads = Format(call.kind) /\ s.parts = 1 .. call.sent

(* No stream is left of a call that is over, *)
Current(streams, call, i) == i \in DOMAIN streams => call.stage \notin {"none", "over"}

(* and one that runs has a stream until it is counted. *)
Running(streams, counts, call, i) ==
    /\ call.stage = "none" => Total(counts, i) = 0
    /\ call.stage = "sent" /\ call.llm =>
          /\ i \in DOMAIN streams /\ Total(counts, i) = 0 /\ call.sent = 0
          /\ IsStream(streams[i]) /\ streams[i].got = FALSE /\ streams[i].speculative = FALSE
    /\ call.stage = "answered" /\ call.llm =>
          \/ i \in DOMAIN streams /\ Total(counts, i) = 0 /\ FollowedBy(streams[i], call)
          \/ i \notin DOMAIN streams /\ Total(counts, i) = 1
    /\ call.stage = "over" /\ HasUsage(call) => Total(counts, i) = 1

(***************************************************************************)
(* A stream that has all so far,                                           *)
(***************************************************************************)
(* still has it with the response's head, *)
LEMMA HeadFollowed ==
    ASSUME NEW s, IsStream(s), s.speculative = FALSE, NEW call, call.sent \in Nat,
           (s.got = FALSE /\ call.sent = 0) \/ FollowedBy(s, call)
    PROVE  FollowedBy(ResponseHeaders(s, Format(call.kind)), call)
PROOF
<1> DEFINE format == Format(call.kind)
           t == ResponseHeaders(s, format)
<1>1. IsStream(t)
  BY ResponseHeadersHolds
<1>2. DOMAIN s = {"reads", "held", "parts", "got", "speculative", "idle"} /\ s.got \in BOOLEAN
  BY DEF IsStream
<1> HIDE DEF format
<1>3. CASE s.got
  <2>1. t = [s EXCEPT !.idle = FALSE]
    BY <1>3 DEF ResponseHeaders
  <2>2. t.reads = s.reads /\ t.parts = s.parts /\ t.got = s.got /\ t.speculative = s.speculative
    BY <1>2, <2>1
  <2>3. FollowedBy(s, call)
    BY <1>3
  <2> HIDE DEF t
  <2> QED
    BY <1>1, <2>2, <2>3 DEF FollowedBy, t, format
<1>4. CASE ~s.got
  <2>1. t = [s EXCEPT !.idle = FALSE, !.reads = format, !.held = 0, !.parts = {}]
    BY <1>4 DEF ResponseHeaders
  <2>2. t.reads = format /\ t.parts = {} /\ t.got = FALSE /\ t.speculative = FALSE
    BY <1>2, <1>4, <2>1
  <2>3. call.sent = 0
    <3>1. FollowedBy(s, call) => ~(call.sent > 0)
      BY <1>4 DEF FollowedBy
    <3> QED
      BY <3>1
  <2>4. 1 .. call.sent = {} /\ (call.sent > 0) = FALSE
    BY <2>3
  <2> HIDE DEF t
  <2> QED
    BY <1>1, <2>2, <2>3, <2>4 DEF FollowedBy, t, format
<1> QED
  BY <1>2, <1>3, <1>4

(* and with the next part of the body. *)
LEMMA TakeFollowed ==
    ASSUME NEW s, NEW a, NEW b, a.sent \in Nat, b.sent = a.sent + 1, b.kind = a.kind,
           FollowedBy(s, a), NEW room \in Nat
    PROVE  FollowedBy(Take(s, a.sent + 1, room), b)
PROOF
<1> DEFINE part == a.sent + 1
           u == [s EXCEPT !.idle = FALSE, !.got = TRUE]
           t == Take(s, part, room)
<1>1. IsStream(t)
  BY TakeHolds DEF FollowedBy
<1>2. DOMAIN s = {"reads", "held", "parts", "got", "speculative", "idle"}
  BY DEF FollowedBy, IsStream
<1>3. /\ DOMAIN u = DOMAIN s /\ u.reads = s.reads /\ u.parts = s.parts /\ u.got = TRUE
      /\ u.speculative = FALSE /\ u.held = s.held
  BY <1>2 DEF FollowedBy
<1>4. b.sent > 0 /\ Format(b.kind) = Format(a.kind)
  OBVIOUS
<1>5. /\ 1 .. b.sent = (1 .. a.sent) \cup {part}
  OBVIOUS
<1> HIDE DEF u
<1>6. /\ t.speculative = FALSE /\ t.got = TRUE
      /\ \/ t.reads = "dropped"
         \/ s.reads # "dropped" /\ t.reads = s.reads /\ t.parts = s.parts \cup {part}
  <2> HIDE DEF part
  <2>1. t = IF u.reads = "dropped" THEN u
            ELSE IF u.reads = "sse" THEN [u EXCEPT !.parts = @ \cup {part}]
            ELSE IF room < 1 \/ u.held + 1 > StreamCap
                 THEN [u EXCEPT !.reads = "dropped", !.held = 0, !.parts = {}]
            ELSE [u EXCEPT !.held = @ + 1, !.parts = @ \cup {part}]
    BY DEF Take, u
  <2> HIDE DEF t
  <2> QED
    BY <1>2, <1>3, <2>1
<1> HIDE DEF t, part
<1>7. FollowedBy(t, b)
  <2>1. CASE t.reads = "dropped"
    BY <1>1, <1>4, <1>6, <2>1 DEF FollowedBy
  <2>2. CASE s.reads # "dropped" /\ t.reads = s.reads /\ t.parts = s.parts \cup {part}
    <3>1. s.reads = Format(a.kind) /\ s.parts = 1 .. a.sent
      BY <2>2 DEF FollowedBy
    <3>2. t.reads = Format(b.kind) /\ t.parts = 1 .. b.sent
      BY <1>4, <1>5, <2>2, <3>1
    <3> QED
      BY <1>1, <1>4, <1>6, <3>2 DEF FollowedBy
  <2> QED
    BY <1>6, <2>1, <2>2
<1> QED
  BY <1>7 DEF t, part

(* At its end it has the usage or has given up. *)
LEMMA EndFollowed ==
    ASSUME NEW s, NEW call \in Call, FollowedBy(s, call), call.sent = Parts, NEW luck
    PROVE  HasUsage(call) /\ ~Finish(s, call, luck) => s.reads = "dropped"
BY DEF FollowedBy, Finish

(***************************************************************************)
(* What a frame leaves of the other calls.                                 *)
(***************************************************************************)
Untouched(x, y, i) ==
    /\ i \in DOMAIN y.streams <=> i \in DOMAIN x.streams
    /\ i \in DOMAIN x.streams => y.streams[i] = x.streams[i]
    /\ Total(y.exported, i) = Total(x.exported, i)

(* The tables and limits stay as they are. *)
Unmarked(x, y) == IsCtx(y) /\ y.table = x.table /\ y.limited = x.limited

(* Call i is counted or not, but not tracked any more. *)
Gone(x, y, i, n) == i \notin DOMAIN y.streams /\ Total(y.exported, i) = Total(x.exported, i) + n

(* Streams removed, *)
LEMMA UntrackLeavesRest ==
    ASSUME NEW x, IsCtx(x), NEW ids, NEW i \in Ids
    PROVE  LET y == Untrack(x, ids)
           IN  /\ Unmarked(x, y)
               /\ i \notin ids => Untouched(x, y, i)
               /\ i \in ids => Gone(x, y, i, 0)
PROOF
<1> DEFINE y == Untrack(x, ids)
<1>1. /\ DOMAIN y = DOMAIN x /\ y.streams = Without(x.streams, ids)
      /\ y.exported = x.exported /\ y.table = x.table /\ y.limited = x.limited
  BY DEF Untrack, IsCtx
<1>2. IsCtx(y)
  BY UntrackLeaves DEF Leaves
<1>3. /\ DOMAIN y.streams = DOMAIN x.streams \ ids
      /\ \A j \in DOMAIN x.streams \ ids : y.streams[j] = x.streams[j]
  BY <1>1 DEF Without, Restrict
<1>4. Total(x.exported, i) \in Nat
  BY DEF IsCtx, Counts, Total
<1> HIDE DEF y
<1> QED
  BY <1>1, <1>2, <1>3, <1>4 DEF Unmarked, Untouched, Gone, y

(* given up, *)
LEMMA DropStreamsLeavesRest ==
    ASSUME NEW x, IsCtx(x), NEW ids, NEW i \in Ids
    PROVE  LET y == DropStreams(x, ids)
           IN  /\ Unmarked(x, y)
               /\ i \notin ids => Untouched(x, y, i)
               /\ i \in ids => Gone(x, y, i, IF i \in DOMAIN x.streams THEN 1 ELSE 0)
PROOF
<1> DEFINE u == Untrack(x, ids)
           y == DropStreams(x, ids)
<1>1. Unmarked(x, u) /\ (i \notin ids => Untouched(x, u, i)) /\ (i \in ids => Gone(x, u, i, 0))
  BY UntrackLeavesRest
<1>2. y.streams = u.streams /\ y.table = u.table /\ y.limited = u.limited
  BY <1>1 DEF DropStreams, Unmarked, IsCtx
<1>3. Drops(x, y, ids)
  BY DropStreamsDrops
<1>4. Total(x.exported, i) \in Nat
  BY DEF IsCtx, Counts, Total
<1> HIDE DEF y, u
<1>5. /\ IsCtx(y)
      /\ Total(y.exported, i) = Total(x.exported, i) + IF i \in ids \cap DOMAIN x.streams THEN 1 ELSE 0
  BY <1>3 DEF Drops
<1> QED
  BY <1>1, <1>2, <1>4, <1>5 DEF Unmarked, Untouched, Gone, y

(* and swept. *)
LEMMA SweepIdleLeavesRest ==
    ASSUME NEW x, IsCtx(x), NEW i \in Ids
    PROVE  LET y == SweepIdle(x)
           IN  /\ Unmarked(x, y)
               /\ \/ Untouched(x, y, i)
                  \/ i \in DOMAIN x.streams /\ x.streams[i].got /\ Gone(x, y, i, 1)
PROOF
<1> DEFINE ids == Stalled(x)
           u == DropStreams(x, ids)
           y == SweepIdle(x)
<1>1. /\ Unmarked(x, u) /\ (i \notin ids => Untouched(x, u, i))
      /\ i \in ids => Gone(x, u, i, IF i \in DOMAIN x.streams THEN 1 ELSE 0)
  BY DropStreamsLeavesRest
<1>2. i \in ids => i \in DOMAIN x.streams /\ x.streams[i].got
  BY DEF Stalled
<1>3. /\ y.streams = u.streams /\ y.table = u.table /\ y.limited = u.limited
      /\ y.exported = u.exported
  BY <1>1 DEF SweepIdle, Unmarked, IsCtx
<1>4. IsCtx(y)
  BY SweepIdleSweeps
<1> HIDE DEF y, u, ids
<1>5. CASE i \notin ids
  BY <1>1, <1>3, <1>4, <1>5 DEF Unmarked, Untouched, y
<1>6. CASE i \in ids
  BY <1>1, <1>2, <1>3, <1>4, <1>6 DEF Unmarked, Gone, y
<1> QED
  BY <1>5, <1>6

(* The end of a stream counts it if it has usage or gave up. *)
LEMMA StreamEndLeavesRest ==
    ASSUME NEW x, IsCtx(x), NEW f, NEW call, NEW i \in Ids
    PROVE  LET y == StreamEnd(x, f, call)
               s == x.streams[i]
           IN  /\ Unmarked(x, y)
               /\ i # f.id => Untouched(x, y, i)
               /\ i = f.id => /\ i \notin DOMAIN y.streams
                              /\ i \notin DOMAIN x.streams => Gone(x, y, i, 0)
                              /\ /\ i \in DOMAIN x.streams
                                 /\ Finish(s, call, f.luck) \/ s.reads = "dropped"
                                 => Gone(x, y, i, 1)
PROOF
<1> DEFINE id == f.id
           y == StreamEnd(x, f, call)
<1>0. Total(x.exported, i) \in Nat
  BY DEF IsCtx, Counts, Total
<1>1. CASE id \notin DOMAIN x.streams
  <2>1. y = x
    BY <1>1 DEF StreamEnd
  <2> HIDE DEF y
  <2> QED
    BY <1>0, <1>1, <2>1 DEF Unmarked, Untouched, Gone, y
<1>2. CASE id \in DOMAIN x.streams
  <2>0. id \in Ids
    BY <1>2 DEF IsCtx
  <2> DEFINE counted == Finish(x.streams[id], call, f.luck) \/ x.streams[id].reads = "dropped"
  <2>1. PICK u \in {x, Count(x, id, "recorded"), Count(x, id, "unparsed")} :
           y = Untrack(u, {id}) /\ (counted => u \in {Count(x, id, "recorded"), Count(x, id, "unparsed")})
    BY <1>2 DEF StreamEnd
  <2>2. /\ IsCtx(u) /\ u.streams = x.streams /\ u.table = x.table /\ u.limited = x.limited
        /\ i # id => Total(u.exported, i) = Total(x.exported, i)
        /\ counted /\ i = id => Total(u.exported, i) = Total(x.exported, i) + 1
    <3>1. CASE u \in {Count(x, id, "recorded"), Count(x, id, "unparsed")}
      <4>1. PICK what \in {"recorded", "unparsed"} : u = Count(x, id, what)
        BY <3>1
      <4>2. u.table = x.table /\ u.limited = x.limited
        BY <4>1 DEF Count, IsCtx
      <4>3. /\ IsCtx(u) /\ u.streams = x.streams
            /\ \A j \in Ids : Total(u.exported, j) = Total(x.exported, j) + IF j = id THEN 1 ELSE 0
        <5>1. CASE what = "recorded"
          BY <2>0, <4>1, <5>1, CountCounts
        <5>2. CASE what = "unparsed"
          BY <2>0, <4>1, <5>2, CountCounts
        <5> QED
          BY <5>1, <5>2
      <4> HIDE DEF counted, id
      <4> QED
        BY <1>0, <4>2, <4>3
    <3>2. CASE u = x /\ ~counted
      BY <3>2
    <3> QED
      BY <2>1, <3>1, <3>2
  <2> HIDE DEF y, counted
  <2>3. /\ Unmarked(u, y) /\ (i \notin {id} => Untouched(u, y, i)) /\ (i \in {id} => Gone(u, y, i, 0))
    BY <2>1, <2>2, UntrackLeavesRest
  <2>4. Unmarked(x, y) /\ (i # id => Untouched(x, y, i))
    BY <2>2, <2>3 DEF Unmarked, Untouched
  <2>5. i = id => i \notin DOMAIN y.streams /\ (counted => Gone(x, y, i, 1))
    BY <1>0, <2>2, <2>3 DEF Gone
  <2> QED
    BY <1>2, <2>4, <2>5 DEF y, counted
<1> QED
  BY <1>1, <1>2

(* A frame that is over a limit is marked. *)
Marked(x, y) == IsCtx(y) /\ (y.limited = TRUE \/ (y.limited = x.limited /\ y.table = x.table))

(* What leaves streams and counts alone touches no call; *)
LEMMA UntouchedIs ==
    ASSUME NEW x, IsCtx(x), NEW i \in Ids, NEW y, y.streams = x.streams, y.exported = x.exported
    PROVE  Untouched(x, y, i)
BY DEF Untouched

(* and two such steps do not.                             *)
LEMMA UntouchedTwice ==
    ASSUME NEW x, NEW y, NEW z, NEW i, Untouched(x, y, i), Untouched(y, z, i)
    PROVE  Untouched(x, z, i)
BY DEF Untouched

(* The end of a stream touches no other.                 *)
LEMMA EndedLeavesRest ==
    ASSUME NEW x, IsCtx(x), NEW side, NEW f, NEW call, NEW i \in Ids
    PROVE  LET y == Ended(x, side, f, call)
           IN  Unmarked(x, y) /\ (i # f.id => Untouched(x, y, i))
PROOF
<1>1. CASE side = "server" /\ f.end
  <2>1. Ended(x, side, f, call) = StreamEnd(x, f, call)
    BY <1>1 DEF Ended
  <2> QED
    BY <2>1, StreamEndLeavesRest
<1>2. CASE ~(side = "server" /\ f.end)
  <2>1. Ended(x, side, f, call) = x
    BY <1>2 DEF Ended
  <2> QED
    BY <2>1 DEF Unmarked, Untouched
<1> QED
  BY <1>1, <1>2

(* A head or DATA touches its own call only, *)
LEMMA HeadsLeaveRest ==
    ASSUME NEW x, IsCtx(x), NEW f, f.id \in Ids, NEW call, NEW i \in Ids, i # f.id, NEW cap
    PROVE  /\ LET y == RequestHead(x, f, call) IN Marked(x, y) /\ Untouched(x, y, i)
           /\ LET y == ResponseHead(x, f, call) IN Marked(x, y) /\ Untouched(x, y, i)
           /\ LET y == ResponseData(x, f, call, FALSE, cap) IN Marked(x, y) /\ Untouched(x, y, i)
PROOF
<1>1. LET y == RequestHead(x, f, call) IN Marked(x, y) /\ Untouched(x, y, i)
  <2> DEFINE excuse == call.stage # "sent" \/ f.id \in x.swept
             y == RequestHead(x, f, call)
  <2>1. CASE y = x
    BY <2>1 DEF Marked, Untouched
  <2>2. CASE y = [x EXCEPT !.limited = TRUE]
    BY <2>2 DEF Marked, Untouched, IsCtx
  <2>3. CASE y = Reopen(x, f.id, Opened, excuse)
    <3>1. /\ IsCtx(y) /\ y.exported = x.exported /\ y.table = x.table /\ y.limited = x.limited
          /\ y.streams = [j \in DOMAIN x.streams \cup {f.id} |->
                            IF j = f.id THEN Opened ELSE x.streams[j]]
      BY <2>3, ReopenIs
    <3> HIDE DEF y
    <3>2. Marked(x, y) /\ Untouched(x, y, i)
      BY <3>1 DEF Marked, Untouched
    <3> QED
      BY <3>2 DEF y
  <2> QED
    BY <2>1, <2>2, <2>3 DEF RequestHead
<1>2. LET y == ResponseHead(x, f, call) IN Marked(x, y) /\ Untouched(x, y, i)
  <2> DEFINE y == ResponseHead(x, f, call)
  <2>1. y = x \/ \E t : y = [x EXCEPT !.streams[f.id] = t]
    BY DEF ResponseHead
  <2> HIDE DEF y
  <2>2. Marked(x, y) /\ Untouched(x, y, i)
    BY <2>1 DEF Marked, Untouched, IsCtx
  <2> QED
    BY <2>2 DEF y
<1>3. LET y == ResponseData(x, f, call, FALSE, cap) IN Marked(x, y) /\ Untouched(x, y, i)
  <2> DEFINE y == ResponseData(x, f, call, FALSE, cap)
  <2>1. y = x \/ \E t, n : y = [x EXCEPT !.streams[f.id] = t, !.buffered = n]
    BY DEF ResponseData
  <2> HIDE DEF y
  <2>2. Marked(x, y) /\ Untouched(x, y, i)
    BY <2>1 DEF Marked, Untouched, IsCtx
  <2> QED
    BY <2>2 DEF y
<1> QED
  BY <1>1, <1>2, <1>3

(* and so it does when it ends the stream. *)
LEMMA ThenEnded ==
    ASSUME NEW x, NEW z, NEW side, NEW f, NEW call, NEW i \in Ids, i # f.id,
           Marked(x, z), Untouched(x, z, i), NEW y, y = Ended(z, side, f, call)
    PROVE  Marked(x, y) /\ Untouched(x, y, i)
PROOF
<1>1. Unmarked(z, y) /\ Untouched(z, y, i)
  BY EndedLeavesRest DEF Marked
<1> QED
  BY <1>1, UntouchedTwice DEF Marked, Unmarked

(* No frame touches a call it is not about, but a GOAWAY. *)
LEMMA OnFrameLeavesRest ==
    ASSUME NEW x, IsCtx(x), NEW side \in {"client", "server"}, NEW f \in ServerFrame,
           NEW cs, NEW cap, NEW i \in Ids, i # f.id \/ f.type = "goaway",
           f.type = "goaway" => ~(i > f.id),
           NEW y, y = OnFrame(x, side, f, cs, FALSE, cap)
    PROVE  Marked(x, y) /\ Untouched(x, y, i)
PROOF
<1> DEFINE call == IF f.id = 0 \/ f.type = "goaway" THEN NewCall ELSE cs[f.id]
<1>0. f.type \in {"head", "huge", "data", "end", "reset", "goaway", "other"}
  BY DEF ServerFrame, Frame
<1>00. f.type \in {"head", "data"} => f.id \in Ids
  BY DEF ServerFrame
<1> HIDE DEF call
<1>2. CASE f.type = "head" /\ side = "client"
  <2>1. y = RequestHead(x, f, call)
    BY <1>2 DEF OnFrame, call
  <2> QED
    BY <1>00, <1>2, <2>1, HeadsLeaveRest
<1>3. CASE f.type = "head" /\ side = "server"
  <2>1. PICK z : z = ResponseHead(x, f, call)
    OBVIOUS
  <2>2. y = Ended(z, side, f, call)
    BY <1>3, <2>1 DEF OnFrame, call
  <2>3. Marked(x, z) /\ Untouched(x, z, i)
    BY <1>00, <1>3, <2>1, HeadsLeaveRest
  <2> QED
    BY <1>3, <2>2, <2>3, ThenEnded
<1>4. CASE f.type = "huge"
  <2>1. PICK u : u = [x EXCEPT !.table = "forgotten", !.limited = TRUE]
    OBVIOUS
  <2>2. PICK z : z = Untrack(u, {f.id})
    OBVIOUS
  <2>3. y = Ended(z, side, f, call)
    BY <1>4, <2>1, <2>2 DEF OnFrame, call, HeadersTooLarge
  <2>4. IsCtx(u) /\ u.streams = x.streams /\ u.exported = x.exported /\ u.limited = TRUE
    BY <2>1 DEF IsCtx
  <2>5. Untouched(x, u, i)
    BY <2>4, UntouchedIs
  <2>6. Unmarked(u, z) /\ Untouched(u, z, i)
    BY <1>4, <2>2, <2>4, UntrackLeavesRest
  <2>7. Marked(x, z) /\ Untouched(x, z, i)
    BY <2>4, <2>5, <2>6, UntouchedTwice DEF Marked, Unmarked
  <2> QED
    BY <1>4, <2>3, <2>7, ThenEnded
<1>5. CASE f.type = "data"
  <2>1. PICK z : z = ResponseData(x, f, call, FALSE, cap)
    OBVIOUS
  <2>2. y = Ended(z, side, f, call)
    BY <1>5, <2>1 DEF OnFrame, call
  <2>3. Marked(x, z) /\ Untouched(x, z, i)
    BY <1>00, <1>5, <2>1, HeadsLeaveRest
  <2> QED
    BY <1>5, <2>2, <2>3, ThenEnded
<1>6. CASE f.type = "end"
  <2>1. y = Ended(x, side, f, call)
    BY <1>6 DEF OnFrame, call
  <2>2. Marked(x, x) /\ Untouched(x, x, i)
    BY DEF Marked, Untouched
  <2> QED
    BY <1>6, <2>1, <2>2, ThenEnded
<1>7. CASE f.type \in {"reset", "goaway"}
  <2>1. PICK ids : ids = IF f.type = "reset" THEN {f.id} ELSE {id \in DOMAIN x.streams : id > f.id}
    OBVIOUS
  <2>2. y = DropStreams(x, ids) /\ i \notin ids
    BY <1>7, <2>1 DEF OnFrame
  <2>3. Unmarked(x, y) /\ Untouched(x, y, i)
    BY <2>2, DropStreamsLeavesRest
  <2> QED
    BY <2>3 DEF Marked, Unmarked
<1>8. CASE f.type = "other"
  <2>1. y = x
    BY <1>8 DEF OnFrame
  <2> QED
    BY <2>1 DEF Marked, Untouched
<1> QED
  BY <1>0, <1>2, <1>3, <1>4, <1>5, <1>6, <1>7, <1>8

(***************************************************************************)
(* One frame of a connection seen whole, and what its call becomes.        *)
(***************************************************************************)
(* A context has what is so far of call i, unless a limit was in the way. *)
Tracks(x, call, i, marked) ==
    /\ Current(x.streams, call, i)
    /\ ~marked /\ ~x.limited => x.table = "whole" /\ Running(x.streams, x.exported, call, i)

(* What leaves a call alone keeps what is known of it. *)
LEMMA UntouchedTracks ==
    ASSUME NEW x, NEW y, NEW call, NEW i \in Ids, NEW marked, Tracks(x, call, i, marked),
           Marked(x, y), Untouched(x, y, i)
    PROVE  Tracks(y, call, i, marked)
PROOF
<1>1. Current(y.streams, call, i)
  BY DEF Tracks, Untouched, Current
<1>2. ASSUME ~marked, ~y.limited
      PROVE  y.table = "whole" /\ Running(y.streams, y.exported, call, i)
  <2>1. y.table = x.table /\ x.table = "whole" /\ Running(x.streams, x.exported, call, i)
    BY <1>2 DEF Marked, Tracks
  <2> QED
    BY <2>1 DEF Untouched, Running
<1> QED
  BY <1>1, <1>2 DEF Tracks

(* A stream that is untracked, counted n times, of a call that b becomes. *)
LEMMA GoneTracks ==
    ASSUME NEW x, NEW y, NEW call, NEW i \in Ids, NEW marked, NEW n \in Nat,
           Marked(x, y), IsCtx(x), Gone(x, y, i, n),
           ~marked /\ ~x.limited => x.table = "whole",
           ~marked /\ ~y.limited =>
              /\ call.stage = "none" => Total(x.exported, i) + n = 0
              /\ call.stage = "sent" => ~call.llm
              /\ call.stage = "answered" /\ call.llm => Total(x.exported, i) + n = 1
              /\ call.stage = "over" /\ HasUsage(call) => Total(x.exported, i) + n = 1
    PROVE  Tracks(y, call, i, marked)
BY DEF Tracks, Gone, Current, Running, Marked

(* The sweep takes streams of responses only. *)
LEMMA SweepTracks ==
    ASSUME NEW x, IsCtx(x), NEW call \in Call, NEW i \in Ids, NEW marked, Tracks(x, call, i, marked),
           NEW y, y = SweepIdle(x)
    PROVE  Tracks(y, call, i, marked)
PROOF
<1>1. /\ Unmarked(x, y)
      /\ \/ Untouched(x, y, i)
         \/ i \in DOMAIN x.streams /\ x.streams[i].got /\ Gone(x, y, i, 1)
  BY SweepIdleLeavesRest
<1>2. Marked(x, y) /\ y.limited = x.limited
  BY <1>1 DEF Marked, Unmarked
<1>3. CASE Untouched(x, y, i)
  BY <1>2, <1>3, UntouchedTracks
<1>4. CASE i \in DOMAIN x.streams /\ x.streams[i].got /\ Gone(x, y, i, 1)
  <2>1. call.stage \notin {"none", "over"}
    BY <1>4 DEF Tracks, Current
  <2>2. ~marked /\ ~x.limited => x.table = "whole" /\ Running(x.streams, x.exported, call, i)
    BY DEF Tracks
  <2>3. ASSUME ~marked, ~y.limited
        PROVE  /\ call.stage = "sent" => ~call.llm
               /\ call.stage = "answered" /\ call.llm => Total(x.exported, i) + 1 = 1
    <3>1. Running(x.streams, x.exported, call, i)
      BY <1>2, <2>2, <2>3
    <3>2. call.llm \in BOOLEAN
      BY DEF Call
    <3>3. call.stage = "sent" => ~call.llm
      BY <1>4, <3>1 DEF Running
    <3>4. call.stage = "answered" /\ call.llm => Total(x.exported, i) = 0
      BY <1>4, <3>1 DEF Running
    <3> QED
      BY <3>3, <3>4
  <2> QED
    BY <1>2, <1>4, <2>1, <2>2, <2>3, GoneTracks
<1> QED
  BY <1>1, <1>3, <1>4

(* A call that is given up has no more to say. *)
LEMMA GivenUpTracks ==
    ASSUME NEW x, IsCtx(x), NEW side \in {"client", "server"}, NEW f \in ServerFrame,
           NEW cs, NEW cap, NEW a, NEW b, NEW i \in Ids, NEW marked, Tracks(x, a, i, marked),
           GivenUp(b, f), NEW y, y = OnFrame(x, side, f, cs, FALSE, cap)
    PROVE  Tracks(y, b, i, marked)
PROOF
<1>1. Unmarked(x, y)
  <2>1. CASE f.type \in {"reset", "goaway"}
    <3>1. PICK ids : ids = IF f.type = "reset" THEN {f.id} ELSE {id \in DOMAIN x.streams : id > f.id}
      OBVIOUS
    <3>2. y = DropStreams(x, ids)
      BY <2>1, <3>1 DEF OnFrame
    <3> QED
      BY <3>2, DropStreamsLeavesRest
  <2>2. CASE f.type = "other"
    <3>1. y = x
      BY <2>2 DEF OnFrame
    <3> QED
      BY <3>1 DEF Unmarked
  <2> QED
    BY <2>1, <2>2 DEF GivenUp
<1> QED
  BY <1>1 DEF Unmarked, Tracks, GivenUp, Current, Running

(* A frame that says nothing of a call keeps what is known of it. *)
LEMMA SilentTracks ==
    ASSUME NEW x, IsCtx(x), NEW side \in {"client", "server"}, NEW f \in ServerFrame,
           NEW cs, NEW cap, NEW a \in Call, NEW b, NEW i \in Ids, NEW marked, Tracks(x, a, i, marked),
           Silent(a, b, f, i), NEW y, y = OnFrame(x, side, f, cs, FALSE, cap)
    PROVE  Tracks(y, b, i, marked)
PROOF
<1>1. b = a /\ (i # f.id \/ f.type = "goaway")
  BY DEF Silent
<1>2. CASE ~(f.type = "goaway" /\ i > f.id)
  <2>1. Marked(x, y) /\ Untouched(x, y, i)
    BY <1>1, <1>2, OnFrameLeavesRest
  <2> QED
    BY <1>1, <2>1, UntouchedTracks
<1>3. CASE f.type = "goaway" /\ i > f.id
  <2>1. PICK ids : ids = {id \in DOMAIN x.streams : id > f.id}
    OBVIOUS
  <2>2. y = DropStreams(x, ids)
    BY <1>3, <2>1 DEF OnFrame
  <2>3. /\ Unmarked(x, y)
        /\ i \notin ids => Untouched(x, y, i)
        /\ i \in ids => Gone(x, y, i, IF i \in DOMAIN x.streams THEN 1 ELSE 0)
    BY <2>2, DropStreamsLeavesRest
  <2>4. Marked(x, y)
    BY <2>3 DEF Marked, Unmarked
  <2>5. CASE i \notin ids
    BY <1>1, <2>3, <2>4, <2>5, UntouchedTracks
  <2>6. CASE i \in ids
    <3>1. i \in DOMAIN x.streams /\ a.stage \notin {"none", "sent", "answered", "over"}
      BY <1>3, <2>1, <2>6 DEF Tracks, Current, Silent
    <3>2. Gone(x, y, i, 1) /\ (~marked /\ ~x.limited => x.table = "whole")
      BY <2>3, <2>6, <3>1 DEF Tracks
    <3> QED
      BY <1>1, <2>4, <3>1, <3>2, GoneTracks
  <2> QED
    BY <2>5, <2>6
<1> QED
  BY <1>2, <1>3

(* A call that is being answered is followed by a stream, or counted. *)
Kept(z, call, i) ==
    \/ i \in DOMAIN z.streams /\ Total(z.exported, i) = 0 /\ FollowedBy(z.streams[i], call)
    \/ i \notin DOMAIN z.streams /\ Total(z.exported, i) = 1

(* That is so of an LLM call whose response has begun. *)
LEMMA RunningKeeps ==
    ASSUME NEW x, NEW a, NEW i, Running(x.streams, x.exported, a, i), a.stage = "answered", a.llm
    PROVE  Kept(x, a, i)
BY DEF Running, Kept

(* Its last frame counts it, if it was not counted. *)
LEMMA LastTracks ==
    ASSUME NEW z, IsCtx(z), NEW f, NEW b \in Call, NEW i \in Ids, NEW marked, f.id = i,
           \/ ~f.end /\ b.stage = "answered"
           \/ f.end /\ b.stage = "over" /\ b.sent = Parts,
           ~marked /\ ~z.limited => z.table = "whole" /\ (b.llm => Kept(z, b, i)),
           NEW y, y = Ended(z, "server", f, b)
    PROVE  Tracks(y, b, i, marked)
PROOF
<1>1. CASE ~f.end /\ b.stage = "answered"
  <2>1. y = z
    BY <1>1 DEF Ended
  <2>2. b.llm /\ Kept(z, b, i) => Running(z.streams, z.exported, b, i)
    BY <1>1 DEF Running, Kept
  <2>3. ~b.llm => Running(z.streams, z.exported, b, i)
    BY <1>1 DEF Running
  <2>4. Current(z.streams, b, i)
    BY <1>1 DEF Current
  <2> QED
    BY <2>1, <2>2, <2>3, <2>4 DEF Tracks
<1>2. CASE f.end /\ b.stage = "over" /\ b.sent = Parts
  <2>1. y = StreamEnd(z, f, b)
    BY <1>2 DEF Ended
  <2>2. PICK s : s = z.streams[i]
    OBVIOUS
  <2>3. /\ Unmarked(z, y) /\ i \notin DOMAIN y.streams
        /\ i \notin DOMAIN z.streams => Gone(z, y, i, 0)
        /\ i \in DOMAIN z.streams /\ (Finish(s, b, f.luck) \/ s.reads = "dropped") => Gone(z, y, i, 1)
    BY <2>1, <2>2, StreamEndLeavesRest
  <2>4. ASSUME ~marked, ~y.limited, HasUsage(b)
        PROVE  Total(y.exported, i) = 1
    <3>1. Kept(z, b, i)
      <4>1. ~z.limited
        BY <2>3, <2>4 DEF Unmarked
      <4>2. b.llm
        BY <2>4 DEF HasUsage
      <4> QED
        BY <2>4, <4>1, <4>2
    <3>2. CASE i \in DOMAIN z.streams /\ Total(z.exported, i) = 0 /\ FollowedBy(s, b)
      <4>1. Finish(s, b, f.luck) \/ s.reads = "dropped"
        BY <1>2, <2>4, <3>2, EndFollowed
      <4> QED
        BY <2>3, <3>2, <4>1 DEF Gone
    <3>3. CASE i \notin DOMAIN z.streams /\ Total(z.exported, i) = 1
      BY <2>3, <3>3 DEF Gone
    <3> QED
      BY <2>2, <3>1, <3>2, <3>3 DEF Kept
  <2>5. ~marked /\ ~y.limited => y.table = "whole"
    BY <2>3 DEF Unmarked
  <2>6. Current(y.streams, b, i)
    BY <2>3 DEF Current
  <2>7. (HasUsage(b) => Total(y.exported, i) = 1) => Running(y.streams, y.exported, b, i)
    BY <1>2 DEF Running
  <2> QED
    BY <2>4, <2>5, <2>6, <2>7 DEF Tracks
<1> QED
  BY <1>1, <1>2

(* A request's head opens a stream, if it is an LLM call's. *)
LEMMA AskedTracks ==
    ASSUME NEW x, IsCtx(x), NEW f \in ServerFrame, NEW cs, NEW cap, NEW a, NEW b \in Call,
           NEW i \in Ids, b = cs[i], NEW marked, Tracks(x, a, i, marked),
           Asked(a, b, "client", f, i), NEW y, y = OnFrame(x, "client", f, cs, FALSE, cap)
    PROVE  Tracks(y, b, i, marked)
PROOF
<1>1. /\ f.type \in {"head", "huge"} /\ f.id = i /\ i # 0
      /\ a.stage = "none" /\ b.stage = "sent" /\ b.sent = 0
  BY H2Assumption DEF Asked
<1>2. Current(y.streams, b, i)
  BY <1>1 DEF Current
<1>3. CASE f.type = "head"
  <2>1. y = RequestHead(x, f, b)
    BY <1>1, <1>3 DEF OnFrame
  <2>2. PICK fresh : /\ fresh = Reopen(x, i, Opened, b.stage # "sent" \/ f.id \in x.swept)
                       /\ fresh.limited = x.limited
                       /\ fresh.exported = x.exported /\ fresh.table = x.table
                       /\ fresh.streams = [j \in DOMAIN x.streams \cup {i} |->
                                               IF j = i THEN Opened ELSE x.streams[j]]
    BY ReopenIs
  <2>3. ~y.limited => ~x.limited
    <3>1. y = x \/ y = [x EXCEPT !.limited = TRUE] \/ y = fresh
      BY <1>1, <2>1, <2>2 DEF RequestHead
    <3>2. CASE y = [x EXCEPT !.limited = TRUE]
      BY <3>2 DEF IsCtx
    <3> QED
      BY <2>2, <3>1, <3>2
  <2>4. ASSUME ~marked, ~y.limited
        PROVE  y.table = "whole" /\ Running(y.streams, y.exported, b, i)
    <3>1. /\ x.table = "whole" /\ i \notin DOMAIN x.streams /\ Total(x.exported, i) = 0
      BY <1>1, <2>3, <2>4 DEF Tracks, Current, Running
    <3>2. Matches(x.table, b, f.luck) = b.llm
      BY <3>1 DEF Matches
    <3>3. CASE ~b.llm
      <4>1. y = x
        BY <2>1, <3>2, <3>3 DEF RequestHead
      <4> QED
        BY <1>1, <3>1, <3>3, <4>1 DEF Running
    <3>4. CASE b.llm
      <4>3. y = fresh
        <5>1. ~Full(x)
          <6> SUFFICES ASSUME Full(x) PROVE FALSE
            OBVIOUS
          <6>1. y = [x EXCEPT !.limited = TRUE]
            BY <1>1, <2>1, <3>1, <3>2, <3>4 DEF RequestHead
          <6> QED
            BY <2>4, <6>1 DEF IsCtx
        <5> QED
          BY <1>1, <2>1, <2>2, <3>1, <3>2, <3>4, <5>1 DEF RequestHead
      <4>5. i \in DOMAIN y.streams /\ y.streams[i] = Opened
        BY <2>2, <4>3
      <4>6. IsStream(Opened) /\ Opened.got = FALSE /\ Opened.speculative = FALSE
        BY DEF IsStream, Opened
      <4>7. /\ b.stage = "sent" /\ b.sent = 0
            /\ Total(y.exported, i) = 0 /\ y.table = "whole"
        <5>1. y.exported = x.exported /\ y.table = x.table
          BY <2>2, <4>3
        <5> QED
          BY <1>1, <3>1, <5>1
      <4>8. Running(y.streams, y.exported, b, i)
        BY <4>5, <4>6, <4>7 DEF Running
      <4> QED
        BY <4>7, <4>8
    <3> QED
      BY <3>3, <3>4
  <2> QED
    BY <1>2, <2>4 DEF Tracks
<1>4. CASE f.type = "huge"
  <2>1. y = HeadersTooLarge(x, f)
    BY <1>1, <1>4 DEF OnFrame, Ended
  <2>2. PICK u : u = [x EXCEPT !.table = "forgotten", !.limited = TRUE]
    OBVIOUS
  <2>3. IsCtx(u) /\ u.limited = TRUE /\ y = Untrack(u, {i})
    BY <1>1, <2>1, <2>2 DEF IsCtx, HeadersTooLarge
  <2>4. y.limited = TRUE
    BY <2>3, UntrackLeavesRest DEF Unmarked
  <2> QED
    BY <1>2, <2>4 DEF Tracks
<1> QED
  BY <1>1, <1>3, <1>4

(* A response's head tells its format, and trailers end it. *)
LEMMA AnsweredTracks ==
    ASSUME NEW x, IsCtx(x), NEW f \in ServerFrame, NEW cs, NEW cap, NEW a \in Call, NEW b \in Call,
           NEW i \in Ids, b = cs[i], NEW marked, Tracks(x, a, i, marked),
           \A j \in DOMAIN x.streams : IsStream(x.streams[j]),
           Answered(a, b, "server", f, i), NEW y, y = OnFrame(x, "server", f, cs, FALSE, cap)
    PROVE  Tracks(y, b, i, marked)
PROOF
<1>1. /\ f.type \in {"head", "huge"} /\ f.id = i /\ i # 0
      /\ b.llm = a.llm /\ b.kind = a.kind /\ b.sent = a.sent /\ b.sent \in Nat
      /\ \/ ~f.end /\ a.stage = "sent" /\ b.stage = "answered"
         \/ f.end /\ a.stage = "answered" /\ b.stage = "over" /\ b.sent = Parts
  BY H2Assumption DEF Answered, Alike, Call
<1>2. CASE f.type = "head"
  <2>1. PICK z : z = ResponseHead(x, f, b)
    OBVIOUS
  <2>2. y = Ended(z, "server", f, b)
    BY <1>1, <1>2, <2>1 DEF OnFrame
  <2>3. z = x \/ \E t : z = [x EXCEPT !.streams[f.id] = t]
    BY <2>1 DEF ResponseHead
  <2>4. IsCtx(z) /\ z.limited = x.limited /\ z.table = x.table /\ z.exported = x.exported
    BY <2>3 DEF IsCtx
  <2>5. ASSUME ~marked, ~z.limited, b.llm
        PROVE  Kept(z, b, i)
    <3>1. x.table = "whole" /\ Running(x.streams, x.exported, a, i) /\ a.llm
      BY <1>1, <2>4, <2>5 DEF Tracks
    <3>2. CASE i \notin DOMAIN x.streams
      <4>1. z = x
        BY <1>1, <2>1, <3>2 DEF ResponseHead
      <4>2. a.stage = "answered"
        BY <1>1, <3>1, <3>2 DEF Running
      <4> QED
        BY <3>1, <3>2, <4>1, <4>2 DEF Running, Kept
    <3>3. CASE i \in DOMAIN x.streams
      <4>1. PICK s : s = x.streams[i]
        OBVIOUS
      <4>2. /\ IsStream(s) /\ s.speculative = FALSE /\ Total(x.exported, i) = 0
            /\ (s.got = FALSE /\ b.sent = 0) \/ FollowedBy(s, b)
        <5>1. CASE a.stage = "sent"
          BY <1>1, <3>1, <4>1, <5>1 DEF Running
        <5>2. CASE a.stage = "answered"
          <6>1. Total(x.exported, i) = 0 /\ FollowedBy(s, a)
            BY <3>1, <3>3, <4>1, <5>2 DEF Running
          <6> QED
            BY <1>1, <6>1 DEF FollowedBy
        <5> QED
          BY <1>1, <5>1, <5>2
      <4>3. FollowedBy(ResponseHeaders(s, Format(b.kind)), b)
        BY <1>1, <4>2, HeadFollowed
      <4>4. z = [x EXCEPT !.streams[i] = ResponseHeaders(s, Format(b.kind))]
        BY <1>1, <2>1, <3>1, <3>3, <4>1 DEF ResponseHead
      <4>5. i \in DOMAIN z.streams /\ z.streams[i] = ResponseHeaders(s, Format(b.kind))
        BY <3>3, <4>4 DEF IsCtx
      <4> QED
        BY <2>4, <4>2, <4>3, <4>5 DEF Kept
    <3> QED
      BY <3>2, <3>3
  <2>6. ~marked /\ ~z.limited => z.table = "whole"
    BY <2>4 DEF Tracks
  <2> QED
    BY <1>1, <2>2, <2>4, <2>5, <2>6, LastTracks
<1>3. CASE f.type = "huge"
  <2>1. PICK u : u = [x EXCEPT !.table = "forgotten", !.limited = TRUE]
    OBVIOUS
  <2>2. PICK z : z = Untrack(u, {i})
    OBVIOUS
  <2>3. y = Ended(z, "server", f, b)
    BY <1>1, <1>3, <2>1, <2>2 DEF OnFrame, HeadersTooLarge
  <2>4. IsCtx(u) /\ u.limited = TRUE
    BY <2>1 DEF IsCtx
  <2>5. IsCtx(z) /\ z.limited = TRUE
    BY <2>2, <2>4, UntrackLeavesRest DEF Unmarked
  <2> QED
    BY <1>1, <2>3, <2>5, LastTracks
<1> QED
  BY <1>1, <1>2, <1>3

(* The next part of a body is taken. *)
LEMMA SentTracks ==
    ASSUME NEW x, IsCtx(x), NEW f \in ServerFrame, NEW cs, NEW cap \in Int, NEW a \in Call, NEW b \in Call,
           NEW i \in Ids, b = cs[i], NEW marked, Tracks(x, a, i, marked), x.buffered \in Int,
           Sent(a, b, "server", f, i), NEW y, y = OnFrame(x, "server", f, cs, FALSE, cap)
    PROVE  Tracks(y, b, i, marked)
PROOF
<1>1. /\ f.type = "data" /\ f.id = i /\ i # 0
      /\ b.llm = a.llm /\ b.kind = a.kind /\ b.sent = a.sent + 1 /\ a.sent \in Nat /\ f.part = a.sent + 1
      /\ a.stage = "answered"
      /\ \/ ~f.end /\ b.stage = "answered"
         \/ f.end /\ b.stage = "over" /\ b.sent = Parts
  BY H2Assumption DEF Sent, Alike, Call
<1>2. PICK z : z = ResponseData(x, f, b, FALSE, cap)
  OBVIOUS
<1>3. y = Ended(z, "server", f, b)
  BY <1>1, <1>2 DEF OnFrame
<1>4. z = x \/ \E t, n : z = [x EXCEPT !.streams[f.id] = t, !.buffered = n]
  BY <1>2 DEF ResponseData
<1>5. IsCtx(z) /\ z.limited = x.limited /\ z.table = x.table /\ z.exported = x.exported
  BY <1>4 DEF IsCtx
<1>6. ASSUME ~marked, ~z.limited, b.llm
      PROVE  Kept(z, b, i)
  <2>1. x.table = "whole" /\ Kept(x, a, i)
    BY <1>1, <1>5, <1>6, RunningKeeps DEF Tracks
  <2>2. CASE i \notin DOMAIN x.streams
    <3>1. z = x
      BY <1>1, <1>2, <2>2 DEF ResponseData
    <3> QED
      BY <2>1, <2>2, <3>1 DEF Kept
  <2>3. CASE i \in DOMAIN x.streams
    <3>1. PICK s : s = x.streams[i]
      OBVIOUS
    <3>2. PICK room : room = Saturating(cap - x.buffered)
      OBVIOUS
    <3>3. room \in Nat
      BY <3>2 DEF Saturating
    <3>4. PICK t : t = Take(s, a.sent + 1, room)
      OBVIOUS
    <3>5. z = [x EXCEPT !.streams[i] = t, !.buffered = x.buffered + Held(t) - Held(s)]
      BY <1>1, <1>2, <2>3, <3>1, <3>2, <3>4 DEF ResponseData
    <3>6. i \in DOMAIN z.streams /\ z.streams[i] = t
      BY <2>3, <3>5 DEF IsCtx
    <3>7. Total(x.exported, i) = 0 /\ FollowedBy(s, a)
      BY <2>1, <2>3, <3>1 DEF Kept
    <3>8. FollowedBy(t, b)
      BY <1>1, <3>3, <3>4, <3>7, TakeFollowed
    <3> QED
      BY <1>5, <3>6, <3>7, <3>8 DEF Kept
  <2> QED
    BY <2>2, <2>3
<1>7. ~marked /\ ~z.limited => z.table = "whole"
  BY <1>5 DEF Tracks
<1> QED
  BY <1>1, <1>3, <1>5, <1>6, <1>7, LastTracks

(* So a frame keeps what is known of every call. *)
LEMMA TurnTracks ==
    ASSUME NEW x, Within(x), NEW side \in {"client", "server"}, NEW f \in ServerFrame,
           NEW cs, NEW cap \in Int, NEW a, NEW i \in Ids, NEW marked, Tracks(x, a, i, marked),
           Turn(a, cs[i], side, f, i), NEW y, y = OnFrame(x, side, f, cs, FALSE, cap)
    PROVE  Tracks(y, cs[i], i, marked)
PROOF
<1>0. PICK b : b = cs[i]
  OBVIOUS
<1>1. /\ IsCtx(x) /\ \A j \in DOMAIN x.streams : IsStream(x.streams[j])
      /\ a \in Call /\ b \in Call
  BY <1>0 DEF Within, Balanced, Turn
<1>2. x.buffered \in Int
  <2>1. Balanced(x.streams, x.buffered)
    BY DEF Within
  <2>2. x.buffered \in Nat
    BY <2>1, HeldSplits
  <2> QED
    BY <2>2
<1>3. CASE Silent(a, b, f, i)
  BY <1>0, <1>1, <1>3, SilentTracks
<1>4. CASE GivenUp(b, f)
  BY <1>0, <1>1, <1>4, GivenUpTracks
<1>5. CASE Asked(a, b, side, f, i)
  <2>1. side = "client"
    BY <1>5 DEF Asked
  <2>2. Asked(a, b, "client", f, i) /\ y = OnFrame(x, "client", f, cs, FALSE, cap)
    BY <1>5, <2>1
  <2> QED
    BY <1>0, <1>1, <2>2, AskedTracks
<1>6. CASE Answered(a, b, side, f, i)
  <2>1. side = "server"
    BY <1>6 DEF Answered
  <2>2. Answered(a, b, "server", f, i) /\ y = OnFrame(x, "server", f, cs, FALSE, cap)
    BY <1>6, <2>1
  <2> QED
    BY <1>0, <1>1, <2>2, AnsweredTracks
<1>7. CASE Sent(a, b, side, f, i)
  <2>1. side = "server"
    BY <1>7 DEF Sent
  <2>2. Sent(a, b, "server", f, i) /\ y = OnFrame(x, "server", f, cs, FALSE, cap)
    BY <1>7, <2>1
  <2> QED
    BY <1>0, <1>1, <1>2, <2>2, SentTracks
<1> QED
  BY <1>0, <1>3, <1>4, <1>5, <1>6, <1>7 DEF Turn

(***************************************************************************)
(* All frames of a connection seen whole.                                  *)
(***************************************************************************)
(* What is known of a connection seen whole, its counts and its calls.     *)
Tracked(k, counts, cs, marked) ==
    /\ InStep(k.client) /\ InStep(k.server)
    /\ \A i \in Ids :
          /\ Current(k.streams, cs[i], i)
          /\ ~marked => /\ k.client.table = "whole" /\ k.server.table = "whole"
                        /\ Running(k.streams, counts, cs[i], i)

WholeInv ==
    /\ losses \in Nat
    /\ \A c \in Conns :
          Attended(c) => Tracked(conn[c], exported[c], calls[c], c \in history.limited)

(* Feeding k leads to a context x that has all so far. *)
Knows(c, k, side, cs, marked, x, dir) ==
    /\ InStep(dir) /\ dir.table = x.table /\ IsCtx(x)
    /\ conn' = [conn EXCEPT ![c] = Fed(k, side, FALSE, x, dir)]
    /\ exported' = [exported EXCEPT ![c] = x.exported]
    /\ history'.limited = history.limited \cup IF x.limited THEN {c} ELSE {}
    /\ \A i \in Ids : Tracks(x, cs[i], i, marked)

(* A fact about a set is true or false. *)
LEMMA Truth ==
    ASSUME NEW S, NEW e
    PROVE  \E b \in BOOLEAN : b <=> e \in S
PROOF
<1>1. CASE e \in S
  <2> WITNESS TRUE \in BOOLEAN
  <2> QED
    BY <1>1
<1>2. CASE e \notin S
  <2> WITNESS FALSE \in BOOLEAN
  <2> QED
    BY <1>2
<1> QED
  BY <1>1, <1>2

(* A frame is read at once, by streams that have all so far. *)
LEMMA FeedIsTracked ==
    ASSUME TablesOK, NEW c \in Conns, NEW k, IsConn(k), NEW counts \in Counts, counts = exported[c],
           Balanced(k.streams, k.buffered), k.midjoin = FALSE, NEW marked,
           NEW side \in {"client", "server"}, NEW f \in ServerFrame, Feed(c, k, side, f, "none"),
           NEW as, NEW cs, cs = calls'[c], Tracked(k, counts, as, marked),
           \A i \in Ids : Turn(as[i], cs[i], side, f, i)
    PROVE  \E x, dir : Knows(c, k, side, cs, marked, x, dir)
PROOF
<1>1. PICK d : d = k[side]
  OBVIOUS
<1>2. InStep(d) /\ k[side] = d
  BY <1>1 DEF Tracked
<1>3. k[side].lost = FALSE /\ d.lost = FALSE /\ d.scanning = FALSE /\ d.scan = <<>>
  BY <1>2 DEF InStep
<1>4. PICK before : before = [streams |-> k.streams, buffered |-> k.buffered, table |-> d.table,
                              exported |-> counts, limited |-> FALSE,
                              swept |-> {i \in Ids : <<c, i>> \in history.swept}, strays |-> {}]
  OBVIOUS
<1>5. PICK scan : scan = <<f>>
  OBVIOUS
<1>6. PICK after : after = Reads(before, side, scan, cs, FALSE, ConnCap)
  OBVIOUS
<1>7. PICK x : x = SweepIdle(after)
  OBVIOUS
<1>8. PICK dir : dir = [lost |-> FALSE, scanning |-> FALSE, scan |-> <<>>, table |-> x.table]
  OBVIOUS
<1>9. InStep(dir) /\ dir.table = x.table
  BY <1>8 DEF InStep
<1>10. /\ conn' = [conn EXCEPT ![c] = Fed(k, side, FALSE, x, dir)]
       /\ exported' = [exported EXCEPT ![c] = x.exported]
       /\ history'.limited = history.limited \cup IF x.limited THEN {c} ELSE {}
  <2> DEFINE d0 == IF k[side].lost THEN Rescan ELSE k[side]
             midjoin0 == k.midjoin \/ (k[side].lost /\ side = "client")
             scan0 == Append(d0.scan, f)
             waits0 == d0.scanning /\ Len(scan0) < Run
             before0 == [streams |-> k.streams, buffered |-> k.buffered, table |-> d0.table,
                         exported |-> exported[c], limited |-> FALSE,
                         swept |-> {i \in Ids : <<c, i>> \in history.swept}, strays |-> {}]
             after0 == IF waits0 THEN before0
                       ELSE Reads(before0, side, scan0, calls'[c], midjoin0,
                                  Cap(k, midjoin0, loaded[Reader(c)]))
             x0 == SweepIdle(after0)
             dir0 == [lost |-> "none" = "tail" \/ ("none" = "end" /\ waits0), scanning |-> waits0,
                      scan |-> IF waits0 THEN scan0 ELSE IF "none" = "end" THEN <<EndOf(f)>> ELSE <<>>,
                      table |-> x0.table]
  <2>1. /\ conn' = [conn EXCEPT ![c] = Fed(k, side, midjoin0, x0, dir0)]
        /\ exported' = [exported EXCEPT ![c] = x0.exported]
        /\ history'.limited = history.limited \cup IF x0.limited THEN {c} ELSE {}
    BY SMTT(30) DEF Feed
  <2>2. d0 = d /\ midjoin0 = FALSE
    BY <1>1, <1>3
  <2> HIDE DEF d0, midjoin0
  <2>3. scan0 = scan /\ waits0 = FALSE /\ before0 = before
    <3>1. Append(d.scan, f) = scan
      BY <1>3, <1>5
    <3>2. scan0 = scan
      BY <2>2, <3>1
    <3>3. waits0 = FALSE
      BY <1>3, <2>2
    <3>4. before0 = before
      BY <1>4, <2>2
    <3> QED
      BY <3>2, <3>3, <3>4
  <2> HIDE DEF scan0, waits0, before0
  <2>4. after0 = after
    BY <1>6, <2>2, <2>3 DEF Cap
  <2> HIDE DEF after0
  <2>5. x0 = x
    BY <1>7, <2>4
  <2> HIDE DEF x0
  <2>6. dir0 = dir
    BY <1>8, <2>3, <2>5
  <2> HIDE DEF dir0
  <2> QED
    BY <2>1, <2>2, <2>5, <2>6
<1>11. Within(before) /\ before.limited = FALSE
  BY <1>4 DEF Within, IsCtx, IsConn
<1>12. after = OnFrame(before, side, f, cs, FALSE, ConnCap)
  <2>1. scan \in Seq(ServerFrame) /\ Len(scan) = 1 /\ scan[1] = f
    BY <1>5
  <2>2. PICK g : Contexts(g, before, side, scan, cs, FALSE, ConnCap)
    BY <2>1, ReadsSteps
  <2>3. /\ g[0] = before /\ after = g[1]
        /\ \A n \in 1 .. 1 : g[n] = OnFrame(g[n - 1], side, scan[n], cs, FALSE, ConnCap)
    BY <1>6, <2>1, <2>2 DEF Contexts
  <2>4. 1 \in 1 .. 1 /\ 1 - 1 = 0
    OBVIOUS
  <2> QED
    BY <2>1, <2>3, <2>4
<1>13. ConnCap \in Int
  BY H2Assumption
<1>14. ASSUME NEW i \in Ids
       PROVE  Tracks(x, cs[i], i, marked)
  <2>1. /\ Current(k.streams, as[i], i)
        /\ ~marked => d.table = "whole" /\ Running(k.streams, counts, as[i], i)
    BY <1>1 DEF Tracked
  <2>2. Tracks(before, as[i], i, marked)
    BY <1>4, <2>1 DEF Tracks
  <2>3. Turn(as[i], cs[i], side, f, i)
    OBVIOUS
  <2>4. Tracks(after, cs[i], i, marked)
    BY <1>11, <1>12, <1>13, <2>2, <2>3, TurnTracks
  <2>5. IsCtx(after) /\ cs[i] \in Call
    BY <1>11, <1>12, <1>13, <2>3, OnFrameBounded DEF Bounded, Within, Turn
  <2> QED
    BY <1>7, <2>4, <2>5, SweepTracks
<1>15. IsCtx(x)
  <2>1. IsCtx(after)
    BY <1>11, <1>12, <1>13, OnFrameBounded DEF Bounded, Within
  <2> QED
    BY <1>7, <2>1, SweepIdleSweeps
<1>16. Knows(c, k, side, cs, marked, x, dir)
  BY <1>9, <1>10, <1>14, <1>15 DEF Knows
<1> QED
  BY <1>16

(* So a frame that is heard leaves what is known. *)
LEMMA CaptureIsTracked ==
    ASSUME Inv, BudgetInv, WholeInv, NEW c \in Conns, opened'[c] # "no",
           NEW side \in {"client", "server"}, NEW f, Says(c, side, f), Turns(c, side, f),
           Capture(c, side, f), Attended(c)'
    PROVE  Tracked(conn[c], exported[c], calls[c], c \in history.limited)'
PROOF
<1>1. c \notin history'.joined /\ losses' = 0 /\ ~conn'[c].midjoin /\ conn'[c].on
  BY DEF Attended
<1>2. conn[c].on /\ Feed(c, conn[c], side, f, "none") /\ losses' = losses
  <2>1. CASE ~conn[c].on /\ UNCHANGED <<conn, node, loaded, exported, made, losses, history>>
    BY <1>1, <2>1
  <2>2. CASE ~conn[c].on /\ Join(c, side, f)
    <3>1. c \in history'.joined
      <4>1. Feed(c, Joined, side, f, "none") /\ Joined.midjoin = TRUE
        BY <2>2, FreshBudgets DEF Join
      <4> QED
        BY <4>1, FeedJoins
    <3> QED
      BY <1>1, <3>1
  <2>3. CASE losses' = losses + 1
    BY <1>1, <2>3 DEF WholeInv
  <2> QED
    BY <2>1, <2>2, <2>3 DEF Capture
<1>3. PICK k : k = conn[c]
  OBVIOUS
<1>4. PICK counts : counts = exported[c]
  OBVIOUS
<1>5. PICK as : as = calls[c]
  OBVIOUS
<1>6. PICK cs : cs = calls'[c]
  OBVIOUS
<1>7. PICK marked \in BOOLEAN : marked <=> c \in history.limited
  BY Truth
<1>8. /\ TablesOK /\ IsConn(k) /\ counts \in Counts
      /\ Balanced(k.streams, k.buffered) /\ k.midjoin \in BOOLEAN
  BY <1>3, <1>4 DEF Inv, Sound, BudgetInv, Keeps
<1>9. \E x, dir, midjoin : Spends(c, k, side, x, dir, midjoin)
  BY <1>2, <1>3, <1>4, <1>8, FeedSpends DEF Says, BudgetInv
<1>10. k.midjoin = FALSE
  <2>1. PICK x, dir, midjoin : Spends(c, k, side, x, dir, midjoin)
    BY <1>9
  <2>2. conn'[c] = Fed(k, side, midjoin, x, dir) /\ (k.midjoin => midjoin)
    BY <1>8, <2>1 DEF Spends, TablesOK
  <2>3. conn'[c].midjoin = midjoin
    BY <1>8, <2>2 DEF Fed, IsConn
  <2> QED
    BY <1>1, <1>8, <2>2, <2>3
<1>11. Attended(c)
  <2>1. history.joined \subseteq history'.joined
    BY <1>2, FeedJoins
  <2> QED
    BY <1>1, <1>2, <1>3, <1>10, <2>1 DEF Attended
<1>12. Tracked(k, counts, as, marked)
  BY <1>3, <1>4, <1>5, <1>7, <1>11 DEF WholeInv, Tracked
<1>13. \A i \in Ids : Turn(as[i], cs[i], side, f, i)
  BY <1>5, <1>6 DEF Turns
<1>14. Feed(c, k, side, f, "none") /\ f \in ServerFrame
  BY <1>2, <1>3 DEF Says
<1>15. PICK x, dir : Knows(c, k, side, cs, marked, x, dir)
  BY <1>4, <1>6, <1>8, <1>10, <1>12, <1>13, <1>14, FeedIsTracked
<1>16. /\ InStep(dir) /\ dir.table = x.table /\ IsCtx(x)
       /\ conn' = [conn EXCEPT ![c] = Fed(k, side, FALSE, x, dir)]
       /\ exported' = [exported EXCEPT ![c] = x.exported]
       /\ history'.limited = history.limited \cup IF x.limited THEN {c} ELSE {}
       /\ \A i \in Ids : Tracks(x, cs[i], i, marked)
  BY <1>15 DEF Knows
<1>17. PICK new : new = Fed(k, side, FALSE, x, dir)
  OBVIOUS
<1>18. conn'[c] = new /\ exported'[c] = x.exported
  BY <1>8, <1>16, <1>17 DEF TablesOK
<1>19. PICK later \in BOOLEAN : later <=> c \in history'.limited
  BY Truth
<1>20. ~later => ~marked /\ ~x.limited
  BY <1>7, <1>16, <1>19
<1>21. /\ new.streams = x.streams /\ InStep(new.client) /\ InStep(new.server)
       /\ {new.client.table, new.server.table} \subseteq {k.client.table, k.server.table, x.table}
  <2>1. InStep(k.client) /\ InStep(k.server)
    BY <1>12 DEF Tracked
  <2>2. CASE side = "client"
    <3>1. new.streams = x.streams /\ new.client = dir /\ new.server = k.server
      BY <1>8, <1>17, <2>2 DEF Fed, IsConn
    <3> QED
      BY <1>16, <2>1, <3>1
  <2>3. CASE side = "server"
    <3>1. new.streams = x.streams /\ new.server = dir /\ new.client = k.client
      BY <1>8, <1>17, <2>3 DEF Fed, IsConn
    <3> QED
      BY <1>16, <2>1, <3>1
  <2> QED
    BY <2>2, <2>3
<1>22. ASSUME NEW i \in Ids
       PROVE  /\ Current(new.streams, cs[i], i)
              /\ ~later => /\ new.client.table = "whole" /\ new.server.table = "whole"
                           /\ Running(new.streams, x.exported, cs[i], i)
  <2>1. ~marked => k.client.table = "whole" /\ k.server.table = "whole"
    BY <1>12 DEF Tracked
  <2>2. /\ Current(x.streams, cs[i], i)
        /\ ~later => x.table = "whole" /\ Running(x.streams, x.exported, cs[i], i)
    BY <1>16, <1>20 DEF Tracks
  <2> QED
    BY <1>20, <1>21, <2>1, <2>2
<1>23. Tracked(new, x.exported, cs, later)
  BY <1>21, <1>22 DEF Tracked
<1> QED
  BY <1>6, <1>18, <1>19, <1>23 DEF Tracked

(* Another connection is left as it is. *)
LEMMA OtherIsTracked ==
    ASSUME WholeInv, NEW d \in Conns, conn'[d] = conn[d], exported'[d] = exported[d],
           calls'[d] = calls[d], opened'[d] = opened[d], losses' = losses \/ losses' # 0,
           d \in history.limited => d \in history'.limited,
           d \in history.joined => d \in history'.joined,
           Attended(d)'
    PROVE  Tracked(conn[d], exported[d], calls[d], d \in history.limited)'
PROOF
<1>1. Attended(d)
  BY DEF Attended
<1>2. Tracked(conn[d], exported[d], calls[d], d \in history.limited)
  BY <1>1 DEF WholeInv
<1> QED
  BY <1>2 DEF Tracked

(* So a frame that is heard keeps what is known of all connections. *)
LEMMA HeardKeepsWhole ==
    ASSUME Inv, BudgetInv, WholeInv, NEW c \in Conns, Heard(c)
    PROVE  WholeInv'
PROOF
<1>1. PICK side \in {"client", "server"} :
         \E f : Says(c, side, f) /\ Turns(c, side, f) /\ Capture(c, side, f)
  BY DEF Heard
<1>2. PICK f : Says(c, side, f) /\ Turns(c, side, f) /\ Capture(c, side, f)
  BY <1>1
<1>3. losses \in Nat /\ TablesOK
  BY DEF WholeInv, Inv
<1>4. /\ losses' = losses \/ losses' = losses + 1
      /\ history.limited \subseteq history'.limited /\ history.joined \subseteq history'.joined
      /\ \A d \in Conns \ {c} : conn'[d] = conn[d] /\ exported'[d] = exported[d]
  BY <1>2, <1>3, CaptureLeavesOthers
<1>5. losses' \in Nat /\ (losses' = losses \/ losses' # 0)
  BY <1>3, <1>4
<1>6. /\ opened'[c] # "no"
      /\ \A d \in Conns \ {c} : opened'[d] = opened[d] /\ calls'[d] = calls[d]
  BY DEF Heard
<1>7. ASSUME NEW d \in Conns, Attended(d)'
      PROVE  Tracked(conn[d], exported[d], calls[d], d \in history.limited)'
  <2>1. CASE d = c
    BY <1>1, <1>2, <1>6, <1>7, <2>1, CaptureIsTracked
  <2>2. CASE d # c
    BY <1>4, <1>5, <1>6, <1>7, <2>2, OtherIsTracked
  <2> QED
    BY <2>1, <2>2
<1> QED
  BY <1>5, <1>7 DEF WholeInv

(* A step of a connection that is not attended after it. *)
LEMMA LeftKeepsWhole ==
    ASSUME Inv, WholeInv, NEW c \in Conns, ~Attended(c)',
           \A d \in Conns \ {c} : /\ conn'[d] = conn[d] /\ exported'[d] = exported[d]
                                  /\ opened'[d] = opened[d],
           calls' = calls, losses' = losses, history'.limited = history.limited,
           history.joined \subseteq history'.joined
    PROVE  WholeInv'
PROOF
<1>1. ASSUME NEW d \in Conns, Attended(d)'
      PROVE  Tracked(conn[d], exported[d], calls[d], d \in history.limited)'
  <2>1. d \in Conns \ {c}
    BY <1>1
  <2> QED
    BY <1>1, <2>1, OtherIsTracked
<1> QED
  BY <1>1 DEF WholeInv

(* Close and Retire are such steps. *)
LEMMA CloseKeepsWhole ==
    ASSUME Inv, WholeInv, NEW c \in Conns, Close(c)
    PROVE  WholeInv'
PROOF
<1>1. /\ opened' = [opened EXCEPT ![c] = "closed"] /\ conn' = [conn EXCEPT ![c] = Off]
      /\ exported' = [exported EXCEPT ![c] = CountUnparsed(@, DOMAIN conn[c].streams)]
      /\ UNCHANGED <<calls, losses, history>>
  BY DEF Close
<1>2. /\ DOMAIN conn = Conns /\ DOMAIN exported = Conns /\ DOMAIN opened = Conns
  BY DEF Inv, TablesOK, CallsOK
<1>3. ~Attended(c)'
  BY <1>1, <1>2 DEF Attended, Off
<1>4. \A d \in Conns \ {c} : conn'[d] = conn[d] /\ exported'[d] = exported[d] /\ opened'[d] = opened[d]
  BY <1>1, <1>2
<1> QED
  BY <1>1, <1>3, <1>4, LeftKeepsWhole

(* A connection that is dropped is not attended, whatever is heard of it later. *)
LEMMA RetireKeepsWhole ==
    ASSUME Inv, BudgetInv, WholeInv, NEW c \in Conns, Retire(c)
    PROVE  WholeInv'
PROOF
<1>1. /\ conn[c].on /\ conn' = [conn EXCEPT ![c] = Off]
      /\ UNCHANGED <<calls, opened, exported, losses, history>>
  BY DEF Retire
<1>2. DOMAIN conn = Conns
  BY DEF Inv, TablesOK
<1>3. opened[c] # "no"
  BY <1>1 DEF BudgetInv, Keeps
<1>4. ~Attended(c)'
  BY <1>1, <1>2, <1>3 DEF Attended, Off
<1>5. \A d \in Conns \ {c} : conn'[d] = conn[d] /\ exported'[d] = exported[d] /\ opened'[d] = opened[d]
  BY <1>1, <1>2
<1> QED
  BY <1>1, <1>3, <1>4, <1>5, LeftKeepsWhole

(* A connection that opens has no calls yet. *)
LEMMA BeginKeepsWhole ==
    ASSUME Inv, WholeInv, NEW c \in Conns, NEW seen \in Seen, Begin(c, seen)
    PROVE  WholeInv'
PROOF
<1>1. /\ opened[c] = "no" /\ opened' = [opened EXCEPT ![c] = "yes"]
      /\ conn' = [conn EXCEPT ![c].on = seen] /\ UNCHANGED <<calls, exported, losses, history>>
  BY DEF Begin
<1>2. /\ DOMAIN conn = Conns /\ DOMAIN opened = Conns /\ IsConn(conn[c])
  BY DEF Inv, TablesOK, CallsOK, Sound
<1>3. ASSUME NEW d \in Conns, Attended(d)'
      PROVE  Tracked(conn[d], exported[d], calls[d], d \in history.limited)'
  <2>1. CASE d = c
    <3>1. /\ conn'[c].streams = conn[c].streams /\ conn'[c].midjoin = conn[c].midjoin
          /\ conn'[c].client = conn[c].client /\ conn'[c].server = conn[c].server
      BY <1>1, <1>2 DEF IsConn
    <3>2. Attended(c)
      BY <1>1, <1>3, <2>1, <3>1 DEF Attended
    <3>3. Tracked(conn[c], exported[c], calls[c], c \in history.limited)
      BY <3>2 DEF WholeInv
    <3> QED
      BY <1>1, <2>1, <3>1, <3>3 DEF Tracked
  <2>2. CASE d # c
    <3>1. conn'[d] = conn[d] /\ opened'[d] = opened[d]
      BY <1>1, <1>2, <2>2
    <3> QED
      BY <1>1, <1>3, <3>1, OtherIsTracked
  <2> QED
    BY <2>1, <2>2
<1> QED
  BY <1>1, <1>3 DEF WholeInv

(* Time takes nothing of a stream. *)
LEMMA IdleFollowed ==
    ASSUME NEW s, IsStream(s), NEW t, t = [s EXCEPT !.idle = TRUE]
    PROVE  /\ IsStream(t) /\ t.got = s.got /\ t.speculative = s.speculative
           /\ \A call : FollowedBy(s, call) => FollowedBy(t, call)
BY DEF IsStream, FollowedBy

(* so that what is known stays. *)
LEMMA WaitKeepsWhole ==
    ASSUME Inv, BudgetInv, WholeInv, Wait
    PROVE  WholeInv'
PROOF
<1> DEFINE Idled(streams) == [i \in DOMAIN streams |-> [streams[i] EXCEPT !.idle = TRUE]]
           Waited(k) == [k EXCEPT !.quiet = TRUE, !.streams = Idled(k.streams)]
<1>1. /\ conn' = [c \in DOMAIN conn |-> Waited(conn[c])]
      /\ UNCHANGED <<calls, opened, exported, losses, history>>
  BY DEF Wait
<1>2. ASSUME NEW c \in Conns
      PROVE  /\ conn'[c].streams = Idled(conn[c].streams)
             /\ conn'[c].client = conn[c].client /\ conn'[c].server = conn[c].server
             /\ conn'[c].midjoin = conn[c].midjoin /\ conn'[c].on = conn[c].on
  <2>1. conn'[c] = Waited(conn[c]) /\ IsConn(conn[c])
    BY <1>1 DEF Inv, TablesOK, Sound
  <2> HIDE DEF Idled
  <2> QED
    BY <2>1 DEF IsConn
<1>3. ASSUME NEW streams, NEW i
      PROVE  /\ i \in DOMAIN Idled(streams) <=> i \in DOMAIN streams
             /\ i \in DOMAIN streams => Idled(streams)[i] = [streams[i] EXCEPT !.idle = TRUE]
  OBVIOUS
<1> HIDE DEF Idled, Waited
<1>4. ASSUME NEW c \in Conns, Attended(c)'
      PROVE  Tracked(conn[c], exported[c], calls[c], c \in history.limited)'
  <2>1. Attended(c)
    BY <1>1, <1>2, <1>4 DEF Attended
  <2>2. PICK k : k = conn[c]
    OBVIOUS
  <2>3. PICK new : new = conn'[c]
    OBVIOUS
  <2>5. Tracked(k, exported[c], calls[c], c \in history.limited)
    BY <2>1, <2>2 DEF WholeInv
  <2>6. \A i \in DOMAIN k.streams : IsStream(k.streams[i])
    BY <2>2 DEF BudgetInv, Keeps, Balanced
  <2>7. PICK now : now = Idled(k.streams)
    OBVIOUS
  <2>8. ASSUME NEW i \in Ids
        PROVE  /\ Current(k.streams, calls[c][i], i) => Current(now, calls[c][i], i)
               /\ Running(k.streams, exported[c], calls[c][i], i)
                  => Running(now, exported[c], calls[c][i], i)
    <3>1. i \in DOMAIN now <=> i \in DOMAIN k.streams
      BY <1>3, <2>7
    <3>2. CASE i \in DOMAIN k.streams
      <4>1. PICK call, s, t : call = calls[c][i] /\ s = k.streams[i] /\ t = now[i]
        OBVIOUS
      <4>2. IsStream(s) /\ t = [s EXCEPT !.idle = TRUE]
        BY <1>3, <2>6, <2>7, <3>2, <4>1
      <4>3. FollowedBy(s, call) => FollowedBy(t, call)
        BY <4>2, IdleFollowed
      <4>4. IsStream(t) /\ t.got = s.got /\ t.speculative = s.speculative
        BY <4>2, IdleFollowed
      <4>5. Current(k.streams, call, i) => Current(now, call, i)
        BY <3>1 DEF Current
      <4>6. Running(k.streams, exported[c], call, i) => Running(now, exported[c], call, i)
        BY <3>1, <3>2, <4>1, <4>3, <4>4 DEF Running
      <4> QED
        BY <4>1, <4>5, <4>6
    <3>3. CASE i \notin DOMAIN k.streams
      BY <3>1, <3>3 DEF Current, Running
    <3> QED
      BY <3>2, <3>3
  <2>9. new.streams = now /\ new.client = k.client /\ new.server = k.server
    BY <1>2, <2>2, <2>3, <2>7
  <2>10. Tracked(new, exported[c], calls[c], c \in history.limited)
    BY <2>5, <2>8, <2>9 DEF Tracked
  <2> QED
    BY <1>1, <2>3, <2>10
<1> QED
  BY <1>1, <1>4 DEF WholeInv

(* Nothing is said at first. *)
LEMMA InitWhole == Init => WholeInv
PROOF
<1> SUFFICES ASSUME Init PROVE WholeInv
  OBVIOUS
<1>1. losses \in Nat
  BY DEF Init
<1>2. ASSUME NEW c \in Conns
      PROVE  Tracked(conn[c], exported[c], calls[c], c \in history.limited)
  <2>1. /\ conn[c] = Off /\ \A i \in Ids : /\ calls[c][i] = NewCall
                                           /\ exported[c][i] = [recorded |-> 0, unparsed |-> 0]
    BY <1>2 DEF Init
  <2>2. InStep(NewDir) /\ NewDir.table = "whole"
    BY DEF InStep, NewDir
  <2>3. Off.client = NewDir /\ Off.server = NewDir /\ Off.streams = <<>>
    BY DEF Off
  <2>4. ASSUME NEW i \in Ids
        PROVE  Current(Off.streams, NewCall, i) /\ Running(Off.streams, exported[c], NewCall, i)
    <3>1. DOMAIN <<>> = {} /\ NewCall.stage = "none"
      BY DEF NewCall
    <3>2. Total(exported[c], i) = 0
      BY <2>1 DEF Total
    <3> QED
      BY <2>3, <3>1, <3>2 DEF Current, Running
  <2> QED
    BY <2>1, <2>2, <2>3, <2>4 DEF Tracked
<1> QED
  BY <1>1, <1>2 DEF WholeInv

(* So every step keeps what is known. *)
LEMMA NextWhole == Inv /\ BudgetInv /\ WholeInv /\ [Next]_vars => WholeInv'
PROOF
<1> SUFFICES ASSUME Inv, BudgetInv, WholeInv, [Next]_vars PROVE WholeInv'
  OBVIOUS
<1>1. CASE UNCHANGED vars
  BY <1>1 DEF vars, WholeInv, Attended
<1>2. ASSUME NEW r \in Readers, Load(r)
      PROVE  WholeInv'
  BY <1>2 DEF Load, WholeInv, Attended
<1> QED
  BY <1>1, <1>2, NextIs, HeardKeepsWhole, WaitKeepsWhole, BeginKeepsWhole, CloseKeepsWhole, RetireKeepsWhole

(* conn.rs: of a connection the agent has seen all of, every LLM call whose *)
(* response ended with usage is recorded or counted, for any number of     *)
(* streams and parts and any budgets, unless MAX_STREAMS or the limit of a *)
(* header block was in the way.                                            *)
THEOREM NothingIsLostOfWhole == Spec => []CompleteWithoutLoss
PROOF
<1>1. WholeInv => CompleteWithoutLoss
  <2> SUFFICES ASSUME WholeInv, NEW c \in Conns, NEW i \in Ids, Whole(c),
                      calls[c][i].stage = "over", HasUsage(calls[c][i]), c \notin history.limited
               PROVE  exported[c][i].recorded + exported[c][i].unparsed = 1
    BY DEF CompleteWithoutLoss
  <2>1. Attended(c)
    BY DEF Whole, Attended
  <2>2. Running(conn[c].streams, exported[c], calls[c][i], i)
    BY <2>1 DEF WholeInv, Tracked
  <2> QED
    BY <2>2 DEF Running, Total
<1> QED
  BY <1>1, InitInv, NextInv, InitBudgets, NextBudgets, InitWhole, NextWhole, PTL DEF Spec

(* conn.rs: on such a connection no stream is tracked of a call that is    *)
(* over, so that MAX_STREAMS is about calls that run.                      *)
THEOREM TablesHoldRunningCalls == Spec => []OverIsUntracked
PROOF
<1>1. Inv /\ WholeInv => OverIsUntracked
  <2> SUFFICES ASSUME Inv, WholeInv, NEW c \in Conns, Whole(c), NEW i \in DOMAIN conn[c].streams
               PROVE  calls[c][i].stage # "over"
    BY DEF OverIsUntracked
  <2>1. Attended(c)
    BY DEF Whole, Attended
  <2>2. i \in Ids
    BY DEF Inv, Sound, IsConn
  <2>3. Current(conn[c].streams, calls[c][i], i)
    BY <2>1, <2>2 DEF WholeInv, Tracked
  <2> QED
    BY <2>3 DEF Current
<1> QED
  BY <1>1, InitInv, NextInv, InitBudgets, NextBudgets, InitWhole, NextWhole, PTL DEF Spec
=============================================================================
