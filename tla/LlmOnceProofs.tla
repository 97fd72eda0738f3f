---------------------------- MODULE LlmOnceProofs ----------------------------
(***************************************************************************)
(* No call is exported twice, for every number of calls and connections,   *)
(* all limits and response shapes, and any losses.                         *)
(*                                                                         *)
(* A call goes through places: its request not yet heard of, noted behind  *)
(* another's response, open in a stream, waiting as a background call,     *)
(* taken out by the cleanup task, exported, or dropped.  AtMostOnce alone  *)
(* is not inductive: a step exports the call in some place, which must not *)
(* be in another one too.  Once says that the places are apart; every      *)
(* operation of a stream is shown to have one of a few effects on the      *)
(* places of its context, and each effect to keep them apart.  From there  *)
(* it is a short way to the refinement of CallLedger, at the end.          *)
(***************************************************************************)
EXTENDS LlmStreamsProofs, FiniteSetTheorems

(***************************************************************************)
(* Places.                                                                 *)
(***************************************************************************)
(* The request noted behind the response in progress, as long as a lost    *)
(* tail can still resume with it.                                          *)
Noted(s) == IF MidResponse(s) /\ s.next # NoNext THEN {s.next.call} ELSE {}

Here(s) == Noted(s) \cup InProgress(s)

Waiting(b) == {b[id].call : id \in DOMAIN b}

Exported(acc) == {c \in Calls : acc[c] # 0}

(* No call was exported twice, and only those exported have a verdict. *)
OnceEach(acc, why) == \A c \in Calls : acc[c] \in {0, 1} /\ (acc[c] = 0 => why[c] = "")

(* The places outside the streams hold different calls. *)
ApartHere(b, acc, why, lost, others) ==
    /\ OnceEach(acc, why)
    /\ \A i, j \in DOMAIN b : b[i].call = b[j].call => i = j
    /\ Waiting(b) \cap (lost \cup Exported(acc) \cup others) = {}
    /\ lost \cap (Exported(acc) \cup others) = {}
    /\ Exported(acc) \cap others = {}

(* So do those of a context and others, where other calls are. *)
Apart(x, others) ==
    /\ ApartHere(x.bg, x.acc, x.why, x.lost, others)
    /\ Here(x.s) \cap (Waiting(x.bg) \cup x.lost \cup Exported(x.acc) \cup others) = {}
    /\ Noted(x.s) \cap InProgress(x.s) = {}

(***************************************************************************)
(* What an operation does to the places of its context.                    *)
(***************************************************************************)
SameCalls(x, y) ==
    /\ DOMAIN y.bg = DOMAIN x.bg
    /\ \A id \in DOMAIN x.bg : y.bg[id].call = x.bg[id].call
    /\ y.lost = x.lost

Accounted(x, y, c, verdict) ==
    /\ y.acc = [x.acc EXCEPT ![c] = @ + 1]
    /\ y.why = [x.why EXCEPT ![c] = verdict]

NotAccounted(x, y) == y.acc = x.acc /\ y.why = x.why

(* Nothing, but that a note may be dropped. *)
Keeps(x, y) ==
    /\ SameCalls(x, y) /\ NotAccounted(x, y)
    /\ InProgress(y.s) = InProgress(x.s)
    /\ Noted(y.s) \subseteq Noted(x.s)

(* The open call is exported. *)
Ends(x, y, verdict) ==
    /\ InProgress(x.s) = {x.s.call}
    /\ SameCalls(x, y) /\ Accounted(x, y, x.s.call, verdict)
    /\ Here(y.s) = {}

(* A call of the requests in new is detected, or none is. *)
Detects(x, y, new) ==
    /\ SameCalls(x, y) /\ NotAccounted(x, y)
    /\ InProgress(x.s) = {}
    /\ Noted(y.s) = {}
    /\ InProgress(y.s) \subseteq new

(* A request of new is noted, the one noted before it counted. *)
Notes(x, y, new) ==
    /\ SameCalls(x, y)
    /\ InProgress(y.s) = InProgress(x.s)
    /\ Noted(y.s) \subseteq new
    /\ \/ NotAccounted(x, y)
       \/ \E c \in Noted(x.s) \cap Calls : Accounted(x, y, c, "capture_lost")

(* The open call waits under id; the call that waited there is lost. *)
Defers(x, y, id) ==
    /\ InProgress(x.s) = {x.s.call}
    /\ y.bg = Insert(x.bg, id, x.s.call)
    /\ y.lost = x.lost \cup (IF id \in DOMAIN x.bg THEN {x.bg[id].call} ELSE {})
    /\ NotAccounted(x, y)
    /\ Here(y.s) = {}

(* The open call waits under id instead of the one under old. *)
Evicts(x, y, id, old) ==
    /\ InProgress(x.s) = {x.s.call}
    /\ id \notin DOMAIN x.bg /\ old \in DOMAIN x.bg
    /\ y.bg = Without(Insert(x.bg, id, x.s.call), {old})
    /\ y.lost = x.lost
    /\ Accounted(x, y, x.bg[old].call, "background_unfinished")
    /\ Here(y.s) = {}

(* The call that waited under id is exported. *)
Takes(x, y, id, verdict) ==
    /\ InProgress(x.s) = {}
    /\ id \in DOMAIN x.bg
    /\ y.bg = Without(x.bg, {id})
    /\ y.lost = x.lost
    /\ Accounted(x, y, x.bg[id].call, verdict)
    /\ Here(y.s) = {}

(***************************************************************************)
(* Each effect keeps the places apart.  Notes that are dropped join the    *)
(* calls elsewhere: no step finds them again.                              *)
(***************************************************************************)
CountsOne(a, b, c) ==
    /\ a \in [Calls -> Nat] /\ c \in Calls /\ c \notin Exported(a)
    /\ b = [a EXCEPT ![c] = @ + 1]

ExportsOne(a, b, c) ==
    /\ b[c] \in {0, 1} /\ b[c] # 0
    /\ \A d \in Calls : d # c => b[d] = a[d]
    /\ Exported(b) = Exported(a) \cup {c}

(* Counting a call that was not counted yet exports it, once. *)
LEMMA PlusOne ==
    ASSUME NEW a, NEW b, NEW c, CountsOne(a, b, c)
    PROVE  ExportsOne(a, b, c)
<1>1. a[c] = 0 /\ a \in [Calls -> Nat] /\ c \in Calls
  BY DEF CountsOne, Exported
<1>2. b = [a EXCEPT ![c] = a[c] + 1]
  BY DEF CountsOne
<1>3. a[c] + 1 = 1
  BY <1>1
<1>4. b = [a EXCEPT ![c] = 1]
  BY <1>2, <1>3, Zenon
<1>5. b[c] = 1 /\ \A d \in Calls : d # c => b[d] = a[d]
  BY <1>1, <1>4, Zenon
<1>6. b[c] \in {0, 1} /\ b[c] # 0
  BY <1>5
<1>7. Exported(b) = Exported(a) \cup {c}
  BY <1>1, <1>5, <1>6, Zenon DEF Exported
<1> QED BY <1>5, <1>6, <1>7, Zenon DEF ExportsOne

(* record_usage or record_unparsed of a call not exported yet exports it,  *)
(* once.                                                                   *)
LEMMA AccountedOnce ==
    ASSUME NEW x, NEW y, NEW c \in Calls, NEW v, x.acc \in [Calls -> Nat],
           x.why \in [Calls -> Reasons \cup {"", "recorded"}],
           Accounted(x, y, c, v), c \notin Exported(x.acc), OnceEach(x.acc, x.why)
    PROVE  /\ OnceEach(y.acc, y.why)
           /\ Exported(y.acc) = Exported(x.acc) \cup {c}
<1>1. ExportsOne(x.acc, y.acc, c)
  <2>1. CountsOne(x.acc, y.acc, c)
    BY Zenon DEF Accounted, CountsOne
  <2> QED BY <2>1, PlusOne
<1>2. \A d \in Calls : d # c => y.why[d] = x.why[d]
  BY DEF Accounted
<1> QED BY <1>1, <1>2, Zenon DEF OnceEach, ExportsOne

(* An operation that leaves the background map's calls alone: touch does. *)
LEMMA SameWaiting ==
    ASSUME NEW x, NEW y, SameCalls(x, y)
    PROVE  Waiting(y.bg) = Waiting(x.bg)
BY DEF SameCalls, Waiting

(* An operation without effect keeps the places apart; a dropped note's    *)
(* call is elsewhere.                                                      *)
LEMMA KeepsApart ==
    ASSUME NEW x, NEW y, NEW others, Keeps(x, y), Apart(x, others)
    PROVE  Apart(y, others \cup (Noted(x.s) \ Noted(y.s)))
<1>1. Waiting(y.bg) = Waiting(x.bg)
  BY SameWaiting DEF Keeps
<1>2. \A i, j \in DOMAIN y.bg : y.bg[i].call = y.bg[j].call => i = j
  BY DEF Keeps, SameCalls, Apart, ApartHere
<1> QED BY <1>1, <1>2 DEF Keeps, SameCalls, NotAccounted, Apart, ApartHere, Here

(* detect_llm_request opens a call that was in no place. *)
LEMMA DetectsApart ==
    ASSUME NEW x, NEW y, NEW others, NEW new, Detects(x, y, new), Apart(x, others \cup new),
           new \cap others = {}
    PROVE  Apart(y, others)
<1>1. Waiting(y.bg) = Waiting(x.bg)
  BY SameWaiting DEF Detects
<1>2. \A i, j \in DOMAIN y.bg : y.bg[i].call = y.bg[j].call => i = j
  BY DEF Detects, SameCalls, Apart, ApartHere
<1> QED BY <1>1, <1>2 DEF Detects, SameCalls, NotAccounted, Apart, ApartHere, Here

(* note_next_request exports the call noted before, and notes one that was *)
(* in no place.                                                            *)
LEMMA NotesApart ==
    ASSUME NEW x, NEW y, NEW others, NEW new, GoodContext(x), Notes(x, y, new),
           Apart(x, others \cup new), new \cap others = {}
    PROVE  Apart(y, others)
<1>1. Waiting(y.bg) = Waiting(x.bg)
  BY SameWaiting DEF Notes
<1>2. \A i, j \in DOMAIN y.bg : y.bg[i].call = y.bg[j].call => i = j
  BY DEF Notes, SameCalls, Apart, ApartHere
<1>3. CASE NotAccounted(x, y)
  BY <1>1, <1>2, <1>3 DEF Notes, SameCalls, NotAccounted, Apart, ApartHere, Here
<1>4. ASSUME NEW c \in Noted(x.s) \cap Calls, Accounted(x, y, c, "capture_lost")
      PROVE  Apart(y, others)
  <2>1. x.acc \in [Calls -> Nat] /\ x.why \in [Calls -> Reasons \cup {"", "recorded"}]
    BY DEF GoodContext, ContextType
  <2>2. c \notin Exported(x.acc) /\ c \notin InProgress(x.s)
    BY <1>4 DEF Apart, Here
  <2>3. OnceEach(x.acc, x.why)
    BY DEF Apart, ApartHere
  <2>4. OnceEach(y.acc, y.why) /\ Exported(y.acc) = Exported(x.acc) \cup {c}
    BY <1>4, <2>1, <2>2, <2>3, AccountedOnce, Zenon
  <2>5. y.lost = x.lost
    BY DEF Notes, SameCalls
  <2> QED BY <1>1, <1>2, <1>4, <2>2, <2>4, <2>5 DEF Notes, Apart, ApartHere, Here
<1> QED BY <1>3, <1>4 DEF Notes

(* What each does to the sets of calls that wait and that were exported.   *)
LEMMA EndsPlaces ==
    ASSUME NEW x, NEW y, NEW others, NEW v, GoodContext(x), Ends(x, y, v), Apart(x, others)
    PROVE  LET c == x.s.call
           IN  /\ c \in Calls /\ c \in Here(x.s) /\ c \notin Noted(x.s)
               /\ Waiting(y.bg) = Waiting(x.bg)
               /\ OnceEach(y.acc, y.why) /\ Exported(y.acc) = Exported(x.acc) \cup {c}
<1> DEFINE c == x.s.call
<1>1. Waiting(y.bg) = Waiting(x.bg)
  BY SameWaiting DEF Ends
<1>2. c \in Calls /\ c \in Here(x.s) /\ c \notin Noted(x.s)
  BY DEF Ends, InProgress, GoodContext, GoodStream, Here, Apart
<1>3. x.acc \in [Calls -> Nat] /\ x.why \in [Calls -> Reasons \cup {"", "recorded"}]
  BY DEF GoodContext, ContextType
<1>4. c \notin Exported(x.acc)
  BY <1>2 DEF Apart
<1>5. /\ OnceEach(y.acc, y.why)
      /\ Exported(y.acc) = Exported(x.acc) \cup {c}
  BY <1>2, <1>3, <1>4, AccountedOnce DEF Ends, Apart, ApartHere
<1> QED BY <1>1, <1>2, <1>5

(* BackgroundCalls::insert with room: the call that waited under the id,   *)
(* if any, waits no more.                                                  *)
LEMMA DefersPlaces ==
    ASSUME NEW x, NEW y, NEW others, NEW id, Defers(x, y, id), Apart(x, others)
    PROVE  LET c == x.s.call
               was == IF id \in DOMAIN x.bg THEN {x.bg[id].call} ELSE {}
           IN  /\ c \in Here(x.s) /\ c \notin Noted(x.s)
               /\ \A i, j \in DOMAIN y.bg : y.bg[i].call = y.bg[j].call => i = j
               /\ Waiting(y.bg) = (Waiting(x.bg) \ was) \cup {c}
               /\ was \subseteq Waiting(x.bg) /\ y.lost = x.lost \cup was
<1> DEFINE c == x.s.call
           was == IF id \in DOMAIN x.bg THEN {x.bg[id].call} ELSE {}
<1>1. c \in Here(x.s) /\ c \notin Noted(x.s)
  BY DEF Defers, Apart, Here
<1>2. DOMAIN y.bg = DOMAIN x.bg \cup {id} /\ y.bg[id].call = c
  BY DEF Defers, Insert
<1>3. \A i \in DOMAIN x.bg : i # id => y.bg[i].call = x.bg[i].call
  BY DEF Defers, Insert
<1>4. \A i \in DOMAIN x.bg : x.bg[i].call # c
  BY <1>1 DEF Apart, Waiting
<1>5. \A i, j \in DOMAIN x.bg : x.bg[i].call = x.bg[j].call => i = j
  BY DEF Apart, ApartHere
<1>6. \A i, j \in DOMAIN y.bg : y.bg[i].call = y.bg[j].call => i = j
  BY <1>2, <1>3, <1>4, <1>5
<1>7. Waiting(y.bg) = (Waiting(x.bg) \ was) \cup {c}
  BY <1>2, <1>3, <1>5 DEF Waiting
<1>8. was \subseteq Waiting(x.bg) /\ y.lost = x.lost \cup was
  BY DEF Defers, Waiting
<1> QED BY <1>1, <1>6, <1>7, <1>8

(* BackgroundCalls::insert into a full map exports the call it evicts, and *)
(* no other.                                                               *)
LEMMA EvictsPlaces ==
    ASSUME NEW x, NEW y, NEW others, NEW id, NEW old, GoodContext(x),
           Evicts(x, y, id, old), Apart(x, others)
    PROVE  LET c == x.s.call
               e == x.bg[old].call
           IN  /\ c \in Here(x.s) /\ c \notin Noted(x.s)
               /\ \A i, j \in DOMAIN y.bg : y.bg[i].call = y.bg[j].call => i = j
               /\ Waiting(y.bg) = (Waiting(x.bg) \ {e}) \cup {c}
               /\ e \in Waiting(x.bg) /\ e \in Calls
               /\ OnceEach(y.acc, y.why) /\ Exported(y.acc) = Exported(x.acc) \cup {e}
<1> DEFINE c == x.s.call
           e == x.bg[old].call
<1>1. c \in Here(x.s) /\ c \notin Noted(x.s)
  BY DEF Evicts, Apart, Here
<1>2. DOMAIN y.bg = (DOMAIN x.bg \cup {id}) \ {old} /\ y.bg[id].call = c
  BY DEF Evicts, Insert, Without
<1>3. \A i \in DOMAIN y.bg : i # id => y.bg[i].call = x.bg[i].call
  BY DEF Evicts, Insert, Without
<1>4. \A i \in DOMAIN x.bg : x.bg[i].call # c
  BY <1>1 DEF Apart, Waiting
<1>5. \A i, j \in DOMAIN x.bg : x.bg[i].call = x.bg[j].call => i = j
  BY DEF Apart, ApartHere
<1>6. \A i, j \in DOMAIN y.bg : y.bg[i].call = y.bg[j].call => i = j
  BY <1>2, <1>3, <1>4, <1>5
<1>7. id \notin DOMAIN x.bg /\ old \in DOMAIN x.bg
  BY DEF Evicts
<1>8. Waiting(y.bg) = (Waiting(x.bg) \ {e}) \cup {c} /\ e \in Waiting(x.bg)
  BY <1>2, <1>3, <1>5, <1>7 DEF Waiting
<1>9. e \in Calls
  <2>1. x.bg \in BackgroundMap
    BY DEF GoodContext, ContextType
  <2> QED BY <1>7, <2>1, BackgroundMapType DEF PendingCall
<1>10. OnceEach(y.acc, y.why) /\ Exported(y.acc) = Exported(x.acc) \cup {e}
  <2>1. x.acc \in [Calls -> Nat] /\ x.why \in [Calls -> Reasons \cup {"", "recorded"}]
    BY DEF GoodContext, ContextType
  <2>2. e \notin Exported(x.acc) /\ OnceEach(x.acc, x.why)
    BY <1>8 DEF Apart, ApartHere
  <2> QED BY <1>9, <2>1, <2>2, AccountedOnce, Zenon DEF Evicts
<1> QED BY <1>1, <1>6, <1>8, <1>9, <1>10

(* A poll that takes a background call out of the map exports that call. *)
LEMMA TakesPlaces ==
    ASSUME NEW x, NEW y, NEW others, NEW id, NEW v, GoodContext(x),
           Takes(x, y, id, v), Apart(x, others)
    PROVE  LET e == x.bg[id].call
           IN  /\ \A i, j \in DOMAIN y.bg : y.bg[i].call = y.bg[j].call => i = j
               /\ Waiting(y.bg) = Waiting(x.bg) \ {e}
               /\ e \in Waiting(x.bg) /\ e \in Calls
               /\ OnceEach(y.acc, y.why) /\ Exported(y.acc) = Exported(x.acc) \cup {e}
<1> DEFINE e == x.bg[id].call
<1>1. DOMAIN y.bg = DOMAIN x.bg \ {id} /\ \A i \in DOMAIN y.bg : y.bg[i] = x.bg[i]
  BY DEF Takes, Without
<1>2. \A i, j \in DOMAIN x.bg : x.bg[i].call = x.bg[j].call => i = j
  BY DEF Apart, ApartHere
<1>3. \A i, j \in DOMAIN y.bg : y.bg[i].call = y.bg[j].call => i = j
  BY <1>1, <1>2
<1>4. id \in DOMAIN x.bg
  BY DEF Takes
<1>5. Waiting(y.bg) = Waiting(x.bg) \ {e} /\ e \in Waiting(x.bg)
  BY <1>1, <1>2, <1>4 DEF Waiting
<1>6. e \in Calls
  <2>1. x.bg \in BackgroundMap
    BY DEF GoodContext, ContextType
  <2> QED BY <1>4, <2>1, BackgroundMapType DEF PendingCall
<1>7. OnceEach(y.acc, y.why) /\ Exported(y.acc) = Exported(x.acc) \cup {e}
  <2>1. x.acc \in [Calls -> Nat] /\ x.why \in [Calls -> Reasons \cup {"", "recorded"}]
    BY DEF GoodContext, ContextType
  <2>2. e \notin Exported(x.acc) /\ OnceEach(x.acc, x.why)
    BY <1>5 DEF Apart, ApartHere
  <2> QED BY <1>6, <2>1, <2>2, AccountedOnce, Zenon DEF Takes
<1> QED BY <1>3, <1>5, <1>6, <1>7

(* The open call moves to those exported. *)
LEMMA EndsApart ==
    ASSUME NEW x, NEW y, NEW others, NEW v, GoodContext(x), Ends(x, y, v), Apart(x, others)
    PROVE  Apart(y, others \cup Noted(x.s))
<1> DEFINE c == x.s.call
<1>1. /\ c \in Here(x.s) /\ c \notin Noted(x.s)
      /\ Waiting(y.bg) = Waiting(x.bg)
      /\ OnceEach(y.acc, y.why) /\ Exported(y.acc) = Exported(x.acc) \cup {c}
  BY EndsPlaces
<1>2. \A i, j \in DOMAIN y.bg : y.bg[i].call = y.bg[j].call => i = j
  BY DEF Ends, SameCalls, Apart, ApartHere
<1>3. Here(y.s) = {} /\ y.lost = x.lost
  BY DEF Ends, SameCalls
<1> HIDE DEF c
<1> QED BY <1>1, <1>2, <1>3 DEF Apart, ApartHere, Here

(* The open call moves to those that wait. *)
LEMMA DefersApart ==
    ASSUME NEW x, NEW y, NEW others, NEW id, Defers(x, y, id), Apart(x, others)
    PROVE  Apart(y, others \cup Noted(x.s))
<1> DEFINE c == x.s.call
           was == IF id \in DOMAIN x.bg THEN {x.bg[id].call} ELSE {}
<1>1. /\ c \in Here(x.s) /\ c \notin Noted(x.s)
      /\ \A i, j \in DOMAIN y.bg : y.bg[i].call = y.bg[j].call => i = j
      /\ Waiting(y.bg) = (Waiting(x.bg) \ was) \cup {c}
      /\ was \subseteq Waiting(x.bg) /\ y.lost = x.lost \cup was
  BY DefersPlaces
<1>2. Here(y.s) = {} /\ NotAccounted(x, y)
  BY DEF Defers
<1> HIDE DEF was, c
<1> QED BY <1>1, <1>2 DEF NotAccounted, Apart, ApartHere, Here

(* The open call moves to those that wait, and one that waited to those    *)
(* exported.                                                               *)
LEMMA EvictsApart ==
    ASSUME NEW x, NEW y, NEW others, NEW id, NEW old, GoodContext(x),
           Evicts(x, y, id, old), Apart(x, others)
    PROVE  Apart(y, others \cup Noted(x.s))
<1> DEFINE c == x.s.call
           e == x.bg[old].call
<1>1. /\ c \in Here(x.s) /\ c \notin Noted(x.s)
      /\ \A i, j \in DOMAIN y.bg : y.bg[i].call = y.bg[j].call => i = j
      /\ Waiting(y.bg) = (Waiting(x.bg) \ {e}) \cup {c} /\ e \in Waiting(x.bg)
      /\ OnceEach(y.acc, y.why) /\ Exported(y.acc) = Exported(x.acc) \cup {e}
  BY EvictsPlaces
<1>2. Here(y.s) = {} /\ y.lost = x.lost
  BY DEF Evicts
<1> HIDE DEF c, e
<1> QED BY <1>1, <1>2 DEF Apart, ApartHere, Here

(* The call taken out of the map moves to those exported. *)
LEMMA TakesApart ==
    ASSUME NEW x, NEW y, NEW others, NEW id, NEW v, GoodContext(x),
           Takes(x, y, id, v), Apart(x, others)
    PROVE  Apart(y, others \cup Noted(x.s))
<1> DEFINE e == x.bg[id].call
<1>1. /\ \A i, j \in DOMAIN y.bg : y.bg[i].call = y.bg[j].call => i = j
      /\ Waiting(y.bg) = Waiting(x.bg) \ {e} /\ e \in Waiting(x.bg)
      /\ OnceEach(y.acc, y.why) /\ Exported(y.acc) = Exported(x.acc) \cup {e}
  BY TakesPlaces
<1>2. Here(y.s) = {} /\ y.lost = x.lost
  BY DEF Takes
<1> HIDE DEF e
<1> QED BY <1>1, <1>2 DEF Apart, ApartHere, Here

(***************************************************************************)
(* What an operation relies on in its stream, and leaves true of it.       *)
(***************************************************************************)
(* The noted request is where resume_next_request looks for it in w.       *)
NoteAt(s, w) ==
    MidResponse(s) /\ s.next # NoNext =>
        /\ s.next.at + 1 \in DOMAIN w
        /\ w[s.next.at + 1].t = "req"
        /\ w[s.next.at + 1].call = s.next.call

(* The requests in a write buffer are of the kinds their clients made.     *)
KindsMatch(w, kind) == \A i \in DOMAIN w : w[i].t = "req" => w[i].kind = kind[w[i].call]

Orderly(s, w, kind) ==
    /\ KindsMatch(s.wbuf, kind)
    /\ NoteAt(s, w)
    /\ s.st = "Detecting" /\ IsRequestHead(s.wbuf) => Head(s.wbuf).kind # "llm"
    /\ s.st \in {"Detecting", "ProcessingRequest"} => s.next = NoNext
    /\ IsLlm(s) => ((s.cont # NoCall) <=> (kind[s.call] = "poll"))
    /\ ~IsLlm(s) => s.cont = NoCall

(* The request a fragment brings. *)
RequestIn(f) ==
    IF f.dir = "Write" /\ IsRequestHead(f.toks) THEN {Head(f.toks).call} ELSE {}

(***************************************************************************)
(* The operations of a stream have these effects.                          *)
(***************************************************************************)
LEMMA DropResponseEffect ==
    ASSUME NEW x, GoodContext(x), NEW reason \in Reasons, NEW kind, NEW w, Orderly(x.s, w, kind)
    PROVE  LET y == DropResponse(x, reason)
           IN  /\ Keeps(x, y) \/ Ends(x, y, reason)
               /\ Orderly(y.s, w, kind)
               /\ ~IsLlm(y.s) \/ y = x
               /\ IsLlm(x.s) => y.s = [x.s EXCEPT !.st = "Finished", !.cont = NoCall]
<1> DEFINE y == [x EXCEPT !.s.st = "Finished", !.s.cont = NoCall]
           z == Account(y, x.s.call, reason)
<1>1. CASE ~IsLlm(x.s)
  <2>1. DropResponse(x, reason) = x
    BY <1>1 DEF DropResponse
  <2>2. Keeps(x, x)
    BY DEF Keeps, SameCalls, NotAccounted
  <2> QED BY <1>1, <2>1, <2>2
<1>2. CASE IsLlm(x.s)
  <2>1. /\ y.s = [x.s EXCEPT !.st = "Finished", !.cont = NoCall]
        /\ y.bg = x.bg /\ y.acc = x.acc /\ y.why = x.why /\ y.lost = x.lost
    BY DEF GoodContext, ContextType
  <2>2. y.s.st = "Finished" /\ y.s.cont = NoCall /\ y.s.wbuf = x.s.wbuf
    BY <2>1 DEF GoodContext, ContextType, StreamType
  <2>3. Here(y.s) = {} /\ ~IsLlm(y.s) /\ InProgress(y.s) = {} /\ Noted(y.s) = {}
    BY <2>2 DEF Here, Noted, MidResponse, InProgress, IsLlm
  <2>4. Orderly(y.s, w, kind)
    BY <2>2 DEF Orderly, NoteAt, MidResponse, IsLlm
  <2>5. CASE x.s.cont # NoCall
    <3>1. DropResponse(x, reason) = y
      BY <1>2, <2>5 DEF DropResponse
    <3>2. Keeps(x, y)
      <4>1. InProgress(x.s) = {}
        BY <2>5 DEF InProgress
      <4> QED BY <2>1, <2>3, <4>1 DEF Keeps, SameCalls, NotAccounted
    <3> QED BY <2>1, <2>3, <2>4, <3>1, <3>2
  <2>6. CASE x.s.cont = NoCall
    <3>1. DropResponse(x, reason) = z
      BY <1>2, <2>6 DEF DropResponse
    <3>2. /\ z.s = y.s /\ z.bg = x.bg /\ z.lost = x.lost
          /\ Accounted(x, z, x.s.call, reason)
      <4>1. y \in [s : {y.s}, bg : {x.bg}, acc : {x.acc}, why : {x.why}, seen : {x.seen},
                   lost : {x.lost}, wrong : {x.wrong}]
        BY DEF GoodContext, ContextType
      <4> HIDE DEF y
      <4> QED BY <4>1 DEF Account, Accounted
    <3>3. InProgress(x.s) = {x.s.call}
      BY <1>2, <2>6 DEF InProgress
    <3>4. Ends(x, z, reason)
      BY <2>3, <3>2, <3>3 DEF Ends, SameCalls
    <3> QED BY <2>1, <2>3, <2>4, <3>1, <3>2, <3>4
  <2> QED BY <2>5, <2>6
<1> QED BY <1>1, <1>2

(* reset leaves a stream that waits for nothing and notes nothing. *)
LEMMA ResetEffect ==
    ASSUME NEW x, GoodContext(x), NEW kind, NEW w
    PROVE  LET y == Reset(x)
           IN  /\ y.s.st = "Detecting" /\ y.s.wbuf = <<>>
               /\ y.bg = x.bg /\ y.lost = x.lost /\ NotAccounted(x, y)
               /\ Here(y.s) = {} /\ Orderly(y.s, w, kind)
<1> DEFINE y == Reset(x)
<1>1. /\ y.s.st = "Detecting" /\ y.s.wbuf = <<>> /\ y.s.cont = NoCall /\ y.s.next = NoNext
      /\ y.bg = x.bg /\ y.lost = x.lost /\ NotAccounted(x, y)
  BY DEF GoodContext, ContextType, Reset, NewStream, NotAccounted
<1> HIDE DEF y
<1>2. Here(y.s) = {} /\ Orderly(y.s, w, kind)
  BY <1>1 DEF Here, Noted, MidResponse, InProgress, IsLlm, Orderly, NoteAt, KindsMatch,
              IsRequestHead
<1> QED BY <1>1, <1>2 DEF y

(* A buffer over its limit ends the response in progress, if any. *)
LEMMA OverflowEffect ==
    ASSUME NEW x, GoodContext(x), NEW reason \in Reasons, NEW kind, NEW v, NEW w,
           Orderly(x.s, v, kind), NEW y \in Overflow(x, reason)
    PROVE  /\ Keeps(x, y) \/ Ends(x, y, reason)
           /\ Orderly(y.s, w, kind)
<1> DEFINE z == DropResponse(x, reason)
<1>1. /\ Keeps(x, z) \/ Ends(x, z, reason)
      /\ ~IsLlm(z.s) \/ z = x
      /\ IsLlm(x.s) => z.s = [x.s EXCEPT !.st = "Finished", !.cont = NoCall]
  BY DropResponseEffect
<1>2. GoodContext(z)
  BY DropResponseType
<1>3. ~IsLlm(z.s)
  <2>1. IsLlm(x.s) => z.s.st = "Finished"
    BY <1>1 DEF GoodContext, ContextType, StreamType
  <2> QED BY <1>1, <2>1 DEF IsLlm
<1> HIDE DEF z
<1>4. y = Reset(z)
  BY DEF Overflow, z
<1>5. /\ y.bg = z.bg /\ y.lost = z.lost /\ NotAccounted(z, y)
      /\ Here(y.s) = {} /\ Orderly(y.s, w, kind)
  BY <1>2, <1>4, ResetEffect
<1>6. InProgress(z.s) = {} /\ InProgress(y.s) = {} /\ Noted(y.s) = {}
  BY <1>3, <1>5 DEF InProgress, Here
<1>7. CASE Keeps(x, z)
  BY <1>5, <1>6, <1>7 DEF Keeps, SameCalls, NotAccounted
<1>8. CASE Ends(x, z, reason)
  BY <1>5, <1>8 DEF Ends, SameCalls, NotAccounted, Accounted
<1> QED BY <1>1, <1>5, <1>7, <1>8

(* The head of a buffer that starts with a request is that request. *)
LEMMA FirstToken ==
    ASSUME NEW w \in Seq(WriteToken), IsRequestHead(w)
    PROVE  /\ 1 \in DOMAIN w /\ Head(w) = w[1]
           /\ Head(w).t = "req" /\ Head(w).call \in Calls
BY RequestHeadType DEF IsRequestHead

(* detect_llm_request opens the request at the head of the buffer, if it   *)
(* is a generation call.                                                   *)
LEMMA DetectEffect ==
    ASSUME NEW x, GoodContext(x), NEW kind, NEW w, KindsMatch(x.s.wbuf, kind),
           ~IsLlm(x.s), x.s.cont = NoCall, x.s.next = NoNext
    PROVE  LET y == Detect(x)
           IN  /\ Detects(x, y, IF IsRequestHead(x.s.wbuf) /\ Head(x.s.wbuf).kind = "llm"
                                THEN {Head(x.s.wbuf).call} ELSE {})
               /\ Orderly(y.s, w, kind)
<1> DEFINE first == Head(x.s.wbuf)
           llm == [x EXCEPT !.s.st = "ProcessingRequest", !.s.call = first.call,
                            !.seen = @ \cup {first.call}]
           poll == [x EXCEPT !.s.st = "ProcessingRequest", !.s.call = first.call,
                             !.s.cont = first.id]
           none == [x EXCEPT !.s.st = IF Len(x.s.wbuf) > DetectLimit THEN "Finished"
                                      ELSE "Detecting"]
           head == IsRequestHead(x.s.wbuf)
           new == IF head /\ first.kind = "llm" THEN {first.call} ELSE {}
           y == Detect(x)
<1>1. InProgress(x.s) = {}
  BY DEF InProgress
<1>2. head => x.s.wbuf[1] = first /\ 1 \in DOMAIN x.s.wbuf /\ first.t = "req"
  <2>1. x.s.wbuf \in Seq(WriteToken)
    BY DEF GoodContext, ContextType, StreamType
  <2> QED BY <2>1, FirstToken
<1>3. head => first.kind = kind[first.call]
  BY <1>2 DEF KindsMatch
<1>4. CASE head /\ first.kind = "llm"
  <2>1. y = llm
    BY <1>4 DEF Detect
  <2>2. /\ y.s = [x.s EXCEPT !.st = "ProcessingRequest", !.call = first.call]
        /\ y.bg = x.bg /\ y.acc = x.acc /\ y.why = x.why /\ y.lost = x.lost
    BY <2>1 DEF GoodContext, ContextType
  <2>3. /\ y.s.st = "ProcessingRequest" /\ y.s.call = first.call /\ y.s.cont = NoCall
        /\ y.s.next = NoNext /\ y.s.wbuf = x.s.wbuf
    BY <2>2 DEF GoodContext, ContextType, StreamType
  <2> HIDE DEF y
  <2>4. InProgress(y.s) = {first.call} /\ Noted(y.s) = {}
    BY <2>3 DEF InProgress, Noted, IsLlm, MidResponse
  <2>5. Detects(x, y, new)
    BY <1>1, <1>4, <2>2, <2>4 DEF Detects, SameCalls, NotAccounted
  <2>6. Orderly(y.s, w, kind)
    BY <1>3, <1>4, <2>3 DEF Orderly, NoteAt, MidResponse, IsLlm
  <2> QED BY <2>5, <2>6 DEF y
<1>5. CASE head /\ first.kind = "poll" /\ first.id \in DOMAIN x.bg
  <2>1. y = poll
    BY <1>5 DEF Detect
  <2>2. /\ y.s = [x.s EXCEPT !.st = "ProcessingRequest", !.call = first.call,
                             !.cont = first.id]
        /\ y.bg = x.bg /\ y.acc = x.acc /\ y.why = x.why /\ y.lost = x.lost
    BY <2>1 DEF GoodContext, ContextType
  <2>3. /\ y.s.st = "ProcessingRequest" /\ y.s.call = first.call /\ y.s.cont = first.id
        /\ y.s.next = NoNext /\ y.s.wbuf = x.s.wbuf
    BY <2>2 DEF GoodContext, ContextType, StreamType
  <2>4. first.id # NoCall
    BY <1>5, BackgroundMapType, BackgroundAssumption DEF GoodContext, ContextType
  <2> HIDE DEF y
  <2>5. InProgress(y.s) = {} /\ Noted(y.s) = {}
    BY <2>3, <2>4 DEF InProgress, Noted, IsLlm, MidResponse
  <2>6. Detects(x, y, new)
    BY <1>1, <2>2, <2>5 DEF Detects, SameCalls, NotAccounted
  <2>7. Orderly(y.s, w, kind)
    BY <1>3, <1>5, <2>3, <2>4 DEF Orderly, NoteAt, MidResponse, IsLlm
  <2> QED BY <2>6, <2>7 DEF y
<1>6. CASE /\ ~(head /\ first.kind = "llm")
           /\ ~(head /\ first.kind = "poll" /\ first.id \in DOMAIN x.bg)
  <2>1. y = none
    BY <1>6 DEF Detect
  <2> DEFINE st == IF Len(x.s.wbuf) > DetectLimit THEN "Finished" ELSE "Detecting"
  <2>2. st \in {"Detecting", "Finished"} /\ y = [x EXCEPT !.s.st = st]
    BY <2>1
  <2> HIDE DEF st, y, none
  <2>3. /\ y.s.st = st /\ y.s.cont = NoCall /\ y.s.next = NoNext /\ y.s.wbuf = x.s.wbuf
        /\ y.bg = x.bg /\ y.acc = x.acc /\ y.why = x.why /\ y.lost = x.lost
    BY <2>2 DEF GoodContext, ContextType, StreamType
  <2>4. InProgress(y.s) = {} /\ Noted(y.s) = {}
    BY <2>2, <2>3 DEF InProgress, Noted, IsLlm, MidResponse
  <2>5. Detects(x, y, new)
    BY <1>1, <2>3, <2>4 DEF Detects, SameCalls, NotAccounted
  <2>6. Orderly(y.s, w, kind)
    BY <1>6, <2>2, <2>3 DEF Orderly, NoteAt, MidResponse, IsLlm
  <2> QED BY <2>5, <2>6 DEF y
<1> QED BY <1>4, <1>5, <1>6

(* Bytes appended to a write buffer leave its noted request where it was. *)
LEMMA MoreWritten ==
    ASSUME NEW s \in StreamType, NEW toks \in Seq(WriteToken), NEW kind,
           Orderly(s, s.wbuf, kind)
    PROVE  Orderly(s, s.wbuf \o toks, kind)
<1> DEFINE w == s.wbuf
<1>1. w \in Seq(WriteToken)
  BY DEF StreamType
<1>2. \A i \in DOMAIN w : i \in DOMAIN (w \o toks) /\ (w \o toks)[i] = w[i]
  <2> HIDE DEF w
  <2> QED BY <1>1, ConcatProperties, LenProperties
<1> HIDE DEF w
<1>3. NoteAt(s, w) => NoteAt(s, w \o toks)
  BY <1>2 DEF NoteAt
<1> QED BY <1>3 DEF Orderly, w

(* The first token appended to a buffer is the one after its old end. *)
LEMMA AppendedToken ==
    ASSUME NEW v \in Seq(WriteToken), NEW toks \in Seq(WriteToken), toks # <<>>
    PROVE  Len(v) + 1 \in DOMAIN (v \o toks) /\ (v \o toks)[Len(v) + 1] = toks[1]
<1>1. Len(v) \in Nat /\ Len(toks) \in Nat /\ Len(toks) # 0
  BY LenProperties, EmptySeq
<1>2. v \o toks \in Seq(WriteToken) /\ Len(v \o toks) = Len(v) + Len(toks)
  BY ConcatProperties
<1>3. Len(v) + 1 \in 1..Len(v \o toks)
  BY <1>1, <1>2
<1>4. (v \o toks)[Len(v) + 1] = toks[Len(v) + 1 - Len(v)]
  BY <1>1, <1>2, <1>3, ConcatProperties
<1> QED BY <1>1, <1>2, <1>3, <1>4

(* note_next_request notes a request at the offset where it is about to be *)
(* buffered.                                                               *)
LEMMA NoteNextEffect ==
    ASSUME NEW x, GoodContext(x), NEW f, f.dir = "Write", f.toks \in Seq(WriteToken), NEW kind,
           Orderly(x.s, x.s.wbuf, kind)
    PROVE  LET y == NoteNext(x, f)
           IN  /\ y = x \/ (IsLlm(y.s) /\ Notes(x, y, RequestIn(f)))
               /\ y.s.wbuf = x.s.wbuf
               /\ Orderly(y.s, y.s.wbuf \o f.toks, kind)
<1> DEFINE y == NoteNext(x, f)
           request == Head(f.toks)
           noted == [x EXCEPT !.s.next = [at |-> Len(x.s.wbuf), call |-> request.call],
                              !.seen = @ \cup (IF request.kind = "llm" THEN {request.call}
                                               ELSE {})]
           w == x.s.wbuf \o f.toks
<1>1. CASE ~MidResponse(x.s) \/ ~IsRequestHead(f.toks)
  <2>1. y = x
    BY <1>1 DEF NoteNext
  <2>2. x.s \in StreamType
    BY DEF GoodContext, ContextType
  <2>3. Orderly(x.s, x.s.wbuf \o f.toks, kind)
    BY <2>2, MoreWritten
  <2> HIDE DEF y
  <2>4. y.s.wbuf = x.s.wbuf /\ Orderly(y.s, y.s.wbuf \o f.toks, kind)
    BY <2>1, <2>3, Zenon
  <2> QED BY <2>1, <2>4 DEF y
<1>2. CASE MidResponse(x.s) /\ IsRequestHead(f.toks)
  <2>1. /\ x.s.wbuf \in Seq(WriteToken) /\ Len(x.s.wbuf) \in Nat
        /\ f.toks # <<>> /\ request = f.toks[1] /\ request.t = "req" /\ request.call \in Calls
    <3>1. x.s.wbuf \in Seq(WriteToken)
      BY DEF GoodContext, ContextType, StreamType
    <3> QED BY <1>2, <3>1, FirstToken, LenProperties DEF IsRequestHead
  <2>2. Len(x.s.wbuf) + 1 \in DOMAIN w /\ w[Len(x.s.wbuf) + 1] = request
    BY <2>1, AppendedToken
  <2>3. /\ noted.s = [x.s EXCEPT !.next = [at |-> Len(x.s.wbuf), call |-> request.call]]
        /\ noted.bg = x.bg /\ noted.acc = x.acc /\ noted.why = x.why /\ noted.lost = x.lost
    BY DEF GoodContext, ContextType
  <2> HIDE DEF request, w
  <2>4. /\ noted.s.st = x.s.st /\ noted.s.call = x.s.call /\ noted.s.cont = x.s.cont
        /\ noted.s.past = x.s.past /\ noted.s.wbuf = x.s.wbuf
        /\ noted.s.next.at = Len(x.s.wbuf) /\ noted.s.next.call = request.call
    BY <2>3 DEF GoodContext, ContextType, StreamType
  <2>5. /\ y.s = noted.s /\ y.bg = x.bg /\ y.lost = x.lost
        /\ IF x.s.next = NoNext THEN NotAccounted(x, y)
           ELSE Accounted(x, y, x.s.next.call, "capture_lost")
    <3>1. y = IF x.s.next = NoNext THEN noted ELSE Account(noted, x.s.next.call, "capture_lost")
      BY <1>2 DEF NoteNext, request
    <3>2. noted \in [s : {noted.s}, bg : {x.bg}, acc : {x.acc}, why : {x.why},
                     seen : {noted.seen}, lost : {x.lost}, wrong : {x.wrong}]
      BY <2>3 DEF GoodContext, ContextType
    <3> HIDE DEF y, noted
    <3> QED BY <3>1, <3>2 DEF Account, Accounted, NotAccounted
  <2> HIDE DEF y, noted
  <2>6. x.s.st = "ProcessingResponse" /\ ~x.s.past
    BY <1>2 DEF MidResponse
  <2>7. /\ y.s.st = "ProcessingResponse" /\ ~y.s.past /\ y.s.call = x.s.call
        /\ y.s.cont = x.s.cont /\ y.s.wbuf = x.s.wbuf
        /\ y.s.next.at = Len(x.s.wbuf) /\ y.s.next.call = request.call
    BY <2>4, <2>5, <2>6
  <2>8. IsLlm(y.s) /\ InProgress(y.s) = InProgress(x.s) /\ Noted(y.s) \subseteq {request.call}
    BY <2>6, <2>7 DEF InProgress, IsLlm, Noted
  <2>9. x.s.next # NoNext => x.s.next.call \in Noted(x.s) \cap Calls
    <3>1. ASSUME x.s.next # NoNext
          PROVE  x.s.next.call \in Calls
      <4>1. /\ x.s.next.at + 1 \in DOMAIN x.s.wbuf
            /\ x.s.wbuf[x.s.next.at + 1].call = x.s.next.call
        BY <1>2, <3>1 DEF Orderly, NoteAt
      <4>2. x.s.wbuf[x.s.next.at + 1] \in WriteToken
        BY <2>1, <4>1
      <4> QED BY <4>1, <4>2 DEF WriteToken, ReqToken, MoreToken
    <3> QED BY <1>2, <3>1 DEF Noted
  <2>10. Notes(x, y, RequestIn(f))
    <3>1. RequestIn(f) = {request.call}
      BY <1>2 DEF RequestIn, request
    <3> QED BY <2>5, <2>8, <2>9, <3>1 DEF Notes, SameCalls
  <2>11. Orderly(y.s, y.s.wbuf \o f.toks, kind)
    <3>1. NoteAt(y.s, w)
      BY <2>1, <2>2, <2>7 DEF NoteAt
    <3> QED BY <2>6, <2>7, <3>1 DEF Orderly, IsLlm, w
  <2> QED BY <2>7, <2>8, <2>10, <2>11 DEF y
<1> QED BY <1>1, <1>2

(* resume_next_request detects the request it cut the buffer at. *)
LEMMA ResumeNextEffect ==
    ASSUME NEW x, GoodContext(x), NEW kind, NEW w, KindsMatch(x.s.wbuf, kind),
           ~IsLlm(x.s), x.s.cont = NoCall,
           x.s.next.at + 1 \in DOMAIN x.s.wbuf, x.s.wbuf[x.s.next.at + 1].t = "req",
           x.s.wbuf[x.s.next.at + 1].call = x.s.next.call
    PROVE  LET y == ResumeNext(x)
           IN  Detects(x, y, {x.s.next.call}) /\ Orderly(y.s, w, kind)
<1> DEFINE at == x.s.next.at + 1
           v == SubSeq(x.s.wbuf, at, Len(x.s.wbuf))
           z == [x EXCEPT !.s.next = NoNext, !.s.rbuf = <<>>, !.s.hole = {},
                          !.s.wbuf = SubSeq(@, x.s.next.at + 1, Len(@))]
           y == ResumeNext(x)
<1>1. x.s.wbuf \in Seq(WriteToken) /\ x.s.next.at \in Nat /\ x.s.next.call = x.s.wbuf[at].call
  BY DEF GoodContext, ContextType, StreamType
<1>2. /\ v \in Seq(WriteToken) /\ v # <<>> /\ Head(v) = x.s.wbuf[at]
      /\ \A i \in DOMAIN v : at + i - 1 \in DOMAIN x.s.wbuf /\ v[i] = x.s.wbuf[at + i - 1]
  <2> DEFINE u == x.s.wbuf
             n == Len(u)
  <2>1. u \in Seq(WriteToken) /\ n \in Nat /\ DOMAIN u = 1..n
    BY <1>1, LenProperties
  <2>2. at \in 1..n
    BY <2>1
  <2>3. \A i \in at..n : u[i] \in WriteToken
    BY <2>1, <2>2
  <2> HIDE DEF u, n, at
  <2> DEFINE t == SubSeq(u, at, n)
  <2>4. /\ t \in Seq(WriteToken) /\ Len(t) = n - at + 1
        /\ \A i \in 1..(n - at + 1) : t[i] = u[at + i - 1]
    BY <2>1, <2>2, <2>3, SubSeqProperties
  <2>5. Head(t) = u[at]
    BY <2>1, <2>2, HeadTailOfSubSeq
  <2>6. DOMAIN t = 1..(n - at + 1) /\ t # <<>>
    <3> HIDE DEF t
    <3>1. DOMAIN t = 1..Len(t)
      BY <2>4, LenProperties
    <3>2. Len(t) # 0
      BY <2>1, <2>2, <2>4
    <3> QED BY <2>4, <3>1, <3>2, EmptySeq
  <2>7. \A i \in DOMAIN t : at + i - 1 \in DOMAIN u
    BY <2>1, <2>2, <2>6
  <2> QED BY <2>4, <2>5, <2>6, <2>7 DEF u, n
<1>3. KindsMatch(v, kind)
  <2> HIDE DEF v, at
  <2> QED BY <1>2 DEF KindsMatch
<1>4. z = [x EXCEPT !.s.next = NoNext, !.s.rbuf = <<>>, !.s.hole = {}, !.s.wbuf = v]
  OBVIOUS
<1>5. IsRequestHead(v) /\ Head(v).call = x.s.next.call
  BY <1>1, <1>2 DEF IsRequestHead
<1> HIDE DEF v, z, at
<1>6. GoodContext(z)
  <2>1. NoNext \in [at : Nat, call : Calls \cup {NoCall}] /\ <<>> \in Seq(ReadToken)
    BY DEF NoNext
  <2> DEFINE ns == [x.s EXCEPT !.next = NoNext, !.rbuf = <<>>, !.hole = {}, !.wbuf = v]
  <2>2. x \in ContextType /\ x.s \in StreamType /\ GoodStream(x.s)
    BY DEF GoodContext, ContextType
  <2>3. z = [x EXCEPT !.s = ns]
    BY <1>4, <2>2, Zenon DEF ContextType
  <2>4. ns \in StreamType /\ ns.st = x.s.st /\ ns.call = x.s.call
    BY <1>2, <2>1, <2>2 DEF StreamType
  <2> HIDE DEF ns
  <2>5. z \in ContextType /\ z.s = ns
    BY <2>2, <2>3, <2>4 DEF ContextType
  <2> QED BY <2>2, <2>4, <2>5 DEF GoodContext, GoodStream, IsLlm
<1>7. /\ z.s.st = x.s.st /\ z.s.cont = NoCall /\ z.s.next = NoNext /\ z.s.wbuf = v
      /\ z.bg = x.bg /\ z.acc = x.acc /\ z.why = x.why /\ z.lost = x.lost
  BY <1>4 DEF GoodContext, ContextType, StreamType
<1>8. y = Detect(z)
  BY DEF ResumeNext, z
<1>9. Detects(z, y, {x.s.next.call}) /\ Orderly(y.s, w, kind)
  <2>1. ~IsLlm(z.s)
    BY <1>7 DEF IsLlm
  <2>2. /\ Detects(z, y, IF IsRequestHead(z.s.wbuf) /\ Head(z.s.wbuf).kind = "llm"
                         THEN {Head(z.s.wbuf).call} ELSE {})
        /\ Orderly(y.s, w, kind)
    BY <1>3, <1>6, <1>7, <1>8, <2>1, DetectEffect
  <2> QED BY <1>5, <1>7, <2>2 DEF Detects
<1> HIDE DEF y
<1>10. InProgress(x.s) = {}
  BY DEF InProgress
<1>11. Detects(x, y, {x.s.next.call})
  BY <1>7, <1>9, <1>10 DEF Detects, SameCalls, NotAccounted
<1> QED BY <1>9, <1>11 DEF y

(***************************************************************************)
(* Settling a response, or the end of one.                                 *)
(***************************************************************************)
Direct == Verdicts \ {"background_unfinished"}

Unfinished == {"recorded", "background_unfinished"}

Settles(x, y) ==
    \/ Keeps(x, y)
    \/ \E v \in Direct : Ends(x, y, v)
    \/ \E id \in Calls : Defers(x, y, id)
    \/ \E id, old \in Calls : Evicts(x, y, id, old)
    \/ \E id \in Calls, v \in Unfinished : Takes(x, y, id, v)

(* What a step before settling may change. *)
SamePlaces(x, z) ==
    /\ z.bg = x.bg /\ z.lost = x.lost /\ NotAccounted(x, z)
    /\ z.s.call = x.s.call
    /\ InProgress(z.s) = InProgress(x.s)
    /\ Noted(z.s) \subseteq Noted(x.s)

(* Settling after a change of neither places nor ledger is settling. *)
LEMMA SettlesFrom ==
    ASSUME NEW x, NEW z, NEW y, SamePlaces(x, z), Settles(z, y)
    PROVE  Settles(x, y)
<1>1. CASE Keeps(z, y)
  BY <1>1 DEF SamePlaces, Settles, Keeps, SameCalls, NotAccounted
<1>2. ASSUME NEW v \in Direct, Ends(z, y, v)
      PROVE  Settles(x, y)
  BY <1>2 DEF SamePlaces, Settles, Ends, SameCalls, NotAccounted, Accounted
<1>3. ASSUME NEW id \in Calls, Defers(z, y, id)
      PROVE  Settles(x, y)
  BY <1>3 DEF SamePlaces, Settles, Defers, NotAccounted
<1>4. ASSUME NEW id \in Calls, NEW old \in Calls, Evicts(z, y, id, old)
      PROVE  Settles(x, y)
  BY <1>4 DEF SamePlaces, Settles, Evicts, NotAccounted, Accounted
<1>5. ASSUME NEW id \in Calls, NEW v \in Unfinished, Takes(z, y, id, v)
      PROVE  Settles(x, y)
  BY <1>5 DEF SamePlaces, Settles, Takes, NotAccounted, Accounted
<1> QED BY <1>1, <1>2, <1>3, <1>4, <1>5 DEF Settles

(* record_usage and record_unparsed count one call, and change nothing     *)
(* else of a context.                                                      *)
LEMMA AccountEffect ==
    ASSUME NEW x, GoodContext(x), NEW call, NEW verdict
    PROVE  LET y == Account(x, call, verdict)
           IN  /\ y.s = x.s /\ y.bg = x.bg /\ y.lost = x.lost
               /\ Accounted(x, y, call, verdict)
<1>1. x \in [s : {x.s}, bg : {x.bg}, acc : {x.acc}, why : {x.why},
             seen : {x.seen}, lost : {x.lost}, wrong : {x.wrong}]
  BY DEF GoodContext, ContextType
<1> QED BY ONLY <1>1 DEF Account, Accounted

(* So does record_usage of a response that names another call. *)
LEMMA RecordUsageEffect ==
    ASSUME NEW x, GoodContext(x), NEW call, NEW id
    PROVE  LET y == RecordUsage(x, call, id)
           IN  /\ y.s = x.s /\ y.bg = x.bg /\ y.lost = x.lost
               /\ Accounted(x, y, call, "recorded")
<1> DEFINE y == Account(x, call, "recorded")
           z == [y EXCEPT !.wrong = @ \cup {call}]
<1>1. /\ y.s = x.s /\ y.bg = x.bg /\ y.lost = x.lost
      /\ Accounted(x, y, call, "recorded")
  BY AccountEffect
<1>2. GoodContext(y)
  BY AccountType DEF Verdicts
<1> HIDE DEF y
<1>3. z.s = y.s /\ z.bg = y.bg /\ z.lost = y.lost /\ z.acc = y.acc /\ z.why = y.why
  BY <1>2 DEF GoodContext, ContextType
<1>4. Accounted(x, z, call, "recorded")
  BY <1>1, <1>3 DEF Accounted
<1> QED BY <1>1, <1>3, <1>4 DEF RecordUsage, y

(* The stream of a settled response. *)
LEMMA FinishedEffect ==
    ASSUME NEW x, GoodContext(x), NEW kind, NEW w, KindsMatch(x.s.wbuf, kind),
           x.s.cont = NoCall
    PROVE  LET y == [x EXCEPT !.s.st = "Finished"]
           IN  /\ Here(y.s) = {} /\ Orderly(y.s, w, kind)
               /\ y.bg = x.bg /\ y.lost = x.lost /\ NotAccounted(x, y)
<1> DEFINE y == [x EXCEPT !.s.st = "Finished"]
<1>1. /\ y.s.st = "Finished" /\ y.s.cont = NoCall /\ y.s.wbuf = x.s.wbuf
      /\ y.bg = x.bg /\ y.lost = x.lost /\ NotAccounted(x, y)
  BY DEF GoodContext, ContextType, StreamType, NotAccounted
<1> HIDE DEF y
<1>2. Here(y.s) = {} /\ Orderly(y.s, w, kind)
  BY <1>1 DEF Here, Noted, MidResponse, InProgress, IsLlm, Orderly, NoteAt
<1> QED BY <1>1, <1>2 DEF y

(* Deferring the open call puts it in the map, evicting another when the   *)
(* map is full.                                                            *)
LEMMA DeferEffect ==
    ASSUME NEW x, GoodContext(x), x.s.call \in Calls, InProgress(x.s) = {x.s.call},
           NEW id \in Calls, NEW y \in Defer(x, id),
           NEW z, Here(z.s) = {}, z.bg = y.bg, z.lost = y.lost, NotAccounted(y, z)
    PROVE  y.s = x.s /\ Settles(x, z)
<1> DEFINE was == IF id \in DOMAIN x.bg THEN {x.bg[id].call} ELSE {}
           queued == [x EXCEPT !.bg = Insert(@, id, x.s.call),
                               !.lost = @ \cup (IF id \in DOMAIN x.bg THEN {x.bg[id].call}
                                                ELSE {})]
<1>1. queued = [x EXCEPT !.bg = Insert(x.bg, id, x.s.call), !.lost = x.lost \cup was]
  OBVIOUS
<1>2. GoodContext(queued)
  <2>1. Insert(x.bg, id, x.s.call) \in BackgroundMap
    BY InsertType DEF GoodContext, ContextType
  <2>2. was \subseteq Calls
    <3>1. x.bg \in BackgroundMap
      BY DEF GoodContext, ContextType
    <3> QED BY <3>1, BackgroundMapType DEF PendingCall
  <2> HIDE DEF was, queued
  <2> QED BY <1>1, <2>1, <2>2 DEF GoodContext, ContextType
<1>3. /\ queued.s = x.s /\ queued.bg = Insert(x.bg, id, x.s.call)
      /\ queued.lost = x.lost \cup was /\ NotAccounted(x, queued)
  <2> HIDE DEF was, queued
  <2> QED BY <1>1 DEF GoodContext, ContextType, NotAccounted
<1> HIDE DEF queued
<1>4. CASE Evictable(x.bg, id) = {}
  <2>1. y = queued
    BY <1>4 DEF Defer, queued
  <2>2. Defers(x, z, id)
    BY <1>3, <2>1 DEF Defers, NotAccounted, was
  <2> QED BY <1>3, <2>1, <2>2 DEF Settles
<1>5. ASSUME NEW old \in Evictable(x.bg, id),
             y = GiveUp([queued EXCEPT !.bg = Without(@, {old})], x.bg[old].call)
      PROVE  y.s = x.s /\ Settles(x, z)
  <2> DEFINE t == [queued EXCEPT !.bg = Without(@, {old})]
  <2>1. id \notin DOMAIN x.bg /\ old \in DOMAIN x.bg
    BY <1>5 DEF Evictable
  <2>2. GoodContext(t) /\ t.s = x.s /\ t.bg = Without(queued.bg, {old})
        /\ t.lost = queued.lost /\ NotAccounted(queued, t)
    <3>1. queued.bg \in BackgroundMap
      BY <1>2 DEF GoodContext, ContextType
    <3>2. GoodContext(t)
      BY <1>2, <3>1, WithoutType, WithBackground
    <3> QED BY <1>2, <1>3, <3>2 DEF GoodContext, ContextType, NotAccounted
  <2> HIDE DEF t
  <2>3. y = Account(t, x.bg[old].call, "background_unfinished")
    BY <1>5 DEF GiveUp, t
  <2>4. /\ y.s = t.s /\ y.bg = t.bg /\ y.lost = t.lost
        /\ Accounted(t, y, x.bg[old].call, "background_unfinished")
    BY <2>2, <2>3, AccountEffect
  <2>5. was = {}
    BY <2>1
  <2>6. Evicts(x, z, id, old)
    BY <1>3, <2>1, <2>2, <2>4, <2>5 DEF Evicts, NotAccounted, Accounted
  <2>7. old \in Calls
    <3>1. x.bg \in BackgroundMap
      BY DEF GoodContext, ContextType
    <3> QED BY <2>1, <3>1, BackgroundMapType
  <2> QED BY <2>2, <2>4, <2>6, <2>7 DEF Settles
<1>6. \/ Evictable(x.bg, id) = {}
      \/ \E old \in Evictable(x.bg, id) :
            y = GiveUp([queued EXCEPT !.bg = Without(@, {old})], x.bg[old].call)
  BY DEF Defer, queued
<1> QED BY <1>4, <1>5, <1>6

(* The response of a create call exports the call, or makes it wait. *)
LEMMA SettleCreateEffect ==
    ASSUME NEW x, GoodContext(x), IsLlm(x.s), x.s.cont = NoCall,
           NEW r, r \in Parsed \/ r = Unread, NEW y \in SettleCreate(x, r),
           NEW z, Here(z.s) = {}, z.bg = y.bg, z.lost = y.lost, NotAccounted(y, z)
    PROVE  y.s = x.s /\ Settles(x, z)
<1>1. InProgress(x.s) = {x.s.call} /\ x.s.call \in Calls
  BY DEF InProgress, GoodContext, GoodStream
<1>2. CASE r.result = "queued" /\ y \in Defer(x, r.id)
  <2>1. r.id \in Calls
    BY <1>2 DEF Unread, Parsed
  <2> QED BY <1>1, <1>2, <2>1, DeferEffect
<1>3. CASE y = RecordUsage(x, x.s.call, r.id)
  <2>1. /\ y.s = x.s /\ y.bg = x.bg /\ y.lost = x.lost
        /\ Accounted(x, y, x.s.call, "recorded")
    BY <1>3, RecordUsageEffect
  <2>2. Ends(x, z, "recorded")
    BY <1>1, <2>1 DEF Ends, SameCalls, NotAccounted, Accounted
  <2>3. "recorded" \in Direct
    BY DEF Direct, Verdicts
  <2> QED BY <2>1, <2>2, <2>3 DEF Settles
<1> QED BY <1>2, <1>3 DEF SettleCreate

(* The response of a poll takes its call out of the map, or leaves it      *)
(* there.                                                                  *)
LEMMA SettlePollEffect ==
    ASSUME NEW x, GoodContext(x), IsLlm(x.s), x.s.cont # NoCall,
           NEW r, NEW y \in SettlePoll(x, r),
           NEW z, Here(z.s) = {}, z.bg = y.bg, z.lost = y.lost, NotAccounted(y, z)
    PROVE  y.s = [x.s EXCEPT !.cont = NoCall] /\ Settles(x, z)
<1> DEFINE id == x.s.cont
           s == [x.s EXCEPT !.cont = NoCall]
           done == [x EXCEPT !.s.cont = NoCall]
           touched == [done EXCEPT !.bg = Touch(@, id)]
           taken == [done EXCEPT !.bg = Without(@, {id})]
<1>1. /\ GoodContext(done) /\ done.s = s /\ done.bg = x.bg /\ done.lost = x.lost
      /\ NotAccounted(x, done)
  BY DEF GoodContext, ContextType, StreamType, GoodStream, IsLlm, NotAccounted
<1>2. InProgress(x.s) = {}
  BY DEF InProgress
<1> HIDE DEF done, s
<1>3. done.bg \in BackgroundMap
  BY <1>1 DEF GoodContext, ContextType
<1>4. /\ GoodContext(taken) /\ taken.s = s /\ taken.bg = Without(x.bg, {id})
      /\ taken.lost = x.lost /\ NotAccounted(x, taken)
  <2>1. GoodContext(taken)
    BY <1>1, <1>3, WithoutType, WithBackground
  <2> QED BY <1>1, <2>1 DEF GoodContext, ContextType, NotAccounted
<1>5. /\ touched.s = s /\ touched.lost = x.lost /\ NotAccounted(x, touched)
      /\ SameCalls(x, touched)
  <2>1. touched.s = s /\ touched.bg = Touch(x.bg, id) /\ touched.lost = x.lost
        /\ NotAccounted(x, touched)
    BY <1>1 DEF GoodContext, ContextType, NotAccounted
  <2>2. SameCalls(x, [bg |-> Touch(x.bg, id), lost |-> x.lost])
    <3>1. \A i \in DOMAIN x.bg : x.bg[i] \in PendingCall
      BY <1>1, <1>3, BackgroundMapType
    <3> QED BY <3>1 DEF SameCalls, Touch, PendingCall
  <2> HIDE DEF touched
  <2> QED BY <2>1, <2>2 DEF SameCalls
<1> HIDE DEF taken, touched
<1>6. CASE y = touched \/ y = done
  <2>1. Keeps(x, z)
    BY <1>1, <1>2, <1>5, <1>6 DEF Keeps, SameCalls, NotAccounted, Here
  <2> QED BY <1>1, <1>5, <1>6, <2>1 DEF Settles, s
<1>7. ASSUME id \in DOMAIN x.bg, NEW v \in Unfinished,
             y.s = taken.s, y.bg = taken.bg, y.lost = taken.lost,
             Accounted(taken, y, x.bg[id].call, v)
      PROVE  y.s = s /\ Settles(x, z)
  <2>1. Takes(x, z, id, v)
    BY <1>2, <1>4, <1>7 DEF Takes, NotAccounted, Accounted
  <2>2. id \in Calls
    BY <1>1, <1>3, <1>7, BackgroundMapType
  <2> QED BY <1>4, <1>7, <2>1, <2>2 DEF Settles
<1>8. CASE id \in DOMAIN x.bg /\ y = GiveUp(taken, x.bg[id].call)
  <2>1. /\ y.s = taken.s /\ y.bg = taken.bg /\ y.lost = taken.lost
        /\ Accounted(taken, y, x.bg[id].call, "background_unfinished")
    BY <1>4, <1>8, AccountEffect DEF GiveUp
  <2> QED BY <1>7, <1>8, <2>1 DEF Unfinished, s
<1>9. CASE id \in DOMAIN x.bg /\ y = RecordUsage(taken, x.bg[id].call, r.id)
  <2>1. /\ y.s = taken.s /\ y.bg = taken.bg /\ y.lost = taken.lost
        /\ Accounted(taken, y, x.bg[id].call, "recorded")
    BY <1>4, <1>9, RecordUsageEffect
  <2> QED BY <1>7, <1>9, <2>1 DEF Unfinished, s
<1>10. \/ y = touched \/ y = done
       \/ id \in DOMAIN x.bg /\ y = GiveUp(taken, x.bg[id].call)
       \/ id \in DOMAIN x.bg /\ y = RecordUsage(taken, x.bg[id].call, r.id)
  BY DEF SettlePoll, done, touched, taken
<1> QED BY <1>6, <1>8, <1>9, <1>10 DEF s

(* A response that parses settles; one that does not keeps the stream      *)
(* waiting.                                                                *)
LEMMA ParseAndSettleEffect ==
    ASSUME NEW x, GoodContext(x), IsLlm(x.s), NEW f, NEW kind, NEW w, Orderly(x.s, w, kind),
           NEW y \in ParseAndSettle(x, f)
    PROVE  Settles(x, y) /\ Orderly(y.s, w, kind) /\ y.s.wbuf = x.s.wbuf
<1> DEFINE r == IF x.s.past THEN ParseFollowed(x.s.rbuf, x.s.hole)
                ELSE ParseResponse(x.s.rbuf, x.s.hole)
           touched == IF f.last /\ x.s.cont # NoCall THEN Touch(x.bg, x.s.cont) ELSE x.bg
           waiting == [x EXCEPT !.s.st = "ProcessingResponse",
                                !.bg = IF f.last /\ x.s.cont # NoCall
                                       THEN Touch(@, x.s.cont) ELSE @]
<1>1. r \in Parsed \/ r = Unread
  <2>1. x.s.rbuf \in Seq(ReadToken)
    BY DEF GoodContext, ContextType, StreamType
  <2> QED BY <2>1, ParseResponseType, ParseFollowedType
<1>2. CASE y = waiting
  <2>1. y = [x EXCEPT !.s.st = "ProcessingResponse", !.bg = touched]
    BY <1>2
  <2>2. SameCalls(x, [bg |-> touched, lost |-> x.lost])
    <3>1. x.bg \in BackgroundMap
      BY DEF GoodContext, ContextType
    <3>2. \A i \in DOMAIN x.bg : x.bg[i] \in PendingCall
      BY <3>1, BackgroundMapType
    <3> QED BY <3>2 DEF SameCalls, Touch, PendingCall
  <2> HIDE DEF touched, waiting
  <2>3. /\ y.s = [x.s EXCEPT !.st = "ProcessingResponse"]
        /\ y.bg = touched /\ y.lost = x.lost /\ NotAccounted(x, y)
    BY <2>1 DEF GoodContext, ContextType, NotAccounted
  <2>4. /\ y.s.st = "ProcessingResponse" /\ y.s.call = x.s.call /\ y.s.cont = x.s.cont
        /\ y.s.past = x.s.past /\ y.s.wbuf = x.s.wbuf /\ y.s.next = x.s.next
    BY <2>3 DEF GoodContext, ContextType, StreamType
  <2>5. x.s.st = "ProcessingRequest" => x.s.next = NoNext
    BY DEF Orderly
  <2>6. x.s.st \in {"ProcessingRequest", "ProcessingResponse"}
    BY DEF IsLlm
  <2>7. InProgress(y.s) = InProgress(x.s) /\ Noted(y.s) = Noted(x.s)
    BY <2>4, <2>5, <2>6 DEF InProgress, Noted, IsLlm, MidResponse
  <2>8. SameCalls(x, y)
    BY <2>2, <2>3 DEF SameCalls
  <2>9. Keeps(x, y)
    BY <2>3, <2>7, <2>8 DEF Keeps
  <2>10. NoteAt(y.s, w)
    BY <2>4, <2>5, <2>6 DEF Orderly, NoteAt, MidResponse
  <2>11. Orderly(y.s, w, kind)
    BY <2>4, <2>10 DEF Orderly, IsLlm
  <2> QED BY <2>4, <2>9, <2>11 DEF Settles
<1>3. ASSUME NEW z \in Settle(x, r), y = [z EXCEPT !.s.st = "Finished"]
      PROVE  Settles(x, y) /\ Orderly(y.s, w, kind) /\ y.s.wbuf = x.s.wbuf
  <2>1. GoodContext(z)
    BY <1>1, SettleType
  <2>2. CASE x.s.cont = NoCall
    <3>1. z \in SettleCreate(x, r)
      BY <2>2 DEF Settle
    <3>2. y.bg = z.bg /\ y.lost = z.lost /\ NotAccounted(z, y) /\ y.s.st = "Finished"
      BY <1>3, <2>1 DEF GoodContext, ContextType, StreamType, NotAccounted
    <3>3. Here(y.s) = {}
      BY <3>2 DEF Here, Noted, InProgress, MidResponse, IsLlm
    <3> HIDE DEF r
    <3>4. z.s = x.s /\ Settles(x, y)
      BY <1>1, <2>2, <3>1, <3>2, <3>3, SettleCreateEffect
    <3>5. KindsMatch(z.s.wbuf, kind) /\ z.s.cont = NoCall
      BY <2>2, <3>4 DEF Orderly
    <3>6. y.s.wbuf = x.s.wbuf
      BY <1>3, <2>1, <3>4 DEF GoodContext, ContextType, StreamType
    <3> QED BY <1>3, <2>1, <3>4, <3>5, <3>6, FinishedEffect
  <2>3. CASE x.s.cont # NoCall
    <3>1. z \in SettlePoll(x, r)
      BY <2>3 DEF Settle
    <3>2. y.bg = z.bg /\ y.lost = z.lost /\ NotAccounted(z, y) /\ y.s.st = "Finished"
      BY <1>3, <2>1 DEF GoodContext, ContextType, StreamType, NotAccounted
    <3>3. Here(y.s) = {}
      BY <3>2 DEF Here, Noted, InProgress, MidResponse, IsLlm
    <3> HIDE DEF r
    <3>4. z.s = [x.s EXCEPT !.cont = NoCall] /\ Settles(x, y)
      BY <2>3, <3>1, <3>2, <3>3, SettlePollEffect
    <3>5. KindsMatch(z.s.wbuf, kind) /\ z.s.cont = NoCall
      <4>1. z.s.wbuf = x.s.wbuf /\ z.s.cont = NoCall
        BY <3>4 DEF GoodContext, ContextType, StreamType
      <4> QED BY <4>1 DEF Orderly
    <3>6. y.s.wbuf = x.s.wbuf
      <4>1. y.s.wbuf = z.s.wbuf
        BY <1>3, <2>1 DEF GoodContext, ContextType, StreamType
      <4>2. z.s.wbuf = x.s.wbuf
        BY <3>4 DEF GoodContext, ContextType, StreamType
      <4> QED BY <4>1, <4>2
    <3> QED BY <1>3, <2>1, <3>4, <3>5, <3>6, FinishedEffect
  <2> QED BY <2>2, <2>3
<1>4. y = waiting \/ \E z \in Settle(x, r) : y = [z EXCEPT !.s.st = "Finished"]
  BY DEF ParseAndSettle, SettleOrWait
<1> QED BY <1>2, <1>3, <1>4

(***************************************************************************)
(* Events and fragments.                                                   *)
(***************************************************************************)
LEMMA OverflowSettles ==
    ASSUME NEW x, GoodContext(x), NEW reason \in Reasons \ {"background_unfinished"},
           NEW kind, NEW v, Orderly(x.s, v, kind), NEW y \in Overflow(x, reason)
    PROVE  Settles(x, y) /\ Orderly(y.s, y.s.wbuf, kind)
<1>1. (Keeps(x, y) \/ Ends(x, y, reason)) /\ Orderly(y.s, y.s.wbuf, kind)
  BY OverflowEffect
<1>2. reason \in Direct
  BY DEF Direct, Verdicts
<1> QED BY <1>1, <1>2 DEF Settles

(* Bytes appended to a buffer do not change its head. *)
LEMMA HeadOfBoth ==
    ASSUME NEW v \in Seq(WriteToken), NEW toks \in Seq(WriteToken), v # <<>>
    PROVE  Head(v \o toks) = Head(v)
<1>1. Len(v) \in Nat /\ Len(toks) \in Nat /\ Len(v) # 0
  BY LenProperties, EmptySeq
<1>2. (v \o toks)[1] = v[1]
  BY <1>1, ConcatProperties
<1>3. v \o toks # <<>>
  BY ConcatEqualIffEmpty
<1>4. v \o toks \in Seq(WriteToken)
  BY ConcatProperties
<1> QED BY <1>2, <1>3, <1>4

(* The requests of two buffers are those of the one they make. *)
LEMMA KindsOfBoth ==
    ASSUME NEW v \in Seq(WriteToken), NEW toks \in Seq(WriteToken), NEW kind,
           KindsMatch(v, kind), KindsMatch(toks, kind)
    PROVE  v \o toks \in Seq(WriteToken) /\ KindsMatch(v \o toks, kind)
<1> DEFINE w == v \o toks
<1>1. /\ Len(v) \in Nat /\ Len(toks) \in Nat
      /\ DOMAIN v = 1..Len(v) /\ DOMAIN toks = 1..Len(toks)
  BY LenProperties
<1>2. w \in Seq(WriteToken) /\ Len(w) = Len(v) + Len(toks)
  BY ConcatProperties
<1>3. DOMAIN w = 1..(Len(v) + Len(toks))
  BY <1>2, LenProperties
<1>4. \A i \in DOMAIN w : w[i] = IF i <= Len(v) THEN v[i] ELSE toks[i - Len(v)]
  BY <1>3, ConcatProperties
<1> HIDE DEF w
<1>5. ASSUME NEW i \in DOMAIN w, w[i].t = "req"
      PROVE  w[i].kind = kind[w[i].call]
  <2>1. CASE i <= Len(v)
    <3>1. w[i] = v[i] /\ i \in DOMAIN v
      BY <1>1, <1>3, <1>4, <2>1
    <3> QED BY <1>5, <3>1 DEF KindsMatch
  <2>2. CASE ~(i <= Len(v))
    <3>1. w[i] = toks[i - Len(v)] /\ i - Len(v) \in DOMAIN toks
      BY <1>1, <1>3, <1>4, <2>2
    <3> QED BY <1>5, <3>1 DEF KindsMatch
  <2> QED BY <2>1, <2>2
<1>6. KindsMatch(w, kind)
  BY <1>5 DEF KindsMatch
<1> QED BY <1>2, <1>6 DEF w

(* A Write settles what it ends, or detects the request it completes. *)
LEMMA HandleWriteEffect ==
    ASSUME NEW x, GoodContext(x), NEW f, f.dir = "Write", f.toks \in Seq(WriteToken),
           NEW kind, KindsMatch(f.toks, kind), Orderly(x.s, x.s.wbuf \o f.toks, kind),
           NEW y \in HandleWrite(x, f)
    PROVE  /\ Settles(x, y) \/ (~IsLlm(x.s) /\ Detects(x, y, RequestIn(f)))
           /\ Orderly(y.s, y.s.wbuf, kind)
<1> DEFINE u == IF x.s.st = "Finished" THEN Reset(x) ELSE x
           w == u.s.wbuf \o f.toks
           z == [u EXCEPT !.s.wbuf = @ \o f.toks]
<1>1. /\ GoodContext(u)
      /\ u.bg = x.bg /\ u.lost = x.lost /\ NotAccounted(x, u)
      /\ InProgress(u.s) = InProgress(x.s) /\ Noted(u.s) = Noted(x.s)
      /\ Orderly(u.s, w, kind)
      /\ u = x \/ (~IsLlm(x.s) /\ ~IsLlm(u.s))
  <2>1. CASE x.s.st = "Finished"
    <3> DEFINE v == Reset(x)
    <3>1. u = v
      BY <2>1
    <3>2. /\ v.s.st = "Detecting"
          /\ v.bg = x.bg /\ v.lost = x.lost /\ NotAccounted(x, v)
          /\ Here(v.s) = {} /\ Orderly(v.s, v.s.wbuf \o f.toks, kind)
      BY ResetEffect
    <3>3. GoodContext(v)
      BY ResetType
    <3>4. Here(x.s) = {} /\ ~IsLlm(x.s)
      BY <2>1 DEF Here, Noted, InProgress, MidResponse, IsLlm
    <3> HIDE DEF u, v
    <3> QED BY <3>1, <3>2, <3>3, <3>4 DEF Here, IsLlm
  <2>2. CASE x.s.st # "Finished"
    <3>1. u = x
      BY <2>2
    <3> HIDE DEF u
    <3> QED BY <3>1 DEF NotAccounted
  <2> QED BY <2>1, <2>2
<1> HIDE DEF u
<1>2. w \in Seq(WriteToken) /\ KindsMatch(w, kind)
  <2>1. u.s.wbuf \in Seq(WriteToken) /\ KindsMatch(u.s.wbuf, kind)
    BY <1>1 DEF GoodContext, ContextType, StreamType, Orderly
  <2> QED BY <2>1, KindsOfBoth
<1>3. u.s.st = "Detecting" /\ IsRequestHead(w) /\ Head(w).kind = "llm"
      => RequestIn(f) = {Head(w).call}
  <2>1. u.s.wbuf \in Seq(WriteToken)
    BY <1>1 DEF GoodContext, ContextType, StreamType
  <2>2. CASE u.s.wbuf = <<>>
    <3>1. w = f.toks
      BY <2>2, ConcatEmptySeq
    <3> QED BY <3>1 DEF RequestIn
  <2>3. CASE u.s.wbuf # <<>>
    <3>1. Head(w) = Head(u.s.wbuf)
      BY <2>1, <2>3, HeadOfBoth
    <3> QED BY <1>1, <2>3, <3>1 DEF Orderly, IsRequestHead
  <2> QED BY <2>2, <2>3
<1>4. /\ GoodContext(z) /\ z.s.wbuf = w
      /\ z.s.st = u.s.st /\ z.s.call = u.s.call /\ z.s.cont = u.s.cont
      /\ z.s.next = u.s.next /\ z.s.past = u.s.past
      /\ z.bg = u.bg /\ z.lost = u.lost /\ NotAccounted(u, z)
  <2>1. z = [u EXCEPT !.s.wbuf = w]
    OBVIOUS
  <2> HIDE DEF w, z
  <2> QED BY <1>1, <1>2, <2>1
          DEF GoodContext, ContextType, StreamType, GoodStream, IsLlm, NotAccounted
<1> HIDE DEF z, w
<1>5. InProgress(z.s) = InProgress(u.s) /\ Noted(z.s) = Noted(u.s)
  BY <1>4 DEF InProgress, Noted, IsLlm, MidResponse
<1>6. CASE y \in Overflow(u, "request_too_large")
  <2>1. Settles(u, y) /\ Orderly(y.s, y.s.wbuf, kind)
    BY <1>1, <1>6, OverflowSettles DEF Reasons
  <2>2. CASE u = x
    BY <2>1, <2>2
  <2>3. CASE ~IsLlm(u.s)
    <3>1. Keeps(u, y)
      <4>1. InProgress(u.s) = {}
        BY <2>3 DEF InProgress
      <4>2. Overflow(u, "request_too_large") = {Reset(u)}
        BY <2>3 DEF Overflow, DropResponse
      <4>3. /\ y.bg = u.bg /\ y.lost = u.lost /\ NotAccounted(u, y) /\ Here(y.s) = {}
        BY <1>1, <1>6, <4>2, ResetEffect
      <4> QED BY <4>1, <4>3 DEF Keeps, SameCalls, Here
    <3>2. Keeps(x, y)
      BY <1>1, <3>1 DEF Keeps, SameCalls, NotAccounted
    <3> QED BY <2>1, <3>2 DEF Settles
  <2> QED BY <1>1, <2>1, <2>2, <2>3
<1>7. CASE z.s.st = "Detecting" /\ y = Detect(z)
  <2>1. ~IsLlm(z.s) /\ z.s.cont = NoCall /\ z.s.next = NoNext
    BY <1>1, <1>4, <1>7 DEF Orderly, IsLlm
  <2>2. Detects(z, y, IF IsRequestHead(w) /\ Head(w).kind = "llm" THEN {Head(w).call} ELSE {})
    BY <1>2, <1>4, <1>7, <2>1, DetectEffect
  <2>3. Orderly(y.s, y.s.wbuf, kind)
    BY <1>2, <1>4, <1>7, <2>1, DetectEffect
  <2>4. Detects(z, y, RequestIn(f))
    BY <1>3, <1>4, <1>7, <2>2 DEF Detects
  <2>5. ~IsLlm(x.s)
    BY <1>1, <1>4, <2>1 DEF IsLlm
  <2>6. Detects(x, y, RequestIn(f))
    BY <1>1, <1>4, <1>5, <2>4 DEF Detects, SameCalls, NotAccounted
  <2> QED BY <2>3, <2>5, <2>6
<1>8. CASE \/ z.s.st = "ProcessingResponse" /\ y \in ParseAndSettle(z, f)
           \/ z.s.st # "Detecting" /\ y = z
  <2>1. u = x
    <3>1. u.s.st # "Detecting"
      BY <1>4, <1>8
    <3>2. x.s.st = "Finished" => u.s.st = "Detecting"
      BY ResetEffect DEF u
    <3> QED BY <3>1, <3>2 DEF u
  <2>2. SamePlaces(x, z)
    BY <1>1, <1>4, <1>5, <2>1 DEF SamePlaces, NotAccounted
  <2>3. Orderly(z.s, z.s.wbuf, kind)
    <3>1. NoteAt(z.s, w)
      BY <1>1, <1>4 DEF Orderly, NoteAt, MidResponse
    <3> QED BY <1>1, <1>2, <1>4, <1>8, <3>1 DEF Orderly, IsLlm
  <2>4. CASE y = z
    <3>1. Keeps(x, y)
      BY <2>2, <2>4 DEF SamePlaces, Keeps, SameCalls
    <3> QED BY <2>3, <2>4, <3>1 DEF Settles
  <2>5. CASE y \in ParseAndSettle(z, f) /\ z.s.st = "ProcessingResponse"
    <3>1. IsLlm(z.s)
      BY <2>5 DEF IsLlm
    <3>2. Settles(z, y) /\ Orderly(y.s, w, kind) /\ y.s.wbuf = w
      BY <1>4, <2>3, <2>5, <3>1, ParseAndSettleEffect
    <3>3. Settles(x, y)
      BY <2>2, <3>2, SettlesFrom
    <3> QED BY <3>2, <3>3
  <2> QED BY <1>8, <2>4, <2>5
<1>9. \/ y \in Overflow(u, "request_too_large")
      \/ z.s.st = "Detecting" /\ y = Detect(z)
      \/ z.s.st = "ProcessingResponse" /\ y \in ParseAndSettle(z, f)
      \/ z.s.st # "Detecting" /\ y = z
  BY DEF HandleWrite, u, z
<1> QED BY <1>6, <1>7, <1>8, <1>9

(* A Read settles the response it completes, or ends one over the limit. *)
LEMMA HandleReadEffect ==
    ASSUME NEW x, GoodContext(x), NEW f, f.toks \in Seq(ReadToken),
           NEW hole \in SUBSET {"ends", "parses"}, NEW kind, Orderly(x.s, x.s.wbuf, kind),
           NEW y \in HandleRead(x, f, hole)
    PROVE  Settles(x, y) /\ Orderly(y.s, y.s.wbuf, kind)
<1> DEFINE b == x.s.rbuf \o f.toks
           u == [x EXCEPT !.s.rbuf = @ \o f.toks, !.s.hole = hole]
           v == [u EXCEPT !.s.past = TRUE]
<1>1. CASE ~IsLlm(x.s)
  <2>1. y = x \/ y = [x EXCEPT !.s.wbuf = <<>>]
    BY <1>1 DEF HandleRead, IgnoreRead
  <2>2. CASE y = x
    <3>1. Keeps(x, y)
      BY <2>2 DEF Keeps, SameCalls, NotAccounted
    <3> QED BY <2>2, <3>1 DEF Settles
  <2>3. CASE y = [x EXCEPT !.s.wbuf = <<>>]
    <3>1. /\ y.s.wbuf = <<>> /\ y.s.st = x.s.st /\ y.s.cont = x.s.cont /\ y.s.next = x.s.next
          /\ y.bg = x.bg /\ y.lost = x.lost /\ NotAccounted(x, y)
      BY <2>3 DEF GoodContext, ContextType, StreamType, NotAccounted
    <3>2. ~IsLlm(y.s) /\ ~MidResponse(y.s)
      BY <1>1, <3>1 DEF IsLlm, MidResponse
    <3>3. Keeps(x, y)
      BY <1>1, <3>1, <3>2 DEF Keeps, SameCalls, InProgress, Noted
    <3>4. Orderly(y.s, y.s.wbuf, kind)
      BY <1>1, <3>1, <3>2 DEF Orderly, KindsMatch, NoteAt, IsRequestHead
    <3> QED BY <3>3, <3>4 DEF Settles
  <2> QED BY <2>1, <2>2, <2>3
<1>2. CASE IsLlm(x.s)
  <2>1. b \in Seq(ReadToken)
    BY ConcatProperties DEF GoodContext, ContextType, StreamType
  <2>2. u = [x EXCEPT !.s.rbuf = b, !.s.hole = hole]
    OBVIOUS
  <2> HIDE DEF b, u
  <2>3. /\ GoodContext(u) /\ u.s.wbuf = x.s.wbuf
        /\ u.s.st = x.s.st /\ u.s.call = x.s.call /\ u.s.cont = x.s.cont
        /\ u.s.next = x.s.next /\ u.s.past = x.s.past
        /\ u.bg = x.bg /\ u.lost = x.lost /\ NotAccounted(x, u)
    BY <2>1, <2>2
       DEF GoodContext, ContextType, StreamType, GoodStream, IsLlm, NotAccounted
  <2>4. /\ GoodContext(v) /\ v.s.wbuf = x.s.wbuf
        /\ v.s.st = x.s.st /\ v.s.call = x.s.call /\ v.s.cont = x.s.cont
        /\ v.s.next = x.s.next /\ v.s.past
        /\ v.bg = x.bg /\ v.lost = x.lost /\ NotAccounted(x, v)
    BY <2>3 DEF GoodContext, ContextType, StreamType, GoodStream, IsLlm, NotAccounted
  <2> HIDE DEF v
  <2>5. SamePlaces(x, u) /\ Orderly(u.s, u.s.wbuf, kind) /\ IsLlm(u.s)
    BY <1>2, <2>3
       DEF SamePlaces, Orderly, NoteAt, MidResponse, InProgress, Noted, IsLlm
  <2>6. SamePlaces(x, v) /\ Orderly(v.s, v.s.wbuf, kind) /\ IsLlm(v.s)
    BY <1>2, <2>4
       DEF SamePlaces, Orderly, NoteAt, MidResponse, InProgress, Noted, IsLlm
  <2>7. CASE y \in ParseAndSettle(u, f)
    <3>1. Settles(u, y) /\ Orderly(y.s, y.s.wbuf, kind)
      BY <2>3, <2>5, <2>7, ParseAndSettleEffect
    <3> QED BY <2>5, <3>1, SettlesFrom
  <2>8. CASE y \in ParseAndSettle(v, f)
    <3>1. Settles(v, y) /\ Orderly(y.s, y.s.wbuf, kind)
      BY <2>4, <2>6, <2>8, ParseAndSettleEffect
    <3> QED BY <2>6, <3>1, SettlesFrom
  <2>9. CASE y \in Overflow(u, "response_too_large")
    <3>1. Settles(u, y) /\ Orderly(y.s, y.s.wbuf, kind)
      BY <2>3, <2>5, <2>9, OverflowSettles DEF Reasons
    <3> QED BY <2>5, <3>1, SettlesFrom
  <2>10. \/ HandleRead(x, f, hole) = ParseAndSettle(u, f)
         \/ HandleRead(x, f, hole) = ParseAndSettle(v, f)
         \/ HandleRead(x, f, hole) = Overflow(u, "response_too_large")
    BY <1>2 DEF HandleRead, u, v, b
  <2> QED BY <2>7, <2>8, <2>9, <2>10
<1> QED BY <1>1, <1>2

(* handle_event: the last half of handling a fragment. *)
LEMMA HandleEventEffect ==
    ASSUME NEW x, GoodContext(x), NEW f, GoodFragment(f), f.dir # "Closed", NEW kind,
           f.dir = "Write" => /\ KindsMatch(f.toks, kind)
                              /\ Orderly(x.s, x.s.wbuf \o f.toks, kind),
           f.dir = "Read" => Orderly(x.s, x.s.wbuf, kind),
           NEW y \in HandleEvent(x, f)
    PROVE  /\ Settles(x, y) \/ (f.dir = "Write" /\ ~IsLlm(x.s) /\ Detects(x, y, RequestIn(f)))
           /\ Orderly(y.s, y.s.wbuf, kind)
<1> DEFINE u == [x EXCEPT !.s.idle = 0]
<1>1. /\ GoodContext(u) /\ u.s.wbuf = x.s.wbuf
      /\ u.s.st = x.s.st /\ u.s.call = x.s.call /\ u.s.cont = x.s.cont
      /\ u.s.next = x.s.next /\ u.s.past = x.s.past
      /\ u.bg = x.bg /\ u.lost = x.lost /\ NotAccounted(x, u)
  <2>1. 0 \in 0..Retention
    BY StreamsAssumption, BackgroundAssumption
  <2> QED BY <2>1
          DEF GoodContext, ContextType, StreamType, GoodStream, IsLlm, NotAccounted
<1> HIDE DEF u
<1>2. SamePlaces(x, u) /\ (IsLlm(u.s) <=> IsLlm(x.s))
  BY <1>1 DEF SamePlaces, InProgress, Noted, IsLlm, MidResponse
<1>3. \A w : Orderly(x.s, w, kind) => Orderly(u.s, w, kind)
  BY <1>1 DEF Orderly, NoteAt, IsLlm, MidResponse
<1>4. CASE f.dir = "Write"
  <2>1. f.toks \in Seq(WriteToken) /\ y \in HandleWrite(u, f)
    BY <1>4 DEF GoodFragment, HandleEvent, u
  <2>2. Orderly(u.s, u.s.wbuf \o f.toks, kind)
    BY <1>1, <1>3, <1>4
  <2>3. /\ Settles(u, y) \/ (~IsLlm(u.s) /\ Detects(u, y, RequestIn(f)))
        /\ Orderly(y.s, y.s.wbuf, kind)
    BY <1>1, <1>4, <2>1, <2>2, HandleWriteEffect
  <2>4. CASE Settles(u, y)
    BY <1>2, <2>3, <2>4, SettlesFrom
  <2>5. CASE ~IsLlm(u.s) /\ Detects(u, y, RequestIn(f))
    <3>1. Detects(x, y, RequestIn(f))
      BY <1>2, <2>5 DEF SamePlaces, Detects, SameCalls, NotAccounted
    <3> QED BY <1>2, <1>4, <2>3, <2>5, <3>1
  <2> QED BY <2>3, <2>4, <2>5
<1>5. CASE f.dir = "Read"
  <2>1. f.toks \in Seq(ReadToken)
    BY <1>5 DEF GoodFragment
  <2>2. PICK hole \in Holes(x.s.rbuf \o f.toks) : y \in HandleRead(u, f, hole)
    BY <1>5 DEF HandleEvent, u
  <2>3. hole \in SUBSET {"ends", "parses"}
    BY HolesType
  <2>4. Orderly(u.s, u.s.wbuf, kind)
    BY <1>1, <1>3, <1>5
  <2>5. Settles(u, y) /\ Orderly(y.s, y.s.wbuf, kind)
    BY <1>1, <2>1, <2>2, <2>3, <2>4, HandleReadEffect
  <2> QED BY <1>2, <2>5, SettlesFrom
<1> QED BY <1>4, <1>5 DEF GoodFragment, FragmentType

(* What the losses a fragment tells of end, if any. *)
Drops(x, d) ==
    Keeps(x, d) \/ \E reason \in {"capture_lost", "next_request"} : Ends(x, d, reason)

(* The noted request is resumed with, or one is noted, or neither. *)
Prepares(x, d, t, f) ==
    \/ t = d
    \/ f.dir = "Read" /\ Noted(d.s) = {} /\ Detects(d, t, Noted(x.s))
    \/ f.dir = "Write" /\ IsLlm(t.s) /\ Notes(d, t, RequestIn(f))

Handles(t, y, f) ==
    Settles(t, y) \/ (f.dir = "Write" /\ ~IsLlm(t.s) /\ Detects(t, y, RequestIn(f)))

(* handle_fragment is three of the effects in a row: what the fragment     *)
(* tells of losses, the note it resumes with or makes, and what it brings. *)
LEMMA HandleFragmentEffect ==
    ASSUME NEW x, GoodContext(x), NEW f, GoodFragment(f), f.dir # "Closed", NEW kind,
           Orderly(x.s, x.s.wbuf, kind), f.dir = "Write" => KindsMatch(f.toks, kind),
           NEW y \in HandleFragment(x, f)
    PROVE  /\ \E d, t : /\ GoodContext(d) /\ GoodContext(t)
                        /\ Drops(x, d) /\ Prepares(x, d, t, f) /\ Handles(t, y, f)
           /\ Orderly(y.s, y.s.wbuf, kind)
<1> DEFINE fragNext == IF f.last THEN 0 ELSE f.off + 1
           tracked == [x EXCEPT !.s.fragNext = IF f.last THEN 0 ELSE f.off + 1,
                                !.s.fragDir = f.dir]
           outOfOrder == f.off # x.s.fragNext
           lostTail == outOfOrder /\ f.off = 0 /\ x.s.fragDir = "Read"
           lostHere == ((outOfOrder /\ f.off # 0) \/ f.trunc) /\ f.dir = "Read"
           gap == lostTail \/ lostHere
           resync == f.off = 0 /\ ~gap /\ LostTail(x.s, f)
           d == IF gap THEN DropResponse(tracked, "capture_lost")
                ELSE IF f.dir = "Write" /\ AwaitsResponse(x.s)
                     THEN DropResponse(tracked, "next_request")
                ELSE IF resync \/ (f.off = 0 /\ LostHead(x.s, f))
                     THEN DropResponse(tracked, "capture_lost")
                ELSE tracked
           t == IF resync THEN ResumeNext(d)
                ELSE IF f.off = 0 /\ f.dir = "Write" THEN NoteNext(d, f)
                ELSE d
<1>1. /\ GoodContext(tracked) /\ tracked.s.wbuf = x.s.wbuf
      /\ tracked.s.st = x.s.st /\ tracked.s.call = x.s.call /\ tracked.s.cont = x.s.cont
      /\ tracked.s.next = x.s.next /\ tracked.s.past = x.s.past
      /\ tracked.bg = x.bg /\ tracked.lost = x.lost /\ NotAccounted(x, tracked)
  <2>1. fragNext \in 0..2 /\ f.dir \in {"Unknown", "Read", "Write"}
    BY DEF GoodFragment, FragmentType
  <2>2. tracked = [x EXCEPT !.s.fragNext = fragNext, !.s.fragDir = f.dir]
    OBVIOUS
  <2> HIDE DEF fragNext, tracked
  <2> QED BY <2>1, <2>2
          DEF GoodContext, ContextType, StreamType, GoodStream, IsLlm, NotAccounted
<1>2. HandleFragment(x, f) = IF outOfOrder /\ f.off # 0 THEN {t} ELSE HandleEvent(t, f)
  BY DEF HandleFragment
<1>3. resync => /\ d = DropResponse(tracked, "capture_lost")
                /\ f.dir = "Read" /\ MidResponse(x.s) /\ x.s.next # NoNext
  BY DEF LostTail
<1>4. \/ d = tracked
      \/ \E reason \in {"capture_lost", "next_request"} : d = DropResponse(tracked, reason)
  <2> HIDE DEF gap, resync, tracked
  <2> QED OBVIOUS
<1>5. \/ resync /\ t = ResumeNext(d)
      \/ ~resync /\ f.off = 0 /\ f.dir = "Write" /\ t = NoteNext(d, f)
      \/ ~resync /\ ~(f.off = 0 /\ f.dir = "Write") /\ t = d
  <2> HIDE DEF resync, d
  <2> QED OBVIOUS
<1> HIDE DEF tracked, outOfOrder, gap, resync, d, t
<1>6. SamePlaces(x, tracked) /\ (IsLlm(tracked.s) <=> IsLlm(x.s))
  BY <1>1 DEF SamePlaces, InProgress, Noted, IsLlm, MidResponse
<1>7. Orderly(tracked.s, tracked.s.wbuf, kind)
  BY <1>1 DEF Orderly, NoteAt, IsLlm, MidResponse
<1>8. /\ GoodContext(d) /\ Orderly(d.s, d.s.wbuf, kind) /\ Drops(x, d)
      /\ d.s.wbuf = x.s.wbuf /\ d.s.next = x.s.next
  <2>1. CASE d = tracked
    <3>1. Keeps(x, d)
      BY <1>6, <2>1 DEF SamePlaces, Keeps, SameCalls
    <3> QED BY <1>1, <1>7, <2>1, <3>1 DEF Drops
  <2>2. ASSUME NEW reason \in {"capture_lost", "next_request"},
               d = DropResponse(tracked, reason)
        PROVE  /\ GoodContext(d) /\ Orderly(d.s, d.s.wbuf, kind) /\ Drops(x, d)
               /\ d.s.wbuf = x.s.wbuf /\ d.s.next = x.s.next
    <3>1. reason \in Reasons
      BY DEF Reasons
    <3>2. /\ Keeps(tracked, d) \/ Ends(tracked, d, reason)
          /\ Orderly(d.s, tracked.s.wbuf, kind)
          /\ ~IsLlm(d.s) \/ d = tracked
          /\ IsLlm(tracked.s) => d.s = [tracked.s EXCEPT !.st = "Finished", !.cont = NoCall]
      BY <1>1, <1>7, <2>2, <3>1, DropResponseEffect
    <3>3. GoodContext(d)
      BY <1>1, <2>2, <3>1, DropResponseType
    <3>4. d.s.wbuf = x.s.wbuf /\ d.s.next = x.s.next
      <4>1. CASE IsLlm(tracked.s)
        BY <1>1, <3>2, <4>1, ZenonT(60) DEF GoodContext, ContextType, StreamType
      <4>2. CASE ~IsLlm(tracked.s)
        BY <1>1, <2>2, <4>2 DEF DropResponse
      <4> QED BY <4>1, <4>2
    <3>5. CASE Keeps(tracked, d)
      <4>1. Keeps(x, d)
        BY <1>6, <3>5 DEF SamePlaces, Keeps, SameCalls, NotAccounted
      <4> QED BY <1>1, <3>2, <3>3, <3>4, <4>1 DEF Drops
    <3>6. CASE Ends(tracked, d, reason)
      <4>1. Ends(x, d, reason)
        BY <1>6, <3>6 DEF SamePlaces, Ends, SameCalls, NotAccounted, Accounted
      <4> QED BY <1>1, <3>2, <3>3, <3>4, <4>1 DEF Drops
    <3> QED BY <3>2, <3>5, <3>6
  <2> QED BY <1>4, <2>1, <2>2
<1>9. /\ GoodContext(t) /\ Prepares(x, d, t, f)
      /\ f.dir = "Read" \/ f.off # 0 => Orderly(t.s, t.s.wbuf, kind)
      /\ f.dir = "Write" => Orderly(t.s, t.s.wbuf \o f.toks, kind)
  <2>1. CASE resync /\ t = ResumeNext(d)
    <3>1. f.dir = "Read" /\ MidResponse(x.s) /\ x.s.next # NoNext
      BY <1>3, <2>1
    <3>2. IsLlm(tracked.s)
      BY <1>6, <3>1 DEF MidResponse, IsLlm
    <3>3. d.s = [tracked.s EXCEPT !.st = "Finished", !.cont = NoCall]
      BY <1>1, <1>3, <1>7, <2>1, <3>2, DropResponseEffect DEF Reasons
    <3>4. d.s.st = "Finished" /\ d.s.cont = NoCall
      BY <1>1, <3>3 DEF GoodContext, ContextType, StreamType
    <3>5. /\ d.s.next.at + 1 \in DOMAIN d.s.wbuf
          /\ d.s.wbuf[d.s.next.at + 1].t = "req"
          /\ d.s.wbuf[d.s.next.at + 1].call = d.s.next.call
      BY <1>8, <3>1 DEF Orderly, NoteAt
    <3>6. ~IsLlm(d.s) /\ Noted(d.s) = {} /\ Noted(x.s) = {d.s.next.call}
      BY <1>8, <3>1, <3>4 DEF IsLlm, Noted, MidResponse
    <3>7. KindsMatch(d.s.wbuf, kind)
      BY <1>8 DEF Orderly
    <3>8. Detects(d, t, {d.s.next.call}) /\ Orderly(t.s, t.s.wbuf, kind)
      BY <1>8, <2>1, <3>4, <3>5, <3>6, <3>7, ResumeNextEffect
    <3>9. GoodContext(t)
      BY <1>8, <2>1, ResumeNextType
    <3> QED BY <3>1, <3>6, <3>8, <3>9 DEF Prepares
  <2>2. CASE f.off = 0 /\ f.dir = "Write" /\ t = NoteNext(d, f)
    <3>1. f.toks \in Seq(WriteToken)
      BY <2>2 DEF GoodFragment
    <3>2. /\ t = d \/ (IsLlm(t.s) /\ Notes(d, t, RequestIn(f)))
          /\ Orderly(t.s, t.s.wbuf \o f.toks, kind)
      BY <1>8, <2>2, <3>1, NoteNextEffect
    <3>3. GoodContext(t)
      BY <1>8, <2>2, <3>1, NoteNextType
    <3> QED BY <2>2, <3>2, <3>3 DEF Prepares
  <2>3. CASE t = d
    <3>1. f.dir = "Write" => Orderly(d.s, d.s.wbuf \o f.toks, kind)
      <4>1. f.dir = "Write" => f.toks \in Seq(WriteToken)
        BY DEF GoodFragment
      <4>2. d.s \in StreamType
        BY <1>8 DEF GoodContext, ContextType
      <4> QED BY <1>8, <4>1, <4>2, MoreWritten
    <3> QED BY <1>8, <2>3, <3>1 DEF Prepares
  <2> QED BY <1>5, <2>1, <2>2, <2>3
<1>10. CASE outOfOrder /\ f.off # 0
  <2>1. y = t
    BY <1>2, <1>10
  <2>2. Keeps(t, y)
    BY <2>1 DEF Keeps, SameCalls, NotAccounted
  <2>3. Handles(t, y, f)
    BY <2>2 DEF Handles, Settles
  <2> QED BY <1>8, <1>9, <1>10, <2>1, <2>3
<1>11. CASE ~(outOfOrder /\ f.off # 0)
  <2>1. y \in HandleEvent(t, f)
    BY <1>2, <1>11
  <2>2. Handles(t, y, f) /\ Orderly(y.s, y.s.wbuf, kind)
    BY <1>9, <2>1, HandleEventEffect DEF Handles
  <2> QED BY <1>8, <1>9, <2>2
<1> QED BY <1>10, <1>11

(* Places apart from some calls are apart from fewer. *)
LEMMA ApartFromFewer ==
    ASSUME NEW x, NEW more, NEW others, Apart(x, more), others \subseteq more
    PROVE  Apart(x, others)
BY DEF Apart, ApartHere

(* Settling keeps the places apart, however the response ended. *)
LEMMA SettlesApart ==
    ASSUME NEW x, GoodContext(x), NEW y, NEW others, Settles(x, y), Apart(x, others)
    PROVE  Apart(y, others)
<1>1. CASE Keeps(x, y)
  <2>1. Apart(y, others \cup (Noted(x.s) \ Noted(y.s)))
    BY <1>1, KeepsApart
  <2> QED BY <2>1, ApartFromFewer
<1>2. CASE Apart(y, others \cup Noted(x.s))
  BY <1>2, ApartFromFewer
<1> QED BY <1>1, <1>2, EndsApart, DefersApart, EvictsApart, TakesApart DEF Settles

(* Neither does ending a response for what a fragment tells of losses; the *)
(* calls it forgets to have noted are nowhere in the context then.         *)
LEMMA DropsApart ==
    ASSUME NEW x, GoodContext(x), NEW d, Drops(x, d), NEW others, Apart(x, others)
    PROVE  Apart(d, others \cup (Noted(x.s) \ Noted(d.s)))
<1>1. CASE Keeps(x, d)
  BY <1>1, KeepsApart
<1>2. ASSUME NEW reason \in {"capture_lost", "next_request"}, Ends(x, d, reason)
      PROVE  Apart(d, others \cup (Noted(x.s) \ Noted(d.s)))
  <2>1. Apart(d, others \cup Noted(x.s))
    BY <1>2, EndsApart
  <2> QED BY <2>1, ApartFromFewer
<1> QED BY <1>1, <1>2 DEF Drops

(* Resuming with the noted request, or noting one, brings the request in;  *)
(* one that is neither is still on its way.                                *)
LEMMA PreparesApart ==
    ASSUME NEW x, NEW f, NEW d, GoodContext(d), NEW t, Prepares(x, d, t, f),
           NEW others, RequestIn(f) \cap others = {}, Noted(x.s) \cap others = {},
           Apart(d, others \cup RequestIn(f) \cup (Noted(x.s) \ Noted(d.s)))
    PROVE  \/ Apart(t, others \cup RequestIn(f))
           \/ Apart(t, others) /\ (f.dir = "Read" \/ IsLlm(t.s))
<1>1. CASE t = d
  BY <1>1, ApartFromFewer
<1>2. CASE f.dir = "Read" /\ Noted(d.s) = {} /\ Detects(d, t, Noted(x.s))
  <2>1. Apart(d, others \cup Noted(x.s))
    BY <1>2, ApartFromFewer
  <2>2. Apart(t, others)
    BY <1>2, <2>1, DetectsApart
  <2> QED BY <1>2, <2>2
<1>3. CASE f.dir = "Write" /\ IsLlm(t.s) /\ Notes(d, t, RequestIn(f))
  <2>1. Apart(d, others \cup RequestIn(f))
    BY ApartFromFewer
  <2>2. Apart(t, others)
    BY <1>3, <2>1, NotesApart
  <2> QED BY <1>3, <2>2
<1> QED BY <1>1, <1>2, <1>3 DEF Prepares

(* A fragment keeps the places apart. *)
LEMMA HandleFragmentApart ==
    ASSUME NEW x, GoodContext(x), NEW f, NEW d, GoodContext(d), NEW t, GoodContext(t), NEW y,
           Drops(x, d), Prepares(x, d, t, f), Handles(t, y, f), f.dir \in {"Read", "Write"},
           NEW others, RequestIn(f) \cap others = {}, Apart(x, others \cup RequestIn(f))
    PROVE  Apart(y, others)
<1>1. Apart(d, others \cup RequestIn(f) \cup (Noted(x.s) \ Noted(d.s)))
  BY DropsApart
<1>2. Noted(x.s) \cap others = {}
  BY DEF Apart, Here
<1>3. \/ Apart(t, others \cup RequestIn(f))
      \/ Apart(t, others) /\ (f.dir = "Read" \/ IsLlm(t.s))
  BY <1>1, <1>2, PreparesApart
<1>4. CASE Settles(t, y)
  <2>1. Apart(t, others)
    BY <1>3, ApartFromFewer
  <2> QED BY <1>4, <2>1, SettlesApart
<1>5. CASE f.dir = "Write" /\ ~IsLlm(t.s) /\ Detects(t, y, RequestIn(f))
  <2>1. Apart(t, others \cup RequestIn(f))
    BY <1>3, <1>5
  <2> QED BY <1>5, <2>1, DetectsApart
<1> QED BY <1>4, <1>5 DEF Handles

(***************************************************************************)
(* The inductive invariant.                                                *)
(***************************************************************************)
KindOf == [c \in Calls |-> truth[c].kind]

(* Requests on their way to the agent. *)
Coming == IF ring.frags = <<>> THEN {} ELSE RequestIn(Head(ring.frags))

(* Calls in no stream, and not in its context: taken out, dropped, not made *)
(* yet, or not heard of yet.                                               *)
Outside == expired \cup swept \cup Unused \cup Coming

AllHere == UNION {Here(streams[k]) : k \in Conns}

(* The places of the whole state hold different calls. *)
PlacesApart ==
    /\ ApartHere(bg, ledger.acc, ledger.why, ledger.lost, AllHere \cup Outside)
    /\ AllHere \cap Outside = {}
    /\ \A j, k \in Conns : j # k => Here(streams[j]) \cap Here(streams[k]) = {}
    /\ \A k \in Conns : Noted(streams[k]) \cap InProgress(streams[k]) = {}
    /\ expired \cap (swept \cup Unused \cup Coming) = {}
    /\ swept \cap (Unused \cup Coming) = {}
    /\ Unused \cap Coming = {}

StreamsOrderly == \A k \in Conns : Orderly(streams[k], streams[k].wbuf, KindOf)

(* One SSL_write brings one request at most, in one record. *)
RingOnce ==
    \A i \in DOMAIN ring.frags : ring.frags[i].dir = "Write" =>
        Len(ring.frags) = 1 /\ KindsMatch(ring.frags[i].toks, KindOf)

TruthOK ==
    truth \in [Calls -> [kind : {"none", "llm", "poll", "other"}, id : Calls \cup {NoCall},
                         result : Results, fits : BOOLEAN, follows : BOOLEAN,
                         hit : BOOLEAN, done : BOOLEAN]]

Once == TypeInv /\ TruthOK /\ PlacesApart /\ StreamsOrderly /\ RingOnce

Elsewhere(k) == UNION {Here(streams[j]) : j \in Conns \ {k}}

(* route_event hands a stream a context whose places are apart from all    *)
(* else.                                                                   *)
LEMMA ContextApart ==
    ASSUME Once, NEW k \in Conns
    PROVE  Apart(Context(k), Elsewhere(k) \cup Outside)
<1>1. /\ Context(k).s = streams[k] /\ Context(k).bg = bg /\ Context(k).acc = ledger.acc
      /\ Context(k).why = ledger.why /\ Context(k).lost = ledger.lost
  BY DEF Context
<1>2. /\ Elsewhere(k) \subseteq AllHere /\ Here(streams[k]) \subseteq AllHere
      /\ Elsewhere(k) \cap Here(streams[k]) = {}
  BY DEF Elsewhere, AllHere, Once, PlacesApart
<1> QED BY <1>1, <1>2 DEF Once, PlacesApart, Apart, ApartHere

(* The same for a step that leaves other streams alone. *)
LEMMA PlacesFromContext ==
    ASSUME TypeInv, PlacesApart, NEW k \in Conns, NEW y, Apart(y, Elsewhere(k) \cup Outside'),
           streams' = [streams EXCEPT ![k] = y.s], bg' = y.bg,
           ledger'.acc = y.acc, ledger'.why = y.why, ledger'.lost = y.lost,
           Outside' \subseteq Outside,
           (expired \cap (swept \cup Unused \cup Coming) = {})',
           (swept \cap (Unused \cup Coming) = {})',
           (Unused \cap Coming = {})'
    PROVE  PlacesApart'
<1>1. streams'[k] = y.s /\ \A j \in Conns \ {k} : streams'[j] = streams[j]
  BY DEF TypeInv, TypeOK
<1>2. AllHere' = Here(y.s) \cup Elsewhere(k)
  BY <1>1 DEF AllHere, Elsewhere
<1>3. /\ Elsewhere(k) \cap Outside' = {} /\ Elsewhere(k) \cap Here(y.s) = {}
      /\ Here(y.s) \cap Outside' = {}
  <2>1. Elsewhere(k) \subseteq AllHere
    BY DEF Elsewhere, AllHere
  <2> QED BY <2>1 DEF PlacesApart, Apart
<1>4. ApartHere(bg', ledger'.acc, ledger'.why, ledger'.lost, AllHere' \cup Outside')
  BY <1>2, <1>3 DEF Apart, ApartHere
<1>5. \A i, j \in Conns : i # j => Here(streams'[i]) \cap Here(streams'[j]) = {}
  <2>1. \A j \in Conns \ {k} : Here(streams[j]) \cap Here(y.s) = {}
    BY <1>3 DEF Elsewhere
  <2> QED BY <1>1, <2>1 DEF PlacesApart
<1>6. \A j \in Conns : Noted(streams'[j]) \cap InProgress(streams'[j]) = {}
  BY <1>1 DEF PlacesApart, Apart
<1>7. AllHere' \cap Outside' = {}
  BY <1>2, <1>3
<1> QED BY <1>4, <1>5, <1>6, <1>7 DEF PlacesApart

(***************************************************************************)
(* The steps of the agent.                                                 *)
(***************************************************************************)
LEMMA PopOnce ==
    ASSUME TypeInv, TruthOK, RingOnce, ring.frags # <<>>, UNCHANGED truth,
           ring' = [ring EXCEPT !.frags = Tail(@)]
    PROVE  /\ RingOnce' /\ TruthOK' /\ Coming' = {}
           /\ Unused' = Unused /\ KindOf' = KindOf
           /\ Coming = RequestIn(Head(ring.frags))
           /\ GoodFragment(Head(ring.frags))
           /\ Head(ring.frags).dir = "Write" => KindsMatch(Head(ring.frags).toks, KindOf)
<1> DEFINE frags == ring.frags
<1>1. frags \in Seq(FragmentType) /\ frags # <<>> /\ ring'.frags = Tail(frags)
  BY DEF TypeInv, RingOK
<1>2. /\ Len(frags) \in Nat \ {0} /\ DOMAIN frags = 1..Len(frags)
      /\ Tail(frags) \in Seq(FragmentType) /\ Len(Tail(frags)) = Len(frags) - 1
      /\ \A i \in 1..Len(Tail(frags)) : Tail(frags)[i] = frags[i + 1]
      /\ 1 \in DOMAIN frags /\ Head(frags) = frags[1]
  <2>1. Len(frags) \in Nat \ {0} /\ DOMAIN frags = 1..Len(frags)
    BY <1>1, LenProperties, EmptySeq
  <2>2. /\ Tail(frags) \in Seq(FragmentType) /\ Len(Tail(frags)) = Len(frags) - 1
        /\ \A i \in 1..Len(Tail(frags)) : Tail(frags)[i] = frags[i + 1]
    BY <1>1, HeadTailProperties
  <2> QED BY <1>1, <2>1, <2>2
<1>3. KindOf' = KindOf /\ Unused' = Unused /\ TruthOK'
  BY DEF KindOf, Unused, TruthOK
<1>4. \A i \in DOMAIN Tail(frags) : Tail(frags)[i].dir # "Write"
  <2> SUFFICES ASSUME NEW i \in DOMAIN Tail(frags), Tail(frags)[i].dir = "Write"
               PROVE  FALSE
    OBVIOUS
  <2>1. i \in 1..(Len(frags) - 1)
    BY <1>2, LenProperties
  <2>2. i + 1 \in DOMAIN frags /\ frags[i + 1].dir = "Write" /\ Len(frags) # 1
    BY <1>2, <2>1
  <2> QED BY <2>2 DEF RingOnce
<1>5. RingOnce'
  BY <1>1, <1>4 DEF RingOnce
<1>6. Coming' = {}
  <2>1. CASE Tail(frags) = <<>>
    BY <1>1, <2>1 DEF Coming
  <2>2. CASE Tail(frags) # <<>>
    <3>1. 1 \in DOMAIN Tail(frags) /\ Head(Tail(frags)) = Tail(frags)[1]
      <4> DEFINE rest == Tail(frags)
      <4>1. rest \in Seq(FragmentType) /\ rest # <<>>
        BY <1>2, <2>2
      <4> HIDE DEF rest
      <4>2. Len(rest) \in Nat \ {0} /\ DOMAIN rest = 1..Len(rest)
        BY <4>1, LenProperties, EmptySeq
      <4>3. 1 \in DOMAIN rest /\ Head(rest) = rest[1]
        BY <4>1, <4>2
      <4> QED BY <4>3 DEF rest
    <3> QED BY <1>1, <1>4, <3>1 DEF Coming, RequestIn
  <2> QED BY <2>1, <2>2
<1>7. GoodFragment(Head(frags))
  BY <1>2 DEF TypeInv, RingOK
<1>8. Head(frags).dir = "Write" => KindsMatch(Head(frags).toks, KindOf)
  BY <1>2 DEF RingOnce
<1> QED BY <1>3, <1>5, <1>6, <1>7, <1>8 DEF Coming

(* Calls a fragment on k does not touch. *)
Fixed(k) == Elsewhere(k) \cup expired \cup swept \cup Unused

(* What the handler makes of the context of a fragment's stream. *)
Routed(x, y, f, others) ==
    /\ GoodContext(x) /\ f.dir \in {"Read", "Write"}
    /\ Apart(x, others \cup RequestIn(f)) /\ RequestIn(f) \cap others = {}
    /\ \E d, t : /\ GoodContext(d) /\ GoodContext(t)
                 /\ Drops(x, d) /\ Prepares(x, d, t, f) /\ Handles(t, y, f)

(* route_event hands a fragment to its stream in two halves, its request   *)
(* being in no place yet.                                                  *)
LEMMA RouteFragmentEffect ==
    ASSUME Once, RouteFragment
    PROVE  \E y : /\ Routed(Context(ring.key), y, Head(ring.frags), Fixed(ring.key))
                  /\ Orderly(y.s, y.s.wbuf, KindOf)
                  /\ streams' = [streams EXCEPT ![ring.key] = y.s] /\ bg' = y.bg
                  /\ ledger'.acc = y.acc /\ ledger'.why = y.why /\ ledger'.lost = y.lost
<1> DEFINE k == ring.key
           f == Head(ring.frags)
           x == Context(k)
<1>1. k \in Conns /\ f.dir # "Closed"
  BY DEF Once, RouteFragment, TypeInv, RingOK
<1>2. /\ Coming = RequestIn(f) /\ GoodFragment(f)
      /\ f.dir = "Write" => KindsMatch(f.toks, KindOf)
  BY PopOnce DEF Once, RouteFragment, client
<1>3. PICK y \in HandleFragment(x, f) :
        /\ streams' = [streams EXCEPT ![k] = y.s]
        /\ bg' = y.bg
        /\ ledger' = LedgerOf(y)
  BY DEF RouteFragment
<1>4. GoodContext(x)
  BY <1>1, ContextIsGood DEF Once
<1>5. Orderly(x.s, x.s.wbuf, KindOf)
  <2>1. x.s = streams[k]
    BY DEF Context
  <2> QED BY <1>1, <2>1 DEF Once, StreamsOrderly
<1>6. Apart(x, Fixed(k) \cup RequestIn(f)) /\ RequestIn(f) \cap Fixed(k) = {}
  <2>1. Apart(x, Elsewhere(k) \cup Outside)
    BY <1>1, ContextApart
  <2>2. Fixed(k) \cup RequestIn(f) \subseteq Elsewhere(k) \cup Outside
    BY <1>2 DEF Outside, Fixed
  <2>3. RequestIn(f) \cap Fixed(k) = {}
    <3>1. Elsewhere(k) \subseteq AllHere
      BY DEF Elsewhere, AllHere
    <3> QED BY <1>2, <3>1 DEF Once, PlacesApart, Outside, Fixed
  <2> QED BY <2>1, <2>2, <2>3, ApartFromFewer
<1> HIDE DEF x, f, k
<1>7. /\ \E d, t : /\ GoodContext(d) /\ GoodContext(t)
                   /\ Drops(x, d) /\ Prepares(x, d, t, f) /\ Handles(t, y, f)
      /\ Orderly(y.s, y.s.wbuf, KindOf)
  BY <1>1, <1>2, <1>4, <1>5, HandleFragmentEffect
<1>8. f.dir \in {"Read", "Write"}
  BY <1>1, <1>2 DEF GoodFragment, FragmentType
<1>9. ledger'.acc = y.acc /\ ledger'.why = y.why /\ ledger'.lost = y.lost
  BY <1>3 DEF LedgerOf
<1>10. Routed(x, y, f, Fixed(k))
  BY <1>4, <1>6, <1>7, <1>8 DEF Routed
<1> QED BY <1>3, <1>7, <1>9, <1>10 DEF x, f, k

(* The fragment keeps the places apart. *)
LEMMA RoutedApart ==
    ASSUME NEW x, NEW y, NEW f, NEW others, Routed(x, y, f, others)
    PROVE  Apart(y, others)
BY HandleFragmentApart DEF Routed

(* RouteFragment preserves Once. *)
LEMMA RouteFragmentOnce ==
    ASSUME Once, RouteFragment
    PROVE  Once'
<1> DEFINE k == ring.key
<1>1. k \in Conns /\ TypeInv /\ TypeInv'
  BY RouteFragmentType DEF Once, RouteFragment, TypeInv, RingOK
<1>2. RingOnce' /\ TruthOK' /\ Coming' = {} /\ Unused' = Unused /\ KindOf' = KindOf
  BY PopOnce DEF Once, RouteFragment, client
<1>3. PICK y : /\ Routed(Context(k), y, Head(ring.frags), Fixed(k))
               /\ Orderly(y.s, y.s.wbuf, KindOf)
               /\ streams' = [streams EXCEPT ![k] = y.s] /\ bg' = y.bg
               /\ ledger'.acc = y.acc /\ ledger'.why = y.why /\ ledger'.lost = y.lost
  BY RouteFragmentEffect
<1> HIDE DEF k
<1>4. Apart(y, Fixed(k))
  BY <1>3, RoutedApart
<1>5. expired' = expired /\ swept' = swept
  BY DEF RouteFragment
<1>6. PlacesApart'
  <2>1. Elsewhere(k) \cup Outside' \subseteq Fixed(k) /\ Outside' \subseteq Outside
    BY <1>2, <1>5 DEF Outside, Fixed
  <2>2. Apart(y, Elsewhere(k) \cup Outside')
    BY <1>4, <2>1, ApartFromFewer
  <2>3. /\ (expired \cap (swept \cup Unused \cup Coming) = {})'
        /\ (swept \cap (Unused \cup Coming) = {})'
        /\ (Unused \cap Coming = {})'
    BY <1>2, <1>5 DEF Once, PlacesApart
  <2> QED BY <1>1, <1>3, <2>1, <2>2, <2>3, PlacesFromContext DEF Once
<1>7. StreamsOrderly'
  BY <1>1, <1>2, <1>3 DEF Once, StreamsOrderly, TypeInv, TypeOK
<1> QED BY <1>1, <1>2, <1>6, <1>7 DEF Once

(* A fresh StreamProcessor holds no call. *)
LEMMA NewStreamHere ==
    ASSUME NEW kind
    PROVE  Here(NewStream) = {} /\ Orderly(NewStream, NewStream.wbuf, kind)
BY DEF NewStream, Here, Noted, InProgress, MidResponse, IsLlm, Orderly, KindsMatch, NoteAt,
       IsRequestHead

(* SSL_free ends the response in progress, and the stream is removed.      *)
LEMMA RouteClosedEffect ==
    ASSUME Once, RouteClosed
    PROVE  LET k == ring.key
               x == Context(k)
           IN  \E z, y : /\ GoodContext(x) /\ GoodContext(z) /\ InProgress(z.s) = {}
                         /\ Keeps(x, z) \/ Ends(x, z, "connection_closed")
                         /\ y = [z EXCEPT !.s = NewStream]
                         /\ streams' = [streams EXCEPT ![k] = y.s] /\ bg' = y.bg
                         /\ ledger'.acc = y.acc /\ ledger'.why = y.why
                         /\ ledger'.lost = y.lost
<1> DEFINE k == ring.key
           x == Context(k)
           z == Close(x)
           y == [z EXCEPT !.s = NewStream]
<1>1. k \in Conns
  BY DEF Once, RouteClosed, TypeInv, RingOK
<1>2. GoodContext(x) /\ x.s = streams[k] /\ x.bg = bg
  BY <1>1, ContextIsGood DEF Once, Context
<1>3. Orderly(x.s, x.s.wbuf, KindOf)
  BY <1>1, <1>2 DEF Once, StreamsOrderly
<1> HIDE DEF x
<1>4. "connection_closed" \in Reasons
  BY DEF Reasons
<1>5. (Keeps(x, z) \/ Ends(x, z, "connection_closed")) /\ GoodContext(z) /\ InProgress(z.s) = {}
  <2>1. /\ Keeps(x, z) \/ Ends(x, z, "connection_closed")
        /\ IsLlm(x.s) => z.s = [x.s EXCEPT !.st = "Finished", !.cont = NoCall]
    BY <1>2, <1>3, <1>4, DropResponseEffect DEF Close
  <2>2. GoodContext(z)
    BY <1>2, <1>4, DropResponseType DEF Close
  <2>3. CASE IsLlm(x.s)
    <3>1. z.s.st = "Finished"
      BY <1>2, <2>1, <2>3 DEF GoodContext, ContextType, StreamType
    <3> QED BY <2>1, <2>2, <3>1 DEF InProgress, IsLlm
  <2>4. CASE ~IsLlm(x.s)
    BY <2>1, <2>2, <2>4 DEF InProgress, Keeps, Ends
  <2> QED BY <2>1, <2>2, <2>3, <2>4
<1>6. z.bg = x.bg
  <2> DEFINE u == [x EXCEPT !.s.st = "Finished", !.s.cont = NoCall]
  <2>1. GoodContext(u) /\ u.bg = x.bg
    BY <1>2 DEF GoodContext, ContextType, StreamType, GoodStream, IsLlm
  <2> HIDE DEF u
  <2>2. Account(u, x.s.call, "connection_closed").bg = x.bg
    BY <2>1, AccountEffect
  <2> QED BY <2>1, <2>2 DEF Close, DropResponse, u
<1>7. ledger' = LedgerOf(z) /\ streams' = [streams EXCEPT ![k] = NewStream] /\ bg' = bg
  BY DEF RouteClosed, x
<1> HIDE DEF z
<1>8. /\ y.s = NewStream /\ y.bg = z.bg /\ y.acc = z.acc /\ y.why = z.why /\ y.lost = z.lost
  BY <1>5 DEF GoodContext, ContextType
<1>9. ledger'.acc = y.acc /\ ledger'.why = y.why /\ ledger'.lost = y.lost
  BY <1>7, <1>8 DEF LedgerOf
<1> HIDE DEF y, k
<1>10. streams' = [streams EXCEPT ![k] = y.s] /\ bg' = y.bg
  BY <1>2, <1>6, <1>7, <1>8
<1>11. y = [z EXCEPT !.s = NewStream]
  BY DEF y
<1> QED BY <1>2, <1>5, <1>9, <1>10, <1>11 DEF x, k

(* That is the end of a call, and forgets a note. *)
LEMMA ClosedApart ==
    ASSUME NEW x, GoodContext(x), NEW z, GoodContext(z), NEW others, Apart(x, others),
           Keeps(x, z) \/ Ends(x, z, "connection_closed"),
           NEW y, y = [z EXCEPT !.s = NewStream]
    PROVE  Apart(z, others) /\ Apart(y, others)
<1>1. Settles(x, z)
  BY DEF Settles, Direct, Verdicts, Reasons
<1>2. Apart(z, others)
  BY <1>1, SettlesApart
<1>3. /\ y.s = NewStream /\ y.bg = z.bg /\ y.acc = z.acc /\ y.why = z.why /\ y.lost = z.lost
  BY DEF GoodContext, ContextType
<1>4. Here(y.s) = {} /\ Noted(y.s) \cap InProgress(y.s) = {}
  BY <1>3, NewStreamHere DEF Here
<1> QED BY <1>2, <1>3, <1>4 DEF Apart

(* RouteClosed preserves Once. *)
LEMMA RouteClosedOnce ==
    ASSUME Once, RouteClosed
    PROVE  Once'
<1> DEFINE k == ring.key
           x == Context(k)
<1>1. k \in Conns /\ TypeInv /\ TypeInv'
  BY RouteClosedType DEF Once, RouteClosed, TypeInv, RingOK
<1>2. /\ RingOnce' /\ TruthOK' /\ Coming' = {} /\ Unused' = Unused /\ KindOf' = KindOf
  BY PopOnce DEF Once, RouteClosed, client
<1>3. PICK z, y : /\ GoodContext(x) /\ GoodContext(z)
                  /\ Keeps(x, z) \/ Ends(x, z, "connection_closed")
                  /\ y = [z EXCEPT !.s = NewStream]
                  /\ streams' = [streams EXCEPT ![k] = y.s] /\ bg' = y.bg
                  /\ ledger'.acc = y.acc /\ ledger'.why = y.why /\ ledger'.lost = y.lost
  BY RouteClosedEffect
<1>4. Apart(x, Elsewhere(k) \cup Outside)
  BY <1>1, ContextApart
<1> HIDE DEF x, k
<1>5. Apart(y, Elsewhere(k) \cup Outside)
  BY <1>3, <1>4, ClosedApart
<1>6. expired' = expired /\ swept' = swept
  BY DEF RouteClosed
<1>7. PlacesApart'
  <2>1. Outside' \subseteq Outside
    BY <1>2, <1>6 DEF Outside
  <2>2. Apart(y, Elsewhere(k) \cup Outside')
    BY <1>5, <2>1, ApartFromFewer
  <2>3. /\ (expired \cap (swept \cup Unused \cup Coming) = {})'
        /\ (swept \cap (Unused \cup Coming) = {})'
        /\ (Unused \cap Coming = {})'
    BY <1>2, <1>6 DEF Once, PlacesApart
  <2> QED BY <1>1, <1>3, <2>1, <2>2, <2>3, PlacesFromContext DEF Once
<1>8. y.s = NewStream
  BY <1>3 DEF GoodContext, ContextType
<1>9. StreamsOrderly'
  BY <1>1, <1>2, <1>3, <1>8, NewStreamHere DEF Once, StreamsOrderly, TypeInv, TypeOK
<1> QED BY <1>1, <1>2, <1>7, <1>9 DEF Once

(* A step of the cleanup task leaves the clients and the ring alone. *)
LEMMA ClientUnchanged ==
    ASSUME TruthOK, RingOnce, UNCHANGED <<client, ring>>
    PROVE  /\ RingOnce' /\ TruthOK' /\ Coming' = Coming
           /\ Unused' = Unused /\ KindOf' = KindOf
<1>1. ring' = ring /\ truth' = truth
  BY DEF client
<1>2. KindOf' = KindOf /\ Unused' = Unused /\ TruthOK' /\ Coming' = Coming
  BY <1>1 DEF KindOf, Unused, TruthOK, Coming
<1>3. RingOnce'
  BY <1>1, <1>2 DEF RingOnce
<1> QED BY <1>2, <1>3

(* Time passing preserves Once: it moves no call. *)
LEMMA SleepOnce ==
    ASSUME Once, Sleep
    PROVE  Once'
<1>1. TypeInv /\ TypeInv'
  BY SleepType DEF Once
<1>2. /\ RingOnce' /\ TruthOK' /\ Coming' = Coming /\ Unused' = Unused /\ KindOf' = KindOf
  BY ClientUnchanged DEF Once, Sleep
<1>3. ASSUME NEW k \in Conns
      PROVE  /\ Noted(streams'[k]) = Noted(streams[k])
             /\ InProgress(streams'[k]) = InProgress(streams[k])
             /\ Orderly(streams'[k], streams'[k].wbuf, KindOf)
  <2> DEFINE s == streams[k]
             t == streams'[k]
             idle == IF s.idle < Retention THEN s.idle + 1 ELSE s.idle
  <2>1. s \in StreamType /\ Orderly(s, s.wbuf, KindOf)
    BY <1>1 DEF Once, StreamsOrderly, TypeInv, TypeOK
  <2>2. t = [s EXCEPT !.idle = idle]
    BY DEF Sleep
  <2> HIDE DEF s, t, idle
  <2>3. /\ t.st = s.st /\ t.call = s.call /\ t.cont = s.cont /\ t.next = s.next
        /\ t.past = s.past /\ t.wbuf = s.wbuf
    BY <2>1, <2>2 DEF StreamType
  <2>4. /\ Noted(t) = Noted(s) /\ InProgress(t) = InProgress(s)
        /\ Orderly(t, t.wbuf, KindOf)
    BY <2>1, <2>3 DEF Noted, InProgress, MidResponse, IsLlm, Orderly, NoteAt
  <2> QED BY <2>4 DEF s, t
<1>4. \A k \in Conns : Here(streams'[k]) = Here(streams[k])
  BY <1>3 DEF Here
<1>5. AllHere' = AllHere
  BY <1>4 DEF AllHere
<1>6. /\ Waiting(bg') = Waiting(bg)
      /\ \A i, j \in DOMAIN bg' : bg'[i].call = bg'[j].call => i = j
  <2>1. DOMAIN bg' = DOMAIN bg /\ \A i \in DOMAIN bg : bg'[i].call = bg[i].call
    <3>1. \A i \in DOMAIN bg : bg[i] \in PendingCall
      BY <1>1, BackgroundMapType DEF TypeInv, TypeOK
    <3> QED BY <3>1 DEF Sleep, Older, PendingCall
  <2> QED BY <2>1 DEF Waiting, Once, PlacesApart, ApartHere
<1>7. Outside' = Outside /\ expired' = expired /\ swept' = swept /\ ledger' = ledger
  BY <1>2 DEF Sleep, Outside
<1>8. PlacesApart'
  BY <1>2, <1>3, <1>4, <1>5, <1>6, <1>7 DEF Once, PlacesApart, ApartHere
<1>9. StreamsOrderly'
  BY <1>2, <1>3 DEF StreamsOrderly
<1> QED BY <1>1, <1>2, <1>8, <1>9 DEF Once

(* Dropping idle streams preserves Once: their calls join those dropped. *)
LEMMA SweepOnce ==
    ASSUME Once, SweepStreams
    PROVE  Once'
<1> DEFINE idle == {k \in Conns : streams[k].idle >= Retention}
           dropped == UNION {InProgress(streams[k]) : k \in idle}
<1>1. TypeInv /\ TypeInv'
  BY SweepType DEF Once
<1>2. /\ RingOnce' /\ TruthOK' /\ Coming' = Coming /\ Unused' = Unused /\ KindOf' = KindOf
  BY ClientUnchanged DEF Once, SweepStreams
<1>3. /\ \A k \in idle : streams'[k] = NewStream
      /\ \A k \in Conns \ idle : streams'[k] = streams[k]
      /\ swept' = swept \cup dropped
      /\ bg' = bg /\ ledger' = ledger /\ expired' = expired
  BY DEF SweepStreams
<1>4. idle \subseteq Conns
  OBVIOUS
<1> HIDE DEF idle
<1>5. /\ \A k \in idle : Here(streams'[k]) = {}
      /\ \A k \in Conns \ idle : Here(streams'[k]) = Here(streams[k])
  BY <1>3, NewStreamHere
<1>6. dropped \subseteq AllHere /\ AllHere' \cup dropped \subseteq AllHere
      /\ AllHere' \cap dropped = {}
  <2>1. \A k \in idle : InProgress(streams[k]) \subseteq Here(streams[k])
    BY DEF Here
  <2>2. dropped \subseteq AllHere
    BY <1>4, <2>1 DEF AllHere
  <2>3. AllHere' = UNION {Here(streams[k]) : k \in Conns \ idle}
    BY <1>4, <1>5 DEF AllHere
  <2>4. AllHere' \subseteq AllHere
    BY <2>3 DEF AllHere
  <2>5. \A j \in idle, k \in Conns \ idle : Here(streams[j]) \cap Here(streams[k]) = {}
    BY <1>4 DEF Once, PlacesApart
  <2>6. AllHere' \cap dropped = {}
    BY <2>1, <2>3, <2>5
  <2> QED BY <2>2, <2>4, <2>6
<1> HIDE DEF dropped
<1>7. Outside' = Outside \cup dropped
  BY <1>2, <1>3 DEF Outside
<1>8. PlacesApart'
  <2>1. ApartHere(bg', ledger'.acc, ledger'.why, ledger'.lost, AllHere' \cup Outside')
    BY <1>3, <1>6, <1>7 DEF Once, PlacesApart, ApartHere
  <2>2. AllHere' \cap Outside' = {}
    BY <1>6, <1>7 DEF Once, PlacesApart
  <2>3. \A j, k \in Conns : j # k => Here(streams'[j]) \cap Here(streams'[k]) = {}
    BY <1>5 DEF Once, PlacesApart
  <2>4. \A k \in Conns : Noted(streams'[k]) \cap InProgress(streams'[k]) = {}
    BY <1>3, NewStreamHere DEF Once, PlacesApart, Here
  <2>5. dropped \cap Outside = {}
    BY <1>6 DEF Once, PlacesApart
  <2> QED BY <1>2, <1>3, <2>1, <2>2, <2>3, <2>4, <2>5 DEF Once, PlacesApart, Outside
<1>9. StreamsOrderly'
  BY <1>2, <1>3, NewStreamHere DEF Once, StreamsOrderly
<1> QED BY <1>1, <1>2, <1>8, <1>9 DEF Once

(* Taking calls out of the map splits those that wait. *)
LEMMA WaitingWithout ==
    ASSUME NEW b, NEW ids \in SUBSET DOMAIN b,
           \A i, j \in DOMAIN b : b[i].call = b[j].call => i = j
    PROVE  /\ \A i, j \in DOMAIN Without(b, ids) :
                 Without(b, ids)[i].call = Without(b, ids)[j].call => i = j
           /\ Waiting(Without(b, ids)) = Waiting(b) \ {b[i].call : i \in ids}
<1> DEFINE r == Without(b, ids)
<1>1. DOMAIN r = DOMAIN b \ ids /\ \A i \in DOMAIN r : r[i] = b[i]
  BY DEF Without
<1> HIDE DEF r
<1>2. \A i, j \in DOMAIN r : r[i].call = r[j].call => i = j
  BY <1>1
<1>3. Waiting(r) = Waiting(b) \ {b[i].call : i \in ids}
  BY <1>1 DEF Waiting
<1> QED BY <1>2, <1>3 DEF r

(* Taking expired calls out of the map preserves Once. *)
LEMMA ExpireOnce ==
    ASSUME Once, ExpireBackground
    PROVE  Once'
<1> DEFINE ids == Expired(bg)
           out == {bg[i].call : i \in ids}
<1>1. TypeInv /\ TypeInv'
  BY ExpireType DEF Once
<1>2. /\ RingOnce' /\ TruthOK' /\ Coming' = Coming /\ Unused' = Unused /\ KindOf' = KindOf
  BY ClientUnchanged DEF Once, ExpireBackground
<1>3. /\ streams' = streams /\ swept' = swept /\ ledger' = ledger
      /\ bg' = Without(bg, ids) /\ expired' = out
  BY DEF ExpireBackground
<1>4. ids \in SUBSET DOMAIN bg
  BY DEF Expired
<1> HIDE DEF ids
<1>5. /\ \A i, j \in DOMAIN bg' : bg'[i].call = bg'[j].call => i = j
      /\ Waiting(bg') = Waiting(bg) \ out
      /\ out \subseteq Waiting(bg)
  <2>1. \A i, j \in DOMAIN bg : bg[i].call = bg[j].call => i = j
    BY DEF Once, PlacesApart, ApartHere
  <2>2. out \subseteq Waiting(bg)
    BY <1>4 DEF Waiting
  <2> QED BY <1>3, <1>4, <2>1, <2>2, WaitingWithout
<1> HIDE DEF out
<1>6. AllHere' = AllHere
  BY <1>3 DEF AllHere
<1>7. Outside' \subseteq Outside \cup out
  BY <1>2, <1>3 DEF Outside
<1>8. out \cap (Outside \cup AllHere \cup ledger.lost \cup Exported(ledger.acc)) = {}
  BY <1>5 DEF Once, PlacesApart, ApartHere
<1>9. PlacesApart'
  <2>1. ApartHere(bg', ledger'.acc, ledger'.why, ledger'.lost, AllHere' \cup Outside')
    BY <1>3, <1>5, <1>6, <1>7, <1>8 DEF Once, PlacesApart, ApartHere
  <2>2. AllHere' \cap Outside' = {}
    BY <1>6, <1>7, <1>8 DEF Once, PlacesApart
  <2>3. out \cap (swept \cup Unused \cup Coming) = {}
    BY <1>8 DEF Outside
  <2> QED BY <1>2, <1>3, <2>1, <2>2, <2>3 DEF Once, PlacesApart
<1>10. StreamsOrderly'
  BY <1>2, <1>3 DEF Once, StreamsOrderly
<1> QED BY <1>1, <1>2, <1>9, <1>10 DEF Once

(* Counting a call taken out preserves Once: it was exported in no other   *)
(* way.                                                                    *)
LEMMA CountOnce ==
    ASSUME Once, CountExpired
    PROVE  Once'
<1>1. TypeInv /\ TypeInv'
  BY CountType DEF Once
<1>2. /\ RingOnce' /\ TruthOK' /\ Coming' = Coming /\ Unused' = Unused /\ KindOf' = KindOf
  BY ClientUnchanged DEF Once, CountExpired
<1>3. streams' = streams /\ bg' = bg /\ swept' = swept
  BY DEF CountExpired
<1>4. StreamsOrderly' /\ AllHere' = AllHere
  BY <1>2, <1>3 DEF Once, StreamsOrderly, AllHere
<1>5. CASE UNCHANGED <<expired, ledger>>
  <2>1. Outside' = Outside
    BY <1>2, <1>3, <1>5 DEF Outside
  <2>2. PlacesApart'
    BY <1>2, <1>3, <1>4, <1>5, <2>1 DEF Once, PlacesApart
  <2> QED BY <1>1, <1>2, <1>4, <2>2 DEF Once
<1>6. ASSUME NEW c \in expired, expired' = expired \ {c},
             ledger' = [ledger EXCEPT !.acc[c] = @ + 1, !.why[c] = "background_unfinished"]
      PROVE  Once'
  <2>1. c \in Calls /\ ledger \in LedgerType
    BY <1>1 DEF TypeInv, TypeOK
  <2>2. Accounted(ledger, ledger', c, "background_unfinished") /\ ledger'.lost = ledger.lost
    BY <1>6, <2>1 DEF Accounted, LedgerType
  <2>3. c \in Outside
    BY DEF Outside
  <2>4. OnceEach(ledger.acc, ledger.why) /\ c \notin Exported(ledger.acc)
    BY <2>3 DEF Once, PlacesApart, ApartHere
  <2>5. OnceEach(ledger'.acc, ledger'.why) /\ Exported(ledger'.acc) = Exported(ledger.acc) \cup {c}
    <3>1. ledger.acc \in [Calls -> Nat] /\ ledger.why \in [Calls -> Reasons \cup {"", "recorded"}]
      BY <2>1 DEF LedgerType
    <3> QED BY <2>1, <2>2, <2>4, <3>1, AccountedOnce
  <2>6. Outside' \subseteq Outside /\ c \notin Outside'
    BY <1>2, <1>3, <1>6 DEF Outside, Once, PlacesApart
  <2>7. c \notin AllHere /\ c \notin Waiting(bg) /\ c \notin ledger.lost
    BY <2>3 DEF Once, PlacesApart, ApartHere
  <2>8. ApartHere(bg', ledger'.acc, ledger'.why, ledger'.lost, AllHere' \cup Outside')
    BY <1>3, <1>4, <2>2, <2>5, <2>6, <2>7 DEF Once, PlacesApart, ApartHere
  <2>9. PlacesApart'
    BY <1>2, <1>3, <1>4, <1>6, <2>6, <2>8 DEF Once, PlacesApart
  <2> QED BY <1>1, <1>2, <1>4, <2>9 DEF Once
<1> QED BY <1>5, <1>6 DEF CountExpired

(***************************************************************************)
(* The steps of the clients.                                               *)
(***************************************************************************)
TruthRecord ==
    [kind : {"none", "llm", "poll", "other"}, id : Calls \cup {NoCall},
     result : Results, fits : BOOLEAN, follows : BOOLEAN, hit : BOOLEAN, done : BOOLEAN]

(* A captured SSL call brings a request only if its first token is one. *)
LEMMA CaptureEffect ==
    ASSUME TypeInv, TruthOK, NEW k \in Conns, NEW dir \in {"Read", "Write"}, NEW toks,
           NEW c \in Calls, NEW t \in TruthRecord,
           Capture(k, dir, toks, c, t)
    PROVE  /\ TruthOK' /\ KindOf' = [KindOf EXCEPT ![c] = t.kind]
           /\ \A d \in Calls : truth'[d].kind = IF d = c THEN t.kind ELSE truth[d].kind
           /\ \A i \in DOMAIN ring'.frags : ring'.frags[i].dir = "Write" =>
                 dir = "Write" /\ Len(ring'.frags) = 1 /\ ring'.frags[i].toks = toks
           /\ Coming' \subseteq IF dir = "Write" /\ IsRequestHead(toks) THEN {Head(toks).call} ELSE {}
<1>1. PICK u \in TruthRecord : u.kind = t.kind /\ truth' = [truth EXCEPT ![c] = u]
  <2>1. CASE truth' = [truth EXCEPT ![c] = t]
    BY <2>1
  <2>2. CASE truth' = [truth EXCEPT ![c] = [t EXCEPT !.hit = TRUE]]
    <3>1. [t EXCEPT !.hit = TRUE] \in TruthRecord /\ [t EXCEPT !.hit = TRUE].kind = t.kind
      BY DEF TruthRecord
    <3> QED BY <2>2, <3>1
  <2> QED BY <2>1, <2>2 DEF Capture
<1>2. truth \in [Calls -> TruthRecord]
  BY DEF TruthOK, TruthRecord
<1>3. /\ truth' \in [Calls -> TruthRecord]
      /\ \A d \in Calls : truth'[d].kind = IF d = c THEN t.kind ELSE truth[d].kind
  BY <1>1, <1>2
<1>4. TruthOK' /\ KindOf' = [KindOf EXCEPT ![c] = t.kind]
  BY <1>3 DEF TruthOK, TruthRecord, KindOf
<1>5. PICK frags \in Captured(dir, toks) \cup Damaged(dir, toks) :
         ring' = [key |-> k, frags |-> frags]
  BY DEF Capture
<1>6. CASE dir = "Write"
  <2>1. frags = <<>> \/ frags = <<Fragment("Write", toks, 0, TRUE, FALSE)>>
    BY <1>5, <1>6 DEF Captured, Damaged, Whole1
  <2>2. CASE frags = <<>>
    BY <1>3, <1>4, <1>5, <2>2 DEF Coming
  <2>3. CASE frags = <<Fragment("Write", toks, 0, TRUE, FALSE)>>
    <3>1. /\ frags # <<>> /\ Len(frags) = 1 /\ DOMAIN frags = {1}
          /\ frags[1].toks = toks /\ frags[1].dir = "Write" /\ Head(frags) = frags[1]
      BY <2>3 DEF Fragment
    <3>2. Coming' = RequestIn(frags[1])
      BY <1>5, <3>1 DEF Coming
    <3>3. Coming' \subseteq IF dir = "Write" /\ IsRequestHead(toks) THEN {Head(toks).call} ELSE {}
      BY <1>6, <3>1, <3>2 DEF RequestIn
    <3> QED BY <1>3, <1>4, <1>5, <1>6, <3>1, <3>3
  <2> QED BY <2>1, <2>2, <2>3
<1>7. CASE dir = "Read"
  <2>1. \/ frags = <<>>
        \/ \E f : f.dir = "Read" /\ frags = <<f>>
        \/ \E f, g : f.dir = "Read" /\ g.dir = "Read" /\ frags = <<f, g>>
    BY <1>5, <1>7 DEF Captured, Damaged, Whole1, Whole2, Fragment
  <2>2. /\ \A i \in DOMAIN frags : frags[i].dir = "Read"
        /\ frags # <<>> => Head(frags).dir = "Read"
    BY <2>1
  <2>3. Coming' = {}
    BY <1>5, <2>2 DEF Coming, RequestIn
  <2> QED BY <1>3, <1>4, <1>5, <2>2, <2>3
<1> QED BY <1>6, <1>7

(* A client's step leaves the agent alone. *)
LEMMA AgentApart ==
    ASSUME Once, UNCHANGED agentVars, Unused' \cup Coming' \subseteq Unused \cup Coming,
           Unused' \cap Coming' = {}
    PROVE  PlacesApart'
<1>1. AllHere' = AllHere /\ Outside' \subseteq Outside
  BY DEF agentVars, AllHere, Outside
<1>2. ApartHere(bg', ledger'.acc, ledger'.why, ledger'.lost, AllHere' \cup Outside')
  BY <1>1 DEF agentVars, Once, PlacesApart, ApartHere
<1> QED BY <1>1, <1>2 DEF agentVars, Once, PlacesApart

(* A Read, or a Write without a request head, brings no request. *)
LEMMA MoreOnce ==
    ASSUME Once, TypeInv', UNCHANGED agentVars, NEW k \in Conns, NEW dir \in {"Read", "Write"},
           NEW toks, NEW c \in Calls, NEW t \in TruthRecord, t.kind = truth[c].kind,
           dir = "Write" => \A i \in DOMAIN toks : toks[i].t = "more",
           dir = "Write" => ~IsRequestHead(toks),
           Capture(k, dir, toks, c, t)
    PROVE  Once'
<1>1. /\ TruthOK' /\ KindOf' = [KindOf EXCEPT ![c] = t.kind]
      /\ \A d \in Calls : truth'[d].kind = IF d = c THEN t.kind ELSE truth[d].kind
      /\ \A i \in DOMAIN ring'.frags : ring'.frags[i].dir = "Write" =>
            dir = "Write" /\ Len(ring'.frags) = 1 /\ ring'.frags[i].toks = toks
      /\ Coming' \subseteq IF dir = "Write" /\ IsRequestHead(toks) THEN {Head(toks).call} ELSE {}
  BY CaptureEffect, Zenon DEF Once
<1>2. KindOf' = KindOf /\ Unused' = Unused
  BY <1>1 DEF KindOf, Unused
<1>3. Coming' = {}
  BY <1>1
<1>4. PlacesApart'
  BY <1>2, <1>3, AgentApart
<1>5. StreamsOrderly'
  BY <1>2 DEF agentVars, Once, StreamsOrderly
<1>6. RingOnce'
  BY <1>1 DEF RingOnce, KindsMatch
<1> QED BY <1>1, <1>4, <1>5, <1>6 DEF Once

(* WriteMore preserves Once. *)
LEMMA WriteMoreOnce ==
    ASSUME Once, NEW k \in Conns, WriteMore(k)
    PROVE  Once'
<1> DEFINE c == conn[k].call
           toks == <<[t |-> "more", call |-> c]>>
<1>1. TypeInv' /\ c \in Calls
  BY WriteMoreType DEF Once, WriteMore, TypeInv, ConnOK
<1>2. truth[c] \in TruthRecord
  BY <1>1 DEF Once, TruthOK, TruthRecord
<1>3. (\A i \in DOMAIN toks : toks[i].t = "more") /\ ~IsRequestHead(toks)
  BY DEF IsRequestHead
<1>4. Capture(k, "Write", toks, c, truth[c]) /\ UNCHANGED agentVars
  BY DEF WriteMore, agentVars
<1> HIDE DEF c, toks
<1> QED BY <1>1, <1>2, <1>3, <1>4, MoreOnce

(* Read preserves Once. *)
LEMMA ReadOnce ==
    ASSUME Once, NEW k \in Conns, Read(k)
    PROVE  Once'
<1> DEFINE c == conn[k].call
<1>1. TypeInv' /\ c \in Calls
  BY ReadType DEF Once, Read, TypeInv, ConnOK
<1>2. PICK n \in 1..MaxRead \cap DOMAIN conn[k].todo :
        Capture(k, "Read", SubSeq(conn[k].todo, 1, n), c,
                [truth[c] EXCEPT !.done = n = Len(conn[k].todo)])
  BY DEF Read
<1>3. UNCHANGED agentVars
  BY DEF Read, agentVars
<1> DEFINE over == n = Len(conn[k].todo)
           toks == SubSeq(conn[k].todo, 1, n)
           t == [truth[c] EXCEPT !.done = over]
<1>4. t \in TruthRecord /\ t.kind = truth[c].kind
  <2>1. truth[c] \in TruthRecord
    BY <1>1 DEF Once, TruthOK, TruthRecord
  <2>2. over \in BOOLEAN
    OBVIOUS
  <2> HIDE DEF over
  <2> QED BY <2>1, <2>2 DEF TruthRecord
<1>5. Capture(k, "Read", toks, c, t)
  BY <1>2
<1> HIDE DEF toks, t, c
<1> QED BY <1>1, <1>3, <1>4, <1>5, MoreOnce

(* Free preserves Once. *)
LEMMA FreeOnce ==
    ASSUME Once, NEW k \in Conns, Free(k)
    PROVE  Once'
<1>1. TypeInv' /\ ring.frags = <<>> /\ truth' = truth /\ UNCHANGED agentVars
  BY FreeType DEF Once, Free, agentVars, Drained
<1>2. /\ \A i \in DOMAIN ring'.frags : ring'.frags[i].dir # "Write"
      /\ Coming' = {}
  <2>1. CASE ring' = ring
    BY <1>1, <2>1 DEF Coming
  <2>2. CASE ring' = [key |-> k, frags |-> <<Fragment("Closed", <<>>, 0, TRUE, FALSE)>>]
    <3> DEFINE f == Fragment("Closed", <<>>, 0, TRUE, FALSE)
    <3>1. f.dir = "Closed"
      BY DEF Fragment
    <3> HIDE DEF f
    <3>2. ring'.frags = <<f>>
      BY <2>2 DEF f
    <3>3. DOMAIN ring'.frags = {1} /\ ring'.frags[1] = f /\ Head(ring'.frags) = f
      BY <3>2
    <3> QED BY <3>1, <3>3 DEF Coming, RequestIn
  <2> QED BY <2>1, <2>2 DEF Free
<1>3. KindOf' = KindOf /\ Unused' = Unused /\ TruthOK'
  BY <1>1 DEF KindOf, Unused, Once, TruthOK
<1>4. PlacesApart'
  BY <1>1, <1>2, <1>3, AgentApart
<1>5. StreamsOrderly' /\ RingOnce'
  BY <1>1, <1>2, <1>3 DEF agentVars, Once, StreamsOrderly, RingOnce
<1> QED BY <1>1, <1>3, <1>4, <1>5 DEF Once

(* Request preserves Once: the call it makes was unused, and is on its way. *)
LEMMA RequestOnce ==
    ASSUME Once, NEW k \in Conns, NEW kind \in Kinds, NEW id \in Calls \cup {NoCall},
           NEW shape \in Shapes, NEW more \in 0..MaxMore, Request(k, kind, id, shape, more)
    PROVE  Once'
<1> DEFINE c == NextCall
           req == [t |-> "req", call |-> c, kind |-> kind, id |-> id]
           fits == 1 + more <= ReqLimit
           follows == CanBeFollowed(shape)
           t == [NoTruth EXCEPT !.kind = kind, !.id = id, !.result = shape.result,
                                !.fits = fits, !.follows = follows]
<1>1. TypeInv /\ TypeInv' /\ UNCHANGED agentVars
  <2>1. TypeInv
    BY DEF Once
  <2>2. TypeInv'
    BY <2>1, RequestType
  <2> QED BY <2>1, <2>2 DEF Request, agentVars
<1>2. c \in Unused /\ c \in Calls /\ truth[c].kind = "none"
  <2>1. Unused # {}
    BY DEF Request
  <2>2. Unused \in SUBSET Nat
    BY StreamsAssumption DEF Unused
  <2>3. \E d \in Unused : \A e \in Unused : d <= e
    BY <2>1, <2>2, LeastNatural
  <2>4. c \in Unused
    BY <2>3, Zenon DEF NextCall
  <2> QED BY <2>4 DEF Unused
<1>3. Capture(k, "Write", <<req>>, c, t)
  BY DEF Request
<1>4. t \in TruthRecord /\ t.kind = kind /\ kind \in {"llm", "poll", "other"}
  <2>1. shape.result \in Results /\ kind \in {"llm", "poll", "other"}
    BY StreamsAssumption
  <2>2. fits \in BOOLEAN /\ follows \in BOOLEAN
    BY DEF CanBeFollowed
  <2> HIDE DEF fits, follows
  <2> QED BY <2>1, <2>2 DEF NoTruth, TruthRecord
<1> HIDE DEF c, t
<1>5. /\ IsRequestHead(<<req>>) /\ Head(<<req>>).call = c
      /\ DOMAIN <<req>> = {1} /\ <<req>>[1].kind = kind /\ <<req>>[1].call = c
  BY DEF IsRequestHead
<1> HIDE DEF req
<1>6. /\ TruthOK' /\ KindOf' = [KindOf EXCEPT ![c] = t.kind]
      /\ \A d \in Calls : truth'[d].kind = IF d = c THEN t.kind ELSE truth[d].kind
      /\ \A i \in DOMAIN ring'.frags : ring'.frags[i].dir = "Write" =>
            "Write" = "Write" /\ Len(ring'.frags) = 1 /\ ring'.frags[i].toks = <<req>>
      /\ Coming' \subseteq IF "Write" = "Write" /\ IsRequestHead(<<req>>)
                           THEN {Head(<<req>>).call} ELSE {}
  BY <1>1, <1>2, <1>3, <1>4, CaptureEffect, Zenon DEF Once
<1>7. Coming' \subseteq {c} /\ Unused' = Unused \ {c}
  <2>1. Coming' \subseteq {c}
    BY <1>5, <1>6
  <2>2. Unused' = Unused \ {c}
    BY <1>2, <1>4, <1>6 DEF Unused
  <2> QED BY <2>1, <2>2
<1>8. PlacesApart'
  BY <1>1, <1>2, <1>7, AgentApart
<1>9. /\ KindOf'[c] = kind /\ KindOf[c] = "none"
      /\ \A d \in Calls : d # c => KindOf'[d] = KindOf[d]
  BY <1>2, <1>4, <1>6 DEF KindOf
<1>10. ASSUME NEW j \in Conns
       PROVE  Orderly(streams[j], streams[j].wbuf, KindOf')
  <2> DEFINE s == streams[j]
  <2>1. s \in StreamType /\ GoodStream(s) /\ Orderly(s, s.wbuf, KindOf)
    BY <1>1 DEF Once, StreamsOrderly, TypeInv, StreamsOK, TypeOK
  <2>2. KindsMatch(s.wbuf, KindOf')
    <3>1. ASSUME NEW i \in DOMAIN s.wbuf, s.wbuf[i].t = "req"
          PROVE  s.wbuf[i].kind = KindOf'[s.wbuf[i].call]
      <4>1. s.wbuf[i] \in WriteToken
        BY <2>1 DEF StreamType
      <4>2. s.wbuf[i] \in ReqToken
        BY <3>1, <4>1 DEF WriteToken, ReqToken, MoreToken
      <4>3. s.wbuf[i].kind = KindOf[s.wbuf[i].call]
        BY <2>1, <3>1 DEF Orderly, KindsMatch
      <4>4. s.wbuf[i].call # c /\ s.wbuf[i].call \in Calls
        BY <1>9, <4>2, <4>3 DEF ReqToken
      <4> QED BY <1>9, <4>3, <4>4
    <3> QED BY <3>1 DEF KindsMatch
  <2>3. IsLlm(s) => s.call # c /\ s.call \in Calls
    <3>1. ASSUME IsLlm(s), s.call = c
          PROVE  FALSE
      <4>1. s.cont = NoCall
        BY <1>9, <2>1, <3>1 DEF Orderly
      <4>2. c \in Here(s)
        BY <3>1, <4>1 DEF Here, InProgress
      <4>3. c \in AllHere
        BY <4>2 DEF AllHere
      <4> QED BY <1>2, <4>3 DEF Once, PlacesApart, Outside
    <3> QED BY <2>1, <3>1 DEF GoodStream
  <2> QED BY <1>9, <2>1, <2>2, <2>3 DEF Orderly
<1>11. StreamsOrderly'
  BY <1>1, <1>10 DEF agentVars, StreamsOrderly
<1>12. RingOnce'
  <2>1. KindsMatch(<<req>>, KindOf')
    BY <1>5, <1>9 DEF KindsMatch
  <2> QED BY <1>6, <2>1 DEF RingOnce
<1> QED BY <1>1, <1>6, <1>8, <1>11, <1>12 DEF Once

(* At the start no call is anywhere. *)
LEMMA InitOnce == Init => Once
<1> SUFFICES ASSUME Init PROVE Once
  OBVIOUS
<1>1. TypeInv
  BY InitType
<1>2. TruthOK
  BY DEF Init, TruthOK, NoTruth, Results
<1>3. ring.frags = <<>> /\ Coming = {} /\ RingOnce
  <2>1. ring.frags = <<>>
    BY DEF Init, NoRing
  <2>2. DOMAIN <<>> = {}
    OBVIOUS
  <2> QED BY <2>1, <2>2 DEF Coming, RingOnce
<1>4. \A k \in Conns : streams[k] = NewStream /\ Here(streams[k]) = {}
  BY NewStreamHere DEF Init
<1>5. StreamsOrderly
  BY <1>4, NewStreamHere DEF StreamsOrderly
<1>6. AllHere = {} /\ Outside \subseteq Unused
  BY <1>3, <1>4 DEF AllHere, Outside, Init
<1>7. DOMAIN bg = {} /\ Waiting(bg) = {} /\ ledger.lost = {}
  BY DEF Init, NoBackground, Waiting
<1>8. Exported(ledger.acc) = {} /\ OnceEach(ledger.acc, ledger.why)
  <2>1. \A c \in Calls : ledger.acc[c] = 0
    BY DEF Init
  <2>2. \A c \in Calls : ledger.why[c] = ""
    BY DEF Init
  <2>3. Exported(ledger.acc) = {}
    BY <2>1 DEF Exported
  <2>4. OnceEach(ledger.acc, ledger.why)
    BY <2>1, <2>2, Zenon DEF OnceEach
  <2> QED BY <2>3, <2>4
<1>9. PlacesApart
  <2>1. \A k \in Conns : Noted(streams[k]) = {} /\ InProgress(streams[k]) = {}
    BY <1>4 DEF Here
  <2>2. expired = {} /\ swept = {}
    BY DEF Init
  <2> QED BY <1>3, <1>4, <1>6, <1>7, <1>8, <2>1, <2>2 DEF PlacesApart, ApartHere
<1> QED BY <1>1, <1>2, <1>3, <1>5, <1>9 DEF Once

(* Every step preserves Once. *)
LEMMA NextOnce == Once /\ [Next]_vars => Once'
<1> SUFFICES ASSUME Once, [Next]_vars
             PROVE  Once'
  OBVIOUS
<1>1. CASE Clients
  <2> PICK k \in Conns :
        \/ \E kind \in Kinds, id \in Calls \cup {NoCall}, shape \in Shapes, more \in 0..MaxMore :
              Request(k, kind, id, shape, more)
        \/ WriteMore(k)
        \/ Read(k)
        \/ Free(k)
    BY <1>1 DEF Clients
  <2> QED BY RequestOnce, WriteMoreOnce, ReadOnce, FreeOnce
<1>2. CASE RouteFragment
  BY <1>2, RouteFragmentOnce
<1>3. CASE RouteClosed
  BY <1>3, RouteClosedOnce
<1>4. CASE Cleanup
  BY <1>4, SleepOnce, SweepOnce, ExpireOnce, CountOnce DEF Cleanup
<1>5. CASE UNCHANGED vars
  <2>1. TypeInv'
    BY <1>5, NextType DEF Once
  <2>2. AllHere' = AllHere /\ Outside' = Outside /\ KindOf' = KindOf /\ Unused' = Unused
        /\ Coming' = Coming
    BY <1>5 DEF vars, client, AllHere, Outside, KindOf, Unused, Coming
  <2>3. PlacesApart' /\ StreamsOrderly' /\ RingOnce' /\ TruthOK'
    BY <1>5, <2>2 DEF vars, client, Once, PlacesApart, StreamsOrderly, RingOnce, TruthOK
  <2> QED BY <2>1, <2>3 DEF Once
<1> QED BY <1>1, <1>2, <1>3, <1>4, <1>5 DEF Next

(***************************************************************************)
(* The theorems.                                                           *)
(***************************************************************************)
LEMMA OnceInvariant == Spec => []Once
<1>1. Init => Once
  BY InitOnce
<1>2. Once /\ [Next]_vars => Once'
  BY NextOnce
<1> QED BY <1>1, <1>2, PTL DEF Spec

(* No call is recorded twice, counted unparsed twice, or both: whatever is *)
(* lost in capture, and however polls on several connections, evictions    *)
(* and the cleanup task race for a background call's result.               *)
THEOREM NoCallTwice == Spec => []AtMostOnce
<1>1. Once => AtMostOnce
  <2> SUFFICES ASSUME Once, NEW c \in Calls
               PROVE  ledger.acc[c] <= 1
    BY DEF AtMostOnce
  <2>1. ledger.acc[c] \in {0, 1}
    <3>1. OnceEach(ledger.acc, ledger.why)
      BY DEF Once, PlacesApart, ApartHere
    <3> QED BY <3>1, Zenon DEF OnceEach
  <2> QED BY <2>1
<1> QED BY <1>1, OnceInvariant, PTL

(* A call that was exported is out of every stream, out of the background  *)
(* map, and out of the cleanup task's hands, so that no later record, poll *)
(* or sweep can find it.                                                   *)
THEOREM ExportedIsGone == Spec => []ExportedCallIsOver
<1>1. Once => ExportedCallIsOver
  <2> SUFFICES ASSUME Once, NEW c \in Calls, ledger.acc[c] > 0
               PROVE  c \notin Current \cup Pending \cup expired \cup swept
    BY DEF ExportedCallIsOver
  <2>1. c \in Exported(ledger.acc)
    <3>1. ledger.acc[c] \in Nat
      BY DEF Once, TypeInv, TypeOK, LedgerType
    <3> QED BY <3>1 DEF Exported
  <2>2. Current \subseteq AllHere /\ Pending = Waiting(bg)
    BY DEF Current, AllHere, Here, Pending, Waiting
  <2> QED BY <2>1, <2>2 DEF Once, PlacesApart, ApartHere, Outside
<1> QED BY <1>1, OnceInvariant, PTL

(* A stream settles its response as a poll's exactly when the request it   *)
(* detected is a poll: no continuation outlives its response, through      *)
(* losses, resets and requests resumed with.                               *)
THEOREM ContinuationIsThePolls == Spec => []ContinuationMatchesRequest
<1>1. Once => ContinuationMatchesRequest
  <2> SUFFICES ASSUME Once, NEW k \in Conns
               PROVE  LET s == streams[k]
                      IN  IF IsLlm(s) THEN (s.cont # NoCall) = (truth[s.call].kind = "poll")
                          ELSE s.cont = NoCall
    BY DEF ContinuationMatchesRequest
  <2> DEFINE s == streams[k]
  <2>1. Orderly(s, s.wbuf, KindOf) /\ GoodStream(s)
    BY DEF Once, StreamsOrderly, TypeInv, StreamsOK
  <2>2. IsLlm(s) => KindOf[s.call] = truth[s.call].kind
    BY <2>1 DEF GoodStream, KindOf
  <2> QED BY <2>1, <2>2 DEF Orderly
<1> QED BY <1>1, OnceInvariant, PTL

(* resume_next_request cuts the written bytes at the head of the request   *)
(* it resumes with: what is buffered, cut and reset in between keeps the   *)
(* offset valid.                                                           *)
THEOREM NoteStaysValid == Spec => []NotedRequestIsAtItsOffset
<1>1. Once => NotedRequestIsAtItsOffset
  BY DEF Once, StreamsOrderly, Orderly, NoteAt, NotedRequestIsAtItsOffset
<1> QED BY <1>1, OnceInvariant, PTL

(***************************************************************************)
(* The pipeline implements CallLedger: for every number of calls and       *)
(* connections, all limits and any losses, a step of the agent moves every *)
(* call along its ledger or leaves it, records one call at most, and shows *)
(* at most one for the first time.                                         *)
(*                                                                         *)
(* The stage of a call is the place it is in, and Once says that the       *)
(* places are apart.  So the effects the operations of a stream were shown *)
(* to have on the places of their context are moves of single calls, and a *)
(* fragment is two of them: what it tells of losses, and what it brings.   *)
(***************************************************************************)

(***************************************************************************)
(* The stage of a call, as far as a context knows.                         *)
(***************************************************************************)
At(x, c) ==
    IF c \in Exported(x.acc) THEN "exported"
    ELSE IF c \in InProgress(x.s) THEN "open"
    ELSE IF c \in Waiting(x.bg) THEN "waiting"
    ELSE IF c \in x.lost THEN "dropped"
    ELSE "unseen"

Same(x, y, c) == At(y, c) = At(x, c) /\ y.why[c] = x.why[c]

Moves(x, y, c, before, after) ==
    At(x, c) = before /\ At(y, c) = after /\ y.why[c] = x.why[c]

Exports(x, y, c, before, verdict) ==
    At(x, c) = before /\ At(y, c) = "exported" /\ y.why[c] = verdict

(* Places that are apart tell the stage, whichever is asked first.         *)
LEMMA StageOfPlace ==
    ASSUME NEW x, NEW others, Apart(x, others), NEW c
    PROVE  /\ c \in Exported(x.acc) <=> At(x, c) = "exported"
           /\ c \in InProgress(x.s) <=> At(x, c) = "open"
           /\ c \in Waiting(x.bg) <=> At(x, c) = "waiting"
           /\ c \in x.lost <=> At(x, c) = "dropped"
           /\ c \in Noted(x.s) \cup others => At(x, c) = "unseen"
<1>1. /\ c \in Exported(x.acc) => c \notin InProgress(x.s) \cup Waiting(x.bg) \cup x.lost
      /\ c \in InProgress(x.s) => c \notin Waiting(x.bg) \cup x.lost
      /\ c \in Waiting(x.bg) => c \notin x.lost
      /\ c \in Noted(x.s) \cup others =>
            c \notin Exported(x.acc) \cup InProgress(x.s) \cup Waiting(x.bg) \cup x.lost
  BY DEF Apart, ApartHere, Here
<1> QED BY <1>1 DEF At

(* A call in the same places is at the same stage. *)
LEMMA SamePlace ==
    ASSUME NEW x, NEW y, NEW c,
           c \in Exported(y.acc) <=> c \in Exported(x.acc),
           c \in InProgress(y.s) <=> c \in InProgress(x.s),
           c \in Waiting(y.bg) <=> c \in Waiting(x.bg),
           c \in y.lost <=> c \in x.lost
    PROVE  At(y, c) = At(x, c)
BY DEF At

(***************************************************************************)
(* Each effect, as moves of calls.                                         *)
(***************************************************************************)
(* An operation with no effect moves no call: a dropped note is of a call  *)
(* the ledger has not seen.                                                *)
LEMMA KeepsMoves ==
    ASSUME NEW x, NEW y, Keeps(x, y), NEW c
    PROVE  Same(x, y, c)
<1>1. Waiting(y.bg) = Waiting(x.bg)
  BY SameWaiting DEF Keeps
<1>2. /\ Exported(y.acc) = Exported(x.acc) /\ InProgress(y.s) = InProgress(x.s)
      /\ y.lost = x.lost /\ y.why = x.why
  BY DEF Keeps, SameCalls, NotAccounted
<1> QED BY <1>1, <1>2, SamePlace DEF Same

(* The end of the open call exports it, and moves no other. *)
LEMMA EndsMoves ==
    ASSUME NEW x, NEW y, NEW others, NEW v, GoodContext(x), Ends(x, y, v), Apart(x, others),
           NEW c \in Calls
    PROVE  \/ Same(x, y, c) /\ c # x.s.call
           \/ Exports(x, y, c, "open", v) /\ c = x.s.call
<1> DEFINE o == x.s.call
<1>1. /\ o \in Calls /\ o \in Here(x.s) /\ o \notin Noted(x.s)
      /\ Waiting(y.bg) = Waiting(x.bg)
      /\ Exported(y.acc) = Exported(x.acc) \cup {o}
  BY EndsPlaces
<1>2. /\ Accounted(x, y, o, v) /\ y.lost = x.lost
      /\ InProgress(x.s) = {o} /\ InProgress(y.s) = {}
  BY DEF Ends, SameCalls, Here
<1>3. x.why \in [Calls -> Reasons \cup {"", "recorded"}]
  BY DEF GoodContext, ContextType
<1> HIDE DEF o
<1>4. y.why[o] = v /\ \A e \in Calls : e # o => y.why[e] = x.why[e]
  <2>1. o \in Calls /\ Accounted(x, y, o, v)
    BY <1>1, <1>2
  <2> QED BY <1>3, <2>1 DEF Accounted
<1>5. CASE c # o
  <2>1. At(y, c) = At(x, c)
    BY <1>1, <1>2, <1>5, SamePlace
  <2> QED BY <1>4, <1>5, <2>1 DEF Same, o
<1>6. CASE c = o
  <2>1. At(x, c) = "open"
    BY <1>2, <1>6, StageOfPlace
  <2>2. At(y, c) = "exported"
    BY <1>1, <1>6 DEF At
  <2> QED BY <1>4, <1>6, <2>1, <2>2 DEF Exports, o
<1> QED BY <1>5, <1>6

(* Detection opens a call of the new requests, if any. *)
LEMMA DetectsMoves ==
    ASSUME NEW x, NEW y, NEW others, NEW new, Detects(x, y, new), Apart(x, others \cup new),
           NEW c
    PROVE  \/ Same(x, y, c)
           \/ Moves(x, y, c, "unseen", "open") /\ c \in new
<1>1. Waiting(y.bg) = Waiting(x.bg)
  BY SameWaiting DEF Detects
<1>2. /\ Exported(y.acc) = Exported(x.acc) /\ y.lost = x.lost /\ y.why = x.why
      /\ InProgress(x.s) = {} /\ InProgress(y.s) \subseteq new
  BY DEF Detects, SameCalls, NotAccounted
<1>3. CASE c \notin InProgress(y.s)
  BY <1>1, <1>2, <1>3, SamePlace DEF Same
<1>4. CASE c \in InProgress(y.s)
  <2>1. c \in new /\ At(x, c) = "unseen"
    BY <1>2, <1>4, StageOfPlace
  <2>2. c \notin Exported(x.acc)
    BY <2>1 DEF At
  <2>3. At(y, c) = "open"
    BY <1>2, <1>4, <2>2 DEF At
  <2> QED BY <1>2, <2>1, <2>3 DEF Moves
<1> QED BY <1>3, <1>4

(* A request noted in place of another exports the other as lost. *)
LEMMA NotesMoves ==
    ASSUME NEW x, NEW y, NEW others, NEW new, GoodContext(x), Notes(x, y, new),
           Apart(x, others), NEW c \in Calls
    PROVE  \/ Same(x, y, c)
           \/ Exports(x, y, c, "unseen", "capture_lost")
<1>1. Waiting(y.bg) = Waiting(x.bg)
  BY SameWaiting DEF Notes
<1>2. y.lost = x.lost /\ InProgress(y.s) = InProgress(x.s)
  BY DEF Notes, SameCalls
<1>3. CASE NotAccounted(x, y)
  <2>1. Exported(y.acc) = Exported(x.acc) /\ y.why = x.why
    BY <1>3 DEF NotAccounted
  <2> QED BY <1>1, <1>2, <2>1, SamePlace DEF Same
<1>4. ASSUME NEW n \in Noted(x.s) \cap Calls, Accounted(x, y, n, "capture_lost")
      PROVE  Same(x, y, c) \/ Exports(x, y, c, "unseen", "capture_lost")
  <2>1. x.acc \in [Calls -> Nat] /\ x.why \in [Calls -> Reasons \cup {"", "recorded"}]
    BY DEF GoodContext, ContextType
  <2>2. n \in Calls /\ n \notin Exported(x.acc) /\ OnceEach(x.acc, x.why)
    BY DEF Apart, ApartHere, Here
  <2>3. Exported(y.acc) = Exported(x.acc) \cup {n}
    BY <1>4, <2>1, <2>2, AccountedOnce, Zenon
  <2>4. y.why[n] = "capture_lost" /\ \A e \in Calls : e # n => y.why[e] = x.why[e]
    <3>1. n \in Calls /\ Accounted(x, y, n, "capture_lost")
      BY <1>4, <2>2
    <3> QED BY <2>1, <3>1 DEF Accounted
  <2>5. CASE c # n
    <3>1. At(y, c) = At(x, c)
      BY <1>1, <1>2, <2>3, <2>5, SamePlace
    <3> QED BY <2>4, <2>5, <3>1 DEF Same
  <2>6. CASE c = n
    <3>1. At(x, c) = "unseen"
      BY <2>6, StageOfPlace
    <3>2. At(y, c) = "exported"
      BY <2>3, <2>6 DEF At
    <3> QED BY <2>4, <2>6, <3>1, <3>2 DEF Exports
  <2> QED BY <2>5, <2>6
<1> QED BY <1>3, <1>4 DEF Notes

(* A call put under the id of another one waits; the other is dropped.     *)
LEMMA DefersMoves ==
    ASSUME NEW x, NEW y, NEW others, NEW id, Defers(x, y, id), Apart(x, others), NEW c
    PROVE  \/ Same(x, y, c)
           \/ Moves(x, y, c, "open", "waiting")
           \/ Moves(x, y, c, "waiting", "dropped")
<1> DEFINE o == x.s.call
           was == IF id \in DOMAIN x.bg THEN {x.bg[id].call} ELSE {}
<1>1. /\ o \in Here(x.s) /\ o \notin Noted(x.s)
      /\ Waiting(y.bg) = (Waiting(x.bg) \ was) \cup {o}
      /\ was \subseteq Waiting(x.bg) /\ y.lost = x.lost \cup was
  BY DefersPlaces
<1>2. /\ Exported(y.acc) = Exported(x.acc) /\ y.why = x.why
      /\ InProgress(x.s) = {o} /\ InProgress(y.s) = {}
  BY DEF Defers, NotAccounted, Here
<1> HIDE DEF o, was
<1>3. CASE c = o
  <2>1. At(x, c) = "open" /\ c \notin Exported(x.acc)
    BY <1>1, <1>2, <1>3, StageOfPlace DEF Apart
  <2>2. At(y, c) = "waiting"
    BY <1>1, <1>2, <1>3, <2>1 DEF At
  <2> QED BY <1>2, <2>1, <2>2 DEF Moves
<1>4. CASE c \in was
  <2>1. At(x, c) = "waiting" /\ c \notin Exported(x.acc) /\ c # o
    BY <1>1, <1>4, StageOfPlace DEF Apart, ApartHere
  <2>2. At(y, c) = "dropped"
    BY <1>1, <1>2, <1>4, <2>1 DEF At
  <2> QED BY <1>2, <2>1, <2>2 DEF Moves
<1>5. CASE c # o /\ c \notin was
  BY <1>1, <1>2, <1>5, SamePlace DEF Same
<1> QED BY <1>3, <1>4, <1>5

(* An eviction exports the call it evicts as unfinished. *)
LEMMA EvictsMoves ==
    ASSUME NEW x, NEW y, NEW others, NEW id, NEW old, GoodContext(x),
           Evicts(x, y, id, old), Apart(x, others), NEW c \in Calls
    PROVE  \/ Same(x, y, c)
           \/ Moves(x, y, c, "open", "waiting")
           \/ Exports(x, y, c, "waiting", "background_unfinished") /\ c = x.bg[old].call
<1> DEFINE o == x.s.call
           e == x.bg[old].call
<1>1. /\ o \in Here(x.s) /\ o \notin Noted(x.s)
      /\ Waiting(y.bg) = (Waiting(x.bg) \ {e}) \cup {o}
      /\ e \in Waiting(x.bg) /\ e \in Calls
      /\ Exported(y.acc) = Exported(x.acc) \cup {e}
  BY EvictsPlaces
<1>2. /\ y.lost = x.lost /\ Accounted(x, y, e, "background_unfinished")
      /\ InProgress(x.s) = {o} /\ InProgress(y.s) = {}
  BY DEF Evicts, Here
<1>3. x.why \in [Calls -> Reasons \cup {"", "recorded"}]
  BY DEF GoodContext, ContextType
<1> HIDE DEF o, e
<1>4. e # o
  BY <1>1 DEF Apart
<1>5. y.why[e] = "background_unfinished" /\ (c # e => y.why[c] = x.why[c])
  BY <1>1, <1>2, <1>3 DEF Accounted
<1>6. CASE c = o
  <2>1. At(x, c) = "open" /\ c \notin Exported(x.acc)
    BY <1>1, <1>2, <1>6, StageOfPlace DEF Apart
  <2>2. At(y, c) = "waiting"
    BY <1>1, <1>2, <1>4, <1>6, <2>1 DEF At
  <2> QED BY <1>4, <1>5, <1>6, <2>1, <2>2 DEF Moves
<1>7. CASE c = e
  <2>1. At(x, c) = "waiting"
    BY <1>1, <1>7, StageOfPlace
  <2>2. At(y, c) = "exported"
    BY <1>1, <1>7 DEF At
  <2> QED BY <1>5, <1>7, <2>1, <2>2 DEF Exports, e
<1>8. CASE c # o /\ c # e
  <2>1. At(y, c) = At(x, c)
    BY <1>1, <1>2, <1>8, SamePlace
  <2> QED BY <1>5, <1>8, <2>1 DEF Same
<1> QED BY <1>6, <1>7, <1>8

(* A poll that takes its call out exports it. *)
LEMMA TakesMoves ==
    ASSUME NEW x, NEW y, NEW others, NEW id, NEW v, GoodContext(x),
           Takes(x, y, id, v), Apart(x, others), NEW c \in Calls
    PROVE  \/ Same(x, y, c)
           \/ Exports(x, y, c, "waiting", v) /\ c = x.bg[id].call
<1> DEFINE e == x.bg[id].call
<1>1. /\ Waiting(y.bg) = Waiting(x.bg) \ {e}
      /\ e \in Waiting(x.bg) /\ e \in Calls
      /\ Exported(y.acc) = Exported(x.acc) \cup {e}
  BY TakesPlaces
<1>2. /\ y.lost = x.lost /\ Accounted(x, y, e, v)
      /\ InProgress(x.s) = {} /\ InProgress(y.s) = {}
  BY DEF Takes, Here
<1>3. x.why \in [Calls -> Reasons \cup {"", "recorded"}]
  BY DEF GoodContext, ContextType
<1> HIDE DEF e
<1>4. y.why[e] = v /\ (c # e => y.why[c] = x.why[c])
  BY <1>1, <1>2, <1>3 DEF Accounted
<1>5. CASE c = e
  <2>1. At(x, c) = "waiting"
    BY <1>1, <1>5, StageOfPlace
  <2>2. At(y, c) = "exported"
    BY <1>1, <1>5 DEF At
  <2> QED BY <1>4, <1>5, <2>1, <2>2 DEF Exports, e
<1>6. CASE c # e
  <2>1. At(y, c) = At(x, c)
    BY <1>1, <1>2, <1>6, SamePlace
  <2> QED BY <1>4, <1>6, <2>1 DEF Same
<1> QED BY <1>5, <1>6

(***************************************************************************)
(* The moves of a fragment.                                                *)
(***************************************************************************)
(* What settling a response, or its end, does to a call. *)
Settled(x, y, c) ==
    \/ Same(x, y, c)
    \/ \E v \in Direct : Exports(x, y, c, "open", v)
    \/ \E v \in Unfinished : Exports(x, y, c, "waiting", v)
    \/ Moves(x, y, c, "open", "waiting")
    \/ Moves(x, y, c, "waiting", "dropped")

(* No call but one is exported. *)
ExportsOnly(x, y, one) ==
    \A c \in Calls : At(x, c) # "exported" /\ At(y, c) = "exported" => c = one

(* Settling exports one call at most. *)
LEMMA SettlesMoves ==
    ASSUME NEW x, GoodContext(x), NEW y, NEW others, Settles(x, y), Apart(x, others)
    PROVE  /\ \A c \in Calls : Settled(x, y, c)
           /\ \E one : ExportsOnly(x, y, one)
<1>1. CASE Keeps(x, y)
  <2>1. \A c : Same(x, y, c)
    BY <1>1, KeepsMoves
  <2> QED BY <2>1 DEF Settled, Same, ExportsOnly
<1>2. ASSUME NEW v \in Direct, Ends(x, y, v)
      PROVE  /\ \A c \in Calls : Settled(x, y, c)
             /\ ExportsOnly(x, y, x.s.call)
  <2>1. \A c \in Calls : \/ Same(x, y, c)
                         \/ Exports(x, y, c, "open", v) /\ c = x.s.call
    BY <1>2, EndsMoves
  <2> QED BY <2>1 DEF Settled, Same, Exports, ExportsOnly
<1>3. ASSUME NEW id \in Calls, Defers(x, y, id)
      PROVE  /\ \A c \in Calls : Settled(x, y, c)
             /\ ExportsOnly(x, y, NoCall)
  <2>1. \A c : \/ Same(x, y, c)
               \/ Moves(x, y, c, "open", "waiting")
               \/ Moves(x, y, c, "waiting", "dropped")
    BY <1>3, DefersMoves
  <2> QED BY <2>1 DEF Settled, Same, Moves, ExportsOnly
<1>4. ASSUME NEW id \in Calls, NEW old \in Calls, Evicts(x, y, id, old)
      PROVE  /\ \A c \in Calls : Settled(x, y, c)
             /\ ExportsOnly(x, y, x.bg[old].call)
  <2>1. \A c \in Calls :
           \/ Same(x, y, c)
           \/ Moves(x, y, c, "open", "waiting")
           \/ Exports(x, y, c, "waiting", "background_unfinished") /\ c = x.bg[old].call
    BY <1>4, EvictsMoves
  <2> QED BY <2>1 DEF Settled, Same, Moves, Exports, ExportsOnly, Unfinished
<1>5. ASSUME NEW id \in Calls, NEW v \in Unfinished, Takes(x, y, id, v)
      PROVE  /\ \A c \in Calls : Settled(x, y, c)
             /\ ExportsOnly(x, y, x.bg[id].call)
  <2>1. \A c \in Calls : \/ Same(x, y, c)
                         \/ Exports(x, y, c, "waiting", v) /\ c = x.bg[id].call
    BY <1>5, TakesMoves
  <2> QED BY <2>1 DEF Settled, Same, Exports, ExportsOnly
<1> QED BY <1>1, <1>2, <1>3, <1>4, <1>5, Zenon DEF Settles

(* A move CallLedger allows: from one stage and verdict to another. *)
Legal(before, after, was, is) ==
    \/ after = before /\ is = was
    \/ before = "unseen" /\ after = "open" /\ is = ""
    \/ before \in {"unseen", "open"} /\ after = "waiting" /\ is = ""
    \/ before \in {"unseen", "open"} /\ after = "exported" /\ is \in Direct
    \/ before = "waiting" /\ after = "exported" /\ is \in Unfinished
    \/ before \in {"open", "waiting"} /\ after = "dropped" /\ is = ""

Forward(x, y, c) == Legal(At(x, c), At(y, c), x.why[c], y.why[c])

RecordsOne(x, y) ==
    \E one : \A c \in Calls : x.why[c] = "" /\ y.why[c] = "recorded" => c = one

SeesOne(x, y) ==
    \E one : \A c \in Calls :
        At(x, c) = "unseen" /\ At(y, c) \in {"open", "waiting"} => c = one

(* All the calls a handler moves, it moves along the ledger. *)
Progress(x, y) == (\A c \in Calls : Forward(x, y, c)) /\ RecordsOne(x, y) /\ SeesOne(x, y)

(* What the first half of a fragment does to a call: it ends a response    *)
(* for a loss, counts a note for one, or resumes with a call of new.       *)
Told(x, t, c, new) ==
    \/ Same(x, t, c)
    \/ Moves(x, t, c, "unseen", "open") /\ c \in new
    \/ \E v \in {"capture_lost", "next_request"} :
          Exports(x, t, c, "unseen", v) \/ Exports(x, t, c, "open", v)

(* What a fragment tells of losses exports the open call, or moves none. *)
LEMMA DropsMoves ==
    ASSUME NEW x, GoodContext(x), NEW d, Drops(x, d), NEW others, Apart(x, others),
           NEW c \in Calls
    PROVE  \/ Same(x, d, c)
           \/ \E v \in {"capture_lost", "next_request"} : Exports(x, d, c, "open", v)
<1>1. CASE Keeps(x, d)
  BY <1>1, KeepsMoves
<1>2. ASSUME NEW v \in {"capture_lost", "next_request"}, Ends(x, d, v)
      PROVE  Same(x, d, c) \/ Exports(x, d, c, "open", v)
  BY <1>2, EndsMoves
<1> QED BY <1>1, <1>2 DEF Drops

(* Resuming with a noted request opens its call; noting one in place of    *)
(* another counts the other as lost.                                       *)
LEMMA PreparesMoves ==
    ASSUME NEW x, NEW f, NEW d, GoodContext(d), NEW t, Prepares(x, d, t, f),
           NEW others, Apart(d, others \cup (Noted(x.s) \ Noted(d.s))), NEW c \in Calls
    PROVE  \/ Same(d, t, c)
           \/ Moves(d, t, c, "unseen", "open") /\ f.dir = "Read" /\ c \in Noted(x.s)
           \/ Exports(d, t, c, "unseen", "capture_lost")
<1>1. CASE t = d
  BY <1>1 DEF Same
<1>2. CASE f.dir = "Read" /\ Noted(d.s) = {} /\ Detects(d, t, Noted(x.s))
  <2>1. Apart(d, others \cup Noted(x.s))
    BY <1>2, ApartFromFewer
  <2> QED BY <1>2, <2>1, DetectsMoves
<1>3. CASE f.dir = "Write" /\ IsLlm(t.s) /\ Notes(d, t, RequestIn(f))
  BY <1>3, NotesMoves
<1> QED BY <1>1, <1>2, <1>3 DEF Prepares

(* The two together. *)
LEMMA ToldMoves ==
    ASSUME NEW x, GoodContext(x), NEW f, NEW d, GoodContext(d), NEW t,
           Drops(x, d), Prepares(x, d, t, f), NEW others, Apart(x, others), NEW c \in Calls
    PROVE  Told(x, t, c, IF f.dir = "Read" THEN Noted(x.s) ELSE {})
<1>1. Apart(d, others \cup (Noted(x.s) \ Noted(d.s)))
  BY DropsApart
<1>2. \/ Same(x, d, c)
      \/ \E v \in {"capture_lost", "next_request"} : Exports(x, d, c, "open", v)
  BY DropsMoves
<1>3. \/ Same(d, t, c)
      \/ Moves(d, t, c, "unseen", "open") /\ f.dir = "Read" /\ c \in Noted(x.s)
      \/ Exports(d, t, c, "unseen", "capture_lost")
  BY <1>1, PreparesMoves
<1>4. CASE Same(x, d, c)
  BY <1>3, <1>4 DEF Same, Moves, Exports, Told
<1>5. ASSUME NEW v \in {"capture_lost", "next_request"}, Exports(x, d, c, "open", v)
      PROVE  Told(x, t, c, IF f.dir = "Read" THEN Noted(x.s) ELSE {})
  <2>1. Same(d, t, c)
    BY <1>3, <1>5 DEF Moves, Exports
  <2>2. Exports(x, t, c, "open", v)
    BY <1>5, <2>1 DEF Same, Exports
  <2> QED BY <2>2 DEF Told
<1> QED BY <1>2, <1>4, <1>5

(* What the second half does. *)
LEMMA HandlesMoves ==
    ASSUME NEW f, NEW t, GoodContext(t), NEW y, Handles(t, y, f), NEW others,
           \/ Apart(t, others \cup RequestIn(f))
           \/ Apart(t, others) /\ (f.dir = "Read" \/ IsLlm(t.s))
    PROVE  /\ \A c \in Calls :
                 \/ Settled(t, y, c)
                 \/ f.dir = "Write" /\ Moves(t, y, c, "unseen", "open") /\ c \in RequestIn(f)
           /\ \E one : ExportsOnly(t, y, one)
<1>1. CASE Settles(t, y)
  <2>1. Apart(t, others)
    BY ApartFromFewer
  <2> QED BY <1>1, <2>1, SettlesMoves
<1>2. CASE f.dir = "Write" /\ ~IsLlm(t.s) /\ Detects(t, y, RequestIn(f))
  <2>1. Apart(t, others \cup RequestIn(f))
    BY <1>2
  <2>2. \A c : \/ Same(t, y, c)
               \/ Moves(t, y, c, "unseen", "open") /\ c \in RequestIn(f)
    BY <1>2, <2>1, DetectsMoves
  <2>3. ExportsOnly(t, y, NoCall)
    BY <2>2 DEF Same, Moves, ExportsOnly
  <2> QED BY <1>2, <2>2, <2>3 DEF Settled
<1> QED BY <1>1, <1>2 DEF Handles

(* No verdict of a call that was not exported. *)
LEMMA NoVerdictYet ==
    ASSUME NEW x, NEW others, Apart(x, others), NEW c \in Calls, At(x, c) # "exported"
    PROVE  x.why[c] = ""
<1>1. c \notin Exported(x.acc)
  BY DEF At
<1>2. OnceEach(x.acc, x.why)
  BY DEF Apart, ApartHere
<1> QED BY <1>1, <1>2, Zenon DEF OnceEach, Exported

(* The two halves of a fragment. *)
LEMMA FragmentMoves ==
    ASSUME NEW x, GoodContext(x), NEW f, NEW d, GoodContext(d), NEW t, GoodContext(t), NEW y,
           Drops(x, d), Prepares(x, d, t, f), Handles(t, y, f), f.dir \in {"Read", "Write"},
           NEW others, RequestIn(f) \cap others = {}, Apart(x, others \cup RequestIn(f))
    PROVE  Progress(x, y)
<1> DEFINE resumed == IF f.dir = "Read" THEN Noted(x.s) ELSE {}
           news == IF f.dir = "Write" THEN RequestIn(f) ELSE {}
<1>1. \A c \in Calls : Told(x, t, c, resumed)
  BY ToldMoves
<1>2. /\ \A c \in Calls : Settled(t, y, c) \/ (Moves(t, y, c, "unseen", "open") /\ c \in news)
      /\ \E one : ExportsOnly(t, y, one)
  <2>1. Apart(d, others \cup RequestIn(f) \cup (Noted(x.s) \ Noted(d.s)))
    BY DropsApart
  <2>2. Noted(x.s) \cap others = {}
    BY DEF Apart, Here
  <2>3. \/ Apart(t, others \cup RequestIn(f))
        \/ Apart(t, others) /\ (f.dir = "Read" \/ IsLlm(t.s))
    BY <2>1, <2>2, PreparesApart
  <2> QED BY <2>3, HandlesMoves
<1>3. \E one : resumed \cup news \subseteq {one}
  BY DEF Noted, RequestIn
<1> HIDE DEF resumed, news
<1>4. \A c \in Calls : At(x, c) # "exported" => x.why[c] = ""
  BY NoVerdictYet
<1>5. ASSUME NEW c \in Calls
      PROVE  Forward(x, y, c)
  <2>1. Told(x, t, c, resumed) /\ (At(x, c) # "exported" => x.why[c] = "")
    BY <1>1, <1>4
  <2>2. Settled(t, y, c) \/ Moves(t, y, c, "unseen", "open")
    BY <1>2
  <2>3. {"capture_lost", "next_request"} \subseteq Direct
    BY DEF Direct, Verdicts, Reasons
  <2>4. CASE Same(x, t, c)
    BY <2>1, <2>2, <2>4 DEF Same, Settled, Moves, Exports, Forward, Legal
  <2>5. CASE Moves(x, t, c, "unseen", "open")
    BY <2>1, <2>2, <2>5 DEF Same, Settled, Moves, Exports, Forward, Legal
  <2>6. ASSUME NEW v \in {"capture_lost", "next_request"},
               Exports(x, t, c, "unseen", v) \/ Exports(x, t, c, "open", v)
        PROVE  Forward(x, y, c)
    <3>1. Same(t, y, c)
      BY <2>2, <2>6 DEF Settled, Moves, Exports
    <3> QED BY <2>3, <2>6, <3>1 DEF Same, Exports, Forward, Legal
  <2> QED BY <2>1, <2>4, <2>5, <2>6 DEF Told
<1>6. RecordsOne(x, y)
  <2>1. PICK one : ExportsOnly(t, y, one)
    BY <1>2
  <2>2. ASSUME NEW c \in Calls, x.why[c] = "", y.why[c] = "recorded"
        PROVE  c = one
    <3>1. t.why[c] # "recorded"
      BY <1>1, <2>2 DEF Told, Same, Moves, Exports
    <3>2. \E v : Exports(t, y, c, "open", v) \/ Exports(t, y, c, "waiting", v)
      BY <1>2, <2>2, <3>1 DEF Settled, Same, Moves
    <3> QED BY <2>1, <3>2 DEF ExportsOnly, Exports
  <2> QED BY <2>2 DEF RecordsOne
<1>7. SeesOne(x, y)
  <2>1. PICK one : resumed \cup news \subseteq {one}
    BY <1>3
  <2>2. ASSUME NEW c \in Calls, At(x, c) = "unseen", At(y, c) \in {"open", "waiting"}
        PROVE  c \in resumed \cup news
    <3>1. CASE Moves(x, t, c, "unseen", "open")
      BY <1>1, <2>2, <3>1 DEF Told, Same, Moves, Exports
    <3>2. CASE ~Moves(x, t, c, "unseen", "open")
      <4>1. At(t, c) \in {"unseen", "exported"}
        BY <1>1, <2>2, <3>2 DEF Told, Same, Exports
      <4> QED BY <1>2, <2>2, <4>1 DEF Settled, Same, Moves, Exports
    <3> QED BY <3>1, <3>2
  <2> QED BY <2>1, <2>2 DEF SeesOne
<1> QED BY <1>5, <1>6, <1>7 DEF Progress

(***************************************************************************)
(* The stage of a call, in a state where the places are apart.             *)
(***************************************************************************)
StagesKnown ==
    \A c \in Calls :
        /\ Stage(c) \in {"unseen", "open", "waiting", "dropped", "exported"}
        /\ c \in Exported(ledger.acc) <=> Stage(c) = "exported"
        /\ c \in Current <=> Stage(c) = "open"
        /\ c \in Waiting(bg) \cup expired <=> Stage(c) = "waiting"
        /\ c \in swept \cup ledger.lost <=> Stage(c) = "dropped"
        /\ Stage(c) # "exported" => ledger.why[c] = ""

(* The mapped stage is the place the call is in. *)
LEMMA StageIsPlace == Once => StagesKnown
<1> SUFFICES ASSUME Once, NEW c \in Calls
             PROVE  /\ Stage(c) \in {"unseen", "open", "waiting", "dropped", "exported"}
                    /\ c \in Exported(ledger.acc) <=> Stage(c) = "exported"
                    /\ c \in Current <=> Stage(c) = "open"
                    /\ c \in Waiting(bg) \cup expired <=> Stage(c) = "waiting"
                    /\ c \in swept \cup ledger.lost <=> Stage(c) = "dropped"
                    /\ Stage(c) # "exported" => ledger.why[c] = ""
  BY DEF StagesKnown
<1>1. Current \subseteq AllHere /\ Pending = Waiting(bg)
  BY DEF Current, AllHere, Here, Pending, Waiting
<1>2. ledger.acc[c] > 0 <=> c \in Exported(ledger.acc)
  <2>1. ledger.acc[c] \in Nat
    BY DEF Once, TypeInv, TypeOK, LedgerType
  <2> QED BY <2>1 DEF Exported
<1>3. /\ c \in Exported(ledger.acc) =>
            c \notin Current \cup Waiting(bg) \cup expired \cup swept \cup ledger.lost
      /\ c \in Current => c \notin Waiting(bg) \cup expired \cup swept \cup ledger.lost
      /\ c \in Waiting(bg) \cup expired => c \notin swept \cup ledger.lost
  BY <1>1 DEF Once, PlacesApart, ApartHere, Outside
<1>4. c \notin Exported(ledger.acc) => ledger.why[c] = ""
  <2>1. OnceEach(ledger.acc, ledger.why)
    BY DEF Once, PlacesApart, ApartHere
  <2> QED BY <2>1, Zenon DEF OnceEach, Exported
<1> DEFINE exported == ledger.acc[c] > 0
           open == c \in Current
           waiting == c \in Pending \cup expired
           dropped == c \in swept \cup ledger.lost
<1>5. Stage(c) = CASE exported -> "exported"
                   [] open     -> "open"
                   [] waiting  -> "waiting"
                   [] dropped  -> "dropped"
                   [] OTHER    -> "unseen"
  BY DEF Stage
<1>6. /\ exported => ~open /\ ~waiting /\ ~dropped
      /\ open => ~waiting /\ ~dropped
      /\ waiting => ~dropped
  BY <1>1, <1>2, <1>3
<1> HIDE DEF exported, open, waiting, dropped
<1>7. /\ exported => Stage(c) = "exported"
      /\ open => Stage(c) = "open"
      /\ waiting => Stage(c) = "waiting"
      /\ dropped => Stage(c) = "dropped"
      /\ ~exported /\ ~open /\ ~waiting /\ ~dropped => Stage(c) = "unseen"
  BY <1>5, <1>6, Zenon
<1>8. /\ exported <=> c \in Exported(ledger.acc)
      /\ open <=> c \in Current
      /\ waiting <=> c \in Waiting(bg) \cup expired
      /\ dropped <=> c \in swept \cup ledger.lost
  BY <1>1, <1>2 DEF exported, open, waiting, dropped
<1> QED BY <1>4, <1>7, <1>8

(* The same after a step. *)
LEMMA StagesAgain == ASSUME Once' PROVE StagesKnown'
<1>1. Once' => StagesKnown'
  BY StageIsPlace, PTL
<1> QED BY <1>1

(***************************************************************************)
(* Steps that advance the ledger.                                          *)
(***************************************************************************)
Advance ==
    /\ \A c \in Calls : Legal(Stage(c), Stage(c)', ledger.why[c], ledger'.why[c])
    /\ \E one : \A c \in Calls : ledger.why[c] = "" /\ ledger'.why[c] = "recorded" => c = one
    /\ \E one : \A c \in Calls :
          Stage(c) = "unseen" /\ Stage(c)' \in {"open", "waiting"} => c = one

(* A set of calls that are all the same has one at most. *)
LEMMA OneAtMost ==
    ASSUME NEW S, NEW one, \A c \in S : c = one
    PROVE  Cardinality(S) <= 1
<1>1. S = {} \/ S = {one}
  OBVIOUS
<1>2. Cardinality({}) = 0 /\ Cardinality({one}) = 1
  BY FS_EmptySet, FS_Singleton
<1> QED BY <1>1, <1>2

(* The instance counts as this module does. *)
LEMMA LedgerCardinality == \A S : Ledger!Cardinality(S) = Cardinality(S)
BY Zenon DEF Ledger!Cardinality, Cardinality

(* Such a step is one of the abstract ledger. *)
LEMMA AdvanceIsStep == ASSUME Advance PROVE Ledger!Next
<1>1. ASSUME NEW c \in Calls
      PROVE  \/ Ledger!Detect(c) \/ Ledger!Await(c) \/ Ledger!Export(c)
             \/ Ledger!Forget(c) \/ Ledger!Stay(c)
  <2>1. Legal(Stage(c), Stage(c)', ledger.why[c], ledger'.why[c])
    BY DEF Advance
  <2>2. Ledger!Direct = Direct /\ Ledger!Unfinished = Unfinished
    BY DEF Ledger!Direct, Ledger!Unfinished, Direct, Unfinished, Verdicts
  <2> QED BY <2>1, <2>2 DEF Legal, Ledger!Detect, Ledger!Await, Ledger!Export, Ledger!Forget,
                            Ledger!Stay, Ledger!Becomes, Ledger!Fresh
<1> DEFINE recorded == {c \in Calls : ledger.why[c] = "" /\ ledger'.why[c] = "recorded"}
           seen == {c \in Calls : Stage(c) = "unseen" /\ Stage(c)' \in {"open", "waiting"}}
<1>2. Cardinality(recorded) <= 1 /\ Cardinality(seen) <= 1
  <2>1. PICK one : \A c \in recorded : c = one
    BY DEF Advance
  <2>2. PICK first : \A c \in seen : c = first
    BY DEF Advance
  <2> HIDE DEF recorded, seen
  <2> QED BY <2>1, <2>2, OneAtMost
<1> DEFINE stages == [c \in Calls |-> Stage(c)]
<1>3. /\ recorded = {c \in Calls : ledger.why[c] = "" /\ ledger.why'[c] = "recorded"}
      /\ seen = {c \in Calls : stages[c] = "unseen" /\ stages'[c] \in {"open", "waiting"}}
  OBVIOUS
<1>4. Ledger!Cardinality(recorded) <= 1 /\ Ledger!Cardinality(seen) <= 1
  BY <1>2, LedgerCardinality
<1> HIDE DEF recorded, seen
<1>5. /\ Ledger!Cardinality({c \in Calls : ledger.why[c] = "" /\ ledger.why'[c] = "recorded"}) <= 1
      /\ Ledger!Cardinality({c \in Calls : stages[c] = "unseen"
                                        /\ stages'[c] \in {"open", "waiting"}}) <= 1
  BY ONLY <1>3, <1>4
<1> QED BY <1>1, <1>5 DEF Ledger!Next

(* A call in the same place is at the same stage. *)
LEMMA SameStage ==
    ASSUME StagesKnown, StagesKnown', NEW c \in Calls,
           c \in Exported(ledger'.acc) <=> c \in Exported(ledger.acc),
           c \in Current' <=> c \in Current,
           c \in Waiting(bg') \cup expired' <=> c \in Waiting(bg) \cup expired,
           c \in swept' \cup ledger'.lost <=> c \in swept \cup ledger.lost
    PROVE  Stage(c)' = Stage(c)
<1>1. /\ Stage(c) \in {"unseen", "open", "waiting", "dropped", "exported"}
      /\ c \in Exported(ledger.acc) <=> Stage(c) = "exported"
      /\ c \in Current <=> Stage(c) = "open"
      /\ c \in Waiting(bg) \cup expired <=> Stage(c) = "waiting"
      /\ c \in swept \cup ledger.lost <=> Stage(c) = "dropped"
  BY DEF StagesKnown
<1>2. /\ Stage(c)' \in {"unseen", "open", "waiting", "dropped", "exported"}
      /\ c \in Exported(ledger'.acc) <=> Stage(c)' = "exported"
      /\ c \in Current' <=> Stage(c)' = "open"
      /\ c \in Waiting(bg') \cup expired' <=> Stage(c)' = "waiting"
      /\ c \in swept' \cup ledger'.lost <=> Stage(c)' = "dropped"
  BY Zenon DEF StagesKnown
<1> QED BY <1>1, <1>2

(* A step that leaves every call in its place leaves the ledger alone. *)
LEMMA SamePlacesStutter ==
    ASSUME Once, Once', ledger' = ledger, Current' = Current, swept' = swept,
           Waiting(bg') \cup expired' = Waiting(bg) \cup expired
    PROVE  UNCHANGED Ledger!ledgerVars
<1>1. StagesKnown /\ StagesKnown'
  BY StageIsPlace, StagesAgain
<1>2. ASSUME NEW c \in Calls
      PROVE  Stage(c)' = Stage(c)
  BY <1>1, SameStage
<1> QED BY <1>2 DEF Ledger!ledgerVars

(***************************************************************************)
(* A step of the stream k, from its context x to the context y.            *)
(***************************************************************************)
LEMMA ContextAdvances ==
    ASSUME Once, Once', NEW k \in Conns, NEW x, x = Context(k), NEW y,
           streams' = [streams EXCEPT ![k] = y.s], bg' = y.bg,
           ledger'.acc = y.acc, ledger'.why = y.why, ledger'.lost = y.lost,
           UNCHANGED <<expired, swept>>,
           Apart(y, Elsewhere(k) \cup expired \cup swept),
           Progress(x, y)
    PROVE  Advance
<1> DEFINE others == UNION {InProgress(streams[j]) : j \in Conns \ {k}}
           fixed == others \cup expired \cup swept
<1>1. /\ x.s = streams[k] /\ x.bg = bg /\ x.acc = ledger.acc
      /\ x.why = ledger.why /\ x.lost = ledger.lost
  BY DEF Context
<1>2. Apart(x, Elsewhere(k) \cup Outside)
  BY ContextApart
<1>3. streams'[k] = y.s /\ \A j \in Conns \ {k} : streams'[j] = streams[j]
  BY DEF Once, TypeInv, TypeOK
<1>4. Current = InProgress(x.s) \cup others /\ Current' = InProgress(y.s) \cup others
  BY <1>1, <1>3 DEF Current
<1>5. others \subseteq Elsewhere(k) /\ expired \cup swept \subseteq Outside
  <2>1. \A j \in Conns : InProgress(streams[j]) \subseteq Here(streams[j])
    BY DEF Here
  <2> QED BY <2>1 DEF Elsewhere, Outside
<1> HIDE DEF others
<1>6. StagesKnown /\ StagesKnown'
  BY StageIsPlace, StagesAgain
<1>7. expired' = expired /\ swept' = swept
  OBVIOUS
<1>8. ASSUME NEW c \in Calls
      PROVE  \/ Stage(c) = At(x, c) /\ Stage(c)' = At(y, c)
             \/ Stage(c)' = Stage(c) /\ Stage(c) # "unseen" /\ y.why[c] = x.why[c]
  <2>1. CASE c \in fixed
    <3>1. At(x, c) = "unseen" /\ At(y, c) = "unseen"
      BY <1>2, <1>5, <2>1, StageOfPlace
    <3>2. x.why[c] = "" /\ y.why[c] = ""
      BY <1>2, <3>1, NoVerdictYet
    <3>3. Stage(c)' = Stage(c) /\ Stage(c) # "unseen"
      BY <1>4, <1>6, <1>7, <2>1 DEF StagesKnown
    <3> QED BY <3>2, <3>3
  <2>2. CASE c \notin fixed
    <3>1. Stage(c) = At(x, c)
      BY <1>1, <1>4, <1>6, <2>2 DEF StagesKnown, At
    <3>2. Stage(c)' = At(y, c)
      BY <1>4, <1>6, <1>7, <2>2 DEF StagesKnown, At
    <3> QED BY <3>1, <3>2
  <2> QED BY <2>1, <2>2
<1>9. \A c \in Calls : Legal(Stage(c), Stage(c)', ledger.why[c], ledger'.why[c])
  BY <1>1, <1>8 DEF Progress, Forward, Legal
<1>10. \E one : \A c \in Calls : ledger.why[c] = "" /\ ledger'.why[c] = "recorded" => c = one
  BY <1>1 DEF Progress, RecordsOne
<1>11. \E one : \A c \in Calls :
          Stage(c) = "unseen" /\ Stage(c)' \in {"open", "waiting"} => c = one
  BY <1>8 DEF Progress, SeesOne
<1> QED BY <1>9, <1>10, <1>11 DEF Advance

(***************************************************************************)
(* The steps.                                                              *)
(***************************************************************************)
LEMMA RouteFragmentAdvances ==
    ASSUME Once, Once', RouteFragment
    PROVE  Advance
<1> DEFINE k == ring.key
           f == Head(ring.frags)
           x == Context(k)
<1>1. k \in Conns /\ x = Context(k)
  BY DEF Once, RouteFragment, TypeInv, RingOK
<1>2. PICK y : /\ Routed(x, y, f, Fixed(k))
               /\ Orderly(y.s, y.s.wbuf, KindOf)
               /\ streams' = [streams EXCEPT ![k] = y.s] /\ bg' = y.bg
               /\ ledger'.acc = y.acc /\ ledger'.why = y.why /\ ledger'.lost = y.lost
  BY RouteFragmentEffect
<1> HIDE DEF x, k, f
<1>3. Apart(y, Elsewhere(k) \cup expired \cup swept)
  <2>1. Apart(y, Fixed(k))
    BY <1>2, RoutedApart
  <2> QED BY <2>1, ApartFromFewer DEF Fixed
<1>4. Progress(x, y)
  BY <1>2, FragmentMoves DEF Routed
<1>5. UNCHANGED <<expired, swept>>
  BY DEF RouteFragment
<1> QED BY <1>1, <1>2, <1>3, <1>4, <1>5, ContextAdvances

(* The end of a connection exports the call its stream waits for, if any.  *)
LEMMA RouteClosedAdvances ==
    ASSUME Once, Once', RouteClosed
    PROVE  Advance
<1> DEFINE k == ring.key
           x == Context(k)
           others == Elsewhere(k) \cup Outside
<1>1. k \in Conns /\ x = Context(k)
  BY DEF Once, RouteClosed, TypeInv, RingOK
<1>2. PICK z, y : /\ GoodContext(x) /\ GoodContext(z) /\ InProgress(z.s) = {}
                  /\ Keeps(x, z) \/ Ends(x, z, "connection_closed")
                  /\ y = [z EXCEPT !.s = NewStream]
                  /\ streams' = [streams EXCEPT ![k] = y.s] /\ bg' = y.bg
                  /\ ledger'.acc = y.acc /\ ledger'.why = y.why /\ ledger'.lost = y.lost
  BY RouteClosedEffect
<1>3. Apart(x, others)
  BY <1>1, ContextApart
<1> HIDE DEF x, k, others
<1>4. Apart(z, others) /\ Apart(y, others)
  BY <1>2, <1>3, ClosedApart
<1>5. /\ y.s = NewStream /\ y.bg = z.bg /\ y.acc = z.acc /\ y.why = z.why /\ y.lost = z.lost
  BY <1>2 DEF GoodContext, ContextType
<1>6. \A c \in Calls : Same(x, y, c) \/ Exports(x, y, c, "open", "connection_closed")
  <2>1. \A c : At(y, c) = At(z, c)
    <3>1. InProgress(y.s) = {}
      BY <1>5, NewStreamHere DEF Here
    <3> QED BY <1>2, <1>5, <3>1 DEF At
  <2>2. \A c \in Calls : Same(x, z, c) \/ Exports(x, z, c, "open", "connection_closed")
    <3>1. CASE Keeps(x, z)
      BY <3>1, KeepsMoves
    <3>2. CASE Ends(x, z, "connection_closed")
      BY <1>2, <1>3, <3>2, EndsMoves
    <3> QED BY <1>2, <3>1, <3>2
  <2> QED BY <1>5, <2>1, <2>2 DEF Same, Exports
<1>7. Progress(x, y)
  <2>1. "connection_closed" \in Direct
    BY DEF Direct, Verdicts, Reasons
  <2>2. \A c \in Calls : Forward(x, y, c)
    BY <1>6, <2>1 DEF Same, Exports, Forward, Legal
  <2>3. RecordsOne(x, y)
    BY <1>6 DEF Same, Exports, RecordsOne
  <2>4. SeesOne(x, y)
    BY <1>6 DEF Same, Exports, SeesOne
  <2> QED BY <2>2, <2>3, <2>4 DEF Progress
<1>8. UNCHANGED <<expired, swept>>
  BY DEF RouteClosed
<1>9. Apart(y, Elsewhere(k) \cup expired \cup swept)
  BY <1>4, ApartFromFewer DEF others, Outside
<1> QED BY <1>1, <1>2, <1>7, <1>8, <1>9, ContextAdvances

(* Idle streams are dropped, and the calls they wait for with them. *)
LEMMA SweepAdvances ==
    ASSUME Once, Once', SweepStreams
    PROVE  Advance
<1> DEFINE idle == {k \in Conns : streams[k].idle >= Retention}
           dropped == UNION {InProgress(streams[k]) : k \in idle}
<1>1. /\ \A k \in idle : streams'[k] = NewStream
      /\ \A k \in Conns \ idle : streams'[k] = streams[k]
      /\ swept' = swept \cup dropped
      /\ bg' = bg /\ ledger' = ledger /\ expired' = expired
  BY DEF SweepStreams
<1>2. idle \subseteq Conns
  OBVIOUS
<1> HIDE DEF idle
<1>3. \A k \in idle : InProgress(streams'[k]) = {}
  BY <1>1, NewStreamHere DEF Here
<1>4. Current \subseteq Current' \cup dropped
  BY <1>1, <1>2 DEF Current
<1>5. Current' \cup dropped \subseteq Current
  BY <1>1, <1>2, <1>3 DEF Current
<1> HIDE DEF dropped
<1>6. StagesKnown /\ StagesKnown'
  BY StageIsPlace, StagesAgain
<1>7. ASSUME NEW c \in Calls
      PROVE  \/ Stage(c)' = Stage(c)
             \/ Stage(c) = "open" /\ Stage(c)' = "dropped" /\ ledger.why[c] = ""
  <2>1. CASE c \in dropped
    BY <1>1, <1>5, <1>6, <2>1 DEF StagesKnown
  <2>2. CASE c \notin dropped
    <3>1. c \in Current <=> c \in Current'
      BY <1>4, <1>5, <2>2
    <3> QED BY <1>1, <1>6, <2>2, <3>1, SameStage
  <2> QED BY <2>1, <2>2
<1> QED BY <1>1, <1>7 DEF Advance, Legal

(* Expired calls are counted one at a time. *)
LEMMA CountAdvances ==
    ASSUME Once, Once', NEW c \in expired, UNCHANGED <<streams, bg, swept>>,
           expired' = expired \ {c},
           ledger' = [ledger EXCEPT !.acc[c] = @ + 1, !.why[c] = "background_unfinished"]
    PROVE  Advance
<1>1. c \in Calls /\ ledger \in LedgerType
  BY DEF Once, TypeInv, TypeOK
<1>2. /\ ledger'.lost = ledger.lost
      /\ ledger'.why[c] = "background_unfinished"
      /\ \A e \in Calls : e # c => ledger'.why[e] = ledger.why[e]
      /\ ledger'.acc = [ledger.acc EXCEPT ![c] = @ + 1]
  BY <1>1 DEF LedgerType
<1>3. Exported(ledger'.acc) = Exported(ledger.acc) \cup {c}
  <2>1. c \notin Exported(ledger.acc)
    BY DEF Once, PlacesApart, ApartHere, Outside
  <2>2. ledger.acc \in [Calls -> Nat]
    BY <1>1 DEF LedgerType
  <2>3. CountsOne(ledger.acc, ledger'.acc, c)
    BY <1>1, <1>2, <2>1, <2>2, Zenon DEF CountsOne
  <2> QED BY <2>3, PlusOne DEF ExportsOne
<1>4. Current' = Current
  BY DEF Current
<1>5. StagesKnown /\ StagesKnown'
  BY StageIsPlace, StagesAgain
<1>6. Stage(c) = "waiting" /\ Stage(c)' = "exported"
  <2>1. Stage(c) = "waiting"
    BY <1>1, <1>5 DEF StagesKnown
  <2>2. Stage(c)' = "exported"
    BY <1>1, <1>3, <1>5 DEF StagesKnown
  <2> QED BY <2>1, <2>2
<1>7. ASSUME NEW e \in Calls, e # c
      PROVE  Stage(e)' = Stage(e)
  BY <1>2, <1>3, <1>4, <1>5, <1>7, SameStage
<1>8. \A e \in Calls : Legal(Stage(e), Stage(e)', ledger.why[e], ledger'.why[e])
  BY <1>1, <1>2, <1>6, <1>7 DEF Legal, Unfinished
<1>9. \A e \in Calls : ledger.why[e] = "" /\ ledger'.why[e] = "recorded" => e = c
  BY <1>2
<1>10. \A e \in Calls : Stage(e) = "unseen" /\ Stage(e)' \in {"open", "waiting"} => e = c
  BY <1>7
<1> QED BY <1>8, <1>9, <1>10 DEF Advance

(***************************************************************************)
(* The theorem.                                                            *)
(***************************************************************************)
(* expire takes calls out only when those taken out before were counted:   *)
(* they would be lost otherwise, ExpireBackground keeping no others.       *)
NothingTakenOut == cleanup # "counting" => expired = {}

(* No step of a client is one of the agent. *)
LEMMA ClientsApart == ASSUME Clients PROVE UNCHANGED agentVars
<1> PICK k \in Conns :
      \/ \E kind \in Kinds, id \in Calls \cup {NoCall}, shape \in Shapes, more \in 0..MaxMore :
            Request(k, kind, id, shape, more)
      \/ WriteMore(k)
      \/ Read(k)
      \/ Free(k)
  BY DEF Clients
<1>1. ASSUME NEW kind \in Kinds, NEW id \in Calls \cup {NoCall}, NEW shape \in Shapes,
             NEW more \in 0..MaxMore, Request(k, kind, id, shape, more)
      PROVE  UNCHANGED agentVars
  BY <1>1 DEF Request, agentVars
<1>2. CASE WriteMore(k)
  BY <1>2 DEF WriteMore, agentVars
<1>3. CASE Read(k)
  BY <1>3 DEF Read, agentVars
<1>4. CASE Free(k)
  BY <1>4 DEF Free, agentVars
<1> QED BY <1>1, <1>2, <1>3, <1>4

(* The cleanup task counts what it took out before it sleeps again. *)
LEMMA NothingTakenOutInvariant == Spec => []NothingTakenOut
<1>1. Init => NothingTakenOut
  BY DEF Init, NothingTakenOut
<1>2. NothingTakenOut /\ [Next]_vars => NothingTakenOut'
  <2> SUFFICES ASSUME NothingTakenOut, [Next]_vars
               PROVE  NothingTakenOut'
    OBVIOUS
  <2>1. CASE UNCHANGED <<cleanup, expired>>
    BY <2>1 DEF NothingTakenOut
  <2>2. CASE Clients
    BY <2>1, <2>2, ClientsApart DEF agentVars
  <2>3. CASE RouteFragment \/ RouteClosed
    BY <2>1, <2>3 DEF RouteFragment, RouteClosed
  <2>4. CASE Cleanup
    BY <2>4 DEF Cleanup, Sleep, SweepStreams, ExpireBackground, CountExpired, NothingTakenOut
  <2>5. CASE UNCHANGED vars
    BY <2>1, <2>5 DEF vars
  <2> QED BY <2>2, <2>3, <2>4, <2>5 DEF Next
<1> QED BY <1>1, <1>2, PTL DEF Spec

(* A step that leaves the agent's maps alone leaves the ledger alone. *)
LEMMA AgentStutters ==
    ASSUME Once, Once', UNCHANGED <<streams, bg, ledger, expired, swept>>
    PROVE  UNCHANGED Ledger!ledgerVars
<1>1. Current' = Current
  BY DEF Current
<1> QED BY <1>1, SamePlacesStutter

(* So does time that passes. *)
LEMMA SleepStutters ==
    ASSUME Once, Once', Sleep
    PROVE  UNCHANGED Ledger!ledgerVars
<1>1. ASSUME NEW k \in Conns
      PROVE  InProgress(streams'[k]) = InProgress(streams[k])
  <2> DEFINE s == streams[k]
             t == streams'[k]
             idle == IF s.idle < Retention THEN s.idle + 1 ELSE s.idle
  <2>1. s \in StreamType
    BY DEF Once, TypeInv, TypeOK
  <2>2. t = [s EXCEPT !.idle = idle]
    BY DEF Sleep
  <2> HIDE DEF s, t, idle
  <2>3. t.st = s.st /\ t.call = s.call /\ t.cont = s.cont
    BY <2>1, <2>2 DEF StreamType
  <2>4. InProgress(t) = InProgress(s)
    BY <2>3 DEF InProgress, IsLlm
  <2> QED BY <2>4 DEF s, t
<1>2. Current' = Current
  BY <1>1 DEF Current
<1>3. Waiting(bg') = Waiting(bg)
  <2>1. \A i \in DOMAIN bg : bg[i] \in PendingCall
    BY BackgroundMapType DEF Once, TypeInv, TypeOK
  <2>2. DOMAIN bg' = DOMAIN bg /\ \A i \in DOMAIN bg : bg'[i].call = bg[i].call
    BY <2>1 DEF Sleep, Older, PendingCall
  <2> QED BY <2>2 DEF Waiting
<1>4. ledger' = ledger /\ swept' = swept /\ expired' = expired
  BY DEF Sleep
<1> QED BY <1>2, <1>3, <1>4, SamePlacesStutter

(* Calls taken out of the background map wait to be counted. *)
LEMMA ExpireStutters ==
    ASSUME Once, Once', NothingTakenOut, ExpireBackground
    PROVE  UNCHANGED Ledger!ledgerVars
<1> DEFINE ids == Expired(bg)
           out == {bg[i].call : i \in ids}
<1>1. /\ streams' = streams /\ swept' = swept /\ ledger' = ledger
      /\ bg' = Without(bg, ids) /\ expired' = out /\ expired = {}
  BY DEF ExpireBackground, NothingTakenOut
<1>2. ids \in SUBSET DOMAIN bg
  BY DEF Expired
<1> HIDE DEF ids
<1>3. out \subseteq Waiting(bg)
  BY <1>2 DEF Waiting
<1>4. Waiting(bg') = Waiting(bg) \ out
  <2>1. \A i, j \in DOMAIN bg : bg[i].call = bg[j].call => i = j
    BY DEF Once, PlacesApart, ApartHere
  <2> QED BY <1>1, <1>2, <2>1, WaitingWithout
<1>5. Waiting(bg') \cup expired' = Waiting(bg) \cup expired
  BY <1>1, <1>3, <1>4
<1>6. Current' = Current
  BY <1>1 DEF Current
<1> QED BY <1>1, <1>5, <1>6, SamePlacesStutter

(* At the start the ledger has seen no call. *)
LEMMA LedgerInit == Init => Ledger!Init
<1> SUFFICES ASSUME Init PROVE Ledger!Init
  OBVIOUS
<1>1. Once
  BY InitOnce
<1>2. StagesKnown
  BY <1>1, StageIsPlace
<1>3. ASSUME NEW c \in Calls
      PROVE  Stage(c) = "unseen"
  <2>1. c \notin Exported(ledger.acc)
    BY DEF Init, Exported
  <2>2. c \notin Current
    BY NewStreamHere DEF Init, Current, Here
  <2>3. c \notin Waiting(bg) \cup expired \cup swept \cup ledger.lost
    BY DEF Init, NoBackground, Waiting
  <2> QED BY <1>2, <2>1, <2>2, <2>3 DEF StagesKnown
<1>4. ledger.why = [c \in Calls |-> ""]
  BY DEF Init
<1> QED BY <1>3, <1>4 DEF Ledger!Init

(* Every step of the pipeline is a step of the ledger, or none. *)
LEMMA LedgerNext ==
    Once /\ Once' /\ NothingTakenOut /\ [Next]_vars => [Ledger!Next]_(Ledger!ledgerVars)
<1> SUFFICES ASSUME Once, Once', NothingTakenOut, [Next]_vars
             PROVE  Ledger!Next \/ UNCHANGED Ledger!ledgerVars
  OBVIOUS
<1>1. CASE UNCHANGED <<streams, bg, ledger, expired, swept>>
  BY <1>1, AgentStutters
<1>2. CASE Clients
  BY <1>1, <1>2, ClientsApart DEF agentVars
<1>3. CASE RouteFragment \/ RouteClosed
  BY <1>3, RouteFragmentAdvances, RouteClosedAdvances, AdvanceIsStep
<1>4. CASE Sleep
  BY <1>4, SleepStutters
<1>5. CASE SweepStreams
  BY <1>5, SweepAdvances, AdvanceIsStep
<1>6. CASE ExpireBackground
  BY <1>6, ExpireStutters
<1>7. CASE CountExpired
  <2>1. UNCHANGED <<streams, bg, swept>>
    BY <1>7 DEF CountExpired
  <2>2. ASSUME NEW c \in expired, expired' = expired \ {c},
               ledger' = [ledger EXCEPT !.acc[c] = @ + 1, !.why[c] = "background_unfinished"]
        PROVE  Ledger!Next
    BY <2>1, <2>2, CountAdvances, AdvanceIsStep
  <2>3. CASE UNCHANGED <<expired, ledger>>
    BY <1>1, <2>1, <2>3
  <2> QED BY <1>7, <2>2, <2>3 DEF CountExpired
<1>8. CASE UNCHANGED vars
  BY <1>1, <1>8 DEF vars
<1> QED BY <1>2, <1>3, <1>4, <1>5, <1>6, <1>7, <1>8 DEF Next, Cleanup

(* The whole SSL pipeline keeps the promise made of each call: seen once,  *)
(* exported once with a verdict it keeps, waiting only to be recorded from *)
(* a poll or given up; one call recorded by a fragment, one shown by it.   *)
THEOREM PipelineKeepsLedger == Spec => ImplementsLedger
<1>1. Spec => []Once
  BY OnceInvariant
<1>2. Spec => []NothingTakenOut
  BY NothingTakenOutInvariant
<1>3. Init => Ledger!Init
  BY LedgerInit
<1>4. Once /\ Once' /\ NothingTakenOut /\ [Next]_vars => [Ledger!Next]_(Ledger!ledgerVars)
  BY LedgerNext
<1> QED BY <1>1, <1>2, <1>3, <1>4, PTL DEF Spec, ImplementsLedger, Ledger!Spec
=============================================================================
