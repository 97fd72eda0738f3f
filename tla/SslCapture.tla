----------------------------- MODULE SslCapture -----------------------------
(***************************************************************************)
(* The uprobes on OpenSSL.  A return probe cannot read the arguments of    *)
(* the call it ends, so the entry probe leaves them in three maps keyed by *)
(* the thread (helpers.rs): when the call began, its buffer and SSL*, and  *)
(* for an _ex function where the number of bytes will be.  The return      *)
(* probe takes them up and sends the buffer in fragments (mod.rs).         *)
(*                                                                         *)
(* A call's buffer is known by the call's number; lengths are counted in   *)
(* fragments' parts.  What SSL_CLASS drops is SslFilter's, what the ring's *)
(* reader makes of the records LlmStreams's.                               *)
(***************************************************************************)
EXTENDS Naturals, Sequences, FiniteSets, Functions, SequencesExt

CONSTANTS
    Threads,
    Exported,     \* the functions of a library, in the order they are probed
    Conns,        \* SSL* addresses
    Sizes,        \* bytes that a call transfers
    BufSize,      \* MAX_SSL_BUF_SIZE
    MaxFragments, \* MAX_SSL_FRAGMENTS
    Nested,       \* the functions that a function calls, in some library
    Entries,      \* MAX_ENTRIES of a session map
    MaxCalls      \* calls, at most

Ex == {"SSL_read_ex", "SSL_write_ex"}

Optional == {"SSL_do_handshake"} \cup Ex

Probed == {"SSL_read", "SSL_write"} \cup Optional

(* g is probed before f. *)
Precedes(g, f) == \E i, j \in DOMAIN Exported : i < j /\ Exported[i] = g /\ Exported[j] = f

(* A function is exported once, the handshake calls no probed function,    *)
(* and what else one calls was probed before it.                           *)
ASSUME CaptureAssumption ==
    /\ Sizes \subseteq Nat /\ BufSize \in Nat /\ MaxFragments \in Nat
    /\ Exported \in Seq(STRING) /\ \A i \in DOMAIN Exported : Exported[i] \in Probed
    /\ \A i, j \in DOMAIN Exported : Exported[i] = Exported[j] => i = j
    /\ \A n \in Nested : n[1] # "SSL_do_handshake" /\ (n[2] = "SSL_do_handshake" \/ Precedes(n[2], n[1]))

(* OpenSSL's _ex functions call no probed function; a library whose do,    *)
(* but for the handshake, leaves the outer call's length to the inner one. *)
ExCallNone == \A n \in Nested : n[1] \in Ex => n[2] = "SSL_do_handshake"

VARIABLES
    todo,      \* functions to probe still
    entering,  \* functions whose entry is probed
    returning, \* those whose return is probed as well
    exitProbed,\* whether probe_ssl_task_exit is attached: without it the agent goes on
    alive,     \* threads
    stack,     \* the calls each thread is in, the innermost last
    calls,     \* every call made: [func, ssl, size, thread]
    starts,    \* START_NS
    bufs,      \* BUFS
    lens,      \* READBYTES_PTRS
    probe,     \* the return probe a thread is in
    records,   \* what was submitted to SSL_EVENTS
    counted,   \* LLM_STATS: the counters each call added to
    left,      \* history: threads that left calls of which the probes saw the
               \* entry alone, since their entries were last removed
    strays     \* history: those that so left an _ex function's length

hooks == <<todo, entering, returning, exitProbed>>

history == <<left, strays>>

program == <<alive, stack, calls>>

session == <<starts, bufs, lens>>

vars == <<hooks, program, session, probe, records, counted, history>>

Empty == [x \in {} |-> {}]

NoProbe == [pc |-> "none"]

Init ==
    /\ todo = Exported /\ entering = {} /\ returning = {}
    /\ exitProbed \in BOOLEAN
    /\ alive = Threads
    /\ stack = [t \in Threads |-> <<>>]
    /\ calls = <<>>
    /\ starts = Empty /\ bufs = Empty /\ lens = Empty
    /\ probe = [t \in Threads |-> NoProbe]
    /\ records = <<>> /\ counted = <<>> /\ left = {} /\ strays = {}

(***************************************************************************)
(* The session maps.                                                       *)
(***************************************************************************)
With(map, t, x) == [k \in DOMAIN map \cup {t} |-> IF k = t THEN x ELSE map[k]]

(* Mutant: the entry of a call that was never taken up stays. *)
InsertedOnce(map, t, x) ==
    IF t \notin DOMAIN map /\ Cardinality(DOMAIN map) < Entries THEN With(map, t, x) ELSE map

(* insert, whose error is ignored. *)
Inserted(map, t, x) ==
    IF t \in DOMAIN map \/ Cardinality(DOMAIN map) < Entries THEN With(map, t, x) ELSE map

Removed(map, t) == Restrict(map, DOMAIN map \ {t})

Start(t, ssl, buf, len) ==
    /\ starts' = Inserted(starts, t, Len(calls'))
    /\ bufs' = Inserted(bufs, t, [buf |-> buf, ssl |-> ssl])
    /\ lens' = IF len = {} THEN lens ELSE Inserted(lens, t, len)

(* Mutant: only the maps every call uses are cleared. *)
ClearKeepsLength(t) == starts' = Removed(starts, t) /\ bufs' = Removed(bufs, t) /\ UNCHANGED lens

Clear(t) == starts' = Removed(starts, t) /\ bufs' = Removed(bufs, t) /\ lens' = Removed(lens, t)

(***************************************************************************)
(* Probes are attached to a function's entry, and then to its return.  Not *)
(* being able to costs an optional function both; that a required one      *)
(* fails, and all are detached, is Discovery's.                            *)
(***************************************************************************)
AttachEnter ==
    /\ todo # <<>> /\ Head(todo) \notin entering
    /\ entering' = entering \cup {Head(todo)}
    /\ UNCHANGED <<todo, returning, exitProbed, program, session, probe, records, counted, history>>

AttachReturn ==
    /\ todo # <<>> /\ Head(todo) \in entering
    /\ returning' = returning \cup {Head(todo)}
    /\ todo' = Tail(todo)
    /\ UNCHANGED <<entering, exitProbed, program, session, probe, records, counted, history>>

AttachFails ==
    /\ todo # <<>> /\ Head(todo) \in Optional
    /\ entering' = entering \ {Head(todo)}
    /\ todo' = Tail(todo)
    /\ UNCHANGED <<returning, exitProbed, program, session, probe, records, counted, history>>

(***************************************************************************)
(* Calls.                                                                  *)
(***************************************************************************)
Idle(t) == t \in alive /\ probe[t] = NoProbe

CanCall(t, f, ssl) ==
    \/ stack[t] = <<>>
    \/ /\ stack[t] # <<>>
       /\ LET outer == calls[Last(stack[t]).call] IN <<outer.func, f>> \in Nested /\ outer.ssl = ssl

(* A function of a connection is called.  Its return is seen only if the   *)
(* return was probed already.                                              *)
Enter(t, f, ssl) ==
    /\ Idle(t) /\ CanCall(t, f, ssl)
    /\ Len(calls) < MaxCalls
    /\ \E size \in IF f = "SSL_do_handshake" THEN {1} ELSE Sizes :
         calls' = Append(calls, [func |-> f, ssl |-> ssl, size |-> size, thread |-> t])
    /\ stack' = [stack EXCEPT ![t] = Append(@, [call |-> Len(calls'), hooked |-> f \in returning])]
    /\ counted' = Append(counted, IF f \in entering THEN {"enter"} ELSE {})
    /\ IF f \in entering
       THEN Start(t, ssl, IF f = "SSL_do_handshake" THEN 0 ELSE Len(calls'),
                  IF f \in Ex THEN {Len(calls')} ELSE {})
       ELSE UNCHANGED session
    /\ UNCHANGED <<hooks, alive, probe, records, history>>

Direction(f) ==
    CASE f \in {"SSL_read", "SSL_read_ex"}   -> "Read"
      [] f \in {"SSL_write", "SSL_write_ex"} -> "Write"
      [] OTHER                               -> "Handshake"

CaptureLimit(dir) == IF dir = "Read" THEN BufSize * MaxFragments ELSE BufSize

(* What READBYTES_PTRS points to when call c returns: its own length if it *)
(* is an _ex call, what earlier or unfinished calls left there otherwise,  *)
(* and Fault if that memory is gone.                                       *)
Fault == 0

Pointed(c, len) == IF len = {c} /\ calls[c].func \in Ex THEN {calls[c].size} ELSE Sizes \cup {Fault}

(* What ret, an int, is when a call succeeds. *)
Ret(c) == IF calls[c].func \in Ex THEN 1 ELSE calls[c].size

Lengths(t, c) == IF t \in DOMAIN lens THEN Pointed(c, lens[t]) ELSE {Ret(c)}

Buffer(t) == IF t \in DOMAIN bufs THEN bufs[t] ELSE [buf |-> 0, ssl |-> 0]

Leave(t) == stack' = [stack EXCEPT ![t] = Front(@)]

(* A call returns and nobody sees it. *)
ReturnUnseen(t) ==
    /\ Idle(t) /\ stack[t] # <<>> /\ ~Last(stack[t]).hooked
    /\ Leave(t)
    /\ LET c == Last(stack[t]).call
           seen == "enter" \in counted[c]
       IN  /\ left' = left \cup (IF seen THEN {t} ELSE {})
           /\ strays' = strays \cup (IF seen /\ calls[c].func \in Ex THEN {t} ELSE {})
    /\ UNCHANGED <<hooks, alive, calls, session, probe, records, counted>>

Count(c, stats) == counted' = [counted EXCEPT ![c] = @ \cup stats]

(* Mutant: a call that failed returns early and leaves its session. *)
DiscardLeaves(t) ==
    LET c == Last(stack[t]).call
    IN  /\ Idle(t) /\ stack[t] # <<>> /\ Last(stack[t]).hooked
        /\ Count(c, {"discard"})
        /\ Leave(t)
        /\ UNCHANGED <<hooks, alive, calls, session, probe, records, history>>

(* The call failed or closed (ret <= 0), has no session, or the length     *)
(* cannot be read.                                                         *)
Discard(t) ==
    LET c == Last(stack[t]).call
    IN  /\ Idle(t) /\ stack[t] # <<>> /\ Last(stack[t]).hooked
        /\ Count(c, {"discard"})
        /\ probe' = [probe EXCEPT ![t] = [pc |-> "clear"]]
        /\ Leave(t)
        /\ UNCHANGED <<hooks, alive, calls, session, records, history>>

(* emit_llm_event: the session is read, and the connection's class may     *)
(* drop the call.                                                          *)
Capture(t) ==
    LET c == Last(stack[t]).call
        dir == Direction(calls[c].func)
    IN  /\ Idle(t) /\ stack[t] # <<>> /\ Last(stack[t]).hooked
        /\ Buffer(t).buf # 0 \/ dir = "Handshake"
        /\ \/ /\ \E len \in Lengths(t, c) \ {Fault} :
                    probe' = [probe EXCEPT ![t] =
                        [pc |-> "emit", call |-> c, dir |-> dir, len |-> len, i |-> 0,
                         began |-> IF t \in DOMAIN starts THEN starts[t] ELSE 0,
                         stray |-> t \in strays, buf |-> Buffer(t).buf, ssl |-> Buffer(t).ssl]]
              /\ UNCHANGED counted
           \/ /\ dir # "Handshake"
              /\ Count(c, {"filtered"})
              /\ probe' = [probe EXCEPT ![t] = [pc |-> "clear"]]
        /\ Leave(t)
        /\ UNCHANGED <<hooks, alive, calls, session, records, history>>

Truncated(p) == p.len > CaptureLimit(p.dir)

(* Mutant: the loss of the second fragment is forgotten. *)
TailLostAtLimit(p) == p.i > 1 /\ ~Truncated(p)

TailLost(p) == p.i > 0 /\ ~Truncated(p)

(* What a fragment that was sent, or not, adds to the counters. *)
SentStats(p) ==
    {"submit"} \cup
    CASE p.i > 0              -> {"fragment"}
      [] p.dir = "Handshake"  -> {"handshake"}
      [] p.buf = 0            -> {"empty"}
      [] Truncated(p)         -> {"truncated"}
      [] OTHER                -> {}

LostStats(p, why) ==
    (IF p.i = 0 THEN {why} ELSE {}) \cup (IF TailLost(p) THEN {"truncated"} ELSE {})

Least(a, b) == IF a < b THEN a ELSE b

(* emit_fragments, one fragment: it is submitted, or the ring has no room, *)
(* or the buffer cannot be read and the slot is discarded.                 *)
EmitOne(t) ==
    LET p == probe[t]
        offset == p.i * BufSize
        after == offset + BufSize
        more == p.i + 1 < MaxFragments /\ after < p.len /\ after < CaptureLimit(p.dir)
        done == probe' = [probe EXCEPT ![t] = [pc |-> "clear"]]
    IN  /\ p.pc = "emit"
        /\ \/ /\ records' = Append(records,
                     [call |-> p.call, ssl |-> p.ssl, buf |-> p.buf, len |-> p.len, began |-> p.began,
                      stray |-> p.stray, offset |-> offset, n |-> IF p.buf = 0 THEN 0 ELSE Least(p.len - offset, BufSize)])
              /\ Count(p.call, SentStats(p))
              /\ IF more THEN probe' = [probe EXCEPT ![t].i = @ + 1] ELSE done
           \/ /\ \E why \in {"reserve_fail"} \cup (IF p.buf = 0 THEN {} ELSE {"discard"}) :
                    Count(p.call, LostStats(p, why))
              /\ done
              /\ UNCHANGED records
        /\ UNCHANGED <<hooks, program, session, history>>

(* The session is cleared whatever became of the call. *)
End(t) ==
    /\ probe[t].pc = "clear"
    /\ Clear(t)
    /\ probe' = [probe EXCEPT ![t] = NoProbe]
    /\ left' = left \ {t} /\ strays' = strays \ {t}
    /\ UNCHANGED <<hooks, program, records, counted>>

(* probe_ssl_task_exit, if it is attached. *)
TaskExit(t) ==
    IF exitProbed
    THEN Clear(t) /\ left' = left \ {t} /\ strays' = strays \ {t}
    ELSE /\ UNCHANGED session
         /\ left' = left \cup ({t} \cap (DOMAIN starts \cup DOMAIN bufs \cup DOMAIN lens))
         /\ strays' = strays \cup ({t} \cap DOMAIN lens)

(* A thread ends, perhaps killed inside a call. *)
Exit(t) ==
    /\ Idle(t)
    /\ alive' = alive \ {t}
    /\ stack' = [stack EXCEPT ![t] = <<>>]
    /\ TaskExit(t)
    /\ UNCHANGED <<hooks, calls, probe, records, counted>>

(* A thread starts, with the number of one that ended. *)
Spawn(t) ==
    /\ t \notin alive
    /\ alive' = alive \cup {t}
    /\ UNCHANGED <<hooks, stack, calls, session, probe, records, counted, history>>

Returning(t) == ReturnUnseen(t) \/ Discard(t) \/ Capture(t) \/ EmitOne(t) \/ End(t)

Next ==
    \/ AttachEnter \/ AttachReturn \/ AttachFails
    \/ \E t \in Threads : Returning(t) \/ Exit(t) \/ Spawn(t)
    \/ \E t \in Threads, f \in Range(Exported), ssl \in Conns : Enter(t, f, ssl)

Spec == Init /\ [][Next]_vars

(***************************************************************************)
(* Properties.                                                             *)
(***************************************************************************)
TypeOK ==
    /\ \A keys \in {DOMAIN starts, DOMAIN bufs, DOMAIN lens} :
          keys \subseteq Threads /\ Cardinality(keys) <= Entries
    /\ returning \subseteq entering /\ entering \subseteq Range(Exported)
    /\ \A t \in Threads : stack[t] # <<>> => t \in alive
    /\ Len(counted) = Len(calls)

(* A record with data carries the connection, the buffer and the start (if *)
(* any) of the call whose return sent it: calls made inside a call, calls  *)
(* of which the probes saw half, and full maps lose records and never mix  *)
(* them.                                                                   *)
RecordIsOfItsCall ==
    \A r \in Range(records) : r.buf # 0 =>
        r.buf = r.call /\ r.ssl = calls[r.call].ssl /\ r.began \in {0, r.call}

(* Its length, too, unless the thread left an _ex function unseen before,  *)
(* or one of its number was killed in it and nobody saw that: at worst it  *)
(* is what an _ex function returns, 1, when there was no room for the      *)
(* address of its length.                                                  *)
LengthIsOfItsCall ==
    \A r \in Range(records) : r.buf # 0 /\ ~r.stray => r.len \in {calls[r.call].size, Ret(r.call)}

EndOf(r) == r.offset + r.n

WithData(k) == k \in DOMAIN records /\ records[k].n > 0

SameCall(j, k) == records[j].call = records[k].call

(* The fragments of a call that were sent follow on from its first byte,   *)
(* and if there are fewer bytes than the call had, the call was counted as *)
(* truncated.                                                              *)
MissingBytesAreCounted ==
    \A k \in DOMAIN records : WithData(k) =>
        /\ \/ records[k].offset = 0
           \/ \E j \in 1..(k - 1) : WithData(j) /\ SameCall(j, k) /\ EndOf(records[j]) = records[k].offset
        /\ \A j \in 1..(k - 1) : WithData(j) /\ SameCall(j, k) => EndOf(records[j]) <= records[k].offset
        /\ \/ EndOf(records[k]) = records[k].len
           \/ \E j \in DOMAIN records : j > k /\ WithData(j) /\ SameCall(j, k)
           \/ "truncated" \in counted[records[k].call]
           \/ \E t \in Threads : probe[t].pc = "emit" /\ probe[t].call = records[k].call

Within(t) == {stack[t][i].call : i \in DOMAIN stack[t]}

(* The entries of a thread that is in no probe are those of a call it is   *)
(* in, and the three maps agree about it, unless it left a call of which   *)
(* no probe saw the return, or was killed and nobody saw it: nothing else, *)
(* not a failed call, one dropped by the filter, one called inside another *)
(* or one whose fragments were lost, takes up room in the maps for ever or *)
(* is there to be taken for a later call's.                                *)
EntriesAreOfCalls ==
    \A t \in Threads : t \notin left /\ probe[t] = NoProbe =>
        /\ t \in DOMAIN starts \cup DOMAIN bufs =>
              t \in DOMAIN starts \cap DOMAIN bufs /\ starts[t] \in Within(t)
        /\ t \in DOMAIN lens => lens[t] \subseteq Within(t)

(* mod.rs: Session::start overwrites any existing entry, so no clear() is  *)
(* needed at the entry of a call.                                          *)
(* The code breaks it: README, "Findings without a run".                   *)
StartOverwrites == \A r \in Range(records) : r.buf # 0 => r.len = calls[r.call].size
=============================================================================
