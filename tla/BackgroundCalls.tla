-------------------------- MODULE BackgroundCalls --------------------------
(***************************************************************************)
(* The calls made with "background": true that wait for the later poll     *)
(* carrying their usage (background.rs).  The map of the code is a         *)
(* function bg whose domain is the set of response ids waiting; an entry   *)
(* holds the create call it was queued by, and how long ago a poll last    *)
(* saw it (last_seen), counted in the ticks of LlmStreams and capped at    *)
(* IdleTtl.  Within one tick the order of two entries is not kept, so      *)
(* "the one idle longest" may be any of them.                              *)
(***************************************************************************)
EXTENDS Naturals, FiniteSets

CONSTANTS Calls,     \* the HTTP exchanges, and the response ids they queue
          NoCall,    \* no exchange
          MaxPending,\* MAX_CALLS of background.rs
          IdleTtl    \* IDLE_TTL of background.rs, in ticks

ASSUME BackgroundAssumption ==
    /\ NoCall \notin Calls
    /\ MaxPending \in Nat \ {0}
    /\ IdleTtl \in Nat \ {0}

PendingCall == [call: Calls, idle: 0..IdleTtl]

BackgroundMap == UNION {[ids -> PendingCall] : ids \in SUBSET Calls}

NoBackground == [id \in {} |-> [call |-> NoCall, idle |-> 0]]

Without(bg, ids) == [id \in DOMAIN bg \ ids |-> bg[id]]

(* The ids insert may evict for id: one idle longest, when the map is full. *)
Evictable(bg, id) ==
    IF Cardinality(DOMAIN bg) >= MaxPending /\ id \notin DOMAIN bg
    THEN {old \in DOMAIN bg : \A other \in DOMAIN bg : bg[other].idle <= bg[old].idle}
    ELSE {}

Insert(bg, id, call) ==
    [i \in DOMAIN bg \cup {id} |->
        IF i = id THEN [call |-> call, idle |-> 0] ELSE bg[i]]

Touch(bg, id) ==
    IF id \in DOMAIN bg THEN [bg EXCEPT ![id].idle = 0] ELSE bg

Expired(bg) == {id \in DOMAIN bg : bg[id].idle >= IdleTtl}

(* Time passing for every entry, up to the age at which expire takes it. *)
Older(bg) ==
    [id \in DOMAIN bg |->
        [bg[id] EXCEPT !.idle = IF @ < IdleTtl THEN @ + 1 ELSE @]]
=============================================================================
