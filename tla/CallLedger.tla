----------------------------- MODULE CallLedger -----------------------------
(***************************************************************************)
(* What the SSL pipeline promises of each LLM call, with no connections,   *)
(* buffers or threads: a call is seen at most once, may wait as a          *)
(* background call, and ends exported with one verdict or dropped.  What   *)
(* is exported stays as it was exported, and a call that waits can only be *)
(* recorded from a poll or given up as unfinished.                         *)
(***************************************************************************)
EXTENDS Naturals, FiniteSets

CONSTANTS Calls,          \* the LLM calls
          Reasons         \* why a call can be counted as unparsed

VARIABLES stage,   \* "unseen", "open", "waiting", "exported", "dropped"
          verdict  \* "recorded" or a reason, once exported

ledgerVars == <<stage, verdict>>

Unfinished == {"recorded", "background_unfinished"}

Direct == ({"recorded"} \cup Reasons) \ {"background_unfinished"}

Init ==
    /\ stage = [c \in Calls |-> "unseen"]
    /\ verdict = [c \in Calls |-> ""]

Becomes(c, s, v) == stage'[c] = s /\ verdict'[c] = v

Fresh(c) == stage[c] \in {"unseen", "open"}

Detect(c) == stage[c] = "unseen" /\ Becomes(c, "open", "")

Await(c) == Fresh(c) /\ Becomes(c, "waiting", "")

Export(c) ==
    \/ Fresh(c) /\ \E v \in Direct : Becomes(c, "exported", v)
    \/ stage[c] = "waiting" /\ \E v \in Unfinished : Becomes(c, "exported", v)

Forget(c) == stage[c] \in {"open", "waiting"} /\ Becomes(c, "dropped", "")

Stay(c) == Becomes(c, stage[c], verdict[c])

(* One fragment can settle one call, evict another and show a third; it    *)
(* records one call at most, and sees at most one for the first time.      *)
Next ==
    /\ \A c \in Calls : Detect(c) \/ Await(c) \/ Export(c) \/ Forget(c) \/ Stay(c)
    /\ Cardinality({c \in Calls : verdict[c] = "" /\ verdict'[c] = "recorded"}) <= 1
    /\ Cardinality({c \in Calls : stage[c] = "unseen" /\ stage'[c] \in {"open", "waiting"}}) <= 1

Spec == Init /\ [][Next]_ledgerVars
=============================================================================
