--------------------------- MODULE MCLlmScenarios ---------------------------
(***************************************************************************)
(* Three instances of LlmStreams in one run, told apart by part: reads     *)
(* lost between framed LLM exchanges; bodies over the agent's limits, with *)
(* nothing lost; and background calls over time.  The run's constants are  *)
(* the first one's.                                                        *)
(***************************************************************************)
EXTENDS MCLlmStreams

VARIABLE part

Limits == INSTANCE LlmStreams WITH
    Kinds <- {"llm", "other"}, Shapes <- LimitShapes, ReqLimit <- 2, RespLimit <- 3, DetectLimit <- 1,
    MaxLoss <- 0, Lossy <- {}, MaxMore <- 2, MaxRead <- 2

Settles == INSTANCE LlmStreams WITH
    Kinds <- {"llm", "poll"}, Shapes <- PollShapes, ReqLimit <- 4, RespLimit <- 4,
    MaxPending <- 1, MaxLoss <- 0, Lossy <- {}, MaxMore <- 0, Ticking <- TRUE

ScenarioInit == part \in {"contained", "limits", "settles"} /\ Init

Contain == part = "contained" /\ Next

(* Two exchanges are enough: one over a limit, and one after it. *)
Limit == part = "limits" /\ Limits!Next /\ UNCHANGED truth[3]

Settling == part = "settles" /\ Settles!Next

TidyUp == part = "settles" /\ Settles!Cleanup

ScenarioNext == (Contain \/ Limit \/ Settling) /\ UNCHANGED part

ScenarioSpec ==
    /\ ScenarioInit /\ [][ScenarioNext]_<<part, vars>>
    /\ WF_vars(TidyUp /\ UNCHANGED part)
=============================================================================
