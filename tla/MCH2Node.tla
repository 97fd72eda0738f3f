------------------------------ MODULE MCH2Node ------------------------------
(***************************************************************************)
(* Instances of H2Streams in one run, told apart by part: two calls on one *)
(* connection seen from its preface, with an SSL call lost or damaged; the *)
(* same with nothing lost, room for one stream, and header blocks over the *)
(* limit; one call in two parts that may stall between them, or be counted *)
(* before its request head is read; and two connections joined in the      *)
(* middle, with one call each and a reader each, whose feeds overlap; what *)
(* a call given up or a GOAWAY does to such a connection is left to the    *)
(* third.  The run's constants are the first one's.                        *)
(***************************************************************************)
EXTENDS H2Streams

VARIABLE part

Limits == INSTANCE H2Streams WITH Heads <- {"head", "huge"}, MaxStreams <- 1, MaxLoss <- 0

Late == INSTANCE H2Streams WITH
    Ids <- {1}, Seen <- BOOLEAN, Parts <- 2, Run <- 2, MaxCalls <- 6

Both == INSTANCE H2Streams WITH
    Ids <- {1}, Kinds <- {"sse"}, Seen <- {FALSE}, Run <- 2, MaxLoss <- 0, MaxCalls <- 6

NodeInit == part \in {"lossy", "limits", "late", "both"} /\ Init

OneConnection ==
    /\ \/ /\ part = "lossy" /\ Next
          /\ \A c \in Conns : opened'[c] = "going" => c \notin history'.joined
       \/ part = "limits" /\ Limits!Next
       \/ part = "late" /\ Late!Next
    /\ \A c \in Plain : opened'[c] = "no"

TwoConnections ==
    /\ part = "both" /\ Both!Next
    /\ \A c \in Conns, i \in Ids : opened'[c] # "going" /\ calls'[c][i].stage # "aborted"
    /\ \A c \in Plain, d \in Conns \ Plain : opened'[c] # "no" => opened[d] # "no"

NodeNext == (OneConnection \/ TwoConnections) /\ UNCHANGED part

NodeSpec == NodeInit /\ [][NodeNext]_<<part, vars>>
=============================================================================
