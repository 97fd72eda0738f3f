---------------------------- MODULE MCLlmStreams ----------------------------
(* Instances of LlmStreams for TLC. *)
EXTENDS LlmStreams

Shape(interim, n, framing, follow, result) ==
    [interim |-> interim, n |-> n, framing |-> framing, follow |-> follow, result |-> result]

(* Framed bodies of one and two tokens, an interim response, usage present *)
(* and absent.                                                             *)
LossyShapes ==
    {Shape(0, 2, "length", "json", "usage"),
     Shape(0, 1, "chunked", "sse", "usage"),
     Shape(1, 1, "length", "json", "none")}

(* The same without interim responses: one right after a lost read can     *)
(* fill the place of the bytes lost.                                       *)
PlainShapes ==
    {Shape(0, 2, "length", "json", "usage"),
     Shape(0, 1, "chunked", "sse", "usage"),
     Shape(0, 1, "length", "json", "none"),
     Shape(0, 1, "close", "sse", "usage")}

(* Bodies over the buffer limit, followed and not. *)
LimitShapes ==
    {Shape(0, 4, "chunked", "sse", "usage"),
     Shape(1, 4, "length", "json", "usage"),
     Shape(0, 3, "close", "sse", "usage"),
     Shape(0, 4, "length", "json", "none"),
     Shape(0, 4, "length", "no", "usage")}

(* Answers to background creates and to polls of them. *)
PollShapes ==
    {Shape(0, 1, "length", "json", "queued"),
     Shape(0, 1, "length", "json", "usage"),
     Shape(0, 1, "length", "json", "ended")}

Symmetry == Permutations(Conns)
=============================================================================
