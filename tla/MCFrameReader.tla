--------------------------- MODULE MCFrameReader ---------------------------
(* Instances of FrameReader for TLC. *)
EXTENDS FrameReader

Shape(kind, front, content, pad, ends) ==
    [kind |-> kind, front |-> front, content |-> content, pad |-> pad, ends |-> ends]

Shapes ==
    {Shape("data", 0, 2, 0, FALSE), Shape("data", 1, 1, 1, TRUE), Shape("data", 0, 0, 0, TRUE),
     Shape("headers", 0, 1, 0, TRUE), Shape("headers", 0, 1, 0, FALSE),
     Shape("continuation", 0, 1, 0, TRUE), Shape("control", 0, 1, 0, FALSE)}

FourFrames == [1 .. 4 -> Shapes]
=============================================================================
