--------------------------- MODULE MCMessageThread ---------------------------
(* Small instances of MessageThread for TLC. *)
EXTENDS MessageThread

CONSTANTS p1, main, w

OnePoster == {p1}
BothKinds == BOOLEAN

\* Posts per client: outsiders, the owner, the worker from its task bodies.
Posts(outside, owner, inside) ==
    [c \in Clients |-> IF c = Owner THEN owner ELSE IF c = Worker THEN inside ELSE outside]
Posts201 == Posts(2, 0, 1)
=============================================================================
