--------------------------- MODULE MCProcessWait ---------------------------
(* Small instances of ProcessWait for TLC. *)
EXTENDS ProcessWait

CONSTANTS c1, c2, c3

\* Anything may happen to two children; nothing does to three.
AnyOrPlain ==
    {[children |-> {c1, c2}, allowed |-> Happenings],
     [children |-> {c1, c2, c3}, allowed |-> {}]}

Early == {[children |-> {c1, c2}, allowed |-> {"early"}]}
=============================================================================
