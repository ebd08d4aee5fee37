-------------------------- MODULE MCLogPresentation -------------------------
(* Small instances of LogPresentation for TLC. *)
EXTENDS LogPresentation

\* data/filtersev.xml: a group of files takes the severities of its subgroups
\* one lower, except a catastrophe; messages keep theirs.
Lowering == [n \in Node |-> [isGroup \in BOOLEAN |-> [s \in Severity |->
    IF isGroup /\ n # Root /\ s \in {1, Error} THEN s - 1 ELSE s]]]

\* Two commands, prompt with a group and a message or late without; and one
\* command with nested groups, late with one message or prompt with two.
Circumstances ==
    LET S(p, n, k, g, m) == [prompt |-> p, commands |-> n, kinds |-> k, groups |-> g, says |-> m]
    IN  {S(TRUE, 2, Kind, {11}, 1), S(FALSE, 2, Kind, {}, 0),
         S(FALSE, 1, {"script"}, Group, 1), S(TRUE, 1, {"task"}, Group, 2)}
=============================================================================
