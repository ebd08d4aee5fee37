---------------------------- MODULE MCNameServer ----------------------------
(* A small network of name servers for TLC. *)
EXTENDS NameServer, TLC

CONSTANTS root, leaf, s1, s2, c1, c2, n1, n2

\* Two services and a client on the leaf, a client on the root.
Placed == s1 :> leaf @@ s2 :> leaf @@ c1 :> leaf @@ c2 :> root
Named == s1 :> n1 @@ s2 :> n2 @@ c1 :> None @@ c2 :> None
OneRoot == leaf :> root @@ root :> None

\* The network is one that the theorems about NameServer are about.
ASSUME NetworkAssumption == Shallow /\ RootsServeNothing /\ DistinctNames

\* One service with two clients where everything goes wrong; two services with
\* one client, or one with two, where nothing does.
Circumstances ==
    {[procs |-> {s1, c1, c2}, names |-> {n1}, finds |-> 2, backlog |-> 1, faults |-> Fault],
     [procs |-> {s1, s2, c2}, names |-> {n1, n2}, finds |-> 1, backlog |-> 3, faults |-> {}],
     [procs |-> {s1, c1, c2}, names |-> {n1}, finds |-> 2, backlog |-> 3, faults |-> {}]}
=============================================================================
