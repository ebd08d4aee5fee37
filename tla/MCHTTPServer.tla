---------------------------- MODULE MCHTTPServer ----------------------------
(* Small instances of HTTPServer for TLC. *)
EXTENDS HTTPServer

\* Where the killer and broken clients multiply the states, one round does.
Rounds == [m \in Modes |-> IF m = "failing" THEN 1 ELSE 2]
=============================================================================
