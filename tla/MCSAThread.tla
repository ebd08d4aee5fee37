----------------------------- MODULE MCSAThread -----------------------------
(* Small instances of SAThread for TLC. *)
EXTENDS SAThread
=============================================================================
