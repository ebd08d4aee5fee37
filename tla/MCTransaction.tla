--------------------------- MODULE MCTransaction ---------------------------
(* Two objects and a small stack of buffers for TLC. *)
EXTENDS Transaction, TLC

CONSTANTS node, header

\* The deletion of the node propagates to the header, which is not deleted by
\* itself.
PartOf == node :> {header} @@ header :> {}
=============================================================================
