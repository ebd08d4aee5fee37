----------------------------- MODULE ThreadLock -----------------------------
(***************************************************************************)
(* What threads.h says a Thread is: a lock that a client may hold, and     *)
(* that a started procedure implicitly holds until it terminates, so that  *)
(* locking a Thread is waiting for its procedure's end.                    *)
(***************************************************************************)
CONSTANTS Client, Proc, None

VARIABLES
    holder,     \* the client or procedure that holds the lock, or None
    body        \* procedures that were started and have not returned

lvars == <<holder, body>>

Init == holder = None /\ body = {}

Lock(c) == holder = None /\ holder' = c /\ UNCHANGED body

Unlock(c) == holder = c /\ holder' = None /\ UNCHANGED body

Start(p) == holder = None /\ holder' = p /\ body' = body \cup {p}

Return(p) == p \in body /\ body' = body \ {p} /\ UNCHANGED holder

\* The lock of a procedure is given up after the procedure has returned.
Release(p) == holder = p /\ p \notin body /\ holder' = None /\ UNCHANGED body

Next ==
    \/ \E c \in Client : Lock(c) \/ Unlock(c)
    \/ \E p \in Proc : Start(p) \/ Return(p) \/ Release(p)

Spec == Init /\ [][Next]_lvars
=============================================================================
