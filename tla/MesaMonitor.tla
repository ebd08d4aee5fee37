---------------------------- MODULE MesaMonitor ----------------------------
(***************************************************************************)
(* What the monitor of threads.h promises: one owner at a time, a wait     *)
(* that gives the monitor up in the step that starts the waiting, and a    *)
(* notify after which every thread that was waiting is eligible to run     *)
(* (threads.h, class Monitor).  A notified thread competes for the monitor *)
(* again before its wait returns (Mesa semantics).                         *)
(***************************************************************************)
CONSTANTS Thread, None

VARIABLES
    owner,       \* the thread that owns the monitor, or None
    waiters,     \* owners that gave the monitor up in wait
    ready,       \* waiters that may take the monitor back
    altWaiters   \* threads that wait without having owned the monitor

mvars == <<owner, waiters, ready, altWaiters>>

Asleep == waiters \cup ready \cup altWaiters

TypeOK ==
    /\ owner \in Thread \cup {None}
    /\ waiters \subseteq Thread
    /\ ready \subseteq Thread
    /\ altWaiters \subseteq Thread

Init ==
    /\ owner = None
    /\ waiters = {}
    /\ ready = {}
    /\ altWaiters = {}

Enter(t) ==
    /\ owner = None
    /\ t \notin Asleep
    /\ owner' = t
    /\ UNCHANGED <<waiters, ready, altWaiters>>

Exit(t) ==
    /\ owner = t
    /\ owner' = None
    /\ UNCHANGED <<waiters, ready, altWaiters>>

\* The owner releases the monitor and joins the waiters in one step.
Wait(t) ==
    /\ owner = t
    /\ owner' = None
    /\ waiters' = waiters \cup {t}
    /\ UNCHANGED <<ready, altWaiters>>

Reenter(t) ==
    /\ owner = None
    /\ t \in ready
    /\ owner' = t
    /\ ready' = ready \ {t}
    /\ UNCHANGED <<waiters, altWaiters>>

\* A thread that does not own the monitor waits for a notify all the same.
AltWait(t) ==
    /\ owner # t
    /\ t \notin Asleep
    /\ altWaiters' = altWaiters \cup {t}
    /\ UNCHANGED <<owner, waiters, ready>>

NotifyAll ==
    /\ ready' = ready \cup waiters
    /\ waiters' = {}
    /\ UNCHANGED <<owner, altWaiters>>

NotifyAlt ==
    /\ altWaiters' = {}
    /\ UNCHANGED <<owner, waiters, ready>>

\* POSIX lets a condition wait end without a notification.
Spurious(t) ==
    \/ /\ t \in waiters
       /\ waiters' = waiters \ {t}
       /\ ready' = ready \cup {t}
       /\ UNCHANGED <<owner, altWaiters>>
    \/ /\ t \in altWaiters
       /\ altWaiters' = altWaiters \ {t}
       /\ UNCHANGED <<owner, waiters, ready>>

Next ==
    \/ \E t \in Thread :
          \/ Enter(t)
          \/ Exit(t)
          \/ Wait(t)
          \/ Reenter(t)
          \/ AltWait(t)
          \/ Spurious(t)
    \/ NotifyAll
    \/ NotifyAlt

Spec == Init /\ [][Next]_mvars
=============================================================================
