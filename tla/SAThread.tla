------------------------------ MODULE SAThread ------------------------------
(***************************************************************************)
(* SAThreads::Thread and ThreadProcedure (src/libs/stream_message/src/     *)
(* threads.cxx): a Thread is a handle on one running procedure and, at the *)
(* same time, a lock.  Its fields are guarded by a CountedMonitor that the *)
(* handle and the running procedure share and that whoever leaves last     *)
(* deletes, because a procedure may delete its own handle.                 *)
(*                                                                         *)
(* The guard is a MesaMonitor, which SAMonitor implements.  A section that *)
(* holds the guard is one step between entering and leaving it.  Callers   *)
(* are the client threads and the bodies of the started procedures; they   *)
(* keep the one contract C++ cannot do without: while and after a thread   *)
(* deletes the handle, no other thread uses it.                            *)
(***************************************************************************)
EXTENDS Naturals

CONSTANTS
    Client,         \* threads of the program
    Proc,           \* procedures that may be started, one thread each
    None,
    MaxEvents,      \* bound: calls of lock and start, and spurious wakeups
    Modes           \* the circumstances that are considered

ASSUME ActorAssumption ==
    /\ Client \cap Proc = {}
    /\ None \notin Client \cup Proc
ASSUME BoundAssumption == MaxEvents \in Nat
ASSUME ModeAssumption == Modes \subseteq {"any", "disciplined"}

Actor == Client \cup Proc

VARIABLES
    mode,
    obj,            \* the Thread object: "live", "dying" (in ~Thread), "freed"
    isLocked,       \* Thread::isLocked
    isThread,       \* Thread::isThread
    lockingThread,  \* Thread::locking_thread
    guard,          \* the CountedMonitor: "live" or "freed"
    count,          \* CountedMonitor::count
    owner, waiters, ready,  \* the guard as a MesaMonitor
    op,             \* what each actor executes: "caller" is code of its own
    at,             \* where it is with respect to the guard
    events          \* calls of lock and start, and spurious wakeups, so far

gvars == <<owner, waiters, ready>>
fields == <<obj, isLocked, isThread, lockingThread, guard, count>>
vars == <<mode, fields, gvars, op, at, events>>

\* pthread_create may fail.
CreateMayFail == mode = "any"

\* Callers do not lock what they already hold.
Disciplined == mode = "disciplined"

G == INSTANCE MesaMonitor WITH Thread <- Actor, altWaiters <- {}

Ops == {"lock", "start", "unlock", "delete"}
Init ==
    /\ mode \in Modes
    /\ obj = "live"
    /\ isLocked = FALSE
    /\ isThread = FALSE
    /\ lockingThread \in Actor      \* not initialised by Thread::Thread
    /\ guard = "live"
    /\ count = 1
    /\ G!Init
    /\ op = [a \in Actor |-> IF a \in Client THEN "caller" ELSE "unborn"]
    /\ at = [a \in Actor |-> "out"]
    /\ events = 0

Goto(a, from, to) ==
    /\ at[a] = from
    /\ at' = [at EXCEPT ![a] = to]

HoldsThread(a) == isLocked /\ lockingThread = a
-----------------------------------------------------------------------------
(* Callers *)

Call(a, o) ==
    /\ op[a] = "caller"
    /\ obj = "live"
    /\ op' = [op EXCEPT ![a] = o]
    /\ Goto(a, "out", "enter")

\* A procedure that locks or restarts its own Thread waits for its own end.
CallLock(a) ==
    /\ Disciplined => a \in Client /\ ~HoldsThread(a)
    /\ events < MaxEvents
    /\ events' = events + 1
    /\ Call(a, "lock")
    /\ UNCHANGED <<fields, gvars>>

\* start(Procedure &): the procedure is p.
CallStart(a, p) ==
    /\ Disciplined => a \in Client /\ ~HoldsThread(a)
    /\ events < MaxEvents
    /\ events' = events + 1
    /\ op[a] = "caller" /\ op[p] = "unborn"
    /\ obj = "live"
    /\ op' = [op EXCEPT ![a] = "start", ![p] = "given"]
    /\ Goto(a, "out", "enter")
    /\ UNCHANGED <<fields, gvars>>

\* Any thread may call unlock, holder or not (badunlock.cpp).
CallUnlock(a) ==
    /\ Disciplined => HoldsThread(a)
    /\ Call(a, "unlock")
    /\ UNCHANGED <<fields, gvars, events>>

CallDelete(a) ==
    /\ \A b \in Actor \ {a} : op[b] \notin Ops
    /\ Call(a, "delete")
    /\ obj' = "dying"
    /\ UNCHANGED <<isLocked, isThread, lockingThread, guard, count, gvars, events>>
-----------------------------------------------------------------------------
(* The guard *)

Enter(a) ==
    /\ Goto(a, "enter", "in")
    /\ G!Enter(a)
    /\ UNCHANGED <<fields, op, events>>

Resume(a) ==
    /\ Goto(a, "wait", "in")
    /\ G!Reenter(a)
    /\ UNCHANGED <<fields, op, events>>

Spurious(a) ==
    /\ G!Spurious(a)
    /\ events < MaxEvents
    /\ events' = events + 1
    /\ UNCHANGED <<fields, op, at>>

Leave(a) ==
    /\ Goto(a, "exit", "out")
    /\ G!Exit(a)
    /\ op' = [op EXCEPT ![a] = IF @ = "finish" THEN "done" ELSE "caller"]
    /\ obj' = IF op[a] = "delete" THEN "freed" ELSE obj
    /\ UNCHANGED <<isLocked, isThread, lockingThread, guard, count, events>>

\* lock() and start() share their loop: wait while the Thread is taken.
AwaitFree(a) ==
    /\ op[a] \in {"lock", "start"}
    /\ isLocked \/ isThread
    /\ Goto(a, "in", "wait")
    /\ G!Wait(a)
    /\ UNCHANGED <<fields, op, events>>
-----------------------------------------------------------------------------
(* Thread::lock and Thread::unlock *)

\* Fault: the lock is granted while a procedure runs.
TakeLockAtOnce(a) ==
    /\ op[a] = "lock"
    /\ ~isLocked
    /\ Goto(a, "in", "exit")
    /\ isLocked' = TRUE
    /\ lockingThread' = a
    /\ UNCHANGED <<obj, isThread, guard, count, gvars, op, events>>

TakeLock(a) ==
    /\ op[a] = "lock"
    /\ ~isLocked /\ ~isThread
    /\ Goto(a, "in", "exit")
    /\ isLocked' = TRUE
    /\ lockingThread' = a
    /\ UNCHANGED <<obj, isThread, guard, count, gvars, op, events>>

\* Only the thread that took the lock undoes it.
ReleaseLock(a) ==
    /\ op[a] = "unlock"
    /\ Goto(a, "in", "exit")
    /\ IF HoldsThread(a)
       THEN isLocked' = FALSE /\ G!NotifyAll
       ELSE UNCHANGED <<isLocked, gvars>>
    /\ UNCHANGED <<obj, isThread, lockingThread, guard, count, op, events>>

(* Thread::start *)

\* Fault: a procedure is started beside the one that runs.
LaunchOverRunning(a) ==
    /\ op[a] = "start"
    /\ ~isLocked
    /\ Goto(a, "in", "exit")
    /\ isThread' = TRUE
    /\ count' = count + 1
    /\ \E p \in Proc :
          /\ op[p] = "given"
          /\ op' = [op EXCEPT ![p] = "run"]
          /\ lockingThread' = p
    /\ UNCHANGED <<obj, isLocked, guard, gvars, events>>

\* Fault: the Thread is not marked as running.
LaunchUnmarked(a) ==
    /\ op[a] = "start"
    /\ ~isLocked /\ ~isThread
    /\ Goto(a, "in", "exit")
    /\ count' = count + 1
    /\ \E p \in Proc :
          /\ op[p] = "given"
          /\ op' = [op EXCEPT ![p] = "run"]
          /\ lockingThread' = p
    /\ UNCHANGED <<obj, isLocked, isThread, guard, gvars, events>>

\* The failure of pthread_create is noticed and ignored.  (The procedures
\* given to calls of start in progress are interchangeable.)
Launch(a) ==
    /\ op[a] = "start"
    /\ ~isLocked /\ ~isThread
    /\ Goto(a, "in", "exit")
    /\ isThread' = TRUE
    /\ count' = count + 1
    /\ \E p \in Proc :
          /\ op[p] = "given"
          /\ \/ op' = [op EXCEPT ![p] = "run"] /\ lockingThread' = p
             \/ CreateMayFail /\ op' = [op EXCEPT ![p] = "lost"] /\ UNCHANGED lockingThread
    /\ UNCHANGED <<obj, isLocked, guard, gvars, events>>

(* ThreadProcedure::run *)

\* The new thread passes through the guard before it runs the procedure.
Begin(p) ==
    /\ op[p] = "run"
    /\ \/ Goto(p, "out", "enter")
       \/ Goto(p, "in", "exit")
    /\ UNCHANGED <<fields, gvars, op, events>>

\* proc.run() returns.
EndBody(p) ==
    /\ op[p] = "caller"
    /\ p \in Proc
    /\ Goto(p, "out", "enter")
    /\ op' = [op EXCEPT ![p] = "finish"]
    /\ UNCHANGED <<fields, gvars, events>>

\* Fault: the end of the procedure is recorded in a Thread that may be gone.
FinishNotifyAlways(p) ==
    /\ op[p] = "finish"
    /\ Goto(p, "in", "exit")
    /\ count' = count - 1
    /\ isThread' = FALSE
    /\ G!NotifyAll
    /\ UNCHANGED <<obj, isLocked, lockingThread, guard, op, events>>

\* Fault: the end of the procedure is recorded without a notify.
FinishSilently(p) ==
    /\ op[p] = "finish"
    /\ Goto(p, "in", "exit")
    /\ count' = count - 1
    /\ count' > 0
    /\ isThread' = FALSE
    /\ UNCHANGED <<obj, isLocked, lockingThread, guard, gvars, op, events>>

\* The handle is still there: tell it that its procedure has ended.
FinishNotify(p) ==
    /\ op[p] = "finish"
    /\ Goto(p, "in", "exit")
    /\ count' = count - 1
    /\ count' > 0
    /\ isThread' = FALSE
    /\ G!NotifyAll
    /\ UNCHANGED <<obj, isLocked, lockingThread, guard, op, events>>

\* Fault: the last user of the guard does not delete it.
FinishWithoutDelete(p) ==
    /\ op[p] = "finish"
    /\ Goto(p, "in", "out")
    /\ count' = count - 1
    /\ count' = 0
    /\ op' = [op EXCEPT ![p] = "done"]
    /\ G!Exit(p)
    /\ UNCHANGED <<obj, isLocked, isThread, lockingThread, guard, events>>

FinishDelete(p) ==
    /\ op[p] = "finish"
    /\ Goto(p, "in", "out")
    /\ count' = count - 1
    /\ count' = 0
    /\ guard' = "freed"
    /\ op' = [op EXCEPT ![p] = "done"]
    /\ G!Exit(p)
    /\ UNCHANGED <<obj, isLocked, isThread, lockingThread, events>>

(* Thread::~Thread *)

DestroyShared(a) ==
    /\ op[a] = "delete"
    /\ Goto(a, "in", "exit")
    /\ count' = count - 1
    /\ count' > 0
    /\ UNCHANGED <<obj, isLocked, isThread, lockingThread, guard, gvars, op, events>>

\* Fault: the destructor deletes the guard whoever else uses it.
DestroyAlways(a) ==
    /\ op[a] = "delete"
    /\ Goto(a, "in", "out")
    /\ count' = count - 1
    /\ guard' = "freed"
    /\ obj' = "freed"
    /\ op' = [op EXCEPT ![a] = "caller"]
    /\ G!Exit(a)
    /\ UNCHANGED <<isLocked, isThread, lockingThread, events>>

DestroyLast(a) ==
    /\ op[a] = "delete"
    /\ Goto(a, "in", "out")
    /\ count' = count - 1
    /\ count' = 0
    /\ guard' = "freed"
    /\ obj' = "freed"
    /\ op' = [op EXCEPT ![a] = "caller"]
    /\ G!Exit(a)
    /\ UNCHANGED <<isLocked, isThread, lockingThread, events>>
-----------------------------------------------------------------------------
Work(a) ==
    \/ Enter(a) \/ Resume(a) \/ Leave(a) \/ AwaitFree(a)
    \/ TakeLock(a) \/ ReleaseLock(a) \/ Launch(a)
    \/ FinishNotify(a) \/ FinishDelete(a)
    \/ DestroyShared(a) \/ DestroyLast(a)
    \/ Begin(a) \/ EndBody(a)

Calls(a) == CallLock(a) \/ (\E p \in Proc : CallStart(a, p)) \/ CallUnlock(a) \/ CallDelete(a)

Next ==
    /\ UNCHANGED mode
    /\ \E a \in Actor : Work(a) \/ Calls(a) \/ Spurious(a)

Spec == Init /\ [][Next]_vars

\* The scheduler runs every thread that can run, procedures end, and a
\* thread that holds the Thread's lock gives it back in the end.
Fairness ==
    \A a \in Actor :
        /\ WF_vars(UNCHANGED mode /\ Work(a))
        /\ WF_vars(UNCHANGED mode /\ HoldsThread(a) /\ CallUnlock(a))

FairSpec == Spec /\ Fairness
-----------------------------------------------------------------------------
TypeOK ==
    /\ mode \in Modes
    /\ obj \in {"live", "dying", "freed"}
    /\ isLocked \in BOOLEAN
    /\ isThread \in BOOLEAN
    /\ lockingThread \in Actor
    /\ guard \in {"live", "freed"}
    /\ count \in 0 .. 2
    /\ owner \in Actor \cup {None}
    /\ waiters \subseteq Actor
    /\ ready \subseteq Actor
    /\ op \in [Actor -> {"caller", "unborn", "given", "lost", "run", "finish", "done"} \cup Ops]
    /\ at \in [Actor -> {"out", "enter", "in", "wait", "exit"}]
    /\ events \in 0 .. MaxEvents

\* Procedures that have been started and have not come to their end.
Running == {p \in Proc : op[p] \notin {"unborn", "given", "lost", "finish", "done"}}

\* The guard is deleted by the destructor or by the procedure, whichever ends
\* last, and never while a thread is inside it or on its way in.
GuardOutlivesUse == \A a \in Actor : at[a] # "out" => guard = "live"

\* ... and it is deleted: lots.cpp, "Make sure we don't get a space leak".
NoLeak ==
    /\ obj = "freed"
    /\ \A c \in Client : op[c] = "caller"
    /\ \A p \in Proc : op[p] \in {"unborn", "done"}
    => guard = "freed"

\* A thread that has locked a live Thread knows that no procedure runs on it.
JoinedWhenLocked == isLocked /\ obj = "live" => Running = {}

\* ThreadProcedure::run keeps a reference to Thread::isThread; it is never
\* written after the Thread has been deleted, even by its own procedure.
NoWriteAfterDelete == [][isThread' # isThread => obj # "freed"]_vars

\* A Thread lock is undone by the thread that took it and by no other
\* (Thread::unlock; badunlock.cpp, fourth test).
OnlyHolderUnlocks ==
    [][isLocked /\ ~isLocked' => op[lockingThread] = "unlock" /\ at'[lockingThread] # at[lockingThread]]_vars

\* The Thread implements the lock of threads.h: the holder is the thread named
\* by locking_thread as long as one of the two flags is set.  (A procedure
\* that was never created leaves it held, and whoever may lock again what he
\* holds may wait for himself: it is the lock of disciplined callers.)
Lock == INSTANCE ThreadLock WITH
    holder <- IF Disciplined /\ (isLocked \/ isThread) THEN lockingThread ELSE None,
    body <- IF Disciplined THEN Running ELSE {}
ImplementsThreadLock == Lock!Spec

\* Every call of disciplined callers returns, provided that procedures end and
\* that locks are given back: nobody sleeps through the notify that concerns it.
CallsReturn == \A a \in Actor : Disciplined /\ op[a] \in Ops ~> op[a] \notin Ops
=============================================================================
