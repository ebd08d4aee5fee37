---------------------------- MODULE ProcessWait ----------------------------
(***************************************************************************)
(* Waiting for child processes on Unix (src/libs/stream_message/src/       *)
(* startprocess.cxx, the MULTITHREADED build).  ::wait reports whichever   *)
(* child has ended, so the threads that wait for children of their own     *)
(* share one call of it: the thread inside guard_process waits, and hands  *)
(* a status that is not for it over in ready_pid and ready_status.         *)
(*                                                                         *)
(* guard_awaited protects single steps and never blocks; guard_process is  *)
(* a MesaMonitor, which SAMonitor implements.  ::wait interrupted by a     *)
(* signal handler leaves the state as it was and is left out.              *)
(***************************************************************************)
EXTENDS Naturals

CONSTANTS
    Thread,      \* threads of the program
    Child,       \* processes it may start
    Init1,       \* process 1, which is nobody's child here
    None,        \* null_pid, or no value
    Status,      \* statuses a process may end with
    Ok,          \* the status 0
    Eintr,       \* the status whose value is EINTR: ended by signal 4
    MaxWakes,    \* bound: spurious wakeups
    Scenarios    \* which children are started, and what may happen to them

ASSUME NameAssumption == None \notin Thread \cup Child \cup {Init1} \cup Status /\ Init1 \notin Child
ASSUME StatusAssumption == {Ok, Eintr} \subseteq Status /\ "busy" \notin Status
ASSUME WakeAssumption == MaxWakes \in Nat

Happenings == {"early",      \* a child may end before its waiter has registered
               "poll",       \* is_process_alive is called
               "signal",     \* a child may end with the status Eintr
               "fail",       \* fork and pipe may fail
               "again"}      \* several threads may wait for one child

ASSUME ScenarioAssumption == Scenarios \subseteq [children : SUBSET Child, allowed : SUBSET Happenings]

VARIABLES
    scenario,
    child,          \* "unborn", "running", "zombie" or "reaped"
    exit,           \* the status a child ended with
    awaited,        \* the set awaited
    owner, waiters, ready,  \* guard_process as a MesaMonitor
    readyPid, readyStatus,  \* ready_pid, ready_status
    at, pid,        \* where a thread is, and the process it waits for
    status, donePid,        \* the locals of wait_process
    result,         \* what wait_process returned
    wakes           \* spurious wakeups so far

children == <<child, exit>>
gvars == <<owner, waiters, ready>>
handoff == <<readyPid, readyStatus>>
locals == <<pid, status, donePid, result>>
vars == <<scenario, children, awaited, gvars, handoff, at, locals, wakes>>

G == INSTANCE MesaMonitor WITH altWaiters <- {}

Allowed == scenario.allowed

Init ==
    /\ scenario \in Scenarios
    /\ child = [c \in Child |-> "unborn"]
    /\ exit = [c \in Child |-> None]
    /\ awaited = {}
    /\ G!Init
    /\ readyPid = None
    /\ readyStatus = Ok
    /\ at = [t \in Thread |-> "idle"]
    /\ pid = [t \in Thread |-> None]
    /\ status = [t \in Thread |-> Ok]
    /\ donePid = [t \in Thread |-> None]
    /\ result = [t \in Thread |-> None]
    /\ wakes = 0

Goto(t, from, to) ==
    /\ at[t] = from
    /\ at' = [at EXCEPT ![t] = to]

Return(t, r) == result' = [result EXCEPT ![t] = r]
-----------------------------------------------------------------------------
(* The processes *)

Start(c) ==
    /\ c \in scenario.children
    /\ child[c] = "unborn"
    /\ child' = [child EXCEPT ![c] = "running"]

\* start_process, on a thread that is not modelled further.
StartProcess(c) ==
    /\ Start(c)
    /\ UNCHANGED <<exit, awaited, gvars, handoff, at, locals, wakes>>

Exit(c) ==
    /\ child[c] = "running"
    /\ "early" \in Allowed \/ c \in awaited
    /\ child' = [child EXCEPT ![c] = "zombie"]
    /\ \E s \in Status :
          /\ s = Eintr => "signal" \in Allowed
          /\ exit' = [exit EXCEPT ![c] = s]
    /\ UNCHANGED <<awaited, gvars, handoff, at, locals, wakes>>

\* is_process_alive: waitpid reports that a child has ended only once, and takes
\* its status from everyone else.
Poll(c) ==
    /\ "poll" \in Allowed
    /\ child[c] # "unborn"
    /\ child' = [child EXCEPT ![c] = IF @ = "zombie" THEN "reaped" ELSE @]
    /\ UNCHANGED <<exit, awaited, gvars, handoff, at, locals, wakes>>
-----------------------------------------------------------------------------
(* Calls of wait_process *)

WaitFor(t, c) ==
    /\ Goto(t, "idle", "register")
    /\ child[c] # "unborn"
    /\ "again" \in Allowed \/ \A u \in Thread : pid[u] # c
    /\ pid' = [pid EXCEPT ![t] = c]
    /\ UNCHANGED <<children, awaited, gvars, handoff, status, donePid, result, wakes>>

\* Fault: wait_process does not look for null_pid.
RunAndWaitForNull(t, c) ==
    /\ UNCHANGED <<exit, awaited, gvars, handoff, status, donePid, wakes, result>>
    /\ Goto(t, "idle", "register")
    /\ \/ Start(c) /\ pid' = [pid EXCEPT ![t] = c]
       \/ "fail" \in Allowed /\ pid' = [pid EXCEPT ![t] = None] /\ UNCHANGED child

\* start_process_and_wait.  start returns 1 without a pipe and 0 without a
\* process, and wait_process takes these for the processes they name.
RunAndWait(t, c) ==
    /\ UNCHANGED <<exit, awaited, gvars, handoff, status, donePid, wakes>>
    /\ \/ /\ Goto(t, "idle", "register")
          /\ \/ Start(c) /\ pid' = [pid EXCEPT ![t] = c]
             \/ "fail" \in Allowed /\ pid' = [pid EXCEPT ![t] = Init1] /\ UNCHANGED child
          /\ UNCHANGED result
       \/ /\ "fail" \in Allowed
          /\ Goto(t, "idle", "done")
          /\ Return(t, Ok)
          /\ UNCHANGED <<child, pid>>
-----------------------------------------------------------------------------
(* wait_process *)

Register(t) ==
    /\ IF pid[t] \in awaited
       THEN Goto(t, "register", "done") /\ Return(t, "busy") /\ UNCHANGED awaited
       ELSE Goto(t, "register", "enter") /\ awaited' = awaited \cup {pid[t]} /\ UNCHANGED result
    /\ UNCHANGED <<children, gvars, handoff, pid, status, donePid, wakes>>

Enter(t) ==
    /\ Goto(t, "enter", "loop")
    /\ G!Enter(t)
    /\ UNCHANGED <<children, awaited, handoff, locals, wakes>>

\* ::wait returns a child that has ended, or at once when there is no child.
\* The thread keeps guard_process meanwhile.
Reap(t) ==
    /\ readyPid = None
    /\ Goto(t, "loop", "record")
    /\ \/ \E c \in Child :
             /\ child[c] = "zombie"
             /\ child' = [child EXCEPT ![c] = "reaped"]
             /\ status' = [status EXCEPT ![t] = exit[c]]
             /\ donePid' = [donePid EXCEPT ![t] = c]
       \/ /\ \A c \in Child : child[c] \in {"unborn", "reaped"}
          /\ donePid' = [donePid EXCEPT ![t] = None]
          /\ UNCHANGED <<child, status>>
    /\ UNCHANGED <<exit, awaited, gvars, handoff, pid, result, wakes>>

\* Fault: the status is handed over whether it is awaited or not.
RecordAny(t) ==
    /\ Goto(t, "record", "loop")
    /\ IF donePid[t] # None
       THEN readyPid' = donePid[t] /\ readyStatus' = status[t]
       ELSE UNCHANGED handoff
    /\ IF readyPid' \notin {None, pid[t]} THEN G!NotifyAll ELSE UNCHANGED gvars
    /\ UNCHANGED <<children, awaited, locals, wakes>>

\* The status, not errno, is compared with EINTR.
Record(t) ==
    /\ Goto(t, "record", "loop")
    /\ IF donePid[t] \in awaited /\ status[t] # Eintr
       THEN readyPid' = donePid[t] /\ readyStatus' = status[t]
       ELSE UNCHANGED handoff
    /\ IF readyPid' \notin {None, pid[t]} THEN G!NotifyAll ELSE UNCHANGED gvars
    /\ UNCHANGED <<children, awaited, locals, wakes>>

\* A status for somebody else is waiting to be taken.
Sleep(t) ==
    /\ readyPid \notin {None, pid[t]}
    /\ Goto(t, "loop", "asleep")
    /\ G!Wait(t)
    /\ UNCHANGED <<children, awaited, handoff, locals, wakes>>

Wake(t) ==
    /\ Goto(t, "asleep", "loop")
    /\ G!Reenter(t)
    /\ UNCHANGED <<children, awaited, handoff, locals, wakes>>

Spurious(t) ==
    /\ wakes < MaxWakes
    /\ wakes' = wakes + 1
    /\ G!Spurious(t)
    /\ UNCHANGED <<children, awaited, handoff, at, locals>>

\* Fault: the status of the last ::wait is returned, not the one handed over.
TakeLocal(t) ==
    /\ readyPid = pid[t]
    /\ Goto(t, "loop", "erase")
    /\ Return(t, status[t])
    /\ readyPid' = None
    /\ owner' = None
    /\ ready' = ready \cup waiters
    /\ waiters' = {}
    /\ UNCHANGED <<children, awaited, readyStatus, pid, status, donePid, wakes>>

\* Fault: nobody is told that ready_pid is free again.
TakeSilently(t) ==
    /\ readyPid = pid[t]
    /\ Goto(t, "loop", "erase")
    /\ Return(t, readyStatus)
    /\ readyPid' = None
    /\ G!Exit(t)
    /\ UNCHANGED <<children, awaited, readyStatus, pid, status, donePid, wakes>>

\* Take the status, notify, and leave guard_process.
Take(t) ==
    /\ readyPid = pid[t]
    /\ Goto(t, "loop", "erase")
    /\ Return(t, readyStatus)
    /\ readyPid' = None
    /\ owner' = None
    /\ ready' = ready \cup waiters
    /\ waiters' = {}
    /\ UNCHANGED <<children, awaited, readyStatus, pid, status, donePid, wakes>>

Erase(t) ==
    /\ Goto(t, "erase", "done")
    /\ awaited' = awaited \ {pid[t]}
    /\ UNCHANGED <<children, gvars, handoff, locals, wakes>>
-----------------------------------------------------------------------------
Work(t) ==
    \/ Register(t) \/ Enter(t) \/ Reap(t) \/ Record(t)
    \/ Sleep(t) \/ Wake(t) \/ Take(t) \/ Erase(t)

Next ==
    /\ UNCHANGED scenario
    /\ \/ \E c \in Child : StartProcess(c) \/ Exit(c) \/ Poll(c)
       \/ \E t \in Thread :
             \/ Work(t)
             \/ Spurious(t)
             \/ \E c \in Child : WaitFor(t, c) \/ RunAndWait(t, c)

Spec == Init /\ [][Next]_vars

\* Threads run when they can, and processes end.
Fairness ==
    /\ \A t \in Thread : WF_vars(UNCHANGED scenario /\ Work(t))
    /\ \A c \in Child : WF_vars(UNCHANGED scenario /\ Exit(c))

FairSpec == Spec /\ Fairness
-----------------------------------------------------------------------------
TypeOK ==
    /\ scenario \in Scenarios
    /\ child \in [Child -> {"unborn", "running", "zombie", "reaped"}]
    /\ exit \in [Child -> Status \cup {None}]
    /\ awaited \subseteq Child \cup {Init1}
    /\ owner \in Thread \cup {None}
    /\ waiters \subseteq Thread
    /\ ready \subseteq Thread
    /\ readyPid \in Child \cup {None}
    /\ readyStatus \in Status
    /\ at \in [Thread -> {"idle", "register", "enter", "loop", "record", "asleep", "erase", "done"}]
    /\ pid \in [Thread -> Child \cup {Init1, None}]
    /\ status \in [Thread -> Status]
    /\ donePid \in [Thread -> Child \cup {None}]
    /\ result \in [Thread -> Status \cup {"busy", None}]
    /\ wakes \in 0 .. MaxWakes

\* wait_process returns the status of the process it was asked about, though
\* any thread may have received it from ::wait, and only when that process has
\* ended.
StatusIsOwn ==
    \A t \in Thread :
        pid[t] # None /\ result[t] \in Status =>
            /\ pid[t] \in Child
            /\ child[pid[t]] = "reaped"
            /\ result[t] = exit[pid[t]]

\* A status that is handed over has a thread that is still going to take it;
\* otherwise ready_pid is never freed and every waiter sleeps for ever.
HandoffHasTaker ==
    readyPid # None =>
        \E t \in Thread : pid[t] = readyPid /\ at[t] \in {"enter", "loop", "asleep"}

\* wait_process blocks until the process ends, and no longer (startprocess.h).
WaitReturns == \A t \in Thread : at[t] = "register" ~> at[t] = "done"

\* It does so at least where none of those things happens that it does not
\* expect: nobody is left with a status of a child that was handed to others.
PlainWaitReturns ==
    \A t \in Thread : Allowed = {} /\ at[t] = "register" ~> at[t] = "done"
=============================================================================
