------------------------ MODULE ProcessWait_proofs ------------------------
(***************************************************************************)
(* Proofs about ProcessWait: for any threads, children and statuses, and   *)
(* whatever the environment is allowed to do, wait_process returns the     *)
(* status of its own child, and a status that is handed over has a taker.  *)
(***************************************************************************)
EXTENDS ProcessWait, TLAPS

Awaiting == {t \in Thread : at[t] \in {"enter", "loop", "record", "asleep", "erase"}}

\* `at', the monitor and the locals go together.
PhaseInv ==
    /\ waiters \cap ready = {}
    /\ \A t \in waiters \cup ready : at[t] = "asleep"
    /\ \A t \in Thread :
          /\ owner = t <=> at[t] \in {"loop", "record"}
          /\ at[t] = "idle" => pid[t] = None /\ result[t] = None
          /\ t \in Awaiting \/ at[t] = "register" => pid[t] # None
          /\ at[t] \in {"register", "enter", "loop", "record", "asleep"} => result[t] = None
          /\ at[t] = "record" => readyPid = None

\* A status that is on its way to its thread is that of a reaped child.
StatusInv ==
    /\ \A c \in Child : child[c] \in {"zombie", "reaped"} => exit[c] \in Status
    /\ \A t \in Thread : at[t] = "record" /\ donePid[t] # None =>
          child[donePid[t]] = "reaped" /\ status[t] = exit[donePid[t]]
    /\ readyPid # None => child[readyPid] = "reaped" /\ readyStatus = exit[readyPid]
    /\ StatusIsOwn

\* `awaited' is exactly what threads wait for, one thread each.
AwaitedInv ==
    /\ awaited = {pid[t] : t \in Awaiting}
    /\ \A t, u \in Awaiting : pid[t] = pid[u] => t = u

\* A child that has just been reaped has not been reported to its thread.
FreshInv ==
    \A t, u \in Thread : at[t] = "record" /\ donePid[t] # None /\ at[u] = "erase"
        => pid[u] # donePid[t]

\* A thread about to leave has a status.
EraseInv == \A t \in Thread : at[t] = "erase" => result[t] \in Status

IInv ==
    /\ TypeOK
    /\ PhaseInv
    /\ StatusInv
    /\ AwaitedInv
    /\ FreshInv
    /\ EraseInv
    /\ HandoffHasTaker
-----------------------------------------------------------------------------
LEMMA InitIInv == Init => IInv
<1> SUFFICES ASSUME Init PROVE IInv
    OBVIOUS
<1> USE NameAssumption, StatusAssumption, WakeAssumption DEF Init, G!Init, Awaiting
<1>1. TypeOK
    BY DEF TypeOK
<1>2. PhaseInv /\ FreshInv /\ EraseInv
    BY DEF PhaseInv, FreshInv, EraseInv
<1>3. StatusInv
    BY DEF StatusInv, StatusIsOwn
<1>4. AwaitedInv /\ HandoffHasTaker
    BY DEF AwaitedInv, HandoffHasTaker
<1>5. QED
    BY <1>1, <1>2, <1>3, <1>4 DEF IInv

\* The scenario stays the same.
LEMMA SameScenario == [Next]_vars => scenario' = scenario
BY DEF Next, vars

LEMMA StepTypeOK == IInv /\ [Next]_vars => TypeOK'
<1> SUFFICES ASSUME IInv, [Next]_vars PROVE TypeOK'
    OBVIOUS
<1>0. scenario' = scenario
    BY SameScenario
<1> USE <1>0, NameAssumption, StatusAssumption, WakeAssumption DEF IInv, TypeOK, Goto, children, gvars, handoff, locals
<1>1. ASSUME NEW c \in Child, StartProcess(c) PROVE TypeOK'
    BY <1>1 DEF StartProcess, Start
<1>2. ASSUME NEW c \in Child, Exit(c) PROVE TypeOK'
    BY <1>2 DEF Exit
<1>3. ASSUME NEW c \in Child, Poll(c) PROVE TypeOK'
    BY <1>3 DEF Poll
<1>4. ASSUME NEW t \in Thread, NEW c \in Child, WaitFor(t, c) PROVE TypeOK'
    BY <1>4 DEF WaitFor
<1>5. ASSUME NEW t \in Thread, NEW c \in Child, RunAndWait(t, c) PROVE TypeOK'
    BY <1>5 DEF RunAndWait, Start, Return
<1>6. ASSUME NEW t \in Thread, Register(t) PROVE TypeOK'
    BY <1>6 DEF Register, Return, PhaseInv
<1>7. ASSUME NEW t \in Thread, Enter(t) PROVE TypeOK'
    BY <1>7 DEF Enter, G!Enter
<1>8. ASSUME NEW t \in Thread, Reap(t) PROVE TypeOK'
    BY <1>8 DEF Reap, StatusInv
<1>9. ASSUME NEW t \in Thread, Record(t) PROVE TypeOK'
    BY <1>9 DEF Record, G!NotifyAll
<1>10. ASSUME NEW t \in Thread, Sleep(t) PROVE TypeOK'
    BY <1>10 DEF Sleep, G!Wait
<1>11. ASSUME NEW t \in Thread, Wake(t) PROVE TypeOK'
    BY <1>11 DEF Wake, G!Reenter
<1>12. ASSUME NEW t \in Thread, Spurious(t) PROVE TypeOK'
    BY <1>12 DEF Spurious, G!Spurious
<1>13. ASSUME NEW t \in Thread, Take(t) PROVE TypeOK'
    BY <1>13 DEF Take, Return
<1>14. ASSUME NEW t \in Thread, Erase(t) PROVE TypeOK'
    BY <1>14 DEF Erase
<1>15. CASE UNCHANGED vars
    BY <1>15 DEF vars
<1>16. QED
    BY <1>1, <1>2, <1>3, <1>4, <1>5, <1>6, <1>7, <1>8, <1>9, <1>10, <1>11, <1>12, <1>13, <1>14, <1>15 DEF Next, Work

LEMMA StepPhase == IInv /\ [Next]_vars => PhaseInv'
<1> SUFFICES ASSUME IInv, [Next]_vars PROVE PhaseInv'
    OBVIOUS
<1>0. TypeOK'
    BY StepTypeOK
<1> USE <1>0, NameAssumption, StatusAssumption, WakeAssumption DEF IInv, TypeOK, PhaseInv, Awaiting, Goto, children, gvars, handoff, locals
<1>1. ASSUME NEW c \in Child, StartProcess(c) PROVE PhaseInv'
    BY <1>1 DEF StartProcess, Start
<1>2. ASSUME NEW c \in Child, Exit(c) PROVE PhaseInv'
    BY <1>2 DEF Exit
<1>3. ASSUME NEW c \in Child, Poll(c) PROVE PhaseInv'
    BY <1>3 DEF Poll
<1>4. ASSUME NEW t \in Thread, NEW c \in Child, WaitFor(t, c) PROVE PhaseInv'
    BY <1>4 DEF WaitFor
<1>5. ASSUME NEW t \in Thread, NEW c \in Child, RunAndWait(t, c) PROVE PhaseInv'
    BY <1>5 DEF RunAndWait, Start, Return
<1>6. ASSUME NEW t \in Thread, Register(t) PROVE PhaseInv'
    BY <1>6 DEF Register, Return
<1>7. ASSUME NEW t \in Thread, Enter(t) PROVE PhaseInv'
    BY <1>7 DEF Enter, G!Enter
<1>8. ASSUME NEW t \in Thread, Reap(t) PROVE PhaseInv'
    BY <1>8 DEF Reap
<1>9. ASSUME NEW t \in Thread, Record(t) PROVE PhaseInv'
    BY <1>9 DEF Record, G!NotifyAll
<1>10. ASSUME NEW t \in Thread, Sleep(t) PROVE PhaseInv'
    BY <1>10 DEF Sleep, G!Wait
<1>11. ASSUME NEW t \in Thread, Wake(t) PROVE PhaseInv'
    BY <1>11 DEF Wake, G!Reenter
<1>12. ASSUME NEW t \in Thread, Spurious(t) PROVE PhaseInv'
    BY <1>12 DEF Spurious, G!Spurious
<1>13. ASSUME NEW t \in Thread, Take(t) PROVE PhaseInv'
    BY <1>13 DEF Take, Return
<1>14. ASSUME NEW t \in Thread, Erase(t) PROVE PhaseInv'
    BY <1>14 DEF Erase
<1>15. CASE UNCHANGED vars
    BY <1>15 DEF vars
<1>16. QED
    BY <1>1, <1>2, <1>3, <1>4, <1>5, <1>6, <1>7, <1>8, <1>9, <1>10, <1>11, <1>12, <1>13, <1>14, <1>15 DEF Next, Work

LEMMA StepStatus == IInv /\ [Next]_vars => StatusInv'
<1> SUFFICES ASSUME IInv, [Next]_vars PROVE StatusInv'
    OBVIOUS
<1>0. TypeOK'
    BY StepTypeOK
<1> USE <1>0, NameAssumption, StatusAssumption, WakeAssumption DEF IInv, TypeOK, PhaseInv, StatusInv, StatusIsOwn, Awaiting, Goto, children, gvars, handoff, locals
<1>1. ASSUME NEW c \in Child, StartProcess(c) PROVE StatusInv'
    BY <1>1 DEF StartProcess, Start
<1>2. ASSUME NEW c \in Child, Exit(c) PROVE StatusInv'
    BY <1>2 DEF Exit
<1>3. ASSUME NEW c \in Child, Poll(c) PROVE StatusInv'
    BY <1>3 DEF Poll
<1>4. ASSUME NEW t \in Thread, NEW c \in Child, WaitFor(t, c) PROVE StatusInv'
    BY <1>4 DEF WaitFor
<1>5. ASSUME NEW t \in Thread, NEW c \in Child, RunAndWait(t, c) PROVE StatusInv'
    <2>1. \A x \in Child : child'[x] \in {"zombie", "reaped"} => exit'[x] \in Status
        BY <1>5 DEF RunAndWait, Start, Return
    <2>2. \A u \in Thread : at'[u] = "record" /\ donePid'[u] # None =>
              child'[donePid'[u]] = "reaped" /\ status'[u] = exit'[donePid'[u]]
        BY <1>5 DEF RunAndWait, Start, Return
    <2>3. readyPid' # None => child'[readyPid'] = "reaped" /\ readyStatus' = exit'[readyPid']
        BY <1>5 DEF RunAndWait, Start, Return
    <2>4. StatusIsOwn'
        BY <1>5 DEF RunAndWait, Start, Return
    <2>5. QED
        BY <2>1, <2>2, <2>3, <2>4
<1>6. ASSUME NEW t \in Thread, Register(t) PROVE StatusInv'
    BY <1>6 DEF Register, Return
<1>7. ASSUME NEW t \in Thread, Enter(t) PROVE StatusInv'
    BY <1>7 DEF Enter, G!Enter
<1>8. ASSUME NEW t \in Thread, Reap(t) PROVE StatusInv'
    <2>1. \A x \in Child : child'[x] \in {"zombie", "reaped"} => exit'[x] \in Status
        BY <1>8 DEF Reap
    <2>2. \A u \in Thread : at'[u] = "record" /\ donePid'[u] # None =>
              child'[donePid'[u]] = "reaped" /\ status'[u] = exit'[donePid'[u]]
        BY <1>8 DEF Reap
    <2>3. readyPid' # None => child'[readyPid'] = "reaped" /\ readyStatus' = exit'[readyPid']
        BY <1>8 DEF Reap
    <2>4. StatusIsOwn'
        BY <1>8 DEF Reap
    <2>5. QED
        BY <2>1, <2>2, <2>3, <2>4
<1>9. ASSUME NEW t \in Thread, Record(t) PROVE StatusInv'
    BY <1>9 DEF Record, G!NotifyAll
<1>10. ASSUME NEW t \in Thread, Sleep(t) PROVE StatusInv'
    BY <1>10 DEF Sleep, G!Wait
<1>11. ASSUME NEW t \in Thread, Wake(t) PROVE StatusInv'
    BY <1>11 DEF Wake, G!Reenter
<1>12. ASSUME NEW t \in Thread, Spurious(t) PROVE StatusInv'
    BY <1>12 DEF Spurious, G!Spurious
<1>13. ASSUME NEW t \in Thread, Take(t) PROVE StatusInv'
    BY <1>13 DEF Take, Return
<1>14. ASSUME NEW t \in Thread, Erase(t) PROVE StatusInv'
    BY <1>14 DEF Erase
<1>15. CASE UNCHANGED vars
    BY <1>15 DEF vars
<1>16. QED
    BY <1>1, <1>2, <1>3, <1>4, <1>5, <1>6, <1>7, <1>8, <1>9, <1>10, <1>11, <1>12, <1>13, <1>14, <1>15 DEF Next, Work

LEMMA StepAwaited == IInv /\ [Next]_vars => AwaitedInv'
<1> SUFFICES ASSUME IInv, [Next]_vars PROVE AwaitedInv'
    OBVIOUS
<1>0. TypeOK'
    BY StepTypeOK
<1> USE <1>0, NameAssumption, StatusAssumption, WakeAssumption DEF IInv, TypeOK, PhaseInv, AwaitedInv, Awaiting, Goto, children, gvars, handoff, locals
<1>1. ASSUME NEW c \in Child, StartProcess(c) PROVE AwaitedInv'
    BY <1>1 DEF StartProcess, Start
<1>2. ASSUME NEW c \in Child, Exit(c) PROVE AwaitedInv'
    BY <1>2 DEF Exit
<1>3. ASSUME NEW c \in Child, Poll(c) PROVE AwaitedInv'
    BY <1>3 DEF Poll
<1>4. ASSUME NEW t \in Thread, NEW c \in Child, WaitFor(t, c) PROVE AwaitedInv'
    BY <1>4 DEF WaitFor
<1>5. ASSUME NEW t \in Thread, NEW c \in Child, RunAndWait(t, c) PROVE AwaitedInv'
    BY <1>5 DEF RunAndWait, Start, Return
<1>6. ASSUME NEW t \in Thread, Register(t) PROVE AwaitedInv'
    BY <1>6 DEF Register, Return
<1>7. ASSUME NEW t \in Thread, Enter(t) PROVE AwaitedInv'
    BY <1>7 DEF Enter, G!Enter
<1>8. ASSUME NEW t \in Thread, Reap(t) PROVE AwaitedInv'
    BY <1>8 DEF Reap
<1>9. ASSUME NEW t \in Thread, Record(t) PROVE AwaitedInv'
    BY <1>9 DEF Record, G!NotifyAll
<1>10. ASSUME NEW t \in Thread, Sleep(t) PROVE AwaitedInv'
    BY <1>10 DEF Sleep, G!Wait
<1>11. ASSUME NEW t \in Thread, Wake(t) PROVE AwaitedInv'
    BY <1>11 DEF Wake, G!Reenter
<1>12. ASSUME NEW t \in Thread, Spurious(t) PROVE AwaitedInv'
    BY <1>12 DEF Spurious, G!Spurious
<1>13. ASSUME NEW t \in Thread, Take(t) PROVE AwaitedInv'
    BY <1>13 DEF Take, Return
<1>14. ASSUME NEW t \in Thread, Erase(t) PROVE AwaitedInv'
    BY <1>14 DEF Erase
<1>15. CASE UNCHANGED vars
    BY <1>15 DEF vars
<1>16. QED
    BY <1>1, <1>2, <1>3, <1>4, <1>5, <1>6, <1>7, <1>8, <1>9, <1>10, <1>11, <1>12, <1>13, <1>14, <1>15 DEF Next, Work

LEMMA StepFresh == IInv /\ [Next]_vars => FreshInv'
<1> SUFFICES ASSUME IInv, [Next]_vars PROVE FreshInv'
    OBVIOUS
<1>0. TypeOK'
    BY StepTypeOK
<1> USE <1>0, NameAssumption, StatusAssumption, WakeAssumption DEF IInv, TypeOK, PhaseInv, StatusInv, StatusIsOwn, EraseInv, FreshInv, Awaiting, Goto, children, gvars, handoff, locals
<1>1. ASSUME NEW c \in Child, StartProcess(c) PROVE FreshInv'
    BY <1>1 DEF StartProcess, Start
<1>2. ASSUME NEW c \in Child, Exit(c) PROVE FreshInv'
    BY <1>2 DEF Exit
<1>3. ASSUME NEW c \in Child, Poll(c) PROVE FreshInv'
    BY <1>3 DEF Poll
<1>4. ASSUME NEW t \in Thread, NEW c \in Child, WaitFor(t, c) PROVE FreshInv'
    BY <1>4 DEF WaitFor
<1>5. ASSUME NEW t \in Thread, NEW c \in Child, RunAndWait(t, c) PROVE FreshInv'
    BY <1>5 DEF RunAndWait, Start, Return
<1>6. ASSUME NEW t \in Thread, Register(t) PROVE FreshInv'
    BY <1>6 DEF Register, Return
<1>7. ASSUME NEW t \in Thread, Enter(t) PROVE FreshInv'
    BY <1>7 DEF Enter, G!Enter
<1>8. ASSUME NEW t \in Thread, Reap(t) PROVE FreshInv'
    BY <1>8 DEF Reap
<1>9. ASSUME NEW t \in Thread, Record(t) PROVE FreshInv'
    BY <1>9 DEF Record, G!NotifyAll
<1>10. ASSUME NEW t \in Thread, Sleep(t) PROVE FreshInv'
    BY <1>10 DEF Sleep, G!Wait
<1>11. ASSUME NEW t \in Thread, Wake(t) PROVE FreshInv'
    BY <1>11 DEF Wake, G!Reenter
<1>12. ASSUME NEW t \in Thread, Spurious(t) PROVE FreshInv'
    BY <1>12 DEF Spurious, G!Spurious
<1>13. ASSUME NEW t \in Thread, Take(t) PROVE FreshInv'
    BY <1>13 DEF Take, Return
<1>14. ASSUME NEW t \in Thread, Erase(t) PROVE FreshInv'
    BY <1>14 DEF Erase
<1>15. CASE UNCHANGED vars
    BY <1>15 DEF vars
<1>16. QED
    BY <1>1, <1>2, <1>3, <1>4, <1>5, <1>6, <1>7, <1>8, <1>9, <1>10, <1>11, <1>12, <1>13, <1>14, <1>15 DEF Next, Work

LEMMA StepErase == IInv /\ [Next]_vars => EraseInv'
<1> SUFFICES ASSUME IInv, [Next]_vars PROVE EraseInv'
    OBVIOUS
<1>0. TypeOK'
    BY StepTypeOK
<1> USE <1>0, NameAssumption, StatusAssumption, WakeAssumption DEF IInv, TypeOK, PhaseInv, EraseInv, Goto, children, gvars, handoff, locals
<1>1. ASSUME NEW c \in Child, StartProcess(c) PROVE EraseInv'
    BY <1>1 DEF StartProcess, Start
<1>2. ASSUME NEW c \in Child, Exit(c) PROVE EraseInv'
    BY <1>2 DEF Exit
<1>3. ASSUME NEW c \in Child, Poll(c) PROVE EraseInv'
    BY <1>3 DEF Poll
<1>4. ASSUME NEW t \in Thread, NEW c \in Child, WaitFor(t, c) PROVE EraseInv'
    BY <1>4 DEF WaitFor
<1>5. ASSUME NEW t \in Thread, NEW c \in Child, RunAndWait(t, c) PROVE EraseInv'
    BY <1>5 DEF RunAndWait, Start, Return
<1>6. ASSUME NEW t \in Thread, Register(t) PROVE EraseInv'
    BY <1>6 DEF Register, Return
<1>7. ASSUME NEW t \in Thread, Enter(t) PROVE EraseInv'
    BY <1>7 DEF Enter, G!Enter
<1>8. ASSUME NEW t \in Thread, Reap(t) PROVE EraseInv'
    BY <1>8 DEF Reap
<1>9. ASSUME NEW t \in Thread, Record(t) PROVE EraseInv'
    BY <1>9 DEF Record, G!NotifyAll
<1>10. ASSUME NEW t \in Thread, Sleep(t) PROVE EraseInv'
    BY <1>10 DEF Sleep, G!Wait
<1>11. ASSUME NEW t \in Thread, Wake(t) PROVE EraseInv'
    BY <1>11 DEF Wake, G!Reenter
<1>12. ASSUME NEW t \in Thread, Spurious(t) PROVE EraseInv'
    BY <1>12 DEF Spurious, G!Spurious
<1>13. ASSUME NEW t \in Thread, Take(t) PROVE EraseInv'
    BY <1>13 DEF Take, Return
<1>14. ASSUME NEW t \in Thread, Erase(t) PROVE EraseInv'
    BY <1>14 DEF Erase
<1>15. CASE UNCHANGED vars
    BY <1>15 DEF vars
<1>16. QED
    BY <1>1, <1>2, <1>3, <1>4, <1>5, <1>6, <1>7, <1>8, <1>9, <1>10, <1>11, <1>12, <1>13, <1>14, <1>15 DEF Next, Work

LEMMA StepTaker == IInv /\ [Next]_vars => HandoffHasTaker'
<1> SUFFICES ASSUME IInv, [Next]_vars PROVE HandoffHasTaker'
    OBVIOUS
<1>0. TypeOK'
    BY StepTypeOK
<1> USE <1>0, NameAssumption, StatusAssumption, WakeAssumption DEF IInv, TypeOK, PhaseInv, AwaitedInv, FreshInv, HandoffHasTaker, Awaiting, Goto, children, gvars, handoff, locals
<1>1. ASSUME NEW c \in Child, StartProcess(c) PROVE HandoffHasTaker'
    BY <1>1 DEF StartProcess, Start
<1>2. ASSUME NEW c \in Child, Exit(c) PROVE HandoffHasTaker'
    BY <1>2 DEF Exit
<1>3. ASSUME NEW c \in Child, Poll(c) PROVE HandoffHasTaker'
    BY <1>3 DEF Poll
<1>4. ASSUME NEW t \in Thread, NEW c \in Child, WaitFor(t, c) PROVE HandoffHasTaker'
    BY <1>4 DEF WaitFor
<1>5. ASSUME NEW t \in Thread, NEW c \in Child, RunAndWait(t, c) PROVE HandoffHasTaker'
    BY <1>5 DEF RunAndWait, Start, Return
<1>6. ASSUME NEW t \in Thread, Register(t) PROVE HandoffHasTaker'
    BY <1>6 DEF Register, Return
<1>7. ASSUME NEW t \in Thread, Enter(t) PROVE HandoffHasTaker'
    BY <1>7 DEF Enter, G!Enter
<1>8. ASSUME NEW t \in Thread, Reap(t) PROVE HandoffHasTaker'
    BY <1>8 DEF Reap
<1>9. ASSUME NEW t \in Thread, Record(t) PROVE HandoffHasTaker'
    BY <1>9 DEF Record, G!NotifyAll
<1>10. ASSUME NEW t \in Thread, Sleep(t) PROVE HandoffHasTaker'
    BY <1>10 DEF Sleep, G!Wait
<1>11. ASSUME NEW t \in Thread, Wake(t) PROVE HandoffHasTaker'
    BY <1>11 DEF Wake, G!Reenter
<1>12. ASSUME NEW t \in Thread, Spurious(t) PROVE HandoffHasTaker'
    BY <1>12 DEF Spurious, G!Spurious
<1>13. ASSUME NEW t \in Thread, Take(t) PROVE HandoffHasTaker'
    BY <1>13 DEF Take, Return
<1>14. ASSUME NEW t \in Thread, Erase(t) PROVE HandoffHasTaker'
    BY <1>14 DEF Erase
<1>15. CASE UNCHANGED vars
    BY <1>15 DEF vars
<1>16. QED
    BY <1>1, <1>2, <1>3, <1>4, <1>5, <1>6, <1>7, <1>8, <1>9, <1>10, <1>11, <1>12, <1>13, <1>14, <1>15 DEF Next, Work

LEMMA StepIInv == IInv /\ [Next]_vars => IInv'
BY StepTypeOK, StepPhase, StepStatus, StepAwaited, StepFresh, StepErase, StepTaker DEF IInv
-----------------------------------------------------------------------------
\* The inductive invariant holds in every reachable state.
THEOREM Invariance == Spec => []IInv
BY InitIInv, StepIInv, PTL DEF Spec

\* The variables of startprocess.cxx and the locals of wait_process are typed.
THEOREM Typing == Spec => []TypeOK
<1>1. IInv => TypeOK
    BY DEF IInv
<1>2. QED
    BY <1>1, Invariance, PTL

\* wait_process returns the status of its own child, whoever received it.
THEOREM OwnStatus == Spec => []StatusIsOwn
<1>1. IInv => StatusIsOwn
    BY DEF IInv, StatusInv
<1>2. QED
    BY <1>1, Invariance, PTL

\* ready_pid always names a child whose waiter has not taken its status yet.
THEOREM Handoff == Spec => []HandoffHasTaker
<1>1. IInv => HandoffHasTaker
    BY DEF IInv
<1>2. QED
    BY <1>1, Invariance, PTL
=============================================================================
