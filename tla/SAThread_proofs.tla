-------------------------- MODULE SAThread_proofs --------------------------
(***************************************************************************)
(* Proofs about SAThread: type correctness, the life of the shared guard   *)
(* and the meaning of a locked Thread, for any clients and procedures, any *)
(* number of calls, failing pthread_create and undisciplined callers.      *)
(***************************************************************************)
EXTENDS SAThread, TLAPS

\* The procedures that count as a reference to the guard: from the launch
\* until the section in which the procedure's thread gives the reference up.
\* A launch that failed counts for ever.
Active == {p \in Proc : /\ op[p] \notin {"unborn", "given", "done"}
                        /\ ~(op[p] = "finish" /\ at[p] = "exit")}

\* The Thread object has not given its reference up.
HandleRef == \/ obj = "live"
             \/ \E a \in Actor : op[a] = "delete" /\ at[a] \in {"enter", "in"}

\* `op' and `at' go together.
PhaseInv ==
    \A a \in Actor :
        /\ op[a] \in {"caller", "unborn", "given", "lost", "done"} => at[a] = "out"
        /\ op[a] \in Ops \cup {"finish"} => at[a] # "out"
        /\ op[a] \in {"unborn", "given", "lost", "run", "finish", "done"} => a \in Proc
        /\ at[a] = "wait" => op[a] \in {"lock", "start"}
        /\ owner = a <=> at[a] \in {"in", "exit"}

SleepInv ==
    /\ waiters \cap ready = {}
    /\ \A a \in waiters \cup ready : at[a] = "wait"

\* The contract of deletion.
DeleteInv ==
    /\ \A a, b \in Actor : op[a] = "delete" /\ op[b] \in Ops => a = b
    /\ \A a \in Actor : op[a] \in {"lock", "start", "unlock"} => obj = "live"
    /\ \A a \in Actor : op[a] = "delete" => obj = "dying"
    /\ obj = "dying" => \E a \in Actor : op[a] = "delete"

\* At most one procedure has a reference.
ActiveInv == \A p, q \in Active : p = q

CountInv ==
    count = (IF HandleRef THEN 1 ELSE 0) + (IF Active = {} THEN 0 ELSE 1)

GuardInv == guard = "live" <=> count > 0

\* As long as the Thread has its reference, its flags tell the truth.
FlagInv == HandleRef => /\ isThread <=> Active # {}
                        /\ ~(isLocked /\ isThread)

\* A thread that is about to leave the guard has not been left without it.
LeaveInv == \A a \in Actor : at[a] = "exit" => guard = "live"

IInv ==
    /\ TypeOK
    /\ PhaseInv
    /\ SleepInv
    /\ DeleteInv
    /\ ActiveInv
    /\ CountInv
    /\ GuardInv
    /\ FlagInv
    /\ LeaveInv
-----------------------------------------------------------------------------
LEMMA InitIInv == Init => IInv
<1> SUFFICES ASSUME Init PROVE IInv
    OBVIOUS
<1> USE ActorAssumption, BoundAssumption DEF Init, G!Init, Actor, Ops
<1>1. TypeOK
    <2>1. op \in [Actor -> {"caller", "unborn"}] /\ at \in [Actor -> {"out"}]
        OBVIOUS
    <2>2. count \in 0 .. 2 /\ events \in 0 .. MaxEvents /\ mode \in Modes
        OBVIOUS
    <2>3. QED
        BY <2>1, <2>2 DEF TypeOK
<1>2. HandleRef /\ Active = {}
    BY DEF HandleRef, Active
<1>3. PhaseInv /\ SleepInv /\ DeleteInv /\ ActiveInv /\ LeaveInv
    BY <1>2 DEF PhaseInv, SleepInv, DeleteInv, ActiveInv, LeaveInv
<1>4. CountInv /\ GuardInv /\ FlagInv
    BY <1>2 DEF CountInv, GuardInv, FlagInv
<1>5. QED
    BY <1>1, <1>3, <1>4 DEF IInv

\* The circumstances stay the same.
LEMMA SameMode == [Next]_vars => mode' = mode
BY DEF Next, vars

LEMMA StepTypeOK == IInv /\ [Next]_vars => TypeOK'
<1> SUFFICES ASSUME IInv, [Next]_vars PROVE TypeOK'
    OBVIOUS
<1>0. mode' = mode
    BY SameMode
<1> USE <1>0, ActorAssumption, BoundAssumption DEF TypeOK, Actor, Ops, Goto, gvars, fields
<1>1. ASSUME NEW a \in Actor, CallLock(a) PROVE TypeOK'
    BY <1>1 DEF IInv, CallLock, Call
<1>2. ASSUME NEW a \in Actor, CallUnlock(a) PROVE TypeOK'
    BY <1>2 DEF IInv, CallUnlock, Call
<1>3. ASSUME NEW a \in Actor, CallDelete(a) PROVE TypeOK'
    BY <1>3 DEF IInv, CallDelete, Call
<1>4. ASSUME NEW a \in Actor, Enter(a) PROVE TypeOK'
    BY <1>4 DEF IInv, Enter, G!Enter
<1>5. ASSUME NEW a \in Actor, Resume(a) PROVE TypeOK'
    BY <1>5 DEF IInv, Resume, G!Reenter
<1>6. ASSUME NEW a \in Actor, Spurious(a) PROVE TypeOK'
    BY <1>6 DEF IInv, Spurious, G!Spurious
<1>7. ASSUME NEW a \in Actor, Leave(a) PROVE TypeOK'
    BY <1>7 DEF IInv, Leave, G!Exit
<1>8. ASSUME NEW a \in Actor, AwaitFree(a) PROVE TypeOK'
    BY <1>8 DEF IInv, AwaitFree, G!Wait
<1>9. ASSUME NEW a \in Actor, TakeLock(a) PROVE TypeOK'
    BY <1>9 DEF IInv, TakeLock
<1>10. ASSUME NEW a \in Actor, ReleaseLock(a) PROVE TypeOK'
    BY <1>10 DEF IInv, ReleaseLock, G!NotifyAll
<1>11. ASSUME NEW a \in Actor, Launch(a) PROVE TypeOK'
    BY <1>11 DEF IInv, Launch, CountInv, FlagInv, HandleRef
<1>12. ASSUME NEW a \in Actor, Begin(a) PROVE TypeOK'
    BY <1>12 DEF IInv, Begin
<1>13. ASSUME NEW a \in Actor, EndBody(a) PROVE TypeOK'
    BY <1>13 DEF IInv, EndBody
<1>14. ASSUME NEW a \in Actor, FinishNotify(a) PROVE TypeOK'
    <2>1. count' \in 0 .. 2
        BY <1>14 DEF IInv, FinishNotify
    <2>2. at' \in [Actor -> {"out", "enter", "in", "wait", "exit"}]
        BY <1>14 DEF IInv, FinishNotify
    <2>3. ready' \subseteq Actor /\ waiters' \subseteq Actor /\ isThread' \in BOOLEAN
        BY <1>14 DEF IInv, FinishNotify, G!NotifyAll
    <2>4. UNCHANGED <<obj, isLocked, lockingThread, guard, owner, op, events>>
        BY <1>14 DEF FinishNotify, G!NotifyAll
    <2>5. QED
        BY <2>1, <2>2, <2>3, <2>4 DEF IInv
<1>15. ASSUME NEW a \in Actor, FinishDelete(a) PROVE TypeOK'
    BY <1>15 DEF IInv, FinishDelete, G!Exit
<1>16. ASSUME NEW a \in Actor, DestroyShared(a) PROVE TypeOK'
    BY <1>16 DEF IInv, DestroyShared
<1>17. ASSUME NEW a \in Actor, DestroyLast(a) PROVE TypeOK'
    BY <1>17 DEF IInv, DestroyLast, G!Exit
<1>18. ASSUME NEW a \in Actor, NEW p \in Proc, CallStart(a, p) PROVE TypeOK'
    BY <1>18 DEF IInv, CallStart
<1>19. CASE UNCHANGED vars
    BY <1>19 DEF IInv, vars
<1>20. QED
    BY <1>1, <1>2, <1>3, <1>4, <1>5, <1>6, <1>7, <1>8, <1>9, <1>10, <1>11, <1>12, <1>13, <1>14, <1>15, <1>16, <1>17, <1>18, <1>19 DEF Next, Work, Calls

LEMMA StepPhase == IInv /\ [Next]_vars => PhaseInv'
<1> SUFFICES ASSUME IInv, [Next]_vars PROVE PhaseInv'
    OBVIOUS
<1>0. TypeOK'
    BY StepTypeOK
<1> USE <1>0, ActorAssumption DEF IInv, TypeOK, PhaseInv, Goto, Actor, Ops, gvars, fields
<1>1. ASSUME NEW a \in Actor, CallLock(a) PROVE PhaseInv'
    BY <1>1 DEF CallLock, Call
<1>2. ASSUME NEW a \in Actor, CallUnlock(a) PROVE PhaseInv'
    BY <1>2 DEF CallUnlock, Call
<1>3. ASSUME NEW a \in Actor, CallDelete(a) PROVE PhaseInv'
    BY <1>3 DEF CallDelete, Call
<1>4. ASSUME NEW a \in Actor, Enter(a) PROVE PhaseInv'
    BY <1>4 DEF Enter, G!Enter
<1>5. ASSUME NEW a \in Actor, Resume(a) PROVE PhaseInv'
    <2>1. owner = None /\ owner' = a /\ at[a] = "wait" /\ op' = op
        BY <1>5 DEF Resume, G!Reenter
    <2>2. at' = [at EXCEPT ![a] = "in"]
        BY <1>5 DEF Resume
    <2>3. op[a] \in {"lock", "start"}
        BY <2>1
    <2>4. ASSUME NEW b \in Actor
          PROVE  /\ at'[b] = IF b = a THEN "in" ELSE at[b]
                 /\ owner' = b <=> at'[b] \in {"in", "exit"}
        BY <2>1, <2>2
    <2>5. SUFFICES ASSUME NEW b \in Actor
          PROVE  /\ op[b] \in {"caller", "unborn", "given", "lost", "done"} => at'[b] = "out"
                 /\ op[b] \in Ops \cup {"finish"} => at'[b] # "out"
                 /\ op[b] \in {"unborn", "given", "lost", "run", "finish", "done"} => b \in Proc
                 /\ at'[b] = "wait" => op[b] \in {"lock", "start"}
                 /\ owner' = b <=> at'[b] \in {"in", "exit"}
        BY <2>1
    <2>6. CASE b = a
        BY <2>3, <2>4, <2>6
    <2>7. CASE b # a
        BY <2>4, <2>7
    <2>8. QED
        BY <2>6, <2>7
<1>6. ASSUME NEW a \in Actor, Spurious(a) PROVE PhaseInv'
    BY <1>6 DEF Spurious, G!Spurious
<1>7. ASSUME NEW a \in Actor, Leave(a) PROVE PhaseInv'
    BY <1>7 DEF Leave, G!Exit
<1>8. ASSUME NEW a \in Actor, AwaitFree(a) PROVE PhaseInv'
    BY <1>8 DEF AwaitFree, G!Wait
<1>9. ASSUME NEW a \in Actor, TakeLock(a) PROVE PhaseInv'
    BY <1>9 DEF TakeLock
<1>10. ASSUME NEW a \in Actor, ReleaseLock(a) PROVE PhaseInv'
    BY <1>10 DEF ReleaseLock, G!NotifyAll
<1>11. ASSUME NEW a \in Actor, Launch(a) PROVE PhaseInv'
    BY <1>11 DEF Launch
<1>12. ASSUME NEW a \in Actor, Begin(a) PROVE PhaseInv'
    BY <1>12 DEF Begin
<1>13. ASSUME NEW a \in Actor, EndBody(a) PROVE PhaseInv'
    BY <1>13 DEF EndBody
<1>14. ASSUME NEW a \in Actor, FinishNotify(a) PROVE PhaseInv'
    BY <1>14 DEF FinishNotify, G!NotifyAll
<1>15. ASSUME NEW a \in Actor, FinishDelete(a) PROVE PhaseInv'
    BY <1>15 DEF FinishDelete, G!Exit
<1>16. ASSUME NEW a \in Actor, DestroyShared(a) PROVE PhaseInv'
    BY <1>16 DEF DestroyShared
<1>17. ASSUME NEW a \in Actor, DestroyLast(a) PROVE PhaseInv'
    BY <1>17 DEF DestroyLast, G!Exit
<1>18. ASSUME NEW a \in Actor, NEW p \in Proc, CallStart(a, p) PROVE PhaseInv'
    BY <1>18 DEF CallStart
<1>19. CASE UNCHANGED vars
    BY <1>19 DEF vars
<1>20. QED
    BY <1>1, <1>2, <1>3, <1>4, <1>5, <1>6, <1>7, <1>8, <1>9, <1>10, <1>11, <1>12, <1>13, <1>14, <1>15, <1>16, <1>17, <1>18, <1>19 DEF Next, Work, Calls

LEMMA StepSleep == IInv /\ [Next]_vars => SleepInv'
<1> SUFFICES ASSUME IInv, [Next]_vars PROVE SleepInv'
    OBVIOUS
<1>0. TypeOK'
    BY StepTypeOK
<1> USE <1>0, ActorAssumption DEF IInv, TypeOK, SleepInv, Goto, gvars
<1>1. ASSUME NEW a \in Actor, CallLock(a) PROVE SleepInv'
    BY <1>1 DEF CallLock, Call
<1>2. ASSUME NEW a \in Actor, CallUnlock(a) PROVE SleepInv'
    BY <1>2 DEF CallUnlock, Call
<1>3. ASSUME NEW a \in Actor, CallDelete(a) PROVE SleepInv'
    BY <1>3 DEF CallDelete, Call
<1>4. ASSUME NEW a \in Actor, Enter(a) PROVE SleepInv'
    BY <1>4 DEF Enter, G!Enter
<1>5. ASSUME NEW a \in Actor, Resume(a) PROVE SleepInv'
    BY <1>5 DEF Resume, G!Reenter
<1>6. ASSUME NEW a \in Actor, Spurious(a) PROVE SleepInv'
    BY <1>6 DEF Spurious, G!Spurious
<1>7. ASSUME NEW a \in Actor, Leave(a) PROVE SleepInv'
    BY <1>7 DEF Leave, G!Exit
<1>8. ASSUME NEW a \in Actor, AwaitFree(a) PROVE SleepInv'
    BY <1>8 DEF AwaitFree, G!Wait
<1>9. ASSUME NEW a \in Actor, TakeLock(a) PROVE SleepInv'
    BY <1>9 DEF TakeLock
<1>10. ASSUME NEW a \in Actor, ReleaseLock(a) PROVE SleepInv'
    BY <1>10 DEF ReleaseLock, G!NotifyAll
<1>11. ASSUME NEW a \in Actor, Launch(a) PROVE SleepInv'
    BY <1>11 DEF Launch
<1>12. ASSUME NEW a \in Actor, Begin(a) PROVE SleepInv'
    BY <1>12 DEF Begin
<1>13. ASSUME NEW a \in Actor, EndBody(a) PROVE SleepInv'
    BY <1>13 DEF EndBody
<1>14. ASSUME NEW a \in Actor, FinishNotify(a) PROVE SleepInv'
    BY <1>14 DEF FinishNotify, G!NotifyAll
<1>15. ASSUME NEW a \in Actor, FinishDelete(a) PROVE SleepInv'
    BY <1>15 DEF FinishDelete, G!Exit
<1>16. ASSUME NEW a \in Actor, DestroyShared(a) PROVE SleepInv'
    BY <1>16 DEF DestroyShared
<1>17. ASSUME NEW a \in Actor, DestroyLast(a) PROVE SleepInv'
    BY <1>17 DEF DestroyLast, G!Exit
<1>18. ASSUME NEW a \in Actor, NEW p \in Proc, CallStart(a, p) PROVE SleepInv'
    BY <1>18 DEF CallStart
<1>19. CASE UNCHANGED vars
    BY <1>19 DEF vars
<1>20. QED
    BY <1>1, <1>2, <1>3, <1>4, <1>5, <1>6, <1>7, <1>8, <1>9, <1>10, <1>11, <1>12, <1>13, <1>14, <1>15, <1>16, <1>17, <1>18, <1>19 DEF Next, Work, Calls

LEMMA StepDelete == IInv /\ [Next]_vars => DeleteInv'
<1> SUFFICES ASSUME IInv, [Next]_vars PROVE DeleteInv'
    OBVIOUS
<1>0. TypeOK'
    BY StepTypeOK
<1> USE <1>0, ActorAssumption DEF IInv, TypeOK, PhaseInv, DeleteInv, Goto, Actor, Ops, fields
<1>1. ASSUME NEW a \in Actor, CallLock(a) PROVE DeleteInv'
    BY <1>1 DEF CallLock, Call
<1>2. ASSUME NEW a \in Actor, CallUnlock(a) PROVE DeleteInv'
    BY <1>2 DEF CallUnlock, Call
<1>3. ASSUME NEW a \in Actor, CallDelete(a) PROVE DeleteInv'
    BY <1>3 DEF CallDelete, Call
<1>4. ASSUME NEW a \in Actor, Enter(a) PROVE DeleteInv'
    BY <1>4 DEF Enter, G!Enter
<1>5. ASSUME NEW a \in Actor, Resume(a) PROVE DeleteInv'
    BY <1>5 DEF Resume, G!Reenter
<1>6. ASSUME NEW a \in Actor, Spurious(a) PROVE DeleteInv'
    BY <1>6 DEF Spurious, G!Spurious
<1>7. ASSUME NEW a \in Actor, Leave(a) PROVE DeleteInv'
    BY <1>7 DEF Leave, G!Exit
<1>8. ASSUME NEW a \in Actor, AwaitFree(a) PROVE DeleteInv'
    BY <1>8 DEF AwaitFree, G!Wait
<1>9. ASSUME NEW a \in Actor, TakeLock(a) PROVE DeleteInv'
    BY <1>9 DEF TakeLock
<1>10. ASSUME NEW a \in Actor, ReleaseLock(a) PROVE DeleteInv'
    BY <1>10 DEF ReleaseLock, G!NotifyAll
<1>11. ASSUME NEW a \in Actor, Launch(a) PROVE DeleteInv'
    BY <1>11 DEF Launch
<1>12. ASSUME NEW a \in Actor, Begin(a) PROVE DeleteInv'
    BY <1>12 DEF Begin
<1>13. ASSUME NEW a \in Actor, EndBody(a) PROVE DeleteInv'
    BY <1>13 DEF EndBody
<1>14. ASSUME NEW a \in Actor, FinishNotify(a) PROVE DeleteInv'
    BY <1>14 DEF FinishNotify, G!NotifyAll
<1>15. ASSUME NEW a \in Actor, FinishDelete(a) PROVE DeleteInv'
    BY <1>15 DEF FinishDelete, G!Exit
<1>16. ASSUME NEW a \in Actor, DestroyShared(a) PROVE DeleteInv'
    BY <1>16 DEF DestroyShared
<1>17. ASSUME NEW a \in Actor, DestroyLast(a) PROVE DeleteInv'
    BY <1>17 DEF DestroyLast, G!Exit
<1>18. ASSUME NEW a \in Actor, NEW p \in Proc, CallStart(a, p) PROVE DeleteInv'
    BY <1>18 DEF CallStart
<1>19. CASE UNCHANGED vars
    BY <1>19 DEF vars
<1>20. QED
    BY <1>1, <1>2, <1>3, <1>4, <1>5, <1>6, <1>7, <1>8, <1>9, <1>10, <1>11, <1>12, <1>13, <1>14, <1>15, <1>16, <1>17, <1>18, <1>19 DEF Next, Work, Calls

\* Whoever uses the guard stands for a reference to it, or has it locked.
LEMMA GuardUse == IInv => GuardOutlivesUse
<1> SUFFICES ASSUME IInv, NEW a \in Actor, at[a] # "out" PROVE guard = "live"
    BY DEF GuardOutlivesUse
<1> USE DEF IInv, TypeOK
<1>1. at[a] = "exit" => guard = "live"
    BY DEF LeaveInv
<1>2. at[a] # "exit" => HandleRef \/ Active # {}
    <2>1. op[a] \in Ops \cup {"run", "finish"}
        BY DEF PhaseInv, Ops, Actor
    <2>2. op[a] \in {"lock", "start", "unlock"} => HandleRef
        BY DEF DeleteInv, HandleRef
    <2>3. op[a] = "delete" /\ at[a] # "exit" => HandleRef
        BY DEF HandleRef, PhaseInv
    <2>4. op[a] \in {"run", "finish"} /\ at[a] # "exit" => a \in Active
        BY DEF Active, PhaseInv
    <2>5. QED
        BY <2>1, <2>2, <2>3, <2>4 DEF Ops
<1>3. HandleRef \/ Active # {} => count > 0
    BY DEF CountInv
<1>4. QED
    BY <1>1, <1>2, <1>3 DEF GuardInv

LEMMA StepLeave == IInv /\ [Next]_vars => LeaveInv'
<1> SUFFICES ASSUME IInv, [Next]_vars PROVE LeaveInv'
    OBVIOUS
<1>0. TypeOK'
    BY StepTypeOK
<1> USE <1>0, ActorAssumption, GuardUse DEF IInv, TypeOK, PhaseInv, GuardInv, LeaveInv, GuardOutlivesUse, Goto, fields
<1>1. ASSUME NEW a \in Actor, CallLock(a) PROVE LeaveInv'
    BY <1>1 DEF CallLock, Call
<1>2. ASSUME NEW a \in Actor, CallUnlock(a) PROVE LeaveInv'
    BY <1>2 DEF CallUnlock, Call
<1>3. ASSUME NEW a \in Actor, CallDelete(a) PROVE LeaveInv'
    BY <1>3 DEF CallDelete, Call
<1>4. ASSUME NEW a \in Actor, Enter(a) PROVE LeaveInv'
    BY <1>4 DEF Enter, G!Enter
<1>5. ASSUME NEW a \in Actor, Resume(a) PROVE LeaveInv'
    BY <1>5 DEF Resume, G!Reenter
<1>6. ASSUME NEW a \in Actor, Spurious(a) PROVE LeaveInv'
    BY <1>6 DEF Spurious, G!Spurious
<1>7. ASSUME NEW a \in Actor, Leave(a) PROVE LeaveInv'
    BY <1>7 DEF Leave, G!Exit
<1>8. ASSUME NEW a \in Actor, AwaitFree(a) PROVE LeaveInv'
    BY <1>8 DEF AwaitFree, G!Wait
<1>9. ASSUME NEW a \in Actor, TakeLock(a) PROVE LeaveInv'
    BY <1>9 DEF TakeLock
<1>10. ASSUME NEW a \in Actor, ReleaseLock(a) PROVE LeaveInv'
    BY <1>10 DEF ReleaseLock, G!NotifyAll
<1>11. ASSUME NEW a \in Actor, Launch(a) PROVE LeaveInv'
    BY <1>11 DEF Launch
<1>12. ASSUME NEW a \in Actor, Begin(a) PROVE LeaveInv'
    BY <1>12 DEF Begin
<1>13. ASSUME NEW a \in Actor, EndBody(a) PROVE LeaveInv'
    BY <1>13 DEF EndBody
<1>14. ASSUME NEW a \in Actor, FinishNotify(a) PROVE LeaveInv'
    BY <1>14 DEF FinishNotify, G!NotifyAll
<1>15. ASSUME NEW a \in Actor, FinishDelete(a) PROVE LeaveInv'
    BY <1>15 DEF FinishDelete, G!Exit
<1>16. ASSUME NEW a \in Actor, DestroyShared(a) PROVE LeaveInv'
    BY <1>16 DEF DestroyShared
<1>17. ASSUME NEW a \in Actor, DestroyLast(a) PROVE LeaveInv'
    BY <1>17 DEF DestroyLast, G!Exit
<1>18. ASSUME NEW a \in Actor, NEW p \in Proc, CallStart(a, p) PROVE LeaveInv'
    BY <1>18 DEF CallStart
<1>19. CASE UNCHANGED vars
    BY <1>19 DEF vars
<1>20. QED
    BY <1>1, <1>2, <1>3, <1>4, <1>5, <1>6, <1>7, <1>8, <1>9, <1>10, <1>11, <1>12, <1>13, <1>14, <1>15, <1>16, <1>17, <1>18, <1>19 DEF Next, Work, Calls
-----------------------------------------------------------------------------
\* What a step does to the references is all that the rest depends on.
RefInv == ActiveInv /\ CountInv /\ GuardInv /\ FlagInv

SameRefs ==
    /\ Active' = Active
    /\ HandleRef' <=> HandleRef
    /\ UNCHANGED <<guard, count>>

LEMMA KeepRefs ==
    ASSUME IInv, SameRefs,
           isThread' = isThread,
           isLocked' => isLocked \/ ~isThread
    PROVE  RefInv'
BY DEF IInv, SameRefs, RefInv, ActiveInv, CountInv, GuardInv, FlagInv

LEMMA StepRefs == IInv /\ [Next]_vars => RefInv'
<1> SUFFICES ASSUME IInv, [Next]_vars PROVE RefInv'
    OBVIOUS
<1>0. TypeOK /\ TypeOK' /\ PhaseInv /\ DeleteInv /\ ActiveInv /\ CountInv /\ GuardInv /\ FlagInv
    BY StepTypeOK DEF IInv
<1> USE <1>0, ActorAssumption
<1>1. ASSUME NEW a \in Actor, CallLock(a) PROVE RefInv'
    <2>1. Active' = Active
        BY <1>1 DEF CallLock, Call, Active, Goto, TypeOK, PhaseInv, Actor, Ops, fields
    <2>2. HandleRef' <=> HandleRef
        BY <1>1 DEF CallLock, Call, HandleRef, Goto, TypeOK, PhaseInv, DeleteInv, Ops, fields
    <2>3. UNCHANGED <<guard, count, isThread>> /\ (isLocked' => isLocked \/ ~isThread)
        BY <1>1 DEF CallLock, Call, fields
    <2>4. QED
        BY <2>1, <2>2, <2>3, KeepRefs DEF SameRefs
<1>2. ASSUME NEW a \in Actor, CallUnlock(a) PROVE RefInv'
    <2>1. Active' = Active
        BY <1>2 DEF CallUnlock, Call, Active, Goto, TypeOK, PhaseInv, Actor, Ops, fields
    <2>2. HandleRef' <=> HandleRef
        BY <1>2 DEF CallUnlock, Call, HandleRef, Goto, TypeOK, PhaseInv, DeleteInv, Ops, fields
    <2>3. UNCHANGED <<guard, count, isThread>> /\ (isLocked' => isLocked \/ ~isThread)
        BY <1>2 DEF CallUnlock, Call, fields
    <2>4. QED
        BY <2>1, <2>2, <2>3, KeepRefs DEF SameRefs
<1>3. ASSUME NEW a \in Actor, CallDelete(a) PROVE RefInv'
    <2>1. Active' = Active
        BY <1>3 DEF CallDelete, Call, Active, Goto, TypeOK, PhaseInv, Actor, Ops, fields
    <2>2. HandleRef' <=> HandleRef
        BY <1>3 DEF CallDelete, Call, HandleRef, Goto, TypeOK, PhaseInv, DeleteInv, Ops, fields
    <2>3. UNCHANGED <<guard, count, isThread>> /\ (isLocked' => isLocked \/ ~isThread)
        BY <1>3 DEF CallDelete, Call, fields
    <2>4. QED
        BY <2>1, <2>2, <2>3, KeepRefs DEF SameRefs
<1>4. ASSUME NEW a \in Actor, Enter(a) PROVE RefInv'
    <2>1. Active' = Active
        BY <1>4 DEF Enter, Active, Goto, TypeOK, PhaseInv, Actor, Ops, fields
    <2>2. HandleRef' <=> HandleRef
        BY <1>4 DEF Enter, HandleRef, Goto, TypeOK, PhaseInv, DeleteInv, Ops, fields
    <2>3. UNCHANGED <<guard, count, isThread>> /\ (isLocked' => isLocked \/ ~isThread)
        BY <1>4 DEF Enter, fields
    <2>4. QED
        BY <2>1, <2>2, <2>3, KeepRefs DEF SameRefs
<1>5. ASSUME NEW a \in Actor, Resume(a) PROVE RefInv'
    <2>1. Active' = Active
        BY <1>5 DEF Resume, Active, Goto, TypeOK, PhaseInv, Actor, Ops, fields
    <2>2. HandleRef' <=> HandleRef
        BY <1>5 DEF Resume, HandleRef, Goto, TypeOK, PhaseInv, DeleteInv, Ops, fields
    <2>3. UNCHANGED <<guard, count, isThread>> /\ (isLocked' => isLocked \/ ~isThread)
        BY <1>5 DEF Resume, fields
    <2>4. QED
        BY <2>1, <2>2, <2>3, KeepRefs DEF SameRefs
<1>6. ASSUME NEW a \in Actor, Spurious(a) PROVE RefInv'
    <2>1. Active' = Active
        BY <1>6 DEF Spurious, Active, Goto, TypeOK, PhaseInv, Actor, Ops, fields
    <2>2. HandleRef' <=> HandleRef
        BY <1>6 DEF Spurious, HandleRef, Goto, TypeOK, PhaseInv, DeleteInv, Ops, fields
    <2>3. UNCHANGED <<guard, count, isThread>> /\ (isLocked' => isLocked \/ ~isThread)
        BY <1>6 DEF Spurious, fields
    <2>4. QED
        BY <2>1, <2>2, <2>3, KeepRefs DEF SameRefs
<1>7. ASSUME NEW a \in Actor, Leave(a) PROVE RefInv'
    <2>1. Active' = Active
        BY <1>7 DEF Leave, Active, Goto, TypeOK, PhaseInv, Actor, Ops, fields
    <2>2. HandleRef' <=> HandleRef
        BY <1>7 DEF Leave, HandleRef, Goto, TypeOK, PhaseInv, DeleteInv, Ops, fields
    <2>3. UNCHANGED <<guard, count, isThread>> /\ (isLocked' => isLocked \/ ~isThread)
        BY <1>7 DEF Leave, fields
    <2>4. QED
        BY <2>1, <2>2, <2>3, KeepRefs DEF SameRefs
<1>8. ASSUME NEW a \in Actor, AwaitFree(a) PROVE RefInv'
    <2>1. Active' = Active
        BY <1>8 DEF AwaitFree, Active, Goto, TypeOK, PhaseInv, Actor, Ops, fields
    <2>2. HandleRef' <=> HandleRef
        BY <1>8 DEF AwaitFree, HandleRef, Goto, TypeOK, PhaseInv, DeleteInv, Ops, fields
    <2>3. UNCHANGED <<guard, count, isThread>> /\ (isLocked' => isLocked \/ ~isThread)
        BY <1>8 DEF AwaitFree, fields
    <2>4. QED
        BY <2>1, <2>2, <2>3, KeepRefs DEF SameRefs
<1>9. ASSUME NEW a \in Actor, TakeLock(a) PROVE RefInv'
    <2>1. Active' = Active
        BY <1>9 DEF TakeLock, Active, Goto, TypeOK, PhaseInv, Actor, Ops, fields
    <2>2. HandleRef' <=> HandleRef
        BY <1>9 DEF TakeLock, HandleRef, Goto, TypeOK, PhaseInv, DeleteInv, Ops, fields
    <2>3. UNCHANGED <<guard, count, isThread>> /\ (isLocked' => isLocked \/ ~isThread)
        BY <1>9 DEF TakeLock, fields
    <2>4. QED
        BY <2>1, <2>2, <2>3, KeepRefs DEF SameRefs
<1>10. ASSUME NEW a \in Actor, ReleaseLock(a) PROVE RefInv'
    <2>1. Active' = Active
        BY <1>10 DEF ReleaseLock, Active, Goto, TypeOK, PhaseInv, Actor, Ops, fields
    <2>2. HandleRef' <=> HandleRef
        BY <1>10 DEF ReleaseLock, HandleRef, Goto, TypeOK, PhaseInv, DeleteInv, Ops, fields
    <2>3. UNCHANGED <<guard, count, isThread>> /\ (isLocked' => isLocked \/ ~isThread)
        BY <1>10 DEF ReleaseLock, fields
    <2>4. QED
        BY <2>1, <2>2, <2>3, KeepRefs DEF SameRefs
<1>11. ASSUME NEW a \in Actor, Begin(a) PROVE RefInv'
    <2>1. Active' = Active
        BY <1>11 DEF Begin, Active, Goto, TypeOK, PhaseInv, Actor, Ops, fields
    <2>2. HandleRef' <=> HandleRef
        BY <1>11 DEF Begin, HandleRef, Goto, TypeOK, PhaseInv, DeleteInv, Ops, fields
    <2>3. UNCHANGED <<guard, count, isThread>> /\ (isLocked' => isLocked \/ ~isThread)
        BY <1>11 DEF Begin, fields
    <2>4. QED
        BY <2>1, <2>2, <2>3, KeepRefs DEF SameRefs
<1>12. ASSUME NEW a \in Actor, EndBody(a) PROVE RefInv'
    <2>1. Active' = Active
        BY <1>12 DEF EndBody, Active, Goto, TypeOK, PhaseInv, Actor, Ops, fields
    <2>2. HandleRef' <=> HandleRef
        BY <1>12 DEF EndBody, HandleRef, Goto, TypeOK, PhaseInv, DeleteInv, Ops, fields
    <2>3. UNCHANGED <<guard, count, isThread>> /\ (isLocked' => isLocked \/ ~isThread)
        BY <1>12 DEF EndBody, fields
    <2>4. QED
        BY <2>1, <2>2, <2>3, KeepRefs DEF SameRefs
<1>13. ASSUME NEW a \in Actor, NEW p \in Proc, CallStart(a, p) PROVE RefInv'
    <2>1. Active' = Active
        BY <1>13 DEF CallStart, Active, Goto, TypeOK, PhaseInv, Actor, Ops, fields
    <2>2. HandleRef' <=> HandleRef
        BY <1>13 DEF CallStart, HandleRef, Goto, TypeOK, PhaseInv, DeleteInv, Ops, fields
    <2>3. UNCHANGED <<guard, count, isThread>> /\ (isLocked' => isLocked \/ ~isThread)
        BY <1>13 DEF CallStart, fields
    <2>4. QED
        BY <2>1, <2>2, <2>3, KeepRefs DEF SameRefs
<1>14. ASSUME NEW a \in Actor, Launch(a) PROVE RefInv'
    <2>1. PICK p \in Proc : /\ op[p] = "given"
                           /\ \/ op' = [op EXCEPT ![p] = "run"]
                              \/ op' = [op EXCEPT ![p] = "lost"]
        BY <1>14 DEF Launch
    <2>2. obj = "live" /\ obj' = "live" /\ HandleRef /\ HandleRef'
        BY <1>14 DEF Launch, DeleteInv, HandleRef
    <2>3. Active = {}
        BY <1>14, <2>2 DEF Launch, FlagInv
    <2>4. Active' = {p}
        BY <1>14, <2>1, <2>3 DEF Active, Launch, Goto, TypeOK, PhaseInv, Actor, Ops
    <2>5. count = 1 /\ count' = 2 /\ guard' = guard /\ isThread' /\ ~isLocked'
        BY <1>14, <2>2, <2>3 DEF Launch, CountInv
    <2>6. QED
        BY <2>2, <2>4, <2>5 DEF RefInv, ActiveInv, CountInv, GuardInv, FlagInv
<1>15. ASSUME NEW a \in Actor, FinishNotify(a) PROVE RefInv'
    <2>1. op[a] = "finish" /\ at[a] = "in" /\ a \in Proc
        BY <1>15 DEF FinishNotify, Goto, PhaseInv
    <2>2. Active = {a}
        BY <2>1 DEF Active, ActiveInv
    <2>3. Active' = {}
        BY <1>15, <2>1, <2>2 DEF FinishNotify, Active, Goto, TypeOK, Actor
    <2>4. HandleRef' <=> HandleRef
        BY <1>15, <2>1 DEF FinishNotify, HandleRef, Goto, TypeOK
    <2>5. /\ count' = count - 1 /\ count' > 0 /\ count \in 0 .. 2
          /\ isThread' = FALSE /\ guard' = guard
        BY <1>15 DEF FinishNotify, TypeOK
    <2>6. QED
        BY <2>2, <2>3, <2>4, <2>5 DEF RefInv, ActiveInv, CountInv, GuardInv, FlagInv
<1>16. ASSUME NEW a \in Actor, FinishDelete(a) PROVE RefInv'
    <2>1. op[a] = "finish" /\ at[a] = "in" /\ a \in Proc
        BY <1>16 DEF FinishDelete, Goto, PhaseInv
    <2>2. Active = {a}
        BY <2>1 DEF Active, ActiveInv
    <2>3. Active' = {}
        BY <1>16, <2>1, <2>2 DEF FinishDelete, Active, Goto, TypeOK, Actor
    <2>4. HandleRef' <=> HandleRef
        BY <1>16, <2>1 DEF FinishDelete, HandleRef, Goto, TypeOK
    <2>5. count' = count - 1 /\ count' = 0 /\ count \in 0 .. 2 /\ guard' = "freed"
        BY <1>16 DEF FinishDelete, TypeOK
    <2>6. QED
        BY <2>2, <2>3, <2>4, <2>5 DEF RefInv, ActiveInv, CountInv, GuardInv, FlagInv
<1>17. ASSUME NEW a \in Actor, DestroyShared(a) PROVE RefInv'
    <2>1. op[a] = "delete" /\ at[a] = "in" /\ obj = "dying"
        BY <1>17 DEF DestroyShared, Goto, DeleteInv
    <2>2. HandleRef
        BY <2>1 DEF HandleRef
    <2>3. ~HandleRef'
        BY <1>17, <2>1 DEF DestroyShared, HandleRef, Goto, TypeOK, DeleteInv, Ops
    <2>4. Active' = Active
        BY <1>17, <2>1 DEF DestroyShared, Active, Goto, TypeOK, PhaseInv, Actor
    <2>5. count' = count - 1 /\ count' > 0 /\ count \in 0 .. 2 /\ guard' = guard
        BY <1>17 DEF DestroyShared, TypeOK
    <2>6. QED
        BY <2>2, <2>3, <2>4, <2>5 DEF RefInv, ActiveInv, CountInv, GuardInv, FlagInv
<1>18. ASSUME NEW a \in Actor, DestroyLast(a) PROVE RefInv'
    <2>1. op[a] = "delete" /\ at[a] = "in" /\ obj = "dying"
        BY <1>18 DEF DestroyLast, Goto, DeleteInv
    <2>2. HandleRef
        BY <2>1 DEF HandleRef
    <2>3. ~HandleRef'
        BY <1>18, <2>1 DEF DestroyLast, HandleRef, Goto, TypeOK, DeleteInv, Ops
    <2>4. Active' = Active
        BY <1>18, <2>1 DEF DestroyLast, Active, Goto, TypeOK, PhaseInv, Actor
    <2>5. count' = count - 1 /\ count' = 0 /\ count \in 0 .. 2 /\ guard' = "freed"
        BY <1>18 DEF DestroyLast, TypeOK
    <2>6. QED
        BY <2>2, <2>3, <2>4, <2>5 DEF RefInv, ActiveInv, CountInv, GuardInv, FlagInv
<1>19. CASE UNCHANGED vars
    BY <1>19, KeepRefs DEF vars, fields, SameRefs, Active, HandleRef
<1>20. QED
    BY <1>1, <1>2, <1>3, <1>4, <1>5, <1>6, <1>7, <1>8, <1>9, <1>10, <1>11, <1>12, <1>13, <1>14, <1>15, <1>16, <1>17, <1>18, <1>19 DEF Next, Work, Calls

LEMMA StepIInv == IInv /\ [Next]_vars => IInv'
BY StepTypeOK, StepPhase, StepSleep, StepDelete, StepLeave, StepRefs DEF IInv, RefInv
-----------------------------------------------------------------------------
\* The inductive invariant holds in every reachable state.
THEOREM Invariance == Spec => []IInv
<1>1. IInv /\ UNCHANGED vars => IInv'
    BY StepIInv
<1>2. QED
    BY InitIInv, StepIInv, PTL DEF Spec

\* The variables of Thread, ThreadProcedure and CountedMonitor have their types;
\* in particular the reference count is never negative and never above two.
THEOREM Typing == Spec => []TypeOK
<1>1. IInv => TypeOK
    BY DEF IInv
<1>2. QED
    BY <1>1, Invariance, PTL

\* CountedMonitor is not deleted while a thread is in it or on its way in,
\* whichever of Thread::~Thread and ThreadProcedure::run comes last.
THEOREM GuardIsSafe == Spec => []GuardOutlivesUse
BY GuardUse, Invariance, PTL

\* A client that has locked a Thread knows that its procedure is over.
THEOREM LockJoins == Spec => []JoinedWhenLocked
<1>1. IInv => JoinedWhenLocked
    <2> SUFFICES ASSUME IInv, isLocked, obj = "live" PROVE Running = {}
        BY DEF JoinedWhenLocked
    <2>1. HandleRef
        BY DEF HandleRef
    <2>2. Active = {}
        BY <2>1 DEF IInv, FlagInv
    <2>3. Running \subseteq Active
        BY DEF Running, Active
    <2>4. QED
        BY <2>2, <2>3
<1>2. QED
    BY <1>1, Invariance, PTL

\* ThreadProcedure::run does not write Thread::isThread after the Thread is gone.
THEOREM NoLateWrite == Spec => NoWriteAfterDelete
<1>1. IInv /\ [Next]_vars => [isThread' # isThread => obj # "freed"]_vars
    <2> SUFFICES ASSUME IInv, [Next]_vars, isThread' # isThread PROVE obj # "freed"
        OBVIOUS
    <2>1. PICK a \in Actor : Launch(a) \/ FinishNotify(a)
        BY DEF Next, Work, Calls, vars, fields, CallLock, CallUnlock, CallDelete, CallStart,
               Enter, Resume, Spurious, Leave, AwaitFree, TakeLock, ReleaseLock, Begin,
               EndBody, FinishDelete, DestroyShared, DestroyLast
    <2>2. CASE Launch(a)
        BY <2>2 DEF Launch, IInv, DeleteInv
    <2>3. CASE FinishNotify(a)
        <3>1. op[a] = "finish" /\ at[a] = "in" /\ a \in Proc
            BY <2>3 DEF FinishNotify, Goto, IInv, PhaseInv
        <3>2. count = 2
            <4>1. count - 1 > 0 /\ count \in 0 .. 2
                BY <2>3 DEF FinishNotify, IInv, TypeOK
            <4>2. QED
                BY <4>1
        <3>3. HandleRef
            BY <3>2 DEF IInv, CountInv
        <3>4. QED
            BY <3>3 DEF HandleRef, IInv, DeleteInv
    <2>4. QED
        BY <2>1, <2>2, <2>3
<1>2. QED
    BY <1>1, Invariance, PTL DEF Spec, NoWriteAfterDelete

\* When the Thread has been deleted and every procedure has ended, so has the
\* guard: neither side leaves it to the other.
THEOREM NoSpaceLeak == Spec => []NoLeak
<1>1. IInv => NoLeak
    <2> SUFFICES ASSUME IInv, obj = "freed",
                        \A c \in Client : op[c] = "caller",
                        \A p \in Proc : op[p] \in {"unborn", "done"}
                 PROVE  guard = "freed"
        BY DEF NoLeak
    <2>1. ~HandleRef /\ Active = {}
        BY DEF HandleRef, Active, Actor
    <2>2. count = 0
        BY <2>1 DEF IInv, CountInv
    <2>3. QED
        BY <2>2 DEF IInv, GuardInv, TypeOK
<1>2. QED
    BY <1>1, Invariance, PTL

\* Thread::unlock takes the lock from nobody but the calling thread.
THEOREM OwnUnlock == Spec => OnlyHolderUnlocks
<1>1. IInv /\ [Next]_vars =>
      [isLocked /\ ~isLocked' => op[lockingThread] = "unlock" /\ at'[lockingThread] # at[lockingThread]]_vars
    <2> SUFFICES ASSUME IInv, [Next]_vars, isLocked, ~isLocked'
                 PROVE  op[lockingThread] = "unlock" /\ at'[lockingThread] # at[lockingThread]
        OBVIOUS
    <2>1. PICK a \in Actor : ReleaseLock(a)
        BY DEF Next, Work, Calls, vars, fields, CallLock, CallUnlock, CallDelete, CallStart,
               Enter, Resume, Spurious, Leave, AwaitFree, TakeLock, Launch, Begin,
               EndBody, FinishNotify, FinishDelete, DestroyShared, DestroyLast
    <2>2. HoldsThread(a)
        BY <2>1 DEF ReleaseLock
    <2>3. QED
        BY <2>1, <2>2 DEF ReleaseLock, HoldsThread, Goto, IInv, TypeOK
<1>2. QED
    BY <1>1, Invariance, PTL DEF Spec, OnlyHolderUnlocks
-----------------------------------------------------------------------------
(* The refinement: with disciplined callers a Thread is the lock that       *)
(* threads.h describes.                                                     *)

\* Only clients call lock and start, and locking_thread is the holder.
HolderInv ==
    /\ \A a \in Actor : op[a] \in {"lock", "start"} => a \in Client
    /\ isLocked => lockingThread \in Client
    /\ isThread /\ HandleRef => lockingThread \in Active

LEMMA StepHolder == Disciplined /\ IInv /\ HolderInv /\ [Next]_vars => HolderInv'
<1> SUFFICES ASSUME Disciplined, IInv, HolderInv, [Next]_vars PROVE HolderInv'
    OBVIOUS
<1>0. TypeOK' /\ IInv'
    BY StepIInv DEF IInv
<1> USE ActorAssumption DEF HolderInv, Goto, Actor, Ops
<1>1. ASSUME NEW a \in Actor, CallLock(a) PROVE HolderInv'
    <2>1. UNCHANGED <<isLocked, isThread, lockingThread>>
        BY <1>1 DEF CallLock, Call, fields
    <2>2. (HandleRef' => HandleRef) /\ Active \subseteq Active' \cup (IF isThread /\ HandleRef' THEN {} ELSE Active)
        BY <1>1 DEF CallLock, Call, HandleRef, Active, IInv, TypeOK, PhaseInv, DeleteInv, CountInv, fields
    <2>3. \A b \in Actor : op'[b] \in {"lock", "start"} => b \in Client
        BY <1>1 DEF CallLock, Call, Disciplined, IInv, TypeOK, fields
    <2>4. QED
        BY <2>1, <2>2, <2>3
<1>2. ASSUME NEW a \in Actor, CallUnlock(a) PROVE HolderInv'
    <2>1. UNCHANGED <<isLocked, isThread, lockingThread>>
        BY <1>2 DEF CallUnlock, Call, fields
    <2>2. (HandleRef' => HandleRef) /\ Active \subseteq Active' \cup (IF isThread /\ HandleRef' THEN {} ELSE Active)
        BY <1>2 DEF CallUnlock, Call, HandleRef, Active, IInv, TypeOK, PhaseInv, DeleteInv, CountInv, fields
    <2>3. \A b \in Actor : op'[b] \in {"lock", "start"} => b \in Client
        BY <1>2 DEF CallUnlock, Call, Disciplined, IInv, TypeOK, fields
    <2>4. QED
        BY <2>1, <2>2, <2>3
<1>3. ASSUME NEW a \in Actor, CallDelete(a) PROVE HolderInv'
    <2>1. UNCHANGED <<isLocked, isThread, lockingThread>>
        BY <1>3 DEF CallDelete, Call, fields
    <2>2. (HandleRef' => HandleRef) /\ Active \subseteq Active' \cup (IF isThread /\ HandleRef' THEN {} ELSE Active)
        BY <1>3 DEF CallDelete, Call, HandleRef, Active, IInv, TypeOK, PhaseInv, DeleteInv, CountInv, fields
    <2>3. \A b \in Actor : op'[b] \in {"lock", "start"} => b \in Client
        BY <1>3 DEF CallDelete, Call, Disciplined, IInv, TypeOK, fields
    <2>4. QED
        BY <2>1, <2>2, <2>3
<1>4. ASSUME NEW a \in Actor, Enter(a) PROVE HolderInv'
    <2>1. UNCHANGED <<isLocked, isThread, lockingThread>>
        BY <1>4 DEF Enter, G!Enter, fields
    <2>2. (HandleRef' => HandleRef) /\ Active \subseteq Active' \cup (IF isThread /\ HandleRef' THEN {} ELSE Active)
        BY <1>4 DEF Enter, G!Enter, HandleRef, Active, IInv, TypeOK, PhaseInv, DeleteInv, CountInv, fields
    <2>3. \A b \in Actor : op'[b] \in {"lock", "start"} => b \in Client
        BY <1>4 DEF Enter, G!Enter, Disciplined, IInv, TypeOK, fields
    <2>4. QED
        BY <2>1, <2>2, <2>3
<1>5. ASSUME NEW a \in Actor, Resume(a) PROVE HolderInv'
    <2>1. UNCHANGED <<isLocked, isThread, lockingThread>>
        BY <1>5 DEF Resume, G!Reenter, fields
    <2>2. (HandleRef' => HandleRef) /\ Active \subseteq Active' \cup (IF isThread /\ HandleRef' THEN {} ELSE Active)
        BY <1>5 DEF Resume, G!Reenter, HandleRef, Active, IInv, TypeOK, PhaseInv, DeleteInv, CountInv, fields
    <2>3. \A b \in Actor : op'[b] \in {"lock", "start"} => b \in Client
        BY <1>5 DEF Resume, G!Reenter, Disciplined, IInv, TypeOK, fields
    <2>4. QED
        BY <2>1, <2>2, <2>3
<1>6. ASSUME NEW a \in Actor, Spurious(a) PROVE HolderInv'
    <2>1. UNCHANGED <<isLocked, isThread, lockingThread>>
        BY <1>6 DEF Spurious, G!Spurious, fields
    <2>2. (HandleRef' => HandleRef) /\ Active \subseteq Active' \cup (IF isThread /\ HandleRef' THEN {} ELSE Active)
        BY <1>6 DEF Spurious, G!Spurious, HandleRef, Active, IInv, TypeOK, PhaseInv, DeleteInv, CountInv, fields
    <2>3. \A b \in Actor : op'[b] \in {"lock", "start"} => b \in Client
        BY <1>6 DEF Spurious, G!Spurious, Disciplined, IInv, TypeOK, fields
    <2>4. QED
        BY <2>1, <2>2, <2>3
<1>7. ASSUME NEW a \in Actor, Leave(a) PROVE HolderInv'
    <2>1. UNCHANGED <<isLocked, isThread, lockingThread>>
        BY <1>7 DEF Leave, G!Exit, fields
    <2>2. (HandleRef' => HandleRef) /\ Active \subseteq Active' \cup (IF isThread /\ HandleRef' THEN {} ELSE Active)
        BY <1>7 DEF Leave, G!Exit, HandleRef, Active, IInv, TypeOK, PhaseInv, DeleteInv, CountInv, fields
    <2>3. \A b \in Actor : op'[b] \in {"lock", "start"} => b \in Client
        BY <1>7 DEF Leave, G!Exit, Disciplined, IInv, TypeOK, fields
    <2>4. QED
        BY <2>1, <2>2, <2>3
<1>8. ASSUME NEW a \in Actor, AwaitFree(a) PROVE HolderInv'
    <2>1. UNCHANGED <<isLocked, isThread, lockingThread>>
        BY <1>8 DEF AwaitFree, G!Wait, fields
    <2>2. (HandleRef' => HandleRef) /\ Active \subseteq Active' \cup (IF isThread /\ HandleRef' THEN {} ELSE Active)
        BY <1>8 DEF AwaitFree, G!Wait, HandleRef, Active, IInv, TypeOK, PhaseInv, DeleteInv, CountInv, fields
    <2>3. \A b \in Actor : op'[b] \in {"lock", "start"} => b \in Client
        BY <1>8 DEF AwaitFree, G!Wait, Disciplined, IInv, TypeOK, fields
    <2>4. QED
        BY <2>1, <2>2, <2>3
<1>9. ASSUME NEW a \in Actor, Begin(a) PROVE HolderInv'
    <2>1. UNCHANGED <<isLocked, isThread, lockingThread>>
        BY <1>9 DEF Begin, fields
    <2>2. (HandleRef' => HandleRef) /\ Active \subseteq Active' \cup (IF isThread /\ HandleRef' THEN {} ELSE Active)
        BY <1>9 DEF Begin, HandleRef, Active, IInv, TypeOK, PhaseInv, DeleteInv, CountInv, fields
    <2>3. \A b \in Actor : op'[b] \in {"lock", "start"} => b \in Client
        BY <1>9 DEF Begin, Disciplined, IInv, TypeOK, fields
    <2>4. QED
        BY <2>1, <2>2, <2>3
<1>10. ASSUME NEW a \in Actor, FinishDelete(a) PROVE HolderInv'
    <2>1. UNCHANGED <<isLocked, isThread, lockingThread>>
        BY <1>10 DEF FinishDelete, G!Exit, fields
    <2>2. (HandleRef' => HandleRef) /\ Active \subseteq Active' \cup (IF isThread /\ HandleRef' THEN {} ELSE Active)
        BY <1>10 DEF FinishDelete, G!Exit, HandleRef, Active, IInv, TypeOK, PhaseInv, DeleteInv, CountInv, fields
    <2>3. \A b \in Actor : op'[b] \in {"lock", "start"} => b \in Client
        BY <1>10 DEF FinishDelete, G!Exit, Disciplined, IInv, TypeOK, fields
    <2>4. QED
        BY <2>1, <2>2, <2>3
<1>11. ASSUME NEW a \in Actor, DestroyShared(a) PROVE HolderInv'
    <2>1. UNCHANGED <<isLocked, isThread, lockingThread>>
        BY <1>11 DEF DestroyShared, fields
    <2>2. (HandleRef' => HandleRef) /\ Active \subseteq Active' \cup (IF isThread /\ HandleRef' THEN {} ELSE Active)
        BY <1>11 DEF DestroyShared, HandleRef, Active, IInv, TypeOK, PhaseInv, DeleteInv, CountInv, fields
    <2>3. \A b \in Actor : op'[b] \in {"lock", "start"} => b \in Client
        BY <1>11 DEF DestroyShared, Disciplined, IInv, TypeOK, fields
    <2>4. QED
        BY <2>1, <2>2, <2>3
<1>12. ASSUME NEW a \in Actor, DestroyLast(a) PROVE HolderInv'
    <2>1. UNCHANGED <<isLocked, isThread, lockingThread>>
        BY <1>12 DEF DestroyLast, G!Exit, fields
    <2>2. (HandleRef' => HandleRef) /\ Active \subseteq Active' \cup (IF isThread /\ HandleRef' THEN {} ELSE Active)
        BY <1>12 DEF DestroyLast, G!Exit, HandleRef, Active, IInv, TypeOK, PhaseInv, DeleteInv, CountInv, fields
    <2>3. \A b \in Actor : op'[b] \in {"lock", "start"} => b \in Client
        BY <1>12 DEF DestroyLast, G!Exit, Disciplined, IInv, TypeOK, fields
    <2>4. QED
        BY <2>1, <2>2, <2>3
<1>13. ASSUME NEW a \in Actor, NEW p \in Proc, CallStart(a, p) PROVE HolderInv'
    <2>1. UNCHANGED <<isLocked, isThread, lockingThread, obj>>
        BY <1>13 DEF CallStart, fields
    <2>2. (HandleRef' => HandleRef) /\ Active \subseteq Active'
        BY <1>13 DEF CallStart, HandleRef, Active, IInv, TypeOK, PhaseInv, DeleteInv, fields
    <2>3. \A b \in Actor : op'[b] \in {"lock", "start"} => b \in Client
        BY <1>13 DEF CallStart, Disciplined, IInv, TypeOK, fields
    <2>4. QED
        BY <2>1, <2>2, <2>3
<1>14. ASSUME NEW a \in Actor, TakeLock(a) PROVE HolderInv'
    BY <1>14 DEF TakeLock, IInv, TypeOK
<1>15. ASSUME NEW a \in Actor, ReleaseLock(a) PROVE HolderInv'
    <2>1. UNCHANGED <<isThread, lockingThread, op, obj>> /\ (isLocked' => isLocked)
        BY <1>15 DEF ReleaseLock
    <2>2. Active \subseteq Active' /\ (HandleRef' => HandleRef)
        BY <1>15 DEF ReleaseLock, Active, HandleRef, IInv, TypeOK, DeleteInv
    <2>3. QED
        BY <2>1, <2>2
<1>16. ASSUME NEW a \in Actor, Launch(a) PROVE HolderInv'
    <2>1. PICK p \in Proc : /\ op[p] = "given"
                           /\ op' = [op EXCEPT ![p] = "run"] /\ lockingThread' = p
        BY <1>16 DEF Launch, Disciplined, CreateMayFail
    <2>2. p \in Active' /\ ~isLocked'
        BY <1>16, <2>1 DEF Launch, Active, IInv, TypeOK
    <2>3. \A b \in Actor : op'[b] \in {"lock", "start"} => b \in Client
        BY <2>1 DEF IInv, TypeOK
    <2>4. QED
        BY <2>1, <2>2, <2>3
<1>17. ASSUME NEW a \in Actor, EndBody(a) PROVE HolderInv'
    <2>1. UNCHANGED <<isLocked, isThread, lockingThread, obj>>
        BY <1>17 DEF EndBody, fields
    <2>2. (HandleRef' => HandleRef) /\ Active \subseteq Active'
        BY <1>17 DEF EndBody, HandleRef, Active, IInv, TypeOK, PhaseInv, DeleteInv, fields
    <2>3. \A b \in Actor : op'[b] \in {"lock", "start"} => b \in Client
        BY <1>17 DEF EndBody, IInv, TypeOK
    <2>4. QED
        BY <2>1, <2>2, <2>3
<1>18. ASSUME NEW a \in Actor, FinishNotify(a) PROVE HolderInv'
    BY <1>18 DEF FinishNotify
<1>19. CASE UNCHANGED vars
    BY <1>19 DEF vars, fields, Active, HandleRef
<1>20. QED
    BY <1>1, <1>2, <1>3, <1>4, <1>5, <1>6, <1>7, <1>8, <1>9, <1>10, <1>11, <1>12, <1>13, <1>14, <1>15, <1>16, <1>17, <1>18, <1>19 DEF Next, Work, Calls

\* The refinement mapping.
holderBar == IF Disciplined /\ (isLocked \/ isThread) THEN lockingThread ELSE None
bodyBar == IF Disciplined THEN Running ELSE {}

LEMMA InitRefines == Init => Lock!Init
BY ActorAssumption DEF Init, Lock!Init, Running, Actor

\* What every step but five leaves alone.
LEMMA Stutters ==
    ASSUME mode' = mode, UNCHANGED <<isLocked, isThread, lockingThread>>, Running' = Running
    PROVE  UNCHANGED <<holderBar, bodyBar>>
BY DEF holderBar, bodyBar, Disciplined

LEMMA StepRefines == IInv /\ (Disciplined => HolderInv) /\ [Next]_vars => [Lock!Next]_<<holderBar, bodyBar>>
<1> SUFFICES ASSUME IInv, Disciplined => HolderInv, [Next]_vars
             PROVE  Lock!Next \/ UNCHANGED <<holderBar, bodyBar>>
    OBVIOUS
<1> DEFINE Refines == Lock!Next \/ UNCHANGED <<holderBar, bodyBar>>
<1>0. mode' = mode
    BY SameMode
<1>00. CASE ~Disciplined
    BY <1>0, <1>00 DEF holderBar, bodyBar, Disciplined
<1>01. CASE Disciplined
    <2> SUFFICES Refines
        OBVIOUS
    <2>0. Disciplined' /\ HolderInv /\ None \notin Actor /\ lockingThread \in Actor
        BY <1>0, <1>01, ActorAssumption DEF Disciplined, IInv, TypeOK, Actor
    <2> USE <1>01
    <2>1. ASSUME NEW a \in Actor, CallLock(a) PROVE Refines
        <3>1. UNCHANGED <<isLocked, isThread, lockingThread>>
            BY <2>1 DEF CallLock, Call, fields
        <3>2. Running' = Running
            BY <2>1 DEF CallLock, Call, fields, Running, Goto, IInv, TypeOK, PhaseInv, Actor, Ops
        <3>3. QED
            BY <1>0, <3>1, <3>2, Stutters
    <2>2. ASSUME NEW a \in Actor, CallUnlock(a) PROVE Refines
        <3>1. UNCHANGED <<isLocked, isThread, lockingThread>>
            BY <2>2 DEF CallUnlock, Call, fields
        <3>2. Running' = Running
            BY <2>2 DEF CallUnlock, Call, fields, Running, Goto, IInv, TypeOK, PhaseInv, Actor, Ops
        <3>3. QED
            BY <1>0, <3>1, <3>2, Stutters
    <2>3. ASSUME NEW a \in Actor, CallDelete(a) PROVE Refines
        <3>1. UNCHANGED <<isLocked, isThread, lockingThread>>
            BY <2>3 DEF CallDelete, Call
        <3>2. Running' = Running
            BY <2>3 DEF CallDelete, Call, Running, Goto, IInv, TypeOK, PhaseInv, Actor, Ops
        <3>3. QED
            BY <1>0, <3>1, <3>2, Stutters
    <2>4. ASSUME NEW a \in Actor, Enter(a) PROVE Refines
        <3>1. UNCHANGED <<isLocked, isThread, lockingThread>>
            BY <2>4 DEF Enter, fields
        <3>2. Running' = Running
            BY <2>4 DEF Enter, fields, Running, Goto, IInv, TypeOK, PhaseInv, Actor, Ops
        <3>3. QED
            BY <1>0, <3>1, <3>2, Stutters
    <2>5. ASSUME NEW a \in Actor, Resume(a) PROVE Refines
        <3>1. UNCHANGED <<isLocked, isThread, lockingThread>>
            BY <2>5 DEF Resume, fields
        <3>2. Running' = Running
            BY <2>5 DEF Resume, fields, Running, Goto, IInv, TypeOK, PhaseInv, Actor, Ops
        <3>3. QED
            BY <1>0, <3>1, <3>2, Stutters
    <2>6. ASSUME NEW a \in Actor, Spurious(a) PROVE Refines
        <3>1. UNCHANGED <<isLocked, isThread, lockingThread>>
            BY <2>6 DEF Spurious, fields
        <3>2. Running' = Running
            BY <2>6 DEF Spurious, fields, Running, Goto, IInv, TypeOK, PhaseInv, Actor, Ops
        <3>3. QED
            BY <1>0, <3>1, <3>2, Stutters
    <2>7. ASSUME NEW a \in Actor, Leave(a) PROVE Refines
        <3>1. UNCHANGED <<isLocked, isThread, lockingThread>>
            BY <2>7 DEF Leave
        <3>2. Running' = Running
            BY <2>7 DEF Leave, Running, Goto, IInv, TypeOK, PhaseInv, Actor, Ops
        <3>3. QED
            BY <1>0, <3>1, <3>2, Stutters
    <2>8. ASSUME NEW a \in Actor, AwaitFree(a) PROVE Refines
        <3>1. UNCHANGED <<isLocked, isThread, lockingThread>>
            BY <2>8 DEF AwaitFree, fields
        <3>2. Running' = Running
            BY <2>8 DEF AwaitFree, fields, Running, Goto, IInv, TypeOK, PhaseInv, Actor, Ops
        <3>3. QED
            BY <1>0, <3>1, <3>2, Stutters
    <2>9. ASSUME NEW a \in Actor, Begin(a) PROVE Refines
        <3>1. UNCHANGED <<isLocked, isThread, lockingThread>>
            BY <2>9 DEF Begin, fields
        <3>2. Running' = Running
            BY <2>9 DEF Begin, fields, Running, Goto, IInv, TypeOK, PhaseInv, Actor, Ops
        <3>3. QED
            BY <1>0, <3>1, <3>2, Stutters
    <2>10. ASSUME NEW a \in Actor, FinishDelete(a) PROVE Refines
        <3>1. UNCHANGED <<isLocked, isThread, lockingThread>>
            BY <2>10 DEF FinishDelete
        <3>2. Running' = Running
            BY <2>10 DEF FinishDelete, Running, Goto, IInv, TypeOK, PhaseInv, Actor, Ops
        <3>3. QED
            BY <1>0, <3>1, <3>2, Stutters
    <2>11. ASSUME NEW a \in Actor, DestroyShared(a) PROVE Refines
        <3>1. UNCHANGED <<isLocked, isThread, lockingThread>>
            BY <2>11 DEF DestroyShared
        <3>2. Running' = Running
            BY <2>11 DEF DestroyShared, Running, Goto, IInv, TypeOK, PhaseInv, Actor, Ops
        <3>3. QED
            BY <1>0, <3>1, <3>2, Stutters
    <2>12. ASSUME NEW a \in Actor, DestroyLast(a) PROVE Refines
        <3>1. UNCHANGED <<isLocked, isThread, lockingThread>>
            BY <2>12 DEF DestroyLast
        <3>2. Running' = Running
            BY <2>12 DEF DestroyLast, Running, Goto, IInv, TypeOK, PhaseInv, Actor, Ops
        <3>3. QED
            BY <1>0, <3>1, <3>2, Stutters
    <2>13. ASSUME NEW a \in Actor, NEW p \in Proc, CallStart(a, p) PROVE Refines
        <3>1. UNCHANGED <<isLocked, isThread, lockingThread>>
            BY <2>13 DEF CallStart, fields
        <3>2. Running' = Running
            BY <2>13 DEF CallStart, Running, Goto, IInv, TypeOK, Actor
        <3>3. QED
            BY <1>0, <3>1, <3>2, Stutters
    <2>14. ASSUME NEW a \in Actor, TakeLock(a) PROVE Refines
        <3>1. a \in Client /\ holderBar = None /\ holderBar' = a /\ bodyBar' = bodyBar
            BY <2>14, <2>0 DEF TakeLock, HolderInv, holderBar, bodyBar, Running
        <3>2. QED
            BY <3>1 DEF Lock!Next, Lock!Lock, holderBar, bodyBar
    <2>15. ASSUME NEW a \in Actor, ReleaseLock(a) PROVE Refines
        <3>1. UNCHANGED <<isThread, lockingThread, op>> /\ Running' = Running
            BY <2>15 DEF ReleaseLock, Running
        <3>2. CASE HoldsThread(a)
            <4>1. HandleRef
                BY <2>15 DEF ReleaseLock, IInv, DeleteInv, HandleRef
            <4>2. isLocked /\ ~isThread /\ ~isLocked' /\ lockingThread = a /\ a \in Client
                BY <2>15, <2>0, <3>2, <4>1 DEF ReleaseLock, HoldsThread, IInv, FlagInv, HolderInv
            <4>3. holderBar = a /\ holderBar' = None /\ bodyBar' = bodyBar
                BY <2>0, <3>1, <4>2 DEF holderBar, bodyBar
            <4>4. QED
                BY <4>2, <4>3 DEF Lock!Next, Lock!Unlock, holderBar, bodyBar
        <3>3. CASE ~HoldsThread(a)
            BY <2>15, <1>0, <3>1, <3>3, Stutters DEF ReleaseLock
        <3>4. QED
            BY <3>2, <3>3
    <2>16. ASSUME NEW a \in Actor, Launch(a) PROVE Refines
        <3>1. PICK p \in Proc : op[p] = "given" /\ op' = [op EXCEPT ![p] = "run"] /\ lockingThread' = p
            BY <2>16 DEF Launch, CreateMayFail, Disciplined
        <3>2. Running' = Running \cup {p}
            BY <3>1 DEF Running, IInv, TypeOK, Actor
        <3>3. holderBar = None /\ holderBar' = p /\ bodyBar' = bodyBar \cup {p}
            BY <2>16, <2>0, <3>1, <3>2 DEF Launch, holderBar, bodyBar
        <3>4. QED
            BY <3>3 DEF Lock!Next, Lock!Start, holderBar, bodyBar
    <2>17. ASSUME NEW a \in Actor, EndBody(a) PROVE Refines
        <3>1. a \in Proc /\ a \in Running /\ Running' = Running \ {a}
            BY <2>17 DEF EndBody, Running, IInv, TypeOK, Actor
        <3>2. holderBar' = holderBar /\ bodyBar = Running /\ bodyBar' = Running'
            BY <2>17, <2>0 DEF EndBody, fields, holderBar, bodyBar
        <3>3. QED
            BY <3>1, <3>2 DEF Lock!Next, Lock!Return, holderBar, bodyBar
    <2>18. ASSUME NEW a \in Actor, FinishNotify(a) PROVE Refines
        <3>1. op[a] = "finish" /\ at[a] = "in" /\ a \in Proc /\ a \in Active /\ a \notin Running
            BY <2>18 DEF FinishNotify, Goto, IInv, PhaseInv, Active, Running
        <3>2. HandleRef
            <4>1. count' = count - 1 /\ count' > 0 /\ count \in 0 .. 2
                BY <2>18 DEF FinishNotify, IInv, TypeOK
            <4>2. count = 2
                BY <4>1
            <4>3. QED
                BY <4>2 DEF IInv, CountInv
        <3>3. isThread /\ ~isLocked
            BY <3>1, <3>2 DEF IInv, FlagInv
        <3>4. lockingThread = a
            BY <2>0, <3>1, <3>2, <3>3 DEF HolderInv, IInv, ActiveInv
        <3>5. holderBar = a /\ holderBar' = None /\ a \notin bodyBar /\ bodyBar' = bodyBar
            BY <2>18, <2>0, <3>1, <3>3, <3>4 DEF FinishNotify, holderBar, bodyBar, Running
        <3>6. QED
            BY <3>1, <3>5 DEF Lock!Next, Lock!Release, holderBar, bodyBar
    <2>19. CASE UNCHANGED vars
        BY <2>19 DEF vars, fields, holderBar, bodyBar, Running, Disciplined
    <2>20. QED
        BY <2>1, <2>2, <2>3, <2>4, <2>5, <2>6, <2>7, <2>8, <2>9, <2>10, <2>11, <2>12, <2>13, <2>14, <2>15, <2>16, <2>17, <2>18, <2>19 DEF Next, Work, Calls
<1>02. QED
    BY <1>00, <1>01

\* SAThreads::Thread is, to disciplined callers and when pthread_create does
\* not fail, the lock of threads.h, whose procedure holds it till it ends.
THEOREM ThreadIsLock == Spec => ImplementsThreadLock
<1>1. Init => (Disciplined => HolderInv)
    BY ActorAssumption DEF Init, HolderInv, Actor
<1>2. IInv /\ (Disciplined => HolderInv) /\ [Next]_vars => (Disciplined => HolderInv)'
    BY StepHolder, SameMode DEF Disciplined
<1>3. [Lock!Next]_<<holderBar, bodyBar>> => [Lock!Next]_(Lock!lvars)
    BY DEF Lock!lvars, holderBar, bodyBar
<1>4. QED
    BY <1>1, <1>2, <1>3, InitRefines, StepRefines, Invariance, PTL DEF Spec, ImplementsThreadLock, Lock!Spec
=============================================================================
