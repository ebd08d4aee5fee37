----------------------------- MODULE SAMonitor -----------------------------
(***************************************************************************)
(* SAThreads::Mutex and SAThreads::Monitor, the pthread implementation of  *)
(* src/libs/stream_message/src/threads.cxx.  A monitor is a pthread mutex, *)
(* a record of who holds it (isLocked, lockId) behind a leaf lock idGuard, *)
(* a condition `cond' tied to the mutex, and a second mutex altMutex with  *)
(* its own condition altCond for threads that wait without the lock.       *)
(*                                                                         *)
(* A step is one pthread call, or one idGuard section: nothing is acquired *)
(* while idGuard is held, so its sections are atomic for every observer.   *)
(* The calling code is arbitrary: it may lock, unlock, wait and notify in  *)
(* any order, with or without the lock, except that a thread unlocks only  *)
(* what it holds: Mutex::unlock does not check that, and the lock of the   *)
(* thread that holds it would be gone.                                     *)
(*                                                                         *)
(* Names that most modules have are longer here, because the proofs about  *)
(* this module and NameServer share a module, StreamMessage_proofs.        *)
(***************************************************************************)
CONSTANTS Thread, NoThread

ASSUME ThreadAssumption == NoThread \notin Thread

VARIABLES
    mutex,      \* holder of Mutex::mutex, or NoThread
    isLocked,   \* Mutex::isLocked
    lockId,     \* Mutex::lockId: meaningless until the first lock
    altMutex,   \* holder of Monitor::altMutex, or NoThread
    cond,       \* threads blocked in pthread_cond_wait(&cond, &mutex)
    altCond,    \* threads blocked in pthread_cond_wait(&altCond, &altMutex)
    pc,         \* where each thread is: "client" is the calling code
    held,       \* the client is between lock() and unlock()
    wokenBy     \* history: the notify, still in progress, that woke a thread

monitorVars == <<mutex, isLocked, lockId, altMutex, cond, altCond, pc, held, wokenBy>>

WaitLabels == {"wait.cond", "wait.blocked", "wait.pass", "wait.stamp"}
AltWaitLabels == {"wait.alt", "wait.altblocked"}
NotifyLabels == {"notify.cond", "notify.alt", "notify.unlock"}
Labels == {"client", "lock.acquire", "lock.stamp", "hung", "unlock.release"}
             \cup WaitLabels \cup AltWaitLabels \cup NotifyLabels

MonitorInit ==
    /\ mutex = NoThread
    /\ isLocked = FALSE
    /\ lockId \in Thread          \* not initialised by Mutex::Mutex
    /\ altMutex = NoThread
    /\ cond = {}
    /\ altCond = {}
    /\ pc = [t \in Thread |-> "client"]
    /\ held = [t \in Thread |-> FALSE]
    /\ wokenBy = [t \in Thread |-> NoThread]

Goto(t, from, to) ==
    /\ pc[t] = from
    /\ pc' = [pc EXCEPT ![t] = to]

\* The test both lock() and wait() make: does the record name this thread?
RecordedOwner(t) == isLocked /\ lockId = t
-----------------------------------------------------------------------------
(* Mutex::lock *)

\* A thread that already holds the mutex is put to sleep for ever.
LockCheck(t) ==
    /\ \/ RecordedOwner(t) /\ Goto(t, "client", "hung")
       \/ ~RecordedOwner(t) /\ Goto(t, "client", "lock.acquire")
    /\ UNCHANGED <<mutex, isLocked, lockId, altMutex, cond, altCond, held, wokenBy>>

LockAcquire(t) ==
    /\ Goto(t, "lock.acquire", "lock.stamp")
    /\ mutex = NoThread
    /\ mutex' = t
    /\ UNCHANGED <<isLocked, lockId, altMutex, cond, altCond, held, wokenBy>>

LockStamp(t) ==
    /\ Goto(t, "lock.stamp", "client")
    /\ isLocked' = TRUE
    /\ lockId' = t
    /\ held' = [held EXCEPT ![t] = TRUE]
    /\ UNCHANGED <<mutex, altMutex, cond, altCond, wokenBy>>

(* Mutex::unlock: neither step asks who holds the mutex. *)

\* Fault: the record survives the unlock.
UnlockClearKeepsRecord(t) ==
    /\ held[t]
    /\ Goto(t, "client", "unlock.release")
    /\ UNCHANGED <<mutex, isLocked, lockId, altMutex, cond, altCond, held, wokenBy>>

UnlockClear(t) ==
    /\ held[t]
    /\ Goto(t, "client", "unlock.release")
    /\ isLocked' = FALSE
    /\ UNCHANGED <<mutex, lockId, altMutex, cond, altCond, held, wokenBy>>

UnlockRelease(t) ==
    /\ Goto(t, "unlock.release", "client")
    /\ mutex' = NoThread
    /\ held' = [held EXCEPT ![t] = FALSE]
    /\ UNCHANGED <<isLocked, lockId, altMutex, cond, altCond, wokenBy>>
-----------------------------------------------------------------------------
(* Monitor::wait *)

\* Fault: somebody's lock is taken for the caller's.
WaitTestIgnoresId(t) ==
    /\ \/ isLocked /\ Goto(t, "client", "wait.cond") /\ isLocked' = FALSE
       \/ ~isLocked /\ Goto(t, "client", "wait.alt") /\ UNCHANGED isLocked
    /\ UNCHANGED <<mutex, lockId, altMutex, cond, altCond, held, wokenBy>>

\* have_lock, and isLocked cleared in the same idGuard section.
WaitTest(t) ==
    /\ \/ /\ RecordedOwner(t)
          /\ Goto(t, "client", "wait.cond")
          /\ isLocked' = FALSE
       \/ /\ ~RecordedOwner(t)
          /\ Goto(t, "client", "wait.alt")
          /\ UNCHANGED isLocked
    /\ UNCHANGED <<mutex, lockId, altMutex, cond, altCond, held, wokenBy>>

\* Fault: an unlock followed by a wait, the race the code's comment avoids.
WaitBlockInTwoSteps(t) ==
    /\ \/ mutex = t /\ Goto(t, "wait.cond", "wait.cond") /\ mutex' = NoThread /\ UNCHANGED cond
       \/ mutex # t /\ Goto(t, "wait.cond", "wait.blocked") /\ cond' = cond \cup {t}
                    /\ UNCHANGED mutex
    /\ UNCHANGED <<isLocked, lockId, altMutex, altCond, held, wokenBy>>

WaitBlock(t) ==
    /\ Goto(t, "wait.cond", "wait.blocked")
    /\ mutex' = NoThread
    /\ cond' = cond \cup {t}
    /\ UNCHANGED <<isLocked, lockId, altMutex, altCond, held, wokenBy>>

\* pthread_cond_wait returns only with the mutex.
WaitReacquire(t) ==
    /\ Goto(t, "wait.blocked", "wait.pass")
    /\ t \notin cond
    /\ mutex = NoThread
    /\ mutex' = t
    /\ UNCHANGED <<isLocked, lockId, altMutex, cond, altCond, held, wokenBy>>

\* Fault: altMutex is not taken after the condition wait.
WaitPassAtOnce(t) ==
    /\ Goto(t, "wait.pass", "wait.stamp")
    /\ UNCHANGED <<mutex, isLocked, lockId, altMutex, cond, altCond, held, wokenBy>>

\* "Don't continue until notify unlocks the altMutex."
WaitPass(t) ==
    /\ Goto(t, "wait.pass", "wait.stamp")
    /\ altMutex = NoThread
    /\ UNCHANGED <<mutex, isLocked, lockId, altMutex, cond, altCond, held, wokenBy>>

WaitStamp(t) ==
    /\ Goto(t, "wait.stamp", "client")
    /\ lockId' = t
    /\ isLocked' = TRUE
    /\ UNCHANGED <<mutex, altMutex, cond, altCond, held, wokenBy>>

WaitAltBlock(t) ==
    /\ Goto(t, "wait.alt", "wait.altblocked")
    /\ altMutex = NoThread
    /\ altCond' = altCond \cup {t}
    /\ UNCHANGED <<mutex, isLocked, lockId, altMutex, cond, held, wokenBy>>

WaitAltReturn(t) ==
    /\ Goto(t, "wait.altblocked", "client")
    /\ t \notin altCond
    /\ altMutex = NoThread
    /\ UNCHANGED <<mutex, isLocked, lockId, altMutex, cond, altCond, held, wokenBy>>
-----------------------------------------------------------------------------
(* Monitor::notify: only altMutex is taken, whoever holds the monitor. *)

NotifyBegin(t) ==
    /\ Goto(t, "client", "notify.cond")
    /\ altMutex = NoThread
    /\ altMutex' = t
    /\ UNCHANGED <<mutex, isLocked, lockId, cond, altCond, held, wokenBy>>

Woken(t, sleepers) == [s \in Thread |-> IF s \in sleepers THEN t ELSE wokenBy[s]]

NotifyCond(t) ==
    /\ Goto(t, "notify.cond", "notify.alt")
    /\ cond' = {}
    /\ wokenBy' = Woken(t, cond)
    /\ UNCHANGED <<mutex, isLocked, lockId, altMutex, altCond, held>>

NotifyAlt(t) ==
    /\ Goto(t, "notify.alt", "notify.unlock")
    /\ altCond' = {}
    /\ wokenBy' = Woken(t, altCond)
    /\ UNCHANGED <<mutex, isLocked, lockId, altMutex, cond, held>>

NotifyEnd(t) ==
    /\ Goto(t, "notify.unlock", "client")
    /\ altMutex' = NoThread
    /\ wokenBy' = [s \in Thread |-> IF wokenBy[s] = t THEN NoThread ELSE wokenBy[s]]
    /\ UNCHANGED <<mutex, isLocked, lockId, cond, altCond, held>>

\* POSIX allows pthread_cond_wait to return without a broadcast.
SpuriousWake(t) ==
    /\ t \in cond \cup altCond
    /\ cond' = cond \ {t}
    /\ altCond' = altCond \ {t}
    /\ UNCHANGED <<mutex, isLocked, lockId, altMutex, pc, held, wokenBy>>
-----------------------------------------------------------------------------
MonitorStep(t) ==
    \/ LockCheck(t) \/ LockAcquire(t) \/ LockStamp(t)
    \/ UnlockClear(t) \/ UnlockRelease(t)
    \/ WaitTest(t) \/ WaitBlock(t) \/ WaitReacquire(t) \/ WaitPass(t) \/ WaitStamp(t)
    \/ WaitAltBlock(t) \/ WaitAltReturn(t)
    \/ NotifyBegin(t) \/ NotifyCond(t) \/ NotifyAlt(t) \/ NotifyEnd(t)
    \/ SpuriousWake(t)

MonitorNext == \E t \in Thread : MonitorStep(t)

MonitorSpec == MonitorInit /\ [][MonitorNext]_monitorVars
-----------------------------------------------------------------------------
MonitorTypeOK ==
    /\ mutex \in Thread \cup {NoThread}
    /\ isLocked \in BOOLEAN
    /\ lockId \in Thread
    /\ altMutex \in Thread \cup {NoThread}
    /\ cond \subseteq Thread
    /\ altCond \subseteq Thread
    /\ pc \in [Thread -> Labels]
    /\ held \in [Thread -> BOOLEAN]
    /\ wokenBy \in [Thread -> Thread \cup {NoThread}]

\* The client of t runs code it believes to be exclusive.
Inside(t) == held[t] /\ pc[t] \in {"client"} \cup NotifyLabels

\* Between lock() and unlock(), and not in a wait, a thread is alone: the
\* record that wait() consults and the pthread mutex stay in step although
\* they are written in separate steps (Mutex::lock, unlock, Monitor::wait).
Exclusive == \A s, t \in Thread : Inside(s) /\ Inside(t) => s = t

\* The double-lock trap of Mutex::lock never hangs a thread that does not
\* hold the mutex: a record left behind by an earlier holder would do it.
HangsOnlyOwners == \A t \in Thread : pc[t] = "hung" => held[t] /\ mutex = t

\* wait() called with the lock always gives the mutex up: it never blocks on
\* altCond, where it would keep everyone else out for ever.
WaitersReleased ==
    \A t \in Thread :
        /\ pc[t] \in AltWaitLabels => ~held[t] /\ mutex # t
        /\ pc[t] = "wait.blocked" => mutex # t

\* isLocked and lockId, which lock and wait consult without the mutex that they
\* describe, are as good as asking pthreads for the owner.
ExactRecord == HangsOnlyOwners /\ WaitersReleased

\* No wakeup is lost on a notify made with the lock: once its broadcast is
\* done, nobody is blocked on cond, although waiters get there by two steps.
HeldNotifyWakesAll ==
    \A t \in Thread :
        held[t] /\ pc[t] \in {"notify.alt", "notify.unlock"} => cond = {}

\* A thread woken by a notify is not back in its own code before that notify
\* has let go of the monitor, so that it may destroy the monitor.
WokenAfterNotify ==
    \A t \in Thread : pc[t] \in {"client", "wait.stamp"} => wokenBy[t] = NoThread
-----------------------------------------------------------------------------
\* The monitor that its users may think of: the record and altMutex hidden.
Mesa == INSTANCE MesaMonitor WITH
    None <- NoThread,
    owner <- mutex,
    waiters <- cond,
    ready <- {t \in Thread : pc[t] = "wait.blocked" /\ t \notin cond},
    altWaiters <- altCond

\* Every step of the pthread code is a step of the abstract monitor or none.
ImplementsMesa == Mesa!Spec
=============================================================================
