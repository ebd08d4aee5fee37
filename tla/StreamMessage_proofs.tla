------------------------ MODULE StreamMessage_proofs ------------------------
(***************************************************************************)
(* Proofs about two parts of libs/stream_message: the monitor of its       *)
(* threads (SAMonitor), for any set of threads, and the registration of    *)
(* services (NameServer), for any hosts, processes, names and scenarios.   *)
(***************************************************************************)
EXTENDS SAMonitor, NameServer, SequenceTheorems, TLAPS
-----------------------------------------------------------------------------
(* SAMonitor: the inductive invariant *)

\* The labels at which a thread that is between lock() and unlock() owns the
\* pthread mutex and is named by the record.
OwnLabels == {"client", "hung"} \cup NotifyLabels

Holds(t) ==
    \/ pc[t] \in {"lock.stamp", "wait.cond", "wait.pass", "wait.stamp"}
    \/ held[t] /\ pc[t] \in OwnLabels \cup {"unlock.release"}

\* The pthread mutex is where the program counters say it is.
MutexInv == \A t \in Thread : mutex = t <=> Holds(t)

\* `held' against the program counters.
HeldInv ==
    \A t \in Thread :
        /\ pc[t] \in WaitLabels \cup {"hung", "unlock.release"} => held[t]
        /\ pc[t] \in AltWaitLabels \cup {"lock.acquire", "lock.stamp"} => ~held[t]

\* The record names exactly the threads that are inside and not in between.
RecordInv ==
    \A t \in Thread : RecordedOwner(t) <=> held[t] /\ pc[t] \in OwnLabels

AltMutexInv == \A t \in Thread : altMutex = t <=> pc[t] \in NotifyLabels

SleepersInv ==
    /\ \A t \in cond : pc[t] = "wait.blocked"
    /\ \A t \in altCond : pc[t] = "wait.altblocked"

\* A thread marked by a notify is still inside its wait, and that notify has
\* not yet given altMutex back.
WokenInv ==
    \A t \in Thread :
        wokenBy[t] # NoThread =>
            /\ pc[t] \in {"wait.blocked", "wait.pass", "wait.altblocked"}
            /\ pc[wokenBy[t]] \in NotifyLabels

MonitorInv ==
    /\ MonitorTypeOK
    /\ MutexInv
    /\ HeldInv
    /\ RecordInv
    /\ AltMutexInv
    /\ SleepersInv
    /\ WokenInv
    /\ HeldNotifyWakesAll
-----------------------------------------------------------------------------
\* It holds before the first call.
LEMMA InitMonitorInv == MonitorInit => MonitorInv
<1> SUFFICES ASSUME MonitorInit PROVE MonitorInv
    OBVIOUS
<1> USE ThreadAssumption DEF MonitorInit
<1>1. MonitorTypeOK
    BY DEF MonitorTypeOK, Labels
<1>2. MutexInv /\ HeldInv /\ RecordInv /\ AltMutexInv
    BY DEF MutexInv, HeldInv, RecordInv, AltMutexInv, Holds, OwnLabels, RecordedOwner,
           NotifyLabels, WaitLabels, AltWaitLabels
<1>3. SleepersInv /\ WokenInv /\ HeldNotifyWakesAll
    BY DEF SleepersInv, WokenInv, HeldNotifyWakesAll
<1>4. QED
    BY <1>1, <1>2, <1>3 DEF MonitorInv

\* Every step keeps the types.
LEMMA StepMonitorTypeOK == MonitorTypeOK /\ [MonitorNext]_monitorVars => MonitorTypeOK'
<1> SUFFICES ASSUME MonitorTypeOK, [MonitorNext]_monitorVars PROVE MonitorTypeOK'
    OBVIOUS
<1> USE ThreadAssumption DEF MonitorTypeOK, Labels, WaitLabels, AltWaitLabels, NotifyLabels
<1>1. ASSUME NEW t \in Thread, LockCheck(t) \/ LockAcquire(t) \/ LockStamp(t) \/
                               UnlockClear(t) \/ UnlockRelease(t)
      PROVE  MonitorTypeOK'
    BY <1>1 DEF LockCheck, LockAcquire, LockStamp, UnlockClear, UnlockRelease, Goto
<1>2. ASSUME NEW t \in Thread, WaitTest(t) \/ WaitBlock(t) \/ WaitReacquire(t) \/
                               WaitPass(t) \/ WaitStamp(t) \/ WaitAltBlock(t) \/
                               WaitAltReturn(t) \/ SpuriousWake(t)
      PROVE  MonitorTypeOK'
    BY <1>2 DEF WaitTest, WaitBlock, WaitReacquire, WaitPass, WaitStamp, WaitAltBlock,
                WaitAltReturn, SpuriousWake, Goto, RecordedOwner
<1>3. ASSUME NEW t \in Thread, NotifyBegin(t) \/ NotifyCond(t) \/ NotifyAlt(t) \/
                               NotifyEnd(t)
      PROVE  MonitorTypeOK'
    BY <1>3 DEF NotifyBegin, NotifyCond, NotifyAlt, NotifyEnd, Woken, Goto
<1>4. CASE UNCHANGED monitorVars
    BY <1>4 DEF monitorVars
<1>5. QED
    BY <1>1, <1>2, <1>3, <1>4 DEF MonitorNext, MonitorStep

\* Every reachable state is typed (Mutex and Monitor fields, threads.h).
THEOREM MonitorTypes == MonitorSpec => []MonitorTypeOK
<1>1. MonitorInit => MonitorTypeOK
    BY InitMonitorInv DEF MonitorInv
<1>2. QED
    BY <1>1, StepMonitorTypeOK, PTL DEF MonitorSpec
-----------------------------------------------------------------------------
\* Every step keeps the invariant.
LEMMA StepMonitorInv ==
    ASSUME MonitorInv, [MonitorNext]_monitorVars
    PROVE  MonitorInv'
<1>1. MonitorTypeOK'
    BY StepMonitorTypeOK DEF MonitorInv
<1> USE ThreadAssumption DEF MonitorInv, MonitorTypeOK, MutexInv, HeldInv, RecordInv, AltMutexInv,
        SleepersInv, WokenInv, HeldNotifyWakesAll, Holds, OwnLabels, RecordedOwner,
        Goto, NotifyLabels, WaitLabels, AltWaitLabels, Labels
<1>2. ASSUME NEW t \in Thread, LockCheck(t) PROVE MonitorInv'
    BY <1>1, <1>2 DEF LockCheck
<1>3. ASSUME NEW t \in Thread, LockAcquire(t) PROVE MonitorInv'
    BY <1>1, <1>3 DEF LockAcquire
<1>4. ASSUME NEW t \in Thread, LockStamp(t) PROVE MonitorInv'
    BY <1>1, <1>4 DEF LockStamp
<1>5. ASSUME NEW t \in Thread, UnlockClear(t) PROVE MonitorInv'
    BY <1>1, <1>5 DEF UnlockClear
<1>6. ASSUME NEW t \in Thread, UnlockRelease(t) PROVE MonitorInv'
    BY <1>1, <1>6 DEF UnlockRelease
<1>7. ASSUME NEW t \in Thread, WaitTest(t) PROVE MonitorInv'
    BY <1>1, <1>7 DEF WaitTest
<1>8. ASSUME NEW t \in Thread, WaitBlock(t) PROVE MonitorInv'
    BY <1>1, <1>8 DEF WaitBlock
<1>9. ASSUME NEW t \in Thread, WaitReacquire(t) PROVE MonitorInv'
    BY <1>1, <1>9 DEF WaitReacquire
<1>10. ASSUME NEW t \in Thread, WaitPass(t) PROVE MonitorInv'
    BY <1>1, <1>10 DEF WaitPass
<1>11. ASSUME NEW t \in Thread, WaitStamp(t) PROVE MonitorInv'
    BY <1>1, <1>11 DEF WaitStamp
<1>12. ASSUME NEW t \in Thread, WaitAltBlock(t) PROVE MonitorInv'
    BY <1>1, <1>12 DEF WaitAltBlock
<1>13. ASSUME NEW t \in Thread, WaitAltReturn(t) PROVE MonitorInv'
    BY <1>1, <1>13 DEF WaitAltReturn
<1>14. ASSUME NEW t \in Thread, NotifyBegin(t) PROVE MonitorInv'
    BY <1>1, <1>14 DEF NotifyBegin
<1>15. ASSUME NEW t \in Thread, NotifyCond(t) PROVE MonitorInv'
    BY <1>1, <1>15 DEF NotifyCond, Woken
<1>16. ASSUME NEW t \in Thread, NotifyAlt(t) PROVE MonitorInv'
    BY <1>1, <1>16 DEF NotifyAlt, Woken
<1>17. ASSUME NEW t \in Thread, NotifyEnd(t) PROVE MonitorInv'
    BY <1>1, <1>17 DEF NotifyEnd
<1>18. ASSUME NEW t \in Thread, SpuriousWake(t) PROVE MonitorInv'
    BY <1>1, <1>18 DEF SpuriousWake
<1>19. CASE UNCHANGED monitorVars
    BY <1>1, <1>19 DEF monitorVars
<1>20. QED
    BY <1>2, <1>3, <1>4, <1>5, <1>6, <1>7, <1>8, <1>9, <1>10, <1>11, <1>12, <1>13, <1>14, <1>15, <1>16, <1>17, <1>18, <1>19 DEF MonitorNext, MonitorStep

\* The inductive invariant holds for any set of threads.
THEOREM MonitorInvariance == MonitorSpec => []MonitorInv
<1>1. MonitorInv /\ [MonitorNext]_monitorVars => MonitorInv'
    BY StepMonitorInv
<1>2. QED
    BY InitMonitorInv, <1>1, PTL DEF MonitorSpec
-----------------------------------------------------------------------------
(* The safety properties. *)

\* Code between lock() and unlock() of one monitor is never run by two threads
\* (Mutex::lock and unlock, Monitor::wait).
THEOREM MutualExclusion == MonitorSpec => []Exclusive
<1>1. MonitorInv => Exclusive
    BY DEF MonitorInv, MutexInv, Holds, OwnLabels, Exclusive, Inside
<1>2. QED
    BY MonitorInvariance, <1>1, PTL

\* Only a thread that holds the mutex can fall into the double-lock trap of
\* Mutex::lock.
LEMMA TrapIsExact == MonitorInv => HangsOnlyOwners
BY DEF MonitorInv, HeldInv, MutexInv, Holds, OwnLabels, HangsOnlyOwners

\* A thread that waits never keeps the mutex (Monitor::wait).
LEMMA WaitGivesUp == MonitorInv => WaitersReleased
<1> SUFFICES ASSUME MonitorInv, NEW t \in Thread
             PROVE  /\ pc[t] \in AltWaitLabels => ~held[t] /\ mutex # t
                    /\ pc[t] = "wait.blocked" => mutex # t
    BY DEF WaitersReleased
<1> USE DEF MonitorInv, MutexInv, Holds, OwnLabels, NotifyLabels
<1>1. pc[t] \in AltWaitLabels => ~held[t]
    BY DEF HeldInv
<1>2. pc[t] \in AltWaitLabels \cup {"wait.blocked"} => mutex # t
    BY DEF AltWaitLabels
<1>3. QED
    BY <1>1, <1>2

\* The record of the owner misleads neither lock nor wait.
THEOREM RecordIsExact == MonitorSpec => []ExactRecord
<1>1. MonitorInv => ExactRecord
    BY TrapIsExact, WaitGivesUp DEF ExactRecord
<1>2. QED
    BY MonitorInvariance, <1>1, PTL

\* A notify made with the lock reaches every waiter (Monitor::notify, wait).
THEOREM NoLostWakeup == MonitorSpec => []HeldNotifyWakesAll
<1>1. MonitorInv => HeldNotifyWakesAll
    BY DEF MonitorInv
<1>2. QED
    BY MonitorInvariance, <1>1, PTL

\* A woken thread leaves wait() only after the notify has ended.
THEOREM NotifyIsOver == MonitorSpec => []WokenAfterNotify
<1>1. ASSUME MonitorInv PROVE WokenAfterNotify
    BY <1>1 DEF MonitorInv, WokenInv, WokenAfterNotify
<1>2. QED
    BY MonitorInvariance, <1>1, PTL
-----------------------------------------------------------------------------
(* The pthread code implements the abstract monitor. *)

\* The monitor is free at first in both.
LEMMA InitRefinesMesa == MonitorInit => Mesa!Init
    BY DEF MonitorInit, Mesa!Init

\* Every step is one of the abstract monitor, or changes nothing that it has.
LEMMA StepRefinesMesa ==
    ASSUME MonitorInv, [MonitorNext]_monitorVars
    PROVE  [Mesa!Next]_Mesa!mvars
<1> USE DEF MonitorInv, MonitorTypeOK, SleepersInv, Goto
<1>1. ASSUME NEW t \in Thread, LockCheck(t) PROVE UNCHANGED Mesa!mvars
    BY <1>1 DEF LockCheck, Mesa!mvars
<1>2. ASSUME NEW t \in Thread, LockStamp(t) PROVE UNCHANGED Mesa!mvars
    BY <1>2 DEF LockStamp, Mesa!mvars
<1>3. ASSUME NEW t \in Thread, UnlockClear(t) PROVE UNCHANGED Mesa!mvars
    BY <1>3 DEF UnlockClear, Mesa!mvars
<1>4. ASSUME NEW t \in Thread, WaitTest(t) PROVE UNCHANGED Mesa!mvars
    BY <1>4 DEF WaitTest, Mesa!mvars
<1>5. ASSUME NEW t \in Thread, WaitPass(t) PROVE UNCHANGED Mesa!mvars
    BY <1>5 DEF WaitPass, Mesa!mvars
<1>6. ASSUME NEW t \in Thread, WaitStamp(t) PROVE UNCHANGED Mesa!mvars
    BY <1>6 DEF WaitStamp, Mesa!mvars
<1>7. ASSUME NEW t \in Thread, WaitAltReturn(t) PROVE UNCHANGED Mesa!mvars
    BY <1>7 DEF WaitAltReturn, Mesa!mvars
<1>8. ASSUME NEW t \in Thread, NotifyBegin(t) PROVE UNCHANGED Mesa!mvars
    BY <1>8 DEF NotifyBegin, Mesa!mvars
<1>9. ASSUME NEW t \in Thread, NotifyEnd(t) PROVE UNCHANGED Mesa!mvars
    BY <1>9 DEF NotifyEnd, Mesa!mvars
<1>10. ASSUME NEW t \in Thread, LockAcquire(t) PROVE Mesa!Enter(t)
    BY <1>10 DEF LockAcquire, Mesa!Enter, Mesa!Asleep, MutexInv, HeldInv, Holds, OwnLabels, WaitLabels, NotifyLabels, AltWaitLabels
<1>11. ASSUME NEW t \in Thread, UnlockRelease(t) PROVE Mesa!Exit(t)
    BY <1>11 DEF UnlockRelease, Mesa!Exit, Mesa!Asleep, MutexInv, HeldInv, Holds, OwnLabels, WaitLabels, NotifyLabels, AltWaitLabels
<1>12. ASSUME NEW t \in Thread, WaitBlock(t) PROVE Mesa!Wait(t)
    BY <1>12 DEF WaitBlock, Mesa!Wait, Mesa!Asleep, MutexInv, HeldInv, Holds, OwnLabels, WaitLabels, NotifyLabels, AltWaitLabels
<1>13. ASSUME NEW t \in Thread, WaitReacquire(t) PROVE Mesa!Reenter(t)
    BY <1>13 DEF WaitReacquire, Mesa!Reenter, Mesa!Asleep, MutexInv, HeldInv, Holds, OwnLabels, WaitLabels, NotifyLabels, AltWaitLabels
<1>14. ASSUME NEW t \in Thread, WaitAltBlock(t) PROVE Mesa!AltWait(t)
    BY <1>14 DEF WaitAltBlock, Mesa!AltWait, Mesa!Asleep, MutexInv, HeldInv, Holds, OwnLabels, WaitLabels, NotifyLabels, AltWaitLabels
<1>15. ASSUME NEW t \in Thread, NotifyCond(t) PROVE Mesa!NotifyAll
    BY <1>15 DEF NotifyCond, Mesa!NotifyAll, Mesa!Asleep, MutexInv, HeldInv, Holds, OwnLabels, WaitLabels, NotifyLabels, AltWaitLabels
<1>16. ASSUME NEW t \in Thread, NotifyAlt(t) PROVE Mesa!NotifyAlt
    BY <1>16 DEF NotifyAlt, Mesa!NotifyAlt, Mesa!Asleep, MutexInv, HeldInv, Holds, OwnLabels, WaitLabels, NotifyLabels, AltWaitLabels
<1>17. ASSUME NEW t \in Thread, SpuriousWake(t) PROVE Mesa!Spurious(t)
    BY <1>17 DEF SpuriousWake, Mesa!Spurious, Mesa!Asleep, MutexInv, HeldInv, Holds, OwnLabels, WaitLabels, NotifyLabels, AltWaitLabels
<1>18. CASE UNCHANGED monitorVars
    BY <1>18 DEF monitorVars, Mesa!mvars
<1>19. QED
    BY <1>1, <1>2, <1>3, <1>4, <1>5, <1>6, <1>7, <1>8, <1>9, <1>10, <1>11, <1>12, <1>13, <1>14, <1>15, <1>16, <1>17, <1>18 DEF MonitorNext, MonitorStep, Mesa!Next

\* Every behaviour of the pthread code is one of MesaMonitor (threads.h, class
\* Monitor): ownership, waiting and notification change together, in one step.
THEOREM MonitorIsMesa == MonitorSpec => ImplementsMesa
<1>1. MonitorInv /\ [MonitorNext]_monitorVars => [Mesa!Next]_Mesa!mvars
    BY StepRefinesMesa
<1>2. QED
    BY MonitorInvariance, InitRefinesMesa, <1>1, PTL DEF MonitorSpec, ImplementsMesa, Mesa!Spec
-----------------------------------------------------------------------------
(* NameServer: what the proofs have in common *)

-----------------------------------------------------------------------------
(* Connections *)

\* What the assumptions on the constants say of hosts, processes and None.
LEMMA Places ==
    /\ None \notin Host /\ None \notin Proc /\ None \notin Caller
    /\ Loopback \notin Host
    /\ \A x \in Proc : x \notin Host
    /\ \A p \in Proc : HostOf[p] \in Host /\ NameOf[p] \in Name \cup {None}
    /\ \A h \in Host : Parent[h] \in Host \cup {None}
    /\ None \notin Request /\ None \notin Entry
BY NameAssumption, PlaceAssumption, NoneAssumption DEF Caller

\* The queues are sequences of requests, which TypeOK says of their elements.
Typing == TypeOK /\ queue \in [Host -> Seq(Request)]

\* The connections that wait at h.
Queued(h) == {queue[h][i] : i \in DOMAIN queue[h]}

\* A connection more, at the end of the backlog of h.
LEMMA ConnectedFacts ==
    ASSUME queue \in [Host -> Seq(Request)], NEW h \in Host, NEW c \in Request,
           queue' = Connected(queue, h, c)
    PROVE  /\ queue' \in [Host -> Seq(Request)]
           /\ \A g \in Host \ {h} : queue'[g] = queue[g]
           /\ Len(queue'[h]) = Len(queue[h]) + 1
           /\ \A i \in 1 .. Len(queue[h]) : queue'[h][i] = queue[h][i]
           /\ queue'[h][Len(queue[h]) + 1] = c
<1>1. queue[h] \in Seq(Request)
  OBVIOUS
<1>2. queue' = [queue EXCEPT ![h] = Append(queue[h], c)]
  BY DEF Connected
<1>3. /\ Append(queue[h], c) \in Seq(Request)
      /\ Len(Append(queue[h], c)) = Len(queue[h]) + 1
      /\ \A i \in 1 .. Len(queue[h]) : Append(queue[h], c)[i] = queue[h][i]
      /\ Append(queue[h], c)[Len(queue[h]) + 1] = c
  BY <1>1, AppendProperties
<1>4. queue'[h] = Append(queue[h], c) /\ queue' \in [Host -> Seq(Request)]
  BY <1>2, <1>3
<1>5. \A g \in Host \ {h} : queue'[g] = queue[g]
  BY <1>2
<1> QED
  BY <1>3, <1>4, <1>5

\* ... so that h has got c beside what it had.
LEMMA ConnectedQueued ==
    ASSUME queue \in [Host -> Seq(Request)], NEW h \in Host, NEW c \in Request,
           queue' = Connected(queue, h, c)
    PROVE  \A g \in Host : Queued(g)' = IF g = h THEN Queued(g) \cup {c} ELSE Queued(g)
<1> SUFFICES ASSUME NEW g \in Host
             PROVE  Queued(g)' = IF g = h THEN Queued(g) \cup {c} ELSE Queued(g)
  OBVIOUS
<1>1. CASE g # h
  BY <1>1, ConnectedFacts DEF Queued
<1>2. CASE g = h
  <2>1. queue[h] \in Seq(Request) /\ queue'[h] \in Seq(Request)
    BY ConnectedFacts
  <2>2. Len(queue[h]) \in Nat /\ DOMAIN queue[h] = 1 .. Len(queue[h]) /\ DOMAIN queue'[h] = 1 .. Len(queue[h]) + 1
    BY <2>1, ConnectedFacts
  <2>3. Queued(h)' = {queue'[h][i] : i \in 1 .. Len(queue[h]) + 1}
    BY <2>2 DEF Queued
  <2>4. Queued(h) = {queue[h][i] : i \in 1 .. Len(queue[h])}
    BY <2>2 DEF Queued
  <2>5. 1 .. Len(queue[h]) + 1 = 1 .. Len(queue[h]) \cup {Len(queue[h]) + 1}
    BY <2>2
  <2>6. ASSUME NEW d \in Queued(h)' PROVE d \in Queued(h) \cup {c}
    <3>1. PICK i \in 1 .. Len(queue[h]) + 1 : d = queue'[h][i]
      BY <2>3
    <3>2. i \in 1 .. Len(queue[h]) \/ i = Len(queue[h]) + 1
      BY <2>5
    <3>3. CASE i \in 1 .. Len(queue[h])
      BY <2>4, <3>1, <3>3, ConnectedFacts
    <3>4. CASE i = Len(queue[h]) + 1
      BY <3>1, <3>4, ConnectedFacts
    <3> QED
      BY <3>2, <3>3, <3>4
  <2>7. \A d \in Queued(h) \cup {c} : d \in Queued(h)'
    BY <2>3, <2>4, <2>5, ConnectedFacts
  <2>8. Queued(h)' = Queued(h) \cup {c}
    BY <2>6, <2>7, Zenon
  <2> QED
    BY <1>2, <2>8
<1> QED
  BY <1>1, <1>2

\* The head of the queue of h is taken off, ...
LEMMA AcceptedFacts ==
    ASSUME queue \in [Host -> Seq(Request)], NEW h \in Host, queue[h] # <<>>,
           queue' = [queue EXCEPT ![h] = Tail(queue[h])]
    PROVE  /\ queue' \in [Host -> Seq(Request)]
           /\ \A g \in Host \ {h} : queue'[g] = queue[g]
           /\ Len(queue[h]) \in Nat \ {0}
           /\ Len(queue'[h]) = Len(queue[h]) - 1
           /\ \A i \in 1 .. Len(queue'[h]) : queue'[h][i] = queue[h][i + 1]
           /\ Head(queue[h]) = queue[h][1] /\ Head(queue[h]) \in Request
<1>1. queue[h] \in Seq(Request)
  OBVIOUS
<1>2. /\ Tail(queue[h]) \in Seq(Request)
      /\ Len(Tail(queue[h])) = Len(queue[h]) - 1
      /\ \A i \in 1 .. Len(Tail(queue[h])) : Tail(queue[h])[i] = queue[h][i + 1]
      /\ Head(queue[h]) = queue[h][1] /\ Head(queue[h]) \in Request
  BY <1>1, HeadTailProperties
<1>3. Len(queue[h]) \in Nat \ {0}
  BY <1>1, EmptySeq
<1>4. queue'[h] = Tail(queue[h]) /\ queue' \in [Host -> Seq(Request)]
  BY <1>2
<1> QED
  BY <1>2, <1>3, <1>4

\* ... and h has the rest of what it had.
LEMMA AcceptedQueued ==
    ASSUME queue \in [Host -> Seq(Request)], NEW h \in Host, queue[h] # <<>>,
           queue' = [queue EXCEPT ![h] = Tail(queue[h])]
    PROVE  \A g \in Host : /\ g # h => Queued(g)' = Queued(g)
                           /\ g = h => Queued(g) = Queued(g)' \cup {Head(queue[h])}
<1>1. \A g \in Host : g # h => Queued(g)' = Queued(g)
  BY AcceptedFacts DEF Queued
<1>2. Queued(h) = Queued(h)' \cup {Head(queue[h])}
  <2>1. queue[h] \in Seq(Request) /\ queue'[h] \in Seq(Request)
    BY AcceptedFacts
  <2> DEFINE n == Len(queue'[h])
  <2>2. n \in Nat /\ Len(queue[h]) = n + 1 /\ DOMAIN queue[h] = 1 .. n + 1 /\ DOMAIN queue'[h] = 1 .. n
    BY <2>1, AcceptedFacts
  <2>3. Queued(h)' = {queue'[h][i] : i \in 1 .. n}
    BY <2>2 DEF Queued
  <2>4. Queued(h) = {queue[h][i] : i \in 1 .. n + 1}
    BY <2>2 DEF Queued
  <2> HIDE DEF n
  <2>5. \A i \in 1 .. n : i + 1 \in 1 .. n + 1 /\ queue'[h][i] = queue[h][i + 1]
    BY <2>2, AcceptedFacts DEF n
  <2>6. \A i \in 1 .. n + 1 : i = 1 \/ (i - 1 \in 1 .. n /\ queue[h][i] = queue'[h][i - 1])
    <3> SUFFICES ASSUME NEW i \in 1 .. n + 1, i # 1
                 PROVE  i - 1 \in 1 .. n /\ queue[h][i] = queue'[h][i - 1]
      OBVIOUS
    <3>1. i - 1 \in 1 .. n /\ (i - 1) + 1 = i
      BY <2>2
    <3> QED
      BY <3>1, <2>5
  <2>7. \A d \in Queued(h)' \cup {Head(queue[h])} : d \in Queued(h)
    BY <2>2, <2>3, <2>4, <2>5, AcceptedFacts
  <2>8. ASSUME NEW d \in Queued(h) PROVE d \in Queued(h)' \cup {Head(queue[h])}
    <3>1. PICK i \in 1 .. n + 1 : d = queue[h][i]
      BY <2>4
    <3>2. CASE i = 1
      BY <3>1, <3>2, AcceptedFacts
    <3>3. CASE i - 1 \in 1 .. n /\ queue[h][i] = queue'[h][i - 1]
      BY <2>3, <3>1, <3>3
    <3> QED
      BY <2>6, <3>2, <3>3
  <2> QED
    BY <2>7, <2>8, Zenon
<1> QED
  BY <1>1, <1>2

\* The requests that an ending name server leaves behind lose their sender.
Orphaned(c, h) == IF Asks(c) /\ c.peer = h THEN [c EXCEPT !.peer = None] ELSE c

\* A request that loses its sender is a request.
LEMMA OrphanedFacts ==
    ASSUME NEW c \in Request, NEW h \in Host
    PROVE  /\ Orphaned(c, h) \in Request
           /\ Orphaned(c, h) \in {c, [c EXCEPT !.peer = None]}
           /\ Orphaned(c, h) # c => Asks(c)
BY DEF Orphaned, Request

\* What an ending name server leaves in the queues.
LEMMA EndedFacts ==
    ASSUME queue \in [Host -> Seq(Request)], NEW h \in Host, End(h)
    PROVE  /\ queue' \in [Host -> Seq(Request)]
           /\ \A g \in Host : \A d \in Queued(g)' : \E c \in Queued(g) : d = Orphaned(c, h)
<1> DEFINE Left(g) == IF g = h THEN <<>> ELSE [i \in DOMAIN queue[g] |-> Orphaned(queue[g][i], h)]
<1>1. queue' = [g \in Host |-> Left(g)]
  BY DEF End, Orphaned
<1>2. ASSUME NEW g \in Host PROVE Left(g) \in Seq(Request)
  <2>1. queue[g] \in Seq(Request)
    OBVIOUS
  <2>2. Len(queue[g]) \in Nat /\ DOMAIN queue[g] = 1 .. Len(queue[g])
    BY <2>1
  <2>3. \A i \in 1 .. Len(queue[g]) : Orphaned(queue[g][i], h) \in Request
    BY <2>1, OrphanedFacts, ElementOfSeq
  <2>4. [i \in 1 .. Len(queue[g]) |-> Orphaned(queue[g][i], h)] \in [1 .. Len(queue[g]) -> Request]
    BY <2>3
  <2>5. [i \in 1 .. Len(queue[g]) |-> Orphaned(queue[g][i], h)] \in Seq(Request)
    BY <2>2, <2>4, SeqDef
  <2> QED
    BY <2>2, <2>5
<1>3. ASSUME NEW g \in Host, NEW d \in Queued(g)' PROVE \E c \in Queued(g) : d = Orphaned(c, h)
  <2>1. queue'[g] = Left(g)
    BY <1>1
  <2>2. PICK i \in DOMAIN queue'[g] : d = queue'[g][i]
    BY DEF Queued
  <2>3. g # h
    BY <2>1, <2>2
  <2>4. i \in DOMAIN queue[g] /\ d = Orphaned(queue[g][i], h)
    BY <2>1, <2>2, <2>3
  <2> QED
    BY <2>4 DEF Queued
<1> QED
  BY <1>1, <1>2, <1>3

-----------------------------------------------------------------------------
(* Types *)

\* What a connection carries: a registration is about the service of a process.
Carried(c) ==
    /\ c.cmd = "register" => /\ c.port \in Proc /\ NameOf[c.port] # None /\ c.name = NameOf[c.port]
                            /\ c.peer \in Caller
    /\ c.cmd \in {"register", "unregister", "find"} => c.name \in Name

\* All connections carry that.
Carries == \A h \in Host : \A c \in Conns(h) : Carried(c)

\* The connections of a host are queued or served.
LEMMA ConnsFacts ==
    \A h \in Host :
        /\ Conns(h) = Queued(h) \cup ({serving[h]} \ {None})
        /\ serving[h] # None => serving[h] \in Conns(h)
BY DEF Conns, Queued

\* A connection with fields of their types is a request.
LEMMA ConnTyped ==
    ASSUME NEW cmd \in {"probe", "register", "unregister", "find", "list", "stop"},
           NEW n \in Name \cup {None}, NEW s \in Proc \cup {None}, NEW x \in Caller \cup {None}
    PROVE  Conn(cmd, n, s, x) \in Request
BY DEF Conn, Request

\* What a server serves, and hands on, is a request.
LEMMA ServingTyped ==
    ASSUME Typing, NEW h \in Host, serving[h] # None
    PROVE  /\ serving[h] \in Request
           /\ serving[h].peer \in Caller \cup {None}
           /\ serving[h].name \in Name \cup {None} /\ serving[h].port \in Proc \cup {None}
           /\ \A k \in Host : [serving[h] EXCEPT !.peer = k] \in Request
<1>1. serving[h] \in Request
  BY DEF Typing, TypeOK
<1> QED
  BY <1>1 DEF Request, Caller

\* Connections are requests.
LEMMA ConnsTyped ==
    ASSUME Typing
    PROVE  \A h \in Host : \A c \in Conns(h) : c \in Request /\ c # None
BY Places DEF Typing, TypeOK, Conns

\* The answer for x reaches x and nobody else.
LEMMA ReplyFacts ==
    ASSUME Typing, NEW x \in Caller \cup {None}, NEW a \in Answer, Reply(x, a)
    PROVE  /\ wait' \in [Caller -> BOOLEAN]
           /\ answer' \in [Caller -> Answer]
           /\ \A y \in Caller : y # x => wait'[y] = wait[y] /\ answer'[y] = answer[y]
           /\ x # None => ~wait'[x] /\ answer'[x] = a
<1>1. CASE x = None
  BY <1>1, Places DEF Reply, Typing, TypeOK
<1>2. CASE x \in Caller
  <2>1. x # None
    BY <1>2, Places
  <2>2. wait' = [wait EXCEPT ![x] = FALSE] /\ answer' = [answer EXCEPT ![x] = a]
    BY <2>1 DEF Reply
  <2> QED
    BY <1>2, <2>2 DEF Typing, TypeOK
<1> QED
  BY <1>1, <1>2

\* The answers that are given are answers.
LEMMA AnswerTyped ==
    /\ NoAnswer \in Answer /\ Broken \in Answer /\ Absent \in Answer
    /\ \A e \in Entry : [kind |-> "found", entry |-> e] \in Answer
    /\ \A names \in SUBSET Name : [kind |-> "list", names |-> names] \in Answer
BY DEF NoAnswer, Broken, Absent, Answer

\* One entry of one table is replaced.
LEMMA TableFacts ==
    ASSUME table \in [Host -> [Name -> Entry \cup {None}]],
           NEW h \in Host, NEW n \in Name, NEW e \in Entry \cup {None},
           table' = [table EXCEPT ![h][n] = e]
    PROVE  /\ table' \in [Host -> [Name -> Entry \cup {None}]]
           /\ table'[h][n] = e
           /\ \A g \in Host, m \in Name : g # h \/ m # n => table'[g][m] = table[g][m]
<1> DEFINE row == [table[h] EXCEPT ![n] = e]
<1>1. table' = [table EXCEPT ![h] = row]
  OBVIOUS
<1>2. row \in [Name -> Entry \cup {None}] /\ row[n] = e /\ \A m \in Name \ {n} : row[m] = table[h][m]
  OBVIOUS
<1> HIDE DEF row
<1> QED
  BY <1>1, <1>2

\* A registration makes an entry of the table.
LEMMA RegisteredTyped ==
    ASSUME Typing, Carries, NEW h \in Host, DoRegisterServer(h)
    PROVE  [port |-> serving[h].port, addr |-> PeerAddr(h, serving[h])] \in Entry
<1>1. serving[h] \in Request /\ Carried(serving[h]) /\ serving[h].cmd = "register"
  BY ServingTyped, ConnsFacts DEF DoRegisterServer, Serves, Carries
<1>2. PeerAddr(h, serving[h]) \in Host \cup {Loopback}
  BY <1>1, Places DEF PeerAddr, Carried, Caller
<1> QED
  BY <1>1, <1>2 DEF Entry, Carried

\* A lookup and a list are answered.
LEMMA SomeReply ==
    ASSUME Typing, Carries, NEW h \in Host, DoFindServer(h) \/ DoListOfServers(h)
    PROVE  \E a \in Answer : Reply(serving[h].peer, a)
<1>1. CASE DoFindServer(h)
  <2>1. serving[h].name \in Name
    BY <1>1, ConnsFacts DEF DoFindServer, Serves, Carries, Carried
  <2>2. table[h][serving[h].name] \in Entry \cup {None}
    BY <2>1 DEF Typing, TypeOK
  <2> QED
    BY <1>1, <2>2, AnswerTyped DEF DoFindServer
<1>2. CASE DoListOfServers(h)
  BY <1>2, AnswerTyped DEF DoListOfServers
<1> QED
  BY <1>1, <1>2

\* The initial state is typed.
LEMMA InitTyping ==
    ASSUME Init
    PROVE  Typing
<1>1. queue \in [Host -> Seq(Request)]
  <2>1. <<>> \in Seq(Request)
    OBVIOUS
  <2> QED
    BY <2>1 DEF Init
<1>2. scenario \in Scenarios /\ up \in [Host -> BOOLEAN] /\ parent \in [Host -> Host \cup {None}]
  BY PlaceAssumption DEF Init
<1>3. \A h \in Host : \A i \in DOMAIN queue[h] : queue[h][i] \in Request
  BY DEF Init
<1>4. serving \in [Host -> Request \cup {None}] /\ table \in [Host -> [Name -> Entry \cup {None}]]
  BY DEF Init
<1>5. /\ stage \in [Proc -> {"new", "probe", "send", "serving", "leaving", "gone"}]
      /\ open \in [Proc -> BOOLEAN] /\ sure \in [Proc -> SUBSET Proc]
  BY DEF Init
<1>6. wait \in [Caller -> BOOLEAN] /\ answer \in [Caller -> Answer]
  BY AnswerTyped DEF Init
<1>7. finds \in 0 .. scenario.finds
  BY <1>2, ScenarioAssumption DEF Init
<1> QED
  BY <1>1, <1>2, <1>3, <1>4, <1>5, <1>6, <1>7 DEF Typing, TypeOK

\* Queues that are sequences of requests have requests for elements.
LEMMA QueueTyped ==
    ASSUME queue' \in [Host -> Seq(Request)]
    PROVE  \A h \in Host : \A i \in DOMAIN queue'[h] : queue'[h][i] \in Request
<1> SUFFICES ASSUME NEW h \in Host, NEW i \in DOMAIN queue'[h]
             PROVE  queue'[h][i] \in Request
  OBVIOUS
<1>1. queue'[h] \in Seq(Request)
  OBVIOUS
<1> QED
  BY <1>1, ElementOfSeq

\* Every step keeps the types: the actions one by one.
LEMMA StepTyping ==
    ASSUME Typing, Carries, [Next]_vars
    PROVE  Typing'
<1> USE DEF Typing, TypeOK
<1>1. scenario' = scenario
  BY DEF Next, vars
<1>2. ASSUME NEW p \in Proc, Listen(p) \/ StartNameServer(p) \/ GiveUp(p) \/ Close(p)
      PROVE  Typing'
  BY <1>1, <1>2 DEF Listen, StartNameServer, GiveUp, Close, Step, clients
<1>3. ASSUME NEW p \in Proc, Probe(p) \/ Register(p) \/ Unregister(p)
      PROVE  Typing'
  <2> DEFINE h == HostOf[p]
  <2>1. h \in Host /\ p \in Caller /\ NameOf[p] \in Name \cup {None}
    BY Places DEF Caller
  <2>2. /\ Conn("probe", None, None, p) \in Request /\ Conn("register", NameOf[p], p, p) \in Request
        /\ Conn("unregister", NameOf[p], None, p) \in Request
    BY <2>1, ConnTyped
  <2>3. \/ UNCHANGED queue
        \/ queue' = Connected(queue, h, Conn("probe", None, None, p))
        \/ queue' = Connected(queue, h, Conn("register", NameOf[p], p, p))
        \/ queue' = Connected(queue, h, Conn("unregister", NameOf[p], None, p))
    BY <1>3 DEF Probe, Register, Unregister
  <2> HIDE DEF h
  <2>4. queue' \in [Host -> Seq(Request)]
    BY <2>1, <2>2, <2>3, ConnectedFacts
  <2>5. stage' \in [Proc -> {"new", "probe", "send", "serving", "leaving", "gone"}]
    BY <1>3 DEF Probe, Register, Unregister, Step
  <2>6. UNCHANGED <<up, parent, serving, table, open, sure, finds, wait, answer>>
    BY <1>3 DEF Probe, Register, Unregister
  <2> QED
    BY <1>1, <2>4, <2>5, <2>6, QueueTyped
<1>4. ASSUME NEW p \in Proc, NEW cmd \in {"find", "list"}, NEW n \in Name, Ask(p, cmd, n)
      PROVE  Typing'
  <2> DEFINE h == HostOf[p]
  <2>1. h \in Host /\ p \in Caller
    BY Places DEF Caller
  <2>2. Conn(cmd, n, None, p) \in Request
    BY <2>1, ConnTyped
  <2>3. UNCHANGED queue \/ queue' = Connected(queue, h, Conn(cmd, n, None, p))
    BY <1>4 DEF Ask
  <2> HIDE DEF h
  <2>4. queue' \in [Host -> Seq(Request)]
    BY <2>1, <2>2, <2>3, ConnectedFacts
  <2>5. wait' \in [Caller -> BOOLEAN] /\ answer' \in [Caller -> Answer]
    BY <1>4, <2>1, AnswerTyped DEF Ask
  <2>6. sure' \in [Proc -> SUBSET Proc]
    BY <1>4 DEF Ask
  <2>7. finds' \in 0 .. scenario'.finds
    <3>1. scenario.finds \in Nat
      BY ScenarioAssumption
    <3> QED
      BY <1>1, <1>4, <3>1 DEF Ask
  <2>8. UNCHANGED <<up, parent, serving, table, stage, open>>
    BY <1>4 DEF Ask
  <2> QED
    BY <1>1, <2>4, <2>5, <2>6, <2>7, <2>8, QueueTyped
<1>5. ASSUME NEW h \in Host, SendStop(h)
      PROVE  Typing'
  <2>1. queue' \in [Host -> Seq(Request)]
    BY <1>5, ConnTyped, ConnectedFacts DEF SendStop
  <2> QED
    BY <1>1, <1>5, <2>1, QueueTyped DEF SendStop, clients
<1>6. ASSUME NEW h \in Host, Accept(h)
      PROVE  Typing'
  <2>1. queue' \in [Host -> Seq(Request)] /\ Head(queue[h]) \in Request
    BY <1>6, AcceptedFacts DEF Accept
  <2> QED
    BY <1>1, <1>6, <2>1, QueueTyped DEF Accept, clients
<1>7. ASSUME NEW h \in Host, ServeProbe(h)
      PROVE  Typing'
  BY <1>1, <1>7 DEF ServeProbe, Finished, clients
<1>8. ASSUME NEW h \in Host, ForwardUpdate(h)
      PROVE  Typing'
  <2> DEFINE c == [serving[h] EXCEPT !.peer = h]
  <2>1. c \in Request /\ parent[h] \in Host
    BY <1>8, ServingTyped DEF ForwardUpdate, Serves
  <2>2. queue' = Connected(queue, parent[h], c) \/ UNCHANGED queue
    BY <1>8 DEF ForwardUpdate
  <2> HIDE DEF c
  <2>3. queue' \in [Host -> Seq(Request)]
    BY <2>1, <2>2, ConnectedFacts
  <2> QED
    BY <1>1, <1>8, <2>3, QueueTyped DEF ForwardUpdate, Finished, clients
<1>9. ASSUME NEW h \in Host, DoRegisterServer(h)
      PROVE  Typing'
  <2>1. serving[h].name \in Name
    BY <1>9, ConnsFacts DEF DoRegisterServer, Serves, Carries, Carried
  <2>2. [port |-> serving[h].port, addr |-> PeerAddr(h, serving[h])] \in Entry
    BY <1>9, RegisteredTyped
  <2>4. table' \in [Host -> [Name -> Entry \cup {None}]]
    BY <1>9, <2>1, <2>2, TableFacts DEF DoRegisterServer
  <2> QED
    BY <1>1, <1>9, <2>4 DEF DoRegisterServer, Finished, clients
<1>10. ASSUME NEW h \in Host, DoUnregisterServer(h)
       PROVE  Typing'
  BY <1>1, <1>10 DEF DoUnregisterServer, Finished, clients
<1>11. ASSUME NEW h \in Host, DoFindServer(h) \/ DoListOfServers(h)
       PROVE  Typing'
  <2>1. serving[h] # None
    BY <1>11 DEF DoFindServer, DoListOfServers, Serves
  <2>2. table' \in [Host -> [Name -> Entry \cup {None}]]
    <3>1. CASE DoFindServer(h)
      <4> DEFINE n == serving[h].name
      <4>1. table' = table \/ table' = [table EXCEPT ![h][n] = None]
        BY <3>1 DEF DoFindServer
      <4>2. n \in Name
        BY <2>1, <3>1, ConnsFacts DEF DoFindServer, Serves, Carries, Carried
      <4> HIDE DEF n
      <4> QED
        BY <4>1, <4>2, TableFacts
    <3>2. CASE DoListOfServers(h)
      <4> DEFINE Cleaned(names) == [n \in Name |-> IF n \in names THEN table[h][n] ELSE None]
      <4>1. PICK names \in SUBSET Name : table' = [table EXCEPT ![h] = Cleaned(names)]
        BY <3>2 DEF DoListOfServers
      <4>2. Cleaned(names) \in [Name -> Entry \cup {None}]
        OBVIOUS
      <4> HIDE DEF Cleaned
      <4> QED
        BY <4>1, <4>2
    <3> QED
      BY <1>11, <3>1, <3>2
  <2>3. \E a \in Answer : Reply(serving[h].peer, a)
    BY <1>11, SomeReply
  <2>4. wait' \in [Caller -> BOOLEAN] /\ answer' \in [Caller -> Answer]
    BY <2>1, <2>3, ServingTyped, ReplyFacts
  <2> QED
    BY <1>1, <1>11, <2>2, <2>4 DEF DoFindServer, DoListOfServers, Finished, clients
<1>12. ASSUME NEW h \in Host, AskParent(h)
       PROVE  Typing'
  <2> DEFINE c == [serving[h] EXCEPT !.peer = h]
  <2>1. c \in Request /\ parent[h] \in Host /\ serving[h].peer \in Caller \cup {None} /\ h \in Caller
    BY <1>12, ServingTyped DEF AskParent, Serves, Caller
  <2>2. CASE Refuses(parent[h]) /\ Reply(serving[h].peer, IF serving[h].cmd = "find" THEN Absent ELSE Broken)
             /\ Finished(h) /\ UNCHANGED queue
    <3>1. wait' \in [Caller -> BOOLEAN] /\ answer' \in [Caller -> Answer]
      BY <2>1, <2>2, ReplyFacts, AnswerTyped
    <3> QED
      BY <1>1, <1>12, <2>2, <3>1 DEF AskParent, Finished, clients
  <2>3. CASE queue' = Connected(queue, parent[h], c) /\ wait' = [wait EXCEPT ![h] = TRUE] /\ UNCHANGED <<serving, answer>>
    <3> HIDE DEF c
    <3>1. queue' \in [Host -> Seq(Request)]
      BY <2>1, <2>3, ConnectedFacts
    <3> QED
      BY <1>1, <1>12, <2>1, <2>3, <3>1, QueueTyped DEF AskParent, clients
  <2> QED
    BY <1>12, <2>2, <2>3 DEF AskParent
<1>13. ASSUME NEW h \in Host, Relay(h)
       PROVE  Typing'
  <2>1. h \in Caller
    BY DEF Caller
  <2>2. answer' \in [Caller -> Answer]
    <3> DEFINE a == IF answer[h] # Broken THEN answer[h]
                    ELSE IF serving[h].cmd = "find" THEN Absent ELSE [kind |-> "list", names |-> {}]
    <3>1. a \in Answer
      BY <2>1, AnswerTyped
    <3>2. answer' = [x \in Caller |-> IF x = serving[h].peer THEN a ELSE IF x = h THEN NoAnswer ELSE answer[x]]
      BY <1>13 DEF Relay
    <3> HIDE DEF a
    <3> QED
      BY <3>1, <3>2, AnswerTyped
  <2>3. wait' \in [Caller -> BOOLEAN]
    BY <1>13 DEF Relay
  <2> QED
    BY <1>1, <1>13, <2>2, <2>3 DEF Relay, Finished, clients
<1>14. ASSUME NEW h \in Host, End(h)
       PROVE  Typing'
  <2>1. queue' \in [Host -> Seq(Request)]
    BY <1>14, EndedFacts
  <2>2. serving' \in [Host -> Request \cup {None}]
    <3>1. serving' = [g \in Host |-> IF g = h \/ serving[g] = None THEN None ELSE Orphaned(serving[g], h)]
      BY <1>14 DEF End, Orphaned
    <3> QED
      BY <3>1, OrphanedFacts
  <2>3. answer' \in [Caller -> Answer]
    BY <1>14, AnswerTyped DEF End
  <2>4. wait' \in [Caller -> BOOLEAN]
    BY <1>14 DEF End
  <2> QED
    BY <1>1, <1>14, <2>1, <2>2, <2>3, <2>4, QueueTyped DEF End, clients
<1>15. CASE UNCHANGED vars
  BY <1>15 DEF vars, clients
<1> QED
  BY <1>2, <1>3, <1>4, <1>5, <1>6, <1>7, <1>8, <1>9, <1>10, <1>11, <1>12, <1>13, <1>14, <1>15
     DEF Next, Serve, Offer, ServeStop, Crash


\* What process p asks of its name server.
Sent(p, c) ==
    \/ c = Conn("probe", None, None, p)
    \/ Step(p, "send", "serving") /\ c = Conn("register", NameOf[p], p, p)
    \/ Step(p, "serving", "leaving") /\ c = Conn("unregister", NameOf[p], None, p)
    \/ \E cmd \in {"find", "list"}, n \in Name : Ask(p, cmd, n) /\ c = Conn(cmd, n, None, p)

\* What the name server of k hands on to its parent.
HandedOn(k, c) ==
    /\ serving[k] # None
    /\ serving[k].cmd \in {"register", "unregister", "find", "list"}
    /\ c = [serving[k] EXCEPT !.peer = k]

\* How a connection comes to h: from a process, from nameserv -stop, from a
\* child, or it was there and its sender has gone.
Arrives(h, c) ==
    \/ \E p \in Proc : HostOf[p] = h /\ Sent(p, c)
    \/ "stop" \in Faults /\ c = Conn("stop", None, None, None)
    \/ \E k \in Host : parent[k] = h /\ HandedOn(k, c)
    \/ \E d \in Conns(h) : Asks(d) /\ c = [d EXCEPT !.peer = None]

\* No connection comes from nowhere.
Accounted == \A h \in Host : \A c \in Conns(h)' : c \in Conns(h) \/ Arrives(h, c)

\* Every connection of the next state was there or arrives.
LEMMA Arrivals ==
    ASSUME Typing, [Next]_vars
    PROVE  Accounted
<1> USE DEF Accounted
<1>1. ASSUME NEW k \in Host, NEW c \in Request,
             queue' = Connected(queue, k, c), Arrives(k, c),
             \A h \in Host : serving'[h] \in {serving[h], None}
      PROVE  Accounted
  <2>1. \A h \in Host : Queued(h)' = IF h = k THEN Queued(h) \cup {c} ELSE Queued(h)
    BY <1>1, ConnectedQueued DEF Typing
  <2> QED
    BY <1>1, <2>1, ConnsFacts DEF Conns, Queued
<1>2. ASSUME UNCHANGED queue, \A h \in Host : serving'[h] \in {serving[h], None}
      PROVE  Accounted
  BY <1>2 DEF Conns
<1> HIDE DEF Accounted
<1>3. ASSUME NEW h \in Host, NEW s \in {serving, [serving EXCEPT ![h] = None]}, serving' = s
      PROVE  \A g \in Host : serving'[g] \in {serving[g], None}
  BY <1>3 DEF Typing, TypeOK
<1>4. ASSUME NEW p \in Proc, Listen(p) \/ StartNameServer(p) \/ GiveUp(p) \/ Close(p)
      PROVE  Accounted
  BY <1>2, <1>4 DEF Listen, StartNameServer, GiveUp, Close
<1>5. ASSUME NEW p \in Proc, Probe(p) \/ Register(p) \/ Unregister(p)
      PROVE  Accounted
  <2>1. HostOf[p] \in Host /\ p \in Caller /\ NameOf[p] \in Name \cup {None}
    BY Places DEF Caller
  <2>2. UNCHANGED serving
    BY <1>5 DEF Probe, Register, Unregister
  <2>3. CASE UNCHANGED queue
    BY <1>2, <2>2, <2>3
  <2>4. CASE \E c \in Request : queue' = Connected(queue, HostOf[p], c) /\ Sent(p, c)
    BY <1>1, <2>1, <2>2, <2>4 DEF Arrives
  <2> QED
    BY <1>5, <2>1, <2>3, <2>4, ConnTyped DEF Probe, Register, Unregister, Step, Sent
<1>6. ASSUME NEW p \in Proc, NEW cmd \in {"find", "list"}, NEW n \in Name, Ask(p, cmd, n)
      PROVE  Accounted
  <2>1. HostOf[p] \in Host /\ p \in Caller
    BY Places DEF Caller
  <2>2. UNCHANGED serving
    BY <1>6 DEF Ask
  <2>3. CASE UNCHANGED queue
    BY <1>2, <2>2, <2>3
  <2>4. CASE queue' = Connected(queue, HostOf[p], Conn(cmd, n, None, p))
    <3>1. Conn(cmd, n, None, p) \in Request /\ Arrives(HostOf[p], Conn(cmd, n, None, p))
      BY <1>6, <2>1, ConnTyped DEF Arrives, Sent
    <3> QED
      BY <1>1, <2>1, <2>2, <2>4, <3>1
  <2> QED
    BY <1>6, <2>3, <2>4 DEF Ask
<1>7. ASSUME NEW h \in Host, SendStop(h)
      PROVE  Accounted
  BY <1>1, <1>7, ConnTyped DEF SendStop, Arrives
<1>8. ASSUME NEW h \in Host, Accept(h)
      PROVE  Accounted
  <2>1. /\ queue' = [queue EXCEPT ![h] = Tail(queue[h])] /\ queue[h] # <<>>
        /\ serving' = [serving EXCEPT ![h] = Head(queue[h])]
    BY <1>8 DEF Accept
  <2>2. \A g \in Host : Queued(g)' \subseteq Queued(g) /\ (g = h => Head(queue[h]) \in Queued(g))
    BY <2>1, AcceptedQueued DEF Typing
  <2>3. \A g \in Host : serving'[g] = IF g = h THEN Head(queue[h]) ELSE serving[g]
    BY <2>1 DEF Typing, TypeOK
  <2> QED
    BY <2>2, <2>3, ConnsFacts DEF Conns, Queued, Accounted
<1>9. ASSUME NEW h \in Host,
             \/ ServeProbe(h) \/ DoRegisterServer(h) \/ DoUnregisterServer(h)
             \/ DoFindServer(h) \/ DoListOfServers(h) \/ Relay(h)
      PROVE  Accounted
  <2>1. UNCHANGED queue /\ serving' = [serving EXCEPT ![h] = None]
    BY <1>9 DEF ServeProbe, DoRegisterServer, DoUnregisterServer, DoFindServer, DoListOfServers, Relay, Finished
  <2> QED
    BY <1>2, <1>3, <2>1
<1>10. ASSUME NEW h \in Host, ForwardUpdate(h) \/ AskParent(h)
       PROVE  Accounted
  <2> DEFINE c == [serving[h] EXCEPT !.peer = h]
  <2>1. serving[h] # None /\ c \in Request /\ parent[h] \in Host
    BY <1>10, ServingTyped DEF ForwardUpdate, AskParent, Serves, Typing, TypeOK
  <2>2. serving[h].cmd \in {"register", "unregister", "find", "list"}
    BY <1>10 DEF ForwardUpdate, AskParent, Serves
  <2>3. Arrives(parent[h], c)
    BY <2>1, <2>2 DEF Arrives, HandedOn
  <2>4. serving' \in {serving, [serving EXCEPT ![h] = None]}
    BY <1>10 DEF ForwardUpdate, AskParent, Finished
  <2>5. UNCHANGED queue \/ queue' = Connected(queue, parent[h], c)
    BY <1>10 DEF ForwardUpdate, AskParent
  <2> HIDE DEF c
  <2> QED
    BY <1>1, <1>2, <1>3, <2>1, <2>3, <2>4, <2>5
<1>11. ASSUME NEW h \in Host, End(h)
       PROVE  Accounted
  <2>1. \A g \in Host : \A d \in Queued(g)' : \E c \in Queued(g) : d = Orphaned(c, h)
    BY <1>11, EndedFacts DEF Typing
  <2>2. serving' = [g \in Host |-> IF g = h \/ serving[g] = None THEN None ELSE Orphaned(serving[g], h)]
    BY <1>11 DEF End, Orphaned
  <2>3. \A g \in Host : \A d \in Conns(g)' : \E c \in Conns(g) : d = Orphaned(c, h)
    BY <2>1, <2>2 DEF Conns, Queued
  <2> QED
    BY <2>3 DEF Accounted, Arrives, Orphaned
<1>12. CASE UNCHANGED vars
  BY <1>2, <1>12 DEF vars
<1> QED
  BY <1>4, <1>5, <1>6, <1>7, <1>8, <1>9, <1>10, <1>11, <1>12 DEF Next, Serve, Offer, ServeStop, Crash


\* Only a process that has a service takes the steps of offering one.
Offers == \A p \in Proc : stage[p] \in {"probe", "send", "serving", "leaving"} => NameOf[p] # None

\* A process that starts to offer a service has one.
LEMMA StepOffers ==
    ASSUME Typing, Offers, [Next]_vars
    PROVE  Offers'
<1> USE DEF Offers, Typing, TypeOK
<1>1. CASE UNCHANGED stage
  BY <1>1
<1>2. ASSUME NEW p \in Proc, NEW to \in {"probe", "send", "serving", "leaving", "gone"},
             stage' = [stage EXCEPT ![p] = to], NameOf[p] # None
      PROVE  Offers'
  BY <1>2
<1>3. CASE UNCHANGED vars
  BY <1>1, <1>3 DEF vars, clients
<1>4. ASSUME NEW h \in Host, Serve(h) \/ SendStop(h) \/ Crash(h)
      PROVE  Offers'
  <2>1. UNCHANGED stage
    BY <1>4 DEF Serve, SendStop, Crash, Accept, ServeProbe, ForwardUpdate, DoRegisterServer, DoUnregisterServer,
                DoFindServer, DoListOfServers, AskParent, Relay, ServeStop, End, clients
  <2> QED
    BY <1>1, <2>1
<1>5. ASSUME NEW p \in Proc, Listen(p) \/ Offer(p) \/ Unregister(p) \/ Close(p)
      PROVE  Offers'
  BY <1>1, <1>2, <1>5 DEF Listen, Offer, Probe, StartNameServer, GiveUp, Register, Unregister, Close, Step, clients
<1>6. ASSUME NEW p \in Proc, NEW cmd \in {"find", "list"}, NEW n \in Name, Ask(p, cmd, n)
      PROVE  Offers'
  BY <1>1, <1>6 DEF Ask
<1> QED
  BY <1>3, <1>4, <1>5, <1>6 DEF Next

\* What arrives carries what a connection carries.
LEMMA StepCarries ==
    ASSUME Typing, Carries, Offers, [Next]_vars
    PROVE  Carries'
<1> SUFFICES ASSUME NEW h \in Host, NEW c \in Conns(h)'
             PROVE  Carried(c)
  BY DEF Carries
<1>1. c \in Conns(h) \/ Arrives(h, c)
  BY Arrivals DEF Accounted
<1>2. CASE c \in Conns(h)
  BY <1>2 DEF Carries
<1>3. ASSUME NEW p \in Proc, Sent(p, c)
      PROVE  Carried(c)
  <2>1. stage[p] \in {"send", "serving"} => NameOf[p] \in Name /\ NameOf[p] # None
    BY Places DEF Offers
  <2> QED
    BY <1>3, <2>1 DEF Sent, Step, Conn, Carried, Caller
<1>4. CASE c = Conn("stop", None, None, None)
  BY <1>4 DEF Conn, Carried
<1>5. ASSUME NEW k \in Host, HandedOn(k, c)
      PROVE  Carried(c)
  <2>1. serving[k] \in Request /\ Carried(serving[k]) /\ c = [serving[k] EXCEPT !.peer = k]
    BY <1>5, ServingTyped, ConnsFacts DEF HandedOn, Carries
  <2>2. c.cmd = serving[k].cmd /\ c.name = serving[k].name /\ c.port = serving[k].port /\ c.peer = k
    BY <2>1 DEF Request
  <2> QED
    BY <2>1, <2>2 DEF Carried, Caller
<1>6. ASSUME NEW d \in Conns(h), Asks(d), c = [d EXCEPT !.peer = None]
      PROVE  Carried(c)
  <2>1. d \in Request
    BY ConnsTyped
  <2>2. c.cmd = d.cmd /\ c.name = d.name
    BY <1>6, <2>1 DEF Request
  <2> QED
    BY <1>6, <2>2 DEF Carried, Carries, Asks
<1> QED
  BY <1>1, <1>2, <1>3, <1>4, <1>5, <1>6 DEF Arrives

\* The inductive invariant of the types.
ServerTypes == Typing /\ Carries /\ Offers

\* It holds at first, ...
LEMMA InitServerTypes ==
    ASSUME Init
    PROVE  ServerTypes
<1>1. Carries
  BY DEF Init, Carries, Conns
<1>2. Offers
  BY DEF Init, Offers
<1> QED
  BY <1>1, <1>2, InitTyping DEF ServerTypes

\* ... every step keeps it, ...
LEMMA StepServerTypes ==
    ASSUME ServerTypes, [Next]_vars
    PROVE  ServerTypes'
BY StepTyping, StepCarries, StepOffers DEF ServerTypes

\* ... and so it holds always.
LEMMA AlwaysServerTypes == Spec => []ServerTypes
<1>1. ServerTypes /\ [Next]_vars => ServerTypes'
  BY StepServerTypes
<1> QED
  BY <1>1, InitServerTypes, PTL DEF Spec

\* Every reachable state of the name servers and their clients is typed, whatever
\* fails (nameServ.cxx, nameServCalls.cxx, service.cxx).
THEOREM ServerTypeOK == Spec => []TypeOK
<1>1. ServerTypes => TypeOK
  BY DEF ServerTypes, Typing
<1> QED
  BY <1>1, AlwaysServerTypes, PTL

-----------------------------------------------------------------------------
(* What a lookup finds *)

\* A name server that a registration has started has no parent any more.
Parents == \A h \in Host : parent[h] \in {Parent[h], None}

\* Where a connection comes from: a process of the host or a child, and a
\* registration from the process it is about or from that process's own host.
Route(h, c) ==
    /\ c.peer \in Proc => HostOf[c.peer] = h
    /\ c.peer \in Host => Parent[c.peer] = h
    /\ c.cmd = "register" => c.peer \in {c.port, HostOf[c.port]}

\* All connections come that way.
Routes == \A h \in Host : \A c \in Conns(h) : Route(h, c)

\* A registration is under its name, and its address leads to its host.
Entries ==
    \A h \in Host, n \in Name :
        LET e == table[h][n]
        IN  e # None => /\ NameOf[e.port] # None /\ NameOf[e.port] = n
                        /\ Reached(h, e.addr) = HostOf[e.port]

\* An answer leads whoever got it to the service, and so does what a name
\* server has been told, which it passes on as it is.
Leads(x, a) ==
    a.kind = "found" =>
        /\ x \in Proc => Reached(HostOf[x], a.entry.addr) = HostOf[a.entry.port]
        /\ x \in Host => a.entry.addr = HostOf[a.entry.port]

\* All answers do.
Answers == \A x \in Caller : Leads(x, answer[x])

\* A parent is lost, never replaced.
LEMMA StepParents ==
    ASSUME Typing, Parents, [Next]_vars
    PROVE  Parents'
<1>1. UNCHANGED parent \/ \E p \in Proc : StartNameServer(p)
  BY DEF Next, Serve, Offer, SendStop, Crash, Accept, ServeProbe, ForwardUpdate, DoRegisterServer,
         DoUnregisterServer, DoFindServer, DoListOfServers, AskParent, Relay, ServeStop, End, Listen, Probe,
         GiveUp, Register, Unregister, Close, Ask, vars
<1>2. CASE UNCHANGED parent
  BY <1>2 DEF Parents
<1>3. CASE \E p \in Proc : StartNameServer(p)
  BY <1>3 DEF StartNameServer, Parents, Typing, TypeOK
<1> QED
  BY <1>1, <1>2, <1>3

\* What arrives comes from a process of the host or from a child.
LEMMA StepRoutes ==
    ASSUME Shallow, Typing, Carries, Offers, Parents, Routes, [Next]_vars
    PROVE  Routes'
<1> SUFFICES ASSUME NEW h \in Host, NEW c \in Conns(h)'
             PROVE  Route(h, c)
  BY DEF Routes
<1>1. c \in Conns(h) \/ Arrives(h, c)
  BY Arrivals DEF Accounted
<1>2. CASE c \in Conns(h)
  BY <1>2 DEF Routes
<1>3. ASSUME NEW p \in Proc, HostOf[p] = h, Sent(p, c)
      PROVE  Route(h, c)
  BY <1>3, Places DEF Sent, Conn, Route
<1>4. CASE c = Conn("stop", None, None, None)
  BY <1>4, Places DEF Conn, Route
<1>5. ASSUME NEW k \in Host, parent[k] = h, HandedOn(k, c)
      PROVE  Route(h, c)
  <2>1. /\ serving[k] \in Request /\ serving[k] \in Conns(k) /\ Carried(serving[k]) /\ Route(k, serving[k])
        /\ c = [serving[k] EXCEPT !.peer = k]
    BY <1>5, ServingTyped, ConnsFacts DEF HandedOn, Carries, Routes
  <2>2. c.cmd = serving[k].cmd /\ c.port = serving[k].port /\ c.peer = k
    BY <2>1 DEF Request
  <2>3. Parent[k] = h
    BY <1>5, Places DEF Parents
  <2>4. c.cmd = "register" => c.peer = HostOf[c.port]
    <3> SUFFICES ASSUME c.cmd = "register" PROVE k = HostOf[serving[k].port]
      BY <2>2
    <3> DEFINE s == serving[k].port
    <3>1. s \in Proc /\ NameOf[s] # None /\ serving[k].peer \in {s, HostOf[s]}
      BY <2>1, <2>2 DEF Carried, Route
    <3>2. CASE serving[k].peer = s
      BY <2>1, <3>1, <3>2 DEF Route
    <3>3. CASE serving[k].peer = HostOf[s]
      BY <2>1, <2>3, <3>1, <3>3, Places DEF Route, Shallow
    <3> QED
      BY <3>1, <3>2, <3>3
  <2> QED
    BY <2>2, <2>3, <2>4, Places DEF Route
<1>6. ASSUME NEW d \in Conns(h), Asks(d), c = [d EXCEPT !.peer = None]
      PROVE  Route(h, c)
  <2>1. d \in Request
    BY ConnsTyped
  <2>2. c.cmd = d.cmd /\ c.peer = None
    BY <1>6, <2>1 DEF Request
  <2> QED
    BY <1>6, <2>2, Places DEF Route, Asks
<1> QED
  BY <1>1, <1>2, <1>3, <1>4, <1>5, <1>6 DEF Arrives

\* A table changes by a registration that is added or removed, ...
Added(h, n) ==
    /\ DoRegisterServer(h) /\ n = serving[h].name
    /\ table'[h][n] = [port |-> serving[h].port, addr |-> PeerAddr(h, serving[h])]

\* ... which it is by its process, because it cannot be reached, or with the
\* whole table.
Removed(h, n) ==
    /\ table'[h][n] = None
    /\ \/ DoUnregisterServer(h) /\ n = serving[h].name
       \/ table[h][n] # None /\ FALSE \in TryServer(h, table[h][n])
       \/ End(h)

\* No step changes an entry in another way.
LEMMA TableSteps ==
    ASSUME Typing, Carries, [Next]_vars
    PROVE  \A h \in Host, n \in Name : table'[h][n] = table[h][n] \/ Added(h, n) \/ Removed(h, n)
<1> DEFINE Only == \A h \in Host, n \in Name : table'[h][n] = table[h][n] \/ Removed(h, n)
<1>1. CASE UNCHANGED table
  BY <1>1
<1>2. ASSUME NEW h \in Host, DoRegisterServer(h)
      PROVE  \A g \in Host, m \in Name : table'[g][m] = table[g][m] \/ Added(g, m)
  <2> DEFINE n == serving[h].name
             e == [port |-> serving[h].port, addr |-> PeerAddr(h, serving[h])]
  <2>1. n \in Name
    BY <1>2, ConnsFacts DEF DoRegisterServer, Serves, Carries, Carried
  <2>2. e \in Entry /\ table' = [table EXCEPT ![h][n] = e]
    BY <1>2, RegisteredTyped DEF DoRegisterServer
  <2>3. table'[h][n] = e /\ \A g \in Host, m \in Name : g # h \/ m # n => table'[g][m] = table[g][m]
    <3> HIDE DEF n, e
    <3> QED
      BY <2>1, <2>2, TableFacts DEF Typing, TypeOK
  <2> QED
    BY <1>2, <2>3 DEF Added
<1>3. ASSUME NEW h \in Host, NEW n \in Name, table' = [table EXCEPT ![h][n] = None]
      PROVE  table'[h][n] = None /\ \A g \in Host, m \in Name : g # h \/ m # n => table'[g][m] = table[g][m]
  BY <1>3, TableFacts DEF Typing, TypeOK
<1>4. ASSUME NEW h \in Host, DoUnregisterServer(h)
      PROVE  Only
  <2> DEFINE n == serving[h].name
  <2>1. n \in Name
    BY <1>4, ConnsFacts DEF DoUnregisterServer, Serves, Carries, Carried
  <2>2. table' = [table EXCEPT ![h][n] = None]
    BY <1>4 DEF DoUnregisterServer
  <2> HIDE DEF n
  <2>3. table'[h][n] = None /\ \A g \in Host, m \in Name : g # h \/ m # n => table'[g][m] = table[g][m]
    BY <1>3, <2>1, <2>2
  <2> QED
    BY <1>4, <2>3 DEF Removed, n
<1>5. ASSUME NEW h \in Host, DoFindServer(h)
      PROVE  Only
  <2> DEFINE n == serving[h].name
  <2>1. n \in Name
    BY <1>5, ConnsFacts DEF DoFindServer, Serves, Carries, Carried
  <2>2. \/ UNCHANGED table
        \/ /\ table' = [table EXCEPT ![h][n] = None]
           /\ table[h][n] # None /\ FALSE \in TryServer(h, table[h][n])
    <3>1. \A e : \A alive \in TryServer(h, e) : alive \in BOOLEAN
      BY DEF TryServer, IsAlive
    <3> QED
      BY <1>5, <3>1 DEF DoFindServer
  <2> HIDE DEF n
  <2>3. CASE UNCHANGED table
    BY <2>3
  <2>4. CASE table' = [table EXCEPT ![h][n] = None] /\ table[h][n] # None /\ FALSE \in TryServer(h, table[h][n])
    <3>1. table'[h][n] = None /\ \A g \in Host, m \in Name : g # h \/ m # n => table'[g][m] = table[g][m]
      BY <1>3, <2>1, <2>4
    <3>2. Removed(h, n)
      BY <2>4, <3>1 DEF Removed
    <3> QED
      BY <3>1, <3>2
  <2> QED
    BY <2>2, <2>3, <2>4
<1>6. ASSUME NEW h \in Host, DoListOfServers(h)
      PROVE  Only
  <2>1. PICK names \in SUBSET Name :
           /\ \A n \in Name : IF table[h][n] = None THEN n \notin names
                              ELSE (n \in names) \in TryServer(h, table[h][n])
           /\ table' = [table EXCEPT ![h] = [n \in Name |-> IF n \in names THEN table[h][n] ELSE None]]
    BY <1>6 DEF DoListOfServers
  <2>2. \A g \in Host, n \in Name : table'[g][n] = IF g = h /\ n \notin names THEN None ELSE table[g][n]
    BY <2>1 DEF Typing, TypeOK
  <2>3. \A n \in Name : table[h][n] # None /\ n \notin names => FALSE \in TryServer(h, table[h][n])
    <3> SUFFICES ASSUME NEW n \in Name, table[h][n] # None, n \notin names
                 PROVE  FALSE \in TryServer(h, table[h][n])
      OBVIOUS
    <3>1. (n \in names) = FALSE
      OBVIOUS
    <3>2. (n \in names) \in TryServer(h, table[h][n])
      BY <2>1
    <3> QED
      BY <3>1, <3>2, Zenon
  <2> QED
    BY <2>2, <2>3 DEF Removed
<1>7. ASSUME NEW h \in Host, End(h)
      PROVE  Only
  <2>1. \A g \in Host, n \in Name : table'[g][n] = IF g = h THEN None ELSE table[g][n]
    BY <1>7 DEF End, Typing, TypeOK
  <2> QED
    BY <1>7, <2>1 DEF Removed
<1>8. \/ UNCHANGED table
      \/ \E h \in Host : \/ DoRegisterServer(h) \/ DoUnregisterServer(h) \/ DoFindServer(h)
                         \/ DoListOfServers(h) \/ End(h)
  BY DEF Next, Serve, Offer, SendStop, Crash, Accept, ServeProbe, ForwardUpdate,
         AskParent, Relay, ServeStop, Listen, Probe, StartNameServer,
         GiveUp, Register, Unregister, Close, Ask, vars, clients
<1>9. CASE Only
  BY <1>9
<1> HIDE DEF Only
<1> QED
  BY <1>1, <1>2, <1>4, <1>5, <1>6, <1>7, <1>8, <1>9

\* A registration is entered with the address of its host.
LEMMA StepEntries ==
    ASSUME Typing, Carries, Routes, Entries, [Next]_vars
    PROVE  Entries'
<1> SUFFICES ASSUME NEW h \in Host, NEW n \in Name, table'[h][n] # None
             PROVE  /\ NameOf[table'[h][n].port] # None /\ NameOf[table'[h][n].port] = n
                    /\ Reached(h, table'[h][n].addr) = HostOf[table'[h][n].port]
  BY DEF Entries, Reached
<1>1. CASE table'[h][n] = table[h][n]
  BY <1>1 DEF Entries
<1>2. CASE Added(h, n)
  <2> DEFINE c == serving[h]
  <2>1. Carried(c) /\ Route(h, c) /\ c.cmd = "register"
    BY <1>2, ConnsFacts DEF Added, DoRegisterServer, Serves, Carries, Routes
  <2> HIDE DEF c
  <2>2. Reached(h, PeerAddr(h, c)) = HostOf[c.port]
    BY <2>1, Places DEF Carried, Route, PeerAddr, Reached
  <2>3. table'[h][n].port = c.port /\ table'[h][n].addr = PeerAddr(h, c)
    BY <1>2 DEF Added, c
  <2> QED
    BY <1>2, <2>1, <2>2, <2>3 DEF Added, c, Carried
<1> QED
  BY <1>1, <1>2, TableSteps DEF Removed

\* An answer is made of an entry, or passed on.
LEMMA StepAnswers ==
    ASSUME RootsServeNothing, Typing, Carries, Routes, Entries, Answers, [Next]_vars
    PROVE  Answers'
<1> USE DEF Answers
<1>1. CASE UNCHANGED answer
  BY <1>1 DEF Leads
<1>2. ASSUME NEW x \in Caller \cup {None}, NEW a \in Answer, Reply(x, a), x # None => Leads(x, a)
      PROVE  Answers'
  <2>1. \A y \in Caller : answer'[y] = answer[y] \/ (y = x /\ answer'[y] = a)
    BY <1>2, ReplyFacts, Places
  <2> QED
    BY <1>2, <2>1, Places DEF Leads
<1>3. Leads(NoAnswer, NoAnswer) /\ \A x \in Caller : Leads(x, NoAnswer) /\ Leads(x, Broken) /\ Leads(x, Absent)
  BY DEF Leads, NoAnswer, Broken, Absent
<1>4. ASSUME NEW p \in Proc, NEW cmd \in {"find", "list"}, NEW n \in Name, Ask(p, cmd, n)
      PROVE  Answers'
  <2>1. \A x \in Caller : answer'[x] \in {answer[x], NoAnswer, Broken}
    BY <1>4 DEF Ask, Typing, TypeOK
  <2> QED
    BY <1>3, <2>1 DEF Leads
<1>5. ASSUME NEW h \in Host, DoFindServer(h)
      PROVE  Answers'
  <2> DEFINE c == serving[h]
             e == table[h][c.name]
             x == c.peer
  <2>1. c # None /\ x \in Caller \cup {None} /\ c.name \in Name /\ Route(h, c)
    BY <1>5, ServingTyped, ConnsFacts DEF DoFindServer, Serves, Carries, Carried, Routes
  <2>2. e \in Entry \cup {None}
    BY <2>1 DEF Typing, TypeOK
  <2>3. Reply(x, Absent) \/ (e # None /\ Reply(x, [kind |-> "found", entry |-> e]))
    BY <1>5 DEF DoFindServer
  <2>4. CASE Reply(x, Absent)
    BY <1>2, <1>3, <2>1, <2>4, AnswerTyped
  <2>5. CASE e # None /\ Reply(x, [kind |-> "found", entry |-> e])
    <3>1. NameOf[e.port] # None /\ Reached(h, e.addr) = HostOf[e.port]
      BY <2>1, <2>5 DEF Entries
    <3>2. e.port \in Proc /\ e.addr \in Host \cup {Loopback}
      BY <2>2, <2>5 DEF Entry
    <3> HIDE DEF e, x, c
    <3>3. x \in Proc => Reached(HostOf[x], e.addr) = HostOf[e.port]
      BY <2>1, <3>1 DEF Route, x
    <3>4. x \in Host => e.addr = HostOf[e.port]
      BY <2>1, <3>1, <3>2 DEF Route, Reached, RootsServeNothing, x
    <3>5. Leads(x, [kind |-> "found", entry |-> e])
      BY <3>3, <3>4 DEF Leads
    <3> QED
      BY <1>2, <2>1, <2>2, <2>5, <3>5, AnswerTyped
  <2> QED
    BY <2>3, <2>4, <2>5
<1>6. ASSUME NEW h \in Host, DoListOfServers(h)
      PROVE  Answers'
  <2>1. PICK names \in SUBSET Name : Reply(serving[h].peer, [kind |-> "list", names |-> names])
    BY <1>6 DEF DoListOfServers
  <2>2. serving[h].peer \in Caller \cup {None}
    BY <1>6, ServingTyped DEF DoListOfServers, Serves
  <2>3. Leads(serving[h].peer, [kind |-> "list", names |-> names])
    BY DEF Leads
  <2> QED
    BY <1>2, <2>1, <2>2, <2>3, AnswerTyped
<1>7. ASSUME NEW h \in Host, AskParent(h)
      PROVE  Answers'
  <2>1. serving[h].peer \in Caller \cup {None}
    BY <1>7, ServingTyped DEF AskParent, Serves
  <2>2. UNCHANGED answer \/ Reply(serving[h].peer, Absent) \/ Reply(serving[h].peer, Broken)
    BY <1>7 DEF AskParent
  <2> QED
    BY <1>1, <1>2, <1>3, <2>1, <2>2, AnswerTyped
<1>8. ASSUME NEW h \in Host, Relay(h)
      PROVE  Answers'
  <2>1. PICK a \in {answer[h], Absent, [kind |-> "list", names |-> {}]} :
           answer' = [x \in Caller |-> IF x = serving[h].peer THEN a ELSE IF x = h THEN NoAnswer ELSE answer[x]]
    BY <1>8 DEF Relay
  <2>2. h \in Caller /\ Leads(h, answer[h]) /\ answer[h] \in Answer
    BY DEF Caller, Typing, TypeOK
  <2>3. \A x \in Caller : Leads(x, a)
    <3>1. a.kind = "found" => a = answer[h] /\ a.entry \in Entry
      BY <2>1, <2>2 DEF Absent, Answer
    <3> QED
      BY <2>2, <3>1, Places DEF Leads, Reached, Entry
  <2> QED
    BY <1>3, <2>1, <2>3 DEF Leads
<1>9. ASSUME NEW h \in Host, End(h)
      PROVE  Answers'
  <2>1. \A x \in Caller : answer'[x] \in {answer[x], NoAnswer, Broken}
    BY <1>9 DEF End
  <2> QED
    BY <1>3, <2>1 DEF Leads
<1>10. \/ UNCHANGED answer
       \/ \E p \in Proc, cmd \in {"find", "list"}, n \in Name : Ask(p, cmd, n)
       \/ \E h \in Host : \/ DoFindServer(h) \/ DoListOfServers(h) \/ AskParent(h) \/ Relay(h) \/ End(h)
  BY DEF Next, Serve, Offer, SendStop, Crash, Accept, ServeProbe, ForwardUpdate,
         DoRegisterServer, DoUnregisterServer, ServeStop, Listen, Probe, StartNameServer,
         GiveUp, Register, Unregister, Close, vars, clients
<1> QED
  BY <1>1, <1>4, <1>5, <1>6, <1>7, <1>8, <1>9, <1>10

\* The inductive invariant of what a lookup finds.
Lookups == ServerTypes /\ Parents /\ Routes /\ Entries /\ Answers

\* It holds before the first registration.
LEMMA InitLookups ==
    ASSUME Init
    PROVE  Lookups
<1>1. Parents /\ Routes /\ Entries /\ Answers
  BY DEF Init, Parents, Routes, Conns, Entries, Answers, Leads, NoAnswer
<1> QED
  BY <1>1, InitServerTypes DEF Lookups

\* A lookup leads its caller to the host of a process that offers the service
\* it asked for, whatever fails: the address that goes with a registration is
\* the one its name server has seen (DoRegisterServer, DoFindServer), and it is
\* right for everyone if no service is behind more than two name servers and
\* none on a host that others forward to.
THEOREM LookupLeads == ASSUME Shallow, RootsServeNothing PROVE Spec => []FoundReaches
<1>1. Lookups /\ [Next]_vars => Lookups'
  BY StepServerTypes, StepParents, StepRoutes, StepEntries, StepAnswers DEF Lookups, ServerTypes
<1>2. Lookups => FoundReaches
  BY DEF Lookups, Answers, Leads, FoundReaches, Caller
<1> QED
  BY <1>1, <1>2, InitLookups, PTL DEF Spec

-----------------------------------------------------------------------------
(* A run without faults *)

\* Positions in a queue that gets one connection more, ...
LEMMA AppendIndices ==
    ASSUME Typing, NEW k \in Host, NEW c \in Request, queue' = Connected(queue, k, c)
    PROVE  /\ \A h \in Host : \A i \in DOMAIN queue[h] : i \in DOMAIN queue'[h] /\ queue'[h][i] = queue[h][i]
           /\ \A h \in Host : \A i \in DOMAIN queue'[h] :
                 i \in DOMAIN queue[h] \/ (h = k /\ i = Len(queue[k]) + 1 /\ queue'[h][i] = c)
           /\ \A i \in DOMAIN queue[k] : i < Len(queue[k]) + 1
<1>1. /\ queue' \in [Host -> Seq(Request)]
      /\ \A g \in Host \ {k} : queue'[g] = queue[g]
      /\ Len(queue'[k]) = Len(queue[k]) + 1
      /\ \A i \in 1 .. Len(queue[k]) : queue'[k][i] = queue[k][i]
      /\ queue'[k][Len(queue[k]) + 1] = c
  BY ConnectedFacts DEF Typing
<1>2. queue[k] \in Seq(Request) /\ queue'[k] \in Seq(Request)
  BY <1>1 DEF Typing
<1>3. Len(queue[k]) \in Nat /\ DOMAIN queue[k] = 1 .. Len(queue[k]) /\ DOMAIN queue'[k] = 1 .. Len(queue[k]) + 1
  BY <1>1, <1>2
<1>4. \A i \in 1 .. Len(queue[k]) + 1 : i \in 1 .. Len(queue[k]) \/ i = Len(queue[k]) + 1
  BY <1>3
<1> QED
  BY <1>1, <1>3, <1>4

\* ... and in one from which a connection is accepted.
LEMMA AcceptIndices ==
    ASSUME Typing, NEW k \in Host, Accept(k)
    PROVE  /\ \A h \in Host : h # k => queue'[h] = queue[h] /\ serving'[h] = serving[h]
           /\ \A i \in DOMAIN queue'[k] :
                 i \in Nat /\ i # 0 /\ i + 1 \in DOMAIN queue[k] /\ queue'[k][i] = queue[k][i + 1]
           /\ \A j \in DOMAIN queue[k] :
                 j \in Nat /\ (j # 1 => j - 1 \in DOMAIN queue'[k] /\ queue'[k][j - 1] = queue[k][j])
           /\ 1 \in DOMAIN queue[k] /\ serving'[k] = queue[k][1] /\ serving[k] = None
<1>1. queue[k] # <<>> /\ queue' = [queue EXCEPT ![k] = Tail(queue[k])]
  BY DEF Accept
<1>2. /\ queue' \in [Host -> Seq(Request)]
      /\ \A g \in Host \ {k} : queue'[g] = queue[g]
      /\ Len(queue[k]) \in Nat \ {0}
      /\ Len(queue'[k]) = Len(queue[k]) - 1
      /\ \A i \in 1 .. Len(queue'[k]) : queue'[k][i] = queue[k][i + 1]
      /\ Head(queue[k]) = queue[k][1]
  BY <1>1, AcceptedFacts DEF Typing
<1>3. queue[k] \in Seq(Request) /\ queue'[k] \in Seq(Request)
  BY <1>2 DEF Typing
<1>4. DOMAIN queue[k] = 1 .. Len(queue[k]) /\ DOMAIN queue'[k] = 1 .. Len(queue[k]) - 1
  BY <1>2, <1>3
<1>5. \A h \in Host : serving'[h] = IF h = k THEN Head(queue[k]) ELSE serving[h]
  BY DEF Accept, Typing, TypeOK
<1>6. serving[k] = None
  BY DEF Accept
<1>7. ASSUME NEW j \in DOMAIN queue[k], j # 1
      PROVE  j - 1 \in DOMAIN queue'[k] /\ queue'[k][j - 1] = queue[k][j]
  <2>1. j - 1 \in 1 .. Len(queue'[k]) /\ (j - 1) + 1 = j
    BY <1>2, <1>4, <1>7
  <2> QED
    BY <1>2, <1>4, <2>1
<1>8. \A i \in DOMAIN queue'[k] : i \in Nat /\ i # 0 /\ i + 1 \in DOMAIN queue[k] /\ queue'[k][i] = queue[k][i + 1]
  BY <1>2, <1>4
<1>9. 1 \in DOMAIN queue[k] /\ \A j \in DOMAIN queue[k] : j \in Nat
  BY <1>2, <1>4
<1> QED
  BY <1>2, <1>5, <1>6, <1>7, <1>8, <1>9

\* A server that has finished serves nothing.
LEMMA FinishedFacts ==
    ASSUME Typing, NEW k \in Host, Finished(k)
    PROVE  \A h \in Host : serving'[h] = IF h = k THEN None ELSE serving[h]
BY DEF Finished, Typing, TypeOK

-----------------------------------------------------------------------------
\* Without faults no name server ends, and none refuses a connection.
Calm ==
    /\ \A h \in Host : up[h]
    /\ parent = Parent
    /\ \A h \in Host : \A c \in Conns(h) : c.cmd # "stop"
    /\ \A x \in Caller : answer[x] # Broken

\* Then nobody refuses, ends, starts a name server or gives up.
LEMMA CalmFacts ==
    ASSUME Faults = {}, Calm
    PROVE  /\ \A h \in Host : ~Refuses(h)
           /\ \A h \in Host : ~ServeStop(h) /\ ~Crash(h) /\ ~SendStop(h)
           /\ \A p \in Proc : ~StartNameServer(p) /\ ~GiveUp(p)
           /\ \A h \in Host, e \in Entry : TryServer(h, e) = {IsAlive(h, e)}
<1>1. \A h \in Host : ~Refuses(h)
  BY DEF Calm, Refuses
<1>2. \A h \in Host : ~ServeStop(h) /\ ~Crash(h) /\ ~SendStop(h)
  BY ConnsFacts DEF Calm, ServeStop, Serves, Crash, SendStop
<1>3. \A p \in Proc : ~StartNameServer(p) /\ ~GiveUp(p)
  BY <1>1, Places DEF Calm, StartNameServer, GiveUp
<1>4. \A h \in Host, e \in Entry : TryServer(h, e) = {IsAlive(h, e)}
  BY DEF TryServer
<1> QED
  BY <1>1, <1>2, <1>3, <1>4

\* The steps that are left.
LEMMA CalmSteps ==
    ASSUME Faults = {}, Calm, [Next]_vars
    PROVE  \/ \E p \in Proc :
                 \/ Listen(p) \/ Close(p) \/ Probe(p) \/ Register(p) \/ Unregister(p)
                 \/ \E cmd \in {"find", "list"}, n \in Name : Ask(p, cmd, n)
           \/ \E h \in Host :
                 \/ Accept(h) \/ ServeProbe(h) \/ ForwardUpdate(h) \/ DoRegisterServer(h)
                 \/ DoUnregisterServer(h) \/ DoFindServer(h) \/ DoListOfServers(h)
                 \/ AskParent(h) \/ Relay(h)
           \/ UNCHANGED vars
BY CalmFacts DEF Next, Serve, Offer

\* Connection c carries a request of x.
AsksFor(c, x) == c # None /\ Asks(c) /\ c.peer = x

\* Host h has a request of x.
AsksAt(h, x) == \E c \in Conns(h) : AsksFor(c, x)

\* It has one at most, queued or served, and x waits for its answer.
Once ==
    \A h \in Host, x \in Caller :
        /\ AsksAt(h, x) => wait[x]
        /\ \A i \in DOMAIN queue[h] : AsksFor(queue[h][i], x) =>
              /\ ~AsksFor(serving[h], x)
              /\ \A j \in DOMAIN queue[h] : AsksFor(queue[h][j], x) => i = j

\* Who waits has no answer yet.
Waiting == \A x \in Caller : wait[x] => answer[x] = NoAnswer

\* A name server that waits or has an answer serves the request that this is for.
Relaying ==
    \A g \in Host : wait[g] \/ answer[g] # NoAnswer =>
        serving[g] # None /\ Asks(serving[g]) /\ parent[g] # None

\* A server asks its parent for what it was asked.
Forwarded ==
    \A h, g \in Host : \A c \in Conns(h) : AsksFor(c, g) => serving[g] # None /\ serving[g].name = c.name

\* A caller asks one name server only.
LEMMA OneHome ==
    ASSUME Routes, NEW h \in Host, NEW g \in Host, NEW x \in Caller, AsksAt(h, x), AsksAt(g, x)
    PROVE  h = g
BY Places DEF Routes, Route, AsksAt, AsksFor, Caller

\* A request is queued or served.
LEMMA AsksAtFacts ==
    \A h \in Host, x \in Caller :
        AsksAt(h, x) <=> AsksFor(serving[h], x) \/ \E i \in DOMAIN queue[h] : queue[h][i] # None /\ AsksFor(queue[h][i], x)
BY DEF AsksAt, Conns, AsksFor

\* Nobody asks again before his request is answered.
LEMMA StepOnce ==
    ASSUME Faults = {}, Typing, Carries, Routes, Calm, Relaying, Once, [Next]_vars
    PROVE  Once'
<1> USE DEF Once
<1>1. \A h \in Host, x \in Caller : \A i \in DOMAIN queue[h] : AsksFor(queue[h][i], x) => AsksAt(h, x)
  BY DEF AsksAt, Conns
<1>2. \A h \in Host, x \in Caller : AsksFor(serving[h], x) => AsksAt(h, x)
  BY DEF AsksAt, AsksFor, Conns
<1>3. \A h \in Host, x \in Caller : AsksAt(h, x)' =>
         AsksFor(serving[h], x)' \/ \E i \in DOMAIN queue'[h] : AsksFor(queue[h][i], x)'
  BY DEF AsksAt, Conns
<1>4. ASSUME NEW k \in Host, NEW c \in Request, ~Asks(c), queue' = Connected(queue, k, c),
             \A h \in Host : serving'[h] \in {serving[h], None}, UNCHANGED wait
      PROVE  Once'
  <2>1. \A h \in Host : \A i \in DOMAIN queue'[h], x \in Caller :
           AsksFor(queue'[h][i], x) => i \in DOMAIN queue[h] /\ AsksFor(queue[h][i], x)
    BY <1>4, AppendIndices DEF AsksFor
  <2>2. \A h \in Host, x \in Caller : AsksFor(serving'[h], x) => AsksFor(serving[h], x)
    BY <1>4 DEF AsksFor
  <2> QED
    BY <1>1, <1>2, <1>3, <1>4, <2>1, <2>2 DEF AsksFor
<1>5. ASSUME NEW k \in Host, NEW c \in Request, NEW x \in Caller, c.peer = x, ~wait[x],
             queue' = Connected(queue, k, c), UNCHANGED serving, wait' = [wait EXCEPT ![x] = TRUE]
      PROVE  Once'
  <2>1. \A h \in Host, y \in Caller : \A i \in DOMAIN queue'[h] : AsksFor(queue'[h][i], y) =>
           \/ i \in DOMAIN queue[h] /\ AsksFor(queue[h][i], y) /\ y # x
           \/ h = k /\ i = Len(queue[k]) + 1 /\ y = x
    BY <1>1, <1>5, AppendIndices DEF AsksFor
  <2>2. \A h \in Host, y \in Caller : AsksFor(serving[h], y) => y # x
    BY <1>2, <1>5
  <2>3. \A y \in Caller : wait[y] \/ y = x => wait'[y]
    BY <1>5 DEF Typing, TypeOK
  <2> QED
    BY <1>1, <1>2, <1>3, <1>5, <2>1, <2>2, <2>3 DEF AsksFor
<1>6. ASSUME NEW k \in Host, Accept(k)
      PROVE  Once'
  <2>1. UNCHANGED wait
    BY <1>6 DEF Accept
  <2>2. \A h \in Host, y \in Caller : \A i \in DOMAIN queue'[h] : AsksFor(queue'[h][i], y) =>
           \/ h # k /\ i \in DOMAIN queue[h] /\ AsksFor(queue[h][i], y)
           \/ h = k /\ i + 1 \in DOMAIN queue[k] /\ AsksFor(queue[k][i + 1], y) /\ i + 1 # 1 /\ i \in Nat
    BY <1>6, AcceptIndices DEF AsksFor
  <2>3. \A h \in Host, y \in Caller : AsksFor(serving'[h], y) =>
           \/ h # k /\ AsksFor(serving[h], y)
           \/ h = k /\ 1 \in DOMAIN queue[k] /\ AsksFor(queue[k][1], y)
    BY <1>6, AcceptIndices DEF AsksFor
  <2>4. \A h \in Host, y \in Caller : AsksAt(h, y)' => wait'[y]
    BY <1>1, <1>2, <1>3, <2>1, <2>2, <2>3 DEF AsksFor
  <2>5. ASSUME NEW h \in Host, NEW y \in Caller, NEW i \in DOMAIN queue'[h], AsksFor(queue'[h][i], y)
        PROVE  /\ ~AsksFor(serving'[h], y)
               /\ \A j \in DOMAIN queue'[h] : AsksFor(queue'[h][j], y) => i = j
    <3>1. CASE h # k
      BY <1>6, <2>5, <3>1, AcceptIndices
    <3>2. CASE h = k
      <4>1. i + 1 \in DOMAIN queue[k] /\ AsksFor(queue[k][i + 1], y) /\ i + 1 # 1 /\ i \in Nat
        BY <2>2, <2>5, <3>2
      <4>2. ~AsksFor(serving'[h], y)
        BY <2>3, <3>2, <4>1
      <4>3. ASSUME NEW j \in DOMAIN queue'[h], AsksFor(queue'[h][j], y) PROVE i = j
        <5>1. j + 1 \in DOMAIN queue[k] /\ AsksFor(queue[k][j + 1], y) /\ j \in Nat
          BY <2>2, <3>2, <4>3
        <5>2. i + 1 = j + 1
          BY <4>1, <5>1
        <5> QED
          BY <4>1, <5>1, <5>2
      <4> QED
        BY <4>2, <4>3
    <3> QED
      BY <3>1, <3>2
  <2> QED
    BY <2>4, <2>5 DEF AsksFor
<1>7. ASSUME NEW k \in Host, Finished(k), UNCHANGED queue,
             \A x \in Caller : wait[x] => wait'[x] \/ AsksFor(serving[k], x)
      PROVE  Once'
  <2>1. \A h \in Host, y \in Caller : AsksFor(serving'[h], y) => h # k /\ AsksFor(serving[h], y)
    BY <1>7, FinishedFacts DEF AsksFor
  <2>2. ASSUME NEW h \in Host, NEW y \in Caller, AsksAt(h, y)'
        PROVE  wait'[y]
    <3>1. AsksAt(h, y) /\ (h = k => ~AsksFor(serving[k], y))
      BY <1>1, <1>2, <1>3, <1>7, <2>1, <2>2 DEF AsksFor
    <3>2. AsksFor(serving[k], y) => h = k
      BY <1>2, <3>1, OneHome
    <3> QED
      BY <1>7, <3>1, <3>2
  <2> QED
    BY <1>7, <2>1, <2>2 DEF AsksFor
<1>8. CASE UNCHANGED <<queue, serving, wait>>
  BY <1>8 DEF AsksAt, Conns, AsksFor
<1> HIDE DEF Once
<1>9. ASSUME NEW p \in Proc, Listen(p) \/ Close(p)
      PROVE  Once'
  BY <1>8, <1>9 DEF Listen, Close
<1>10. ASSUME NEW p \in Proc, Probe(p) \/ Register(p) \/ Unregister(p)
       PROVE  Once'
  <2>1. HostOf[p] \in Host /\ p \in Caller /\ NameOf[p] \in Name \cup {None}
    BY Places DEF Caller
  <2>2. UNCHANGED serving /\ UNCHANGED wait
    BY <1>10 DEF Probe, Register, Unregister
  <2>3. \/ UNCHANGED queue
        \/ \E c \in Request : queue' = Connected(queue, HostOf[p], c) /\ ~Asks(c)
    BY <1>10, <2>1, ConnTyped DEF Probe, Register, Unregister, Conn, Asks
  <2> QED
    BY <1>4, <1>8, <2>1, <2>2, <2>3
<1>11. ASSUME NEW p \in Proc, NEW cmd \in {"find", "list"}, NEW n \in Name, Ask(p, cmd, n)
       PROVE  Once'
  <2>1. HostOf[p] \in Host /\ p \in Caller
    BY Places DEF Caller
  <2>2. queue' = Connected(queue, HostOf[p], Conn(cmd, n, None, p)) /\ wait' = [wait EXCEPT ![p] = TRUE]
    BY <1>11, <2>1, CalmFacts DEF Ask
  <2>3. Conn(cmd, n, None, p) \in Request /\ Conn(cmd, n, None, p).peer = p
    BY <2>1, ConnTyped DEF Conn
  <2> QED
    BY <1>5, <1>11, <2>1, <2>2, <2>3 DEF Ask
<1>12. ASSUME NEW h \in Host, ServeProbe(h) \/ DoRegisterServer(h) \/ DoUnregisterServer(h)
       PROVE  Once'
  BY <1>7, <1>12 DEF ServeProbe, DoRegisterServer, DoUnregisterServer
<1>13. ASSUME NEW h \in Host, ForwardUpdate(h)
       PROVE  Once'
  <2> DEFINE c == [serving[h] EXCEPT !.peer = h]
  <2>1. c \in Request /\ parent[h] \in Host /\ serving[h] \in Request
    BY <1>13, ServingTyped DEF ForwardUpdate, Serves, Typing, TypeOK
  <2>2. ~Asks(c)
    BY <1>13, <2>1 DEF ForwardUpdate, Serves, Asks, Request
  <2>3. queue' = Connected(queue, parent[h], c) /\ UNCHANGED wait
    BY <1>13, <2>1, CalmFacts DEF ForwardUpdate
  <2>4. \A g \in Host : serving'[g] \in {serving[g], None}
    BY <1>13, FinishedFacts DEF ForwardUpdate
  <2> HIDE DEF c
  <2> QED
    BY <1>4, <2>1, <2>2, <2>3, <2>4
<1>14. ASSUME NEW h \in Host, DoFindServer(h) \/ DoListOfServers(h)
       PROVE  Once'
  <2>1. serving[h] # None /\ Asks(serving[h]) /\ Finished(h) /\ UNCHANGED queue
    BY <1>14 DEF DoFindServer, DoListOfServers, Serves, Asks
  <2>2. PICK a \in Answer : Reply(serving[h].peer, a)
    BY <1>14, SomeReply
  <2>3. \A x \in Caller : wait[x] => wait'[x] \/ AsksFor(serving[h], x)
    BY <2>1, <2>2, ServingTyped, ReplyFacts DEF AsksFor
  <2> QED
    BY <1>7, <2>1, <2>3
<1>15. ASSUME NEW h \in Host, AskParent(h)
       PROVE  Once'
  <2> DEFINE c == [serving[h] EXCEPT !.peer = h]
  <2>1. c \in Request /\ serving[h] \in Request /\ parent[h] \in Host /\ h \in Caller
    BY <1>15, ServingTyped DEF AskParent, Serves, Typing, TypeOK, Caller
  <2>3. c.peer = h
    BY <2>1 DEF Request
  <2>2. queue' = Connected(queue, parent[h], c) /\ wait' = [wait EXCEPT ![h] = TRUE] /\ UNCHANGED serving /\ ~wait[h]
    BY <1>15, <2>1, CalmFacts DEF AskParent, Serves
  <2> HIDE DEF c
  <2> QED
    BY <1>5, <2>1, <2>2, <2>3
<1>16. ASSUME NEW h \in Host, Relay(h)
       PROVE  Once'
  <2>1. serving[h] # None /\ Asks(serving[h]) /\ Finished(h) /\ UNCHANGED queue
    BY <1>16 DEF Relay, Relaying
  <2>2. \A x \in Caller : wait[x] => wait'[x] \/ AsksFor(serving[h], x)
    BY <1>16, <2>1 DEF Relay, AsksFor
  <2> QED
    BY <1>7, <2>1, <2>2
<1>17. CASE UNCHANGED vars
  BY <1>8, <1>17 DEF vars
<1> QED
  BY <1>6, <1>9, <1>10, <1>11, <1>12, <1>13, <1>14, <1>15, <1>16, <1>17, CalmSteps


\* Nothing goes wrong by itself.
LEMMA StepCalm ==
    ASSUME Faults = {}, Typing, Carries, Calm, [Next]_vars
    PROVE  Calm'
<1>1. \A h \in Host : \A c \in Conns(h)' : c.cmd # "stop"
  <2> SUFFICES ASSUME NEW h \in Host, NEW c \in Conns(h)'
               PROVE  c.cmd # "stop"
    OBVIOUS
  <2>1. c \in Conns(h) \/ Arrives(h, c)
    BY Arrivals DEF Accounted
  <2>2. ASSUME NEW k \in Host, HandedOn(k, c)
        PROVE  c.cmd # "stop"
    <3>1. serving[k] \in Request
      BY <2>2, ServingTyped DEF HandedOn
    <3> QED
      BY <2>2, <3>1 DEF HandedOn, Request
  <2>3. ASSUME NEW d \in Conns(h), Asks(d), c = [d EXCEPT !.peer = None]
        PROVE  c.cmd # "stop"
    <3>1. d \in Request
      BY ConnsTyped
    <3> QED
      BY <2>3, <3>1 DEF Asks, Request
  <2> QED
    BY <2>1, <2>2, <2>3 DEF Arrives, Calm, Sent, Conn
<1>2. \A h \in Host : up'[h]
  <2>1. UNCHANGED up
    BY CalmSteps DEF Listen, Close, Probe, Register, Unregister, Ask, Accept, ServeProbe, ForwardUpdate, DoRegisterServer,
          DoUnregisterServer, DoFindServer, DoListOfServers, AskParent, Relay, vars
  <2> QED
    BY <2>1 DEF Calm
<1>3. parent' = Parent
  <2>1. UNCHANGED parent
    BY CalmSteps DEF Listen, Close, Probe, Register, Unregister, Ask, Accept, ServeProbe, ForwardUpdate, DoRegisterServer,
          DoUnregisterServer, DoFindServer, DoListOfServers, AskParent, Relay, vars
  <2> QED
    BY <2>1 DEF Calm
<1>4. \A x \in Caller : answer'[x] # Broken
  <2> DEFINE Whole == \A x \in Caller : answer'[x] # Broken
  <2>1. CASE UNCHANGED answer
    BY <2>1 DEF Calm
  <2>2. ASSUME NEW x \in Caller \cup {None}, NEW a \in Answer, a # Broken, Reply(x, a)
        PROVE  Whole
    <3>1. \A y \in Caller : answer'[y] = answer[y] \/ answer'[y] = a
      BY <2>2, ReplyFacts, Places
    <3> QED
      BY <2>2, <3>1 DEF Calm
  <2>3. /\ NoAnswer # Broken /\ Absent # Broken
        /\ \A e : [kind |-> "found", entry |-> e] # Broken /\ [kind |-> "list", names |-> e] # Broken
    <3>1. NoAnswer.kind = "none" /\ Absent.kind = "absent" /\ Broken.kind = "broken"
      BY DEF NoAnswer, Absent, Broken
    <3>2. \A e : [kind |-> "found", entry |-> e].kind = "found" /\ [kind |-> "list", names |-> e].kind = "list"
      OBVIOUS
    <3> QED
      BY <3>1, <3>2
  <2>4. ASSUME NEW p \in Proc, NEW cmd \in {"find", "list"}, NEW n \in Name, Ask(p, cmd, n)
        PROVE  Whole
    <3>1. answer' = [answer EXCEPT ![p] = NoAnswer]
      BY <2>4, CalmFacts, Places DEF Ask
    <3> QED
      BY <2>3, <3>1 DEF Calm, Typing, TypeOK
  <2>5. ASSUME NEW h \in Host, DoFindServer(h)
        PROVE  Whole
    <3> DEFINE e == table[h][serving[h].name]
    <3>1. serving[h].peer \in Caller \cup {None} /\ serving[h].name \in Name
      BY <2>5, ServingTyped, ConnsFacts DEF DoFindServer, Serves, Carries, Carried
    <3>2. Reply(serving[h].peer, Absent) \/ (e # None /\ Reply(serving[h].peer, [kind |-> "found", entry |-> e]))
      BY <2>5 DEF DoFindServer
    <3>3. e \in Entry \cup {None}
      BY <3>1 DEF Typing, TypeOK
    <3> HIDE DEF e
    <3>4. Absent \in Answer /\ (e # None => [kind |-> "found", entry |-> e] \in Answer)
      BY <3>3, AnswerTyped
    <3> QED
      BY <2>2, <2>3, <3>1, <3>2, <3>4
  <2>6. ASSUME NEW h \in Host, DoListOfServers(h)
        PROVE  Whole
    <3>1. PICK names \in SUBSET Name : Reply(serving[h].peer, [kind |-> "list", names |-> names])
      BY <2>6 DEF DoListOfServers
    <3>2. serving[h].peer \in Caller \cup {None}
      BY <2>6, ServingTyped DEF DoListOfServers, Serves
    <3> QED
      BY <2>2, <2>3, <3>1, <3>2, AnswerTyped
  <2>7. ASSUME NEW h \in Host, AskParent(h)
        PROVE  Whole
    <3>1. UNCHANGED answer
      BY <2>7, CalmFacts DEF AskParent, Typing, TypeOK
    <3> QED
      BY <2>1, <3>1
  <2>8. ASSUME NEW h \in Host, Relay(h)
        PROVE  Whole
    <3>1. h \in Caller /\ answer[h] # Broken
      BY DEF Calm, Caller
    <3>2. \A x \in Caller : answer'[x] \in {answer[h], NoAnswer, answer[x]}
      BY <2>8, <3>1 DEF Relay
    <3> QED
      BY <2>3, <3>1, <3>2 DEF Calm
  <2>9. \/ UNCHANGED answer
        \/ \E p \in Proc, cmd \in {"find", "list"}, n \in Name : Ask(p, cmd, n)
        \/ \E h \in Host : \/ DoFindServer(h) \/ DoListOfServers(h) \/ AskParent(h) \/ Relay(h)
    BY CalmSteps DEF Listen, Close, Probe, Register, Unregister, Accept, ServeProbe, ForwardUpdate, DoRegisterServer,
          DoUnregisterServer, vars
  <2> HIDE DEF Whole
  <2>10. Whole
    BY <2>1, <2>4, <2>5, <2>6, <2>7, <2>8, <2>9 DEF Whole
  <2> QED
    BY <2>10 DEF Whole
<1> QED
  BY <1>1, <1>2, <1>3, <1>4 DEF Calm

\* Of waiting and answers: what each step may do to them.
Unanswered == UNCHANGED <<wait, answer>>

\* x asks.
Questions(x) ==
    /\ \A y \in Caller : y # x => wait'[y] = wait[y] /\ answer'[y] = answer[y]
    /\ wait'[x] /\ answer'[x] = NoAnswer

\* h answers the request it serves.
Answered(h) ==
    /\ \A y \in Caller : y # serving[h].peer /\ y # h => wait'[y] = wait[y] /\ answer'[y] = answer[y]
    /\ \A y \in Caller : y = serving[h].peer => ~wait'[y]
    /\ serving[h].peer # h => ~wait'[h] /\ answer'[h] = NoAnswer

\* Every step asks, answers, accepts, finishes something else, or none of these.
LEMMA Conversation ==
    ASSUME Faults = {}, Typing, Carries, Calm, Waiting, Relaying, [Next]_vars
    PROVE  \/ UNCHANGED <<serving, wait, answer>>
           \/ \E p \in Proc : Questions(p) /\ ~wait[p] /\ UNCHANGED serving
           \/ \E h \in Host : /\ Questions(h) /\ UNCHANGED serving /\ ~wait[h] /\ answer[h] = NoAnswer
                              /\ serving[h] # None /\ Asks(serving[h]) /\ parent[h] # None
           \/ \E h \in Host : Accept(h)
           \/ \E h \in Host : /\ Finished(h) /\ UNCHANGED <<wait, answer>>
                              /\ ~wait[h] /\ answer[h] = NoAnswer
           \/ \E h \in Host : /\ Finished(h) /\ Answered(h) /\ ~wait[h]
                              /\ serving[h] # None /\ Asks(serving[h])
<1>1. ASSUME NEW p \in Proc, Listen(p) \/ Close(p) \/ Probe(p) \/ Register(p) \/ Unregister(p)
      PROVE  UNCHANGED <<serving, wait, answer>>
  BY <1>1 DEF Listen, Close, Probe, Register, Unregister
<1>2. ASSUME NEW p \in Proc, NEW cmd \in {"find", "list"}, NEW n \in Name, Ask(p, cmd, n)
      PROVE  Questions(p) /\ ~wait[p] /\ UNCHANGED serving
  <2>1. p \in Caller /\ ~Refuses(HostOf[p])
    BY Places, CalmFacts DEF Caller
  <2> QED
    BY <1>2, <2>1 DEF Ask, Questions, Typing, TypeOK
<1>3. ASSUME NEW h \in Host, ServeProbe(h) \/ DoRegisterServer(h) \/ DoUnregisterServer(h) \/ ForwardUpdate(h)
      PROVE  Finished(h) /\ UNCHANGED <<wait, answer>> /\ ~wait[h] /\ answer[h] = NoAnswer
  BY <1>3 DEF ServeProbe, DoRegisterServer, DoUnregisterServer, ForwardUpdate, Serves
<1>4. ASSUME NEW h \in Host, DoFindServer(h) \/ DoListOfServers(h)
      PROVE  Finished(h) /\ Answered(h) /\ ~wait[h] /\ serving[h] # None /\ Asks(serving[h])
  <2>1. /\ serving[h] # None /\ Asks(serving[h]) /\ Finished(h) /\ ~wait[h] /\ answer[h] = NoAnswer
        /\ serving[h].peer \in Caller \cup {None} /\ h \in Caller
    BY <1>4, ServingTyped DEF DoFindServer, DoListOfServers, Serves, Asks, Caller
  <2>2. PICK a \in Answer : Reply(serving[h].peer, a)
    BY <1>4, SomeReply
  <2>3. Answered(h)
    BY <2>1, <2>2, ReplyFacts, Places DEF Answered
  <2> QED
    BY <2>1, <2>3
<1>5. ASSUME NEW h \in Host, AskParent(h)
      PROVE  /\ Questions(h) /\ UNCHANGED serving /\ ~wait[h] /\ answer[h] = NoAnswer
             /\ serving[h] # None /\ Asks(serving[h]) /\ parent[h] # None
  <2>1. h \in Caller /\ parent[h] \in Host /\ parent[h] # None
    BY <1>5 DEF Caller, AskParent, Typing, TypeOK
  <2>2. ~Refuses(parent[h])
    BY <2>1, CalmFacts
  <2>3. serving[h] # None /\ Asks(serving[h]) /\ ~wait[h] /\ answer[h] = NoAnswer
    BY <1>5 DEF AskParent, Serves, Asks
  <2> QED
    BY <1>5, <2>1, <2>2, <2>3 DEF AskParent, Questions, Typing, TypeOK
<1>6. ASSUME NEW h \in Host, Relay(h)
      PROVE  Finished(h) /\ Answered(h) /\ ~wait[h] /\ serving[h] # None /\ Asks(serving[h])
  <2>1. h \in Caller /\ answer[h] # NoAnswer
    BY <1>6 DEF Relay, Caller
  <2>2. serving[h] # None /\ Asks(serving[h]) /\ ~wait[h]
    BY <2>1 DEF Relaying, Waiting
  <2>3. wait' = [x \in Caller |-> x # serving[h].peer /\ wait[x]]
    BY <1>6 DEF Relay
  <2>4. \A y \in Caller : wait'[y] = (y # serving[h].peer /\ wait[y])
    BY <2>3
  <2>5. \A y \in Caller : y # serving[h].peer => wait'[y] = wait[y]
    BY <2>4 DEF Typing, TypeOK
  <2>6. \A y \in Caller : y # serving[h].peer /\ y # h => answer'[y] = answer[y]
    BY <1>6 DEF Relay
  <2>7. serving[h].peer # h => answer'[h] = NoAnswer
    BY <1>6, <2>1 DEF Relay
  <2> QED
    BY <1>6, <2>1, <2>2, <2>4, <2>5, <2>6, <2>7 DEF Relay, Answered
<1>7. CASE UNCHANGED vars
  BY <1>7 DEF vars
<1> QED
  BY <1>1, <1>2, <1>3, <1>4, <1>5, <1>6, <1>7, CalmSteps

\* An answer ends the waiting.
LEMMA StepWaiting ==
    ASSUME Faults = {}, Typing, Carries, Calm, Waiting, Relaying, Once, [Next]_vars
    PROVE  Waiting'
<1>1. \A h \in Host : serving[h] # None /\ Asks(serving[h]) /\ ~wait[h] => serving[h].peer # h
  BY ConnsFacts DEF Once, AsksAt, AsksFor, Caller
<1> QED
  BY <1>1, Conversation DEF Waiting, Questions, Answered, Accept

\* Only a server with a parent waits, for the request that it serves.
LEMMA StepRelaying ==
    ASSUME Faults = {}, Typing, Carries, Calm, Waiting, Relaying, Once, [Next]_vars
    PROVE  Relaying'
<1>1. \A h \in Host : serving[h] # None /\ Asks(serving[h]) /\ ~wait[h] => serving[h].peer # h
  BY ConnsFacts DEF Once, AsksAt, AsksFor, Caller
<1>2. \A g, h \in Host : serving[h] # None /\ Asks(serving[h]) /\ serving[h].peer = g => wait[g]
  BY ConnsFacts DEF Once, AsksAt, AsksFor, Caller
<1>0. \A g \in Host : parent'[g] = parent[g]
  BY StepCalm DEF Calm
<1>3. ASSUME NEW h \in Host, Accept(h)
      PROVE  Relaying'
  BY <1>3, <1>0, AcceptIndices DEF Relaying, Accept
<1>4. ASSUME NEW h \in Host, Finished(h), UNCHANGED <<wait, answer>>, ~wait[h], answer[h] = NoAnswer
      PROVE  Relaying'
  BY <1>4, <1>0, FinishedFacts DEF Relaying
<1>5. ASSUME NEW h \in Host, Finished(h), Answered(h), ~wait[h], serving[h] # None, Asks(serving[h])
      PROVE  Relaying'
  <2> SUFFICES ASSUME NEW g \in Host, wait'[g] \/ answer'[g] # NoAnswer
               PROVE  serving'[g] # None /\ Asks(serving'[g]) /\ parent'[g] # None
    BY DEF Relaying
  <2>1. g \in Caller /\ serving[h].peer # h
    BY <1>1, <1>5 DEF Caller
  <2>2. g # h
    BY <1>5, <2>1 DEF Answered
  <2>3. wait[g] \/ answer[g] # NoAnswer
    BY <1>2, <1>5, <2>1, <2>2 DEF Answered
  <2> QED
    BY <1>5, <1>0, <2>2, <2>3, FinishedFacts DEF Relaying
<1>6. ASSUME NEW x \in Caller, Questions(x), UNCHANGED serving, x \in Host => serving[x] # None /\ Asks(serving[x]) /\ parent[x] # None
      PROVE  Relaying'
  BY <1>6, <1>0 DEF Relaying, Questions, Caller
<1>7. CASE UNCHANGED <<serving, wait, answer>>
  BY <1>7, <1>0 DEF Relaying
<1> QED
  BY <1>3, <1>4, <1>5, <1>6, <1>7, Conversation, Places DEF Caller

\* A name server that waits goes on serving what it waits for.
LEMMA HeldWhileWaiting ==
    ASSUME Faults = {}, Typing, Carries, Calm, Waiting, Relaying, Once, [Next]_vars
    PROVE  \A g \in Host : wait'[g] => serving'[g] = serving[g]
<1> SUFFICES ASSUME NEW g \in Host, wait'[g]
             PROVE  serving'[g] = serving[g]
  OBVIOUS
<1>1. \A h \in Host : serving[h] # None /\ Asks(serving[h]) /\ ~wait[h] => serving[h].peer # h
  BY ConnsFacts DEF Once, AsksAt, AsksFor, Caller
<1>2. ASSUME NEW h \in Host, Accept(h)
      PROVE  serving'[g] = serving[g]
  BY <1>2, AcceptIndices DEF Relaying, Accept
<1>3. ASSUME NEW h \in Host, Finished(h), UNCHANGED <<wait, answer>>, ~wait[h]
      PROVE  serving'[g] = serving[g]
  BY <1>3, FinishedFacts
<1>4. ASSUME NEW h \in Host, Finished(h), Answered(h), ~wait[h], serving[h] # None, Asks(serving[h])
      PROVE  serving'[g] = serving[g]
  BY <1>1, <1>4, FinishedFacts DEF Answered
<1> QED
  BY <1>2, <1>3, <1>4, Conversation

\* So the name it asks its parent for stays the one it was asked for.
LEMMA StepForwarded ==
    ASSUME Faults = {}, Typing, Carries, Calm, Waiting, Relaying, Once, Forwarded, Once', Relaying', [Next]_vars
    PROVE  Forwarded'
<1> SUFFICES ASSUME NEW h \in Host, NEW g \in Host, NEW c \in Conns(h)', AsksFor(c, g)
             PROVE  serving'[g] # None /\ serving'[g].name = c.name
  BY DEF Forwarded, AsksFor
<1>1. wait'[g]
  BY DEF Once, AsksAt, AsksFor, Caller
<1>2. serving'[g] = serving[g] /\ serving'[g] # None
  BY <1>1, HeldWhileWaiting DEF Relaying
<1>3. c \in Conns(h) \/ Arrives(h, c)
  BY Arrivals DEF Accounted
<1>4. CASE c \in Conns(h)
  BY <1>2, <1>4 DEF Forwarded
<1>5. ASSUME NEW p \in Proc, Sent(p, c)
      PROVE  FALSE
  BY <1>5, Places DEF Sent, Conn, AsksFor
<1>6. ASSUME NEW k \in Host, HandedOn(k, c)
      PROVE  c.peer = k /\ c.name = serving[k].name
  <2>1. serving[k] \in Request /\ c = [serving[k] EXCEPT !.peer = k]
    BY <1>6, ServingTyped DEF HandedOn
  <2> QED
    BY <2>1 DEF Request
<1>7. ASSUME NEW d \in Conns(h), c = [d EXCEPT !.peer = None]
      PROVE  FALSE
  <2>1. d \in Request
    BY ConnsTyped
  <2>2. c.peer = None
    BY <1>7, <2>1 DEF Request
  <2> QED
    BY <2>2, Places DEF AsksFor
<1>8. CASE c = Conn("stop", None, None, None)
  BY <1>8, Places DEF Conn, AsksFor
<1> QED
  BY <1>2, <1>3, <1>4, <1>5, <1>6, <1>7, <1>8 DEF Arrives, AsksFor

-----------------------------------------------------------------------------
(* Registrations *)

\* The ways of a process through its stages, without faults.
Stages ==
    \A p \in Proc :
        \/ stage'[p] = stage[p]
        \/ stage[p] = "new" /\ stage'[p] = "probe"
        \/ stage[p] = "probe" /\ stage'[p] = "send"
        \/ stage[p] = "send" /\ stage'[p] = "serving" /\ Register(p)
        \/ stage[p] = "serving" /\ stage'[p] = "leaving"
        \/ stage[p] \in {"serving", "leaving"} /\ stage'[p] = "gone"

\* No step takes another way.
LEMMA StageSteps ==
    ASSUME Faults = {}, Typing, Calm, [Next]_vars
    PROVE  Stages
<1>1. CASE UNCHANGED stage
  BY <1>1 DEF Stages
<1>2. ASSUME NEW p \in Proc, Listen(p) \/ Close(p) \/ Probe(p) \/ Register(p) \/ Unregister(p)
      PROVE  Stages
  BY <1>2 DEF Stages, Listen, Close, Probe, Register, Unregister, Step, Typing, TypeOK
<1>3. ASSUME NEW p \in Proc, NEW cmd \in {"find", "list"}, NEW n \in Name, Ask(p, cmd, n)
      PROVE  Stages
  BY <1>1, <1>3 DEF Ask
<1>4. ASSUME NEW h \in Host,
             \/ Accept(h) \/ ServeProbe(h) \/ ForwardUpdate(h) \/ DoRegisterServer(h)
             \/ DoUnregisterServer(h) \/ DoFindServer(h) \/ DoListOfServers(h)
             \/ AskParent(h) \/ Relay(h)
      PROVE  Stages
  BY <1>1, <1>4 DEF Accept, ServeProbe, ForwardUpdate, DoRegisterServer,
             DoUnregisterServer, DoFindServer, DoListOfServers, AskParent, Relay, clients
<1>5. CASE UNCHANGED vars
  BY <1>1, <1>5 DEF vars, clients
<1> QED
  BY <1>2, <1>3, <1>4, <1>5, CalmSteps

\* A process listens as long as it can be found.
Opened == \A p \in Proc : stage[p] \in {"probe", "send", "serving", "leaving"} => open[p]

\* The socket is closed with the last stage.
LEMMA StepOpened ==
    ASSUME Faults = {}, Typing, Calm, Opened, [Next]_vars
    PROVE  Opened'
<1>1. CASE UNCHANGED <<stage, open>>
  BY <1>1 DEF Opened
<1>2. ASSUME NEW p \in Proc, Listen(p) \/ Close(p) \/ Probe(p) \/ Register(p) \/ Unregister(p)
      PROVE  Opened'
  BY <1>2 DEF Opened, Listen, Close, Probe, Register, Unregister, Step, Typing, TypeOK
<1>3. ASSUME NEW p \in Proc, NEW cmd \in {"find", "list"}, NEW n \in Name, Ask(p, cmd, n)
      PROVE  Opened'
  BY <1>1, <1>3 DEF Ask
<1>4. ASSUME NEW h \in Host,
             \/ Accept(h) \/ ServeProbe(h) \/ ForwardUpdate(h) \/ DoRegisterServer(h)
             \/ DoUnregisterServer(h) \/ DoFindServer(h) \/ DoListOfServers(h)
             \/ AskParent(h) \/ Relay(h)
      PROVE  Opened'
  BY <1>1, <1>4 DEF Accept, ServeProbe, ForwardUpdate, DoRegisterServer,
             DoUnregisterServer, DoFindServer, DoListOfServers, AskParent, Relay, clients
<1>5. CASE UNCHANGED vars
  BY <1>1, <1>5 DEF vars, clients
<1> QED
  BY <1>2, <1>3, <1>4, <1>5, CalmSteps

\* A registration is withdrawn only by a process that leaves.
Unregistering ==
    \A h \in Host : \A c \in Conns(h) : c.cmd = "unregister" =>
        \A s \in Proc : NameOf[s] # None /\ NameOf[s] = c.name => stage[s] \in {"leaving", "gone"}

\* A request to unregister follows its process out of service.
LEMMA StepUnregistering ==
    ASSUME Faults = {}, DistinctNames, Typing, Calm, Unregistering, [Next]_vars
    PROVE  Unregistering'
<1> SUFFICES ASSUME NEW h \in Host, NEW c \in Conns(h)', c.cmd = "unregister",
                    NEW s \in Proc, NameOf[s] # None, NameOf[s] = c.name
             PROVE  stage'[s] \in {"leaving", "gone"}
  BY DEF Unregistering
<1>1. c \in Conns(h) \/ Arrives(h, c)
  BY Arrivals DEF Accounted
<1>2. stage[s] \in {"leaving", "gone"} => stage'[s] \in {"leaving", "gone"}
  BY StageSteps DEF Stages
<1>3. CASE c \in Conns(h)
  BY <1>2, <1>3 DEF Unregistering
<1>4. ASSUME NEW p \in Proc, Sent(p, c)
      PROVE  stage'[s] \in {"leaving", "gone"}
  <2>1. Step(p, "serving", "leaving") /\ c.name = NameOf[p]
    BY <1>4 DEF Sent, Conn
  <2>2. s = p
    BY <2>1 DEF DistinctNames
  <2> QED
    BY <2>1, <2>2 DEF Step, Typing, TypeOK
<1>5. ASSUME NEW k \in Host, HandedOn(k, c)
      PROVE  stage'[s] \in {"leaving", "gone"}
  <2>1. serving[k] \in Request /\ c = [serving[k] EXCEPT !.peer = k] /\ serving[k] \in Conns(k)
    BY <1>5, ServingTyped, ConnsFacts DEF HandedOn
  <2>2. serving[k].cmd = "unregister" /\ serving[k].name = c.name
    BY <2>1 DEF Request
  <2> QED
    BY <1>2, <2>1, <2>2 DEF Unregistering
<1>6. ASSUME NEW d \in Conns(h), Asks(d), c = [d EXCEPT !.peer = None]
      PROVE  FALSE
  <2>1. d \in Request
    BY ConnsTyped
  <2> QED
    BY <1>6, <2>1 DEF Asks, Request
<1>7. CASE c = Conn("stop", None, None, None)
  BY <1>7 DEF Conn
<1> QED
  BY <1>1, <1>3, <1>4, <1>5, <1>6, <1>7 DEF Arrives

-----------------------------------------------------------------------------
\* The name server that keeps the registration of s, and what it has of it.
Root(s) == IF Parent[HostOf[s]] = None THEN HostOf[s] ELSE Parent[HostOf[s]]

\* The root has the registration of s.
Settled(s) == table[Root(s)][NameOf[s]] # None /\ table[Root(s)][NameOf[s]].port = s

\* Connection c carries the registration of s.
Registers(c, s) == c # None /\ c.cmd = "register" /\ c.port = s

\* Host h has got the registration of s.
RegAt(h, s) == \E c \in Conns(h) : Registers(c, s)

\* The registration of s is where nothing but the root's own work is between it
\* and the table.
AtRoot(s) == Settled(s) \/ (Parent[HostOf[s]] # None /\ RegAt(Root(s), s))

\* A process that serves is registered, or will be.
Kept == \A s \in Proc : stage[s] = "serving" => RegAt(HostOf[s], s) \/ AtRoot(s)

\* What a server takes a registration from its connection for.
Handled(h, s) == Registers(serving[h], s) /\ (DoRegisterServer(h) \/ ForwardUpdate(h))

\* The root of a service has no parent.
LEMMA RootFacts ==
    ASSUME Shallow, NEW s \in Proc, NameOf[s] # None
    PROVE  Root(s) \in Host /\ Parent[Root(s)] = None
BY Places DEF Shallow, Root

\* A server that is reached is not taken for dead.
LEMMA Alive ==
    ASSUME Faults = {}, Calm, Typing, Entries, Opened,
           NEW h \in Host, NEW n \in Name, table[h][n] # None, stage[table[h][n].port] = "serving"
    PROVE  TryServer(h, table[h][n]) = {TRUE}
<1>1. table[h][n] \in Entry
  BY DEF Typing, TypeOK
<1>2. TryServer(h, table[h][n]) = {IsAlive(h, table[h][n])}
  BY <1>1, CalmFacts
<1>3. IsAlive(h, table[h][n]) = TRUE
  BY <1>1 DEF IsAlive, Entries, Opened, Entry, Typing, TypeOK
<1> QED
  BY <1>2, <1>3

\* A registration stays in the table: it is found alive whenever it is tried.
LEMMA SettledStays ==
    ASSUME Faults = {}, DistinctNames, Shallow, Typing, Carries, Calm, Offers, Entries, Opened, Unregistering, [Next]_vars,
           NEW s \in Proc, stage[s] = "serving", Settled(s)
    PROVE  Settled(s)'
<1> DEFINE h == Root(s)
           n == NameOf[s]
<1>1. n # None /\ n \in Name /\ h \in Host
  BY RootFacts, Places DEF Offers
<1>2. table[h][n] # None /\ table[h][n].port = s
  BY DEF Settled
<1>3. Settled(s)' <=> table'[h][n] # None /\ table'[h][n].port = s
  BY DEF Settled
<1>4. NameOf[s] # None /\ n = NameOf[s]
  BY <1>1
<1> HIDE DEF h, n
<1>5. CASE table'[h][n] = table[h][n]
  BY <1>2, <1>3, <1>5
<1>6. CASE Added(h, n)
  <2> DEFINE c == serving[h]
  <2>1. Carried(c) /\ c.cmd = "register" /\ n = c.name
    BY <1>1, <1>6, ConnsFacts DEF Added, DoRegisterServer, Serves, Carries
  <2>2. [port |-> c.port, addr |-> PeerAddr(h, c)] \in Entry /\ table'[h][n] = [port |-> c.port, addr |-> PeerAddr(h, c)]
    BY <1>1, <1>6, RegisteredTyped DEF Added
  <2> HIDE DEF c
  <2>3. c.port \in Proc /\ NameOf[c.port] = NameOf[s]
    BY <1>4, <2>1 DEF Carried
  <2>4. c.port = s
    BY <1>4, <2>3 DEF DistinctNames
  <2>5. table'[h][n] # None /\ table'[h][n].port = s
    BY <2>2, <2>4, Places
  <2> QED
    BY <1>3, <2>5
<1>7. CASE Removed(h, n)
  <2>1. ~End(h)
    <3>1. up'[h]
      BY <1>1, StepCalm DEF Calm
    <3> QED
      BY <1>1, <3>1 DEF End, Typing, TypeOK
  <2>2. ~(DoUnregisterServer(h) /\ n = serving[h].name)
    BY <1>1, <1>4, ConnsFacts DEF DoUnregisterServer, Serves, Unregistering
  <2>3. TryServer(h, table[h][n]) = {TRUE}
    BY <1>1, <1>2, Alive
  <2> QED
    BY <1>7, <2>1, <2>2, <2>3 DEF Removed
<1> QED
  BY <1>1, <1>5, <1>6, <1>7, TableSteps

\* A registration goes on waiting until it is handled.
LEMMA RegSteps ==
    ASSUME Faults = {}, Typing, Carries, Calm, Relaying, [Next]_vars, NEW h \in Host, NEW s \in Proc, RegAt(h, s)
    PROVE  RegAt(h, s)' \/ Handled(h, s)
<1>1. ASSUME NEW k \in Host, NEW c \in Request, queue' = Connected(queue, k, c), UNCHANGED serving
      PROVE  RegAt(h, s)'
  <2>1. Queued(h) \subseteq Queued(h)'
    BY <1>1, ConnectedQueued DEF Typing
  <2> QED
    BY <1>1, <2>1, ConnsFacts DEF RegAt, Conns, Queued
<1>2. ASSUME UNCHANGED queue, UNCHANGED serving
      PROVE  RegAt(h, s)'
  BY <1>2 DEF RegAt, Conns
<1>3. ASSUME NEW k \in Host, Accept(k)
      PROVE  RegAt(h, s)'
  <2>1. \A g \in Host : /\ g # k => Queued(g)' = Queued(g)
                        /\ g = k => Queued(g) = Queued(g)' \cup {Head(queue[k])}
    BY <1>3, AcceptedQueued DEF Accept, Typing
  <2>2. serving[k] = None /\ \A g \in Host : serving'[g] = IF g = k THEN Head(queue[k]) ELSE serving[g]
    BY <1>3 DEF Accept, Typing, TypeOK
  <2> QED
    BY <2>1, <2>2 DEF RegAt, Conns, Queued, Registers
<1>4. ASSUME NEW k \in Host, Finished(k), Queued(h) \subseteq Queued(h)'
      PROVE  RegAt(h, s)' \/ (h = k /\ Registers(serving[k], s))
  BY <1>4, FinishedFacts DEF RegAt, Conns, Queued, Registers
<1>5. ASSUME NEW p \in Proc, Listen(p) \/ Close(p)
      PROVE  RegAt(h, s)'
  BY <1>2, <1>5 DEF Listen, Close
<1>6. ASSUME NEW p \in Proc, Probe(p) \/ Register(p) \/ Unregister(p)
      PROVE  RegAt(h, s)'
  <2>1. HostOf[p] \in Host /\ p \in Caller /\ NameOf[p] \in Name \cup {None}
    BY Places DEF Caller
  <2>2. /\ UNCHANGED serving
        /\ UNCHANGED queue \/ \E c \in Request : queue' = Connected(queue, HostOf[p], c)
    BY <1>6, <2>1, ConnTyped DEF Probe, Register, Unregister
  <2>3. CASE UNCHANGED queue
    BY <1>2, <2>2, <2>3
  <2>4. CASE \E c \in Request : queue' = Connected(queue, HostOf[p], c)
    BY <1>1, <2>1, <2>2, <2>4
  <2> QED
    BY <2>2, <2>3, <2>4
<1>7. ASSUME NEW p \in Proc, NEW cmd \in {"find", "list"}, NEW n \in Name, Ask(p, cmd, n)
      PROVE  RegAt(h, s)'
  <2>1. HostOf[p] \in Host /\ p \in Caller
    BY Places DEF Caller
  <2>2. /\ UNCHANGED serving
        /\ UNCHANGED queue \/ \E c \in Request : queue' = Connected(queue, HostOf[p], c)
    BY <1>7, <2>1, ConnTyped DEF Ask
  <2>3. CASE UNCHANGED queue
    BY <1>2, <2>2, <2>3
  <2>4. CASE \E c \in Request : queue' = Connected(queue, HostOf[p], c)
    BY <1>1, <2>1, <2>2, <2>4
  <2> QED
    BY <2>2, <2>3, <2>4
<1>8. ASSUME NEW k \in Host, ServeProbe(k) \/ DoUnregisterServer(k) \/ DoFindServer(k) \/ DoListOfServers(k)
      PROVE  RegAt(h, s)'
  <2>1. Finished(k) /\ UNCHANGED queue /\ serving[k].cmd # "register"
    BY <1>8 DEF ServeProbe, DoUnregisterServer, DoFindServer, DoListOfServers, Serves
  <2>2. Queued(h) \subseteq Queued(h)'
    BY <2>1 DEF Queued
  <2>3. ~Registers(serving[k], s)
    BY <2>1 DEF Registers
  <2> QED
    BY <1>4, <2>1, <2>2, <2>3
<1>9. ASSUME NEW k \in Host, Relay(k)
      PROVE  RegAt(h, s)'
  <2>1. Finished(k) /\ UNCHANGED queue /\ serving[k].cmd # "register"
    BY <1>9 DEF Relay, Relaying, Asks
  <2>2. Queued(h) \subseteq Queued(h)'
    BY <2>1 DEF Queued
  <2>3. ~Registers(serving[k], s)
    BY <2>1 DEF Registers
  <2> QED
    BY <1>4, <2>1, <2>2, <2>3
<1>10. ASSUME NEW k \in Host, AskParent(k)
       PROVE  RegAt(h, s)'
  <2>1. parent[k] \in Host /\ [serving[k] EXCEPT !.peer = k] \in Request /\ ~Refuses(parent[k])
    BY <1>10, ServingTyped, CalmFacts DEF AskParent, Serves, Typing, TypeOK
  <2> QED
    BY <1>1, <1>10, <2>1 DEF AskParent
<1>11. ASSUME NEW k \in Host, DoRegisterServer(k) \/ ForwardUpdate(k)
       PROVE  RegAt(h, s)' \/ Handled(h, s)
  <2>1. CASE UNCHANGED queue
    BY <1>4, <1>11, <2>1 DEF DoRegisterServer, ForwardUpdate, Queued, Handled
  <2>2. CASE ForwardUpdate(k) /\ queue' = Connected(queue, parent[k], [serving[k] EXCEPT !.peer = k])
    <3>1. parent[k] \in Host /\ [serving[k] EXCEPT !.peer = k] \in Request
      BY <2>2, ServingTyped DEF ForwardUpdate, Serves, Typing, TypeOK
    <3>2. Queued(h) \subseteq Queued(h)'
      BY <2>2, <3>1, ConnectedQueued DEF Typing
    <3> QED
      BY <1>4, <1>11, <2>2, <3>2 DEF ForwardUpdate, Handled
  <2> QED
    BY <1>11, <2>1, <2>2 DEF DoRegisterServer, ForwardUpdate
<1>12. CASE UNCHANGED vars
  BY <1>2, <1>12 DEF vars
<1> QED
  BY <1>2, <1>3, <1>5, <1>6, <1>7, <1>8, <1>9, <1>10, <1>11, <1>12, CalmSteps

\* A registration that is handled comes to the root, and there into the table.
LEMMA HandledSteps ==
    ASSUME Faults = {}, Shallow, Typing, Carries, Routes, Calm, NEW h \in Host, NEW s \in Proc, Handled(h, s)
    PROVE  \/ h = Root(s) /\ Settled(s)'
           \/ h # Root(s) /\ AtRoot(s)'
<1> DEFINE c == serving[h]
<1>1. c \in Request /\ c \in Conns(h) /\ Carried(c) /\ Route(h, c) /\ c # None /\ c.cmd = "register" /\ c.port = s
  BY ServingTyped, ConnsFacts DEF Handled, Registers, Carries, Routes
<1>2. NameOf[s] # None /\ NameOf[s] \in Name /\ c.name = NameOf[s]
  BY <1>1 DEF Carried
<1>3. Root(s) \in Host /\ Parent[Root(s)] = None /\ parent = Parent
  BY <1>2, RootFacts DEF Calm
<1>4. c.peer = s \/ c.peer = HostOf[s]
  BY <1>1 DEF Route
<1>5. (c.peer = s /\ h = HostOf[s]) \/ h = Root(s)
  BY <1>1, <1>4, Places DEF Route, Root
<1>6. CASE DoRegisterServer(h)
  <2>1. Parent[h] = None
    BY <1>3, <1>6 DEF DoRegisterServer
  <2>2. h = Root(s)
    BY <1>5, <2>1 DEF Root
  <2> DEFINE e == [port |-> c.port, addr |-> PeerAddr(h, c)]
             n == NameOf[s]
  <2>3. e \in Entry /\ table' = [table EXCEPT ![h][n] = e] /\ e.port = s
    BY <1>1, <1>2, <1>6, RegisteredTyped DEF DoRegisterServer
  <2>4. n \in Name
    BY <1>2
  <2>5. Settled(s)' <=> table'[Root(s)][n] # None /\ table'[Root(s)][n].port = s
    BY DEF Settled
  <2> HIDE DEF e, n
  <2>6. table'[h][n] = e
    BY <2>3, <2>4, TableFacts DEF Typing, TypeOK
  <2> QED
    BY <2>2, <2>3, <2>5, <2>6, Places
<1>7. CASE ForwardUpdate(h)
  <2>1. Parent[h] # None
    BY <1>3, <1>7 DEF ForwardUpdate
  <2>2. h # Root(s) /\ h = HostOf[s] /\ Root(s) = Parent[h]
    BY <1>3, <1>5, <2>1 DEF Root
  <2> DEFINE d == [c EXCEPT !.peer = h]
  <2>3. d \in Request /\ d.cmd = "register" /\ d.port = s
    BY <1>1, ServingTyped DEF Request
  <2>4. queue' = Connected(queue, Root(s), d)
    BY <1>3, <1>7, <2>2, CalmFacts DEF ForwardUpdate
  <2> HIDE DEF d
  <2>5. d \in Queued(Root(s))'
    BY <1>3, <2>3, <2>4, ConnectedQueued DEF Typing
  <2>6. d # None
    BY <2>3, Places
  <2>7. RegAt(Root(s), s)'
    BY <2>3, <2>5, <2>6 DEF RegAt, Conns, Queued, Registers
  <2> QED
    BY <2>1, <2>2, <2>7 DEF AtRoot
<1> QED
  BY <1>6, <1>7 DEF Handled

\* A registration that has come to its root stays with it.
LEMMA AtRootStays ==
    ASSUME Faults = {}, DistinctNames, Shallow, Typing, Carries, Routes, Calm, Relaying, Offers, Entries, Opened, Unregistering,
           [Next]_vars, NEW s \in Proc, stage[s] = "serving", AtRoot(s)
    PROVE  AtRoot(s)'
<1>1. CASE Settled(s)
  BY <1>1, SettledStays DEF AtRoot
<1>2. CASE Parent[HostOf[s]] # None /\ RegAt(Root(s), s)
  <2>1. Root(s) \in Host
    BY RootFacts DEF Offers
  <2>2. RegAt(Root(s), s)' \/ Handled(Root(s), s)
    BY <1>2, <2>1, RegSteps
  <2> QED
    BY <1>2, <2>1, <2>2, HandledSteps DEF AtRoot
<1> QED
  BY <1>1, <1>2 DEF AtRoot

\* A registration is not lost on its way.
LEMMA StepKept ==
    ASSUME Faults = {}, DistinctNames, Shallow, Typing, Carries, Routes, Calm, Relaying, Offers, Entries, Opened, Unregistering,
           Kept, [Next]_vars
    PROVE  Kept'
<1> SUFFICES ASSUME NEW s \in Proc, stage'[s] = "serving"
             PROVE  RegAt(HostOf[s], s)' \/ AtRoot(s)'
  BY DEF Kept
<1>1. HostOf[s] \in Host
  BY Places
<1>2. stage[s] = "serving" \/ Register(s)
  BY StageSteps DEF Stages
<1>3. CASE stage[s] = "serving"
  <2>1. CASE AtRoot(s)
    BY <1>3, <2>1, AtRootStays
  <2>2. CASE RegAt(HostOf[s], s)
    <3>1. RegAt(HostOf[s], s)' \/ Handled(HostOf[s], s)
      BY <1>1, <2>2, RegSteps
    <3> QED
      BY <1>1, <3>1, HandledSteps DEF AtRoot
  <2> QED
    BY <1>3, <2>1, <2>2 DEF Kept
<1>4. CASE Register(s)
  <2> DEFINE c == Conn("register", NameOf[s], s, s)
  <2>1. c \in Request /\ c.cmd = "register" /\ c.port = s
    BY ConnTyped, Places DEF Conn, Caller
  <2>2. queue' = Connected(queue, HostOf[s], c)
    BY <1>4 DEF Register
  <2> HIDE DEF c
  <2>3. c \in Queued(HostOf[s])'
    BY <1>1, <2>1, <2>2, ConnectedQueued DEF Typing
  <2> QED
    BY <2>1, <2>3, Places DEF RegAt, Conns, Queued, Registers
<1> QED
  BY <1>2, <1>3, <1>4


\* What holds as long as nothing goes wrong.
Quietly == Calm /\ Once /\ Waiting /\ Relaying /\ Forwarded /\ Opened /\ Unregistering /\ Kept

\* The inductive invariant of the registrations.
Registry == ServerTypes /\ Parents /\ Routes /\ Entries /\ (Faults = {} => Quietly)

\* It holds before the first registration, ...
LEMMA InitRegistry ==
    ASSUME Init
    PROVE  Registry
<1>1. Parents /\ Routes /\ Entries
  BY DEF Init, Parents, Routes, Conns, Entries
<1>2. Calm
  <2>1. NoAnswer # Broken
    <3>1. NoAnswer.kind = "none" /\ Broken.kind = "broken"
      BY DEF NoAnswer, Broken
    <3> QED
      BY <3>1
  <2> QED
    BY <2>1 DEF Init, Calm, Conns
<1>3. \A h \in Host : Conns(h) = {} /\ DOMAIN queue[h] = {}
  BY DEF Init, Conns
<1>4. Once /\ Waiting /\ Relaying /\ Forwarded
  BY <1>3, Places DEF Init, Once, AsksAt, Waiting, Relaying, Forwarded, Caller
<1>5. Opened /\ Unregistering /\ Kept
  BY <1>3 DEF Init, Opened, Unregistering, Kept
<1> QED
  BY <1>1, <1>2, <1>4, <1>5, InitServerTypes DEF Registry, Quietly

\* ... and every step keeps it.
LEMMA StepRegistry ==
    ASSUME Shallow, DistinctNames, Registry, [Next]_vars
    PROVE  Registry'
<1>1. ServerTypes' /\ Parents' /\ Routes' /\ Entries'
  BY StepServerTypes, StepParents, StepRoutes, StepEntries DEF Registry, ServerTypes
<1>2. Faults' = Faults
  BY DEF Next, vars, Faults
<1>3. ASSUME Faults = {} PROVE Quietly'
  <2>1. /\ Typing /\ Carries /\ Offers /\ Routes /\ Entries /\ Calm /\ Once /\ Waiting /\ Relaying /\ Forwarded
        /\ Opened /\ Unregistering /\ Kept
    BY <1>3 DEF Registry, ServerTypes, Quietly
  <2>2. Calm' /\ Once' /\ Waiting' /\ Relaying'
    BY <1>3, <2>1, StepCalm, StepOnce, StepWaiting, StepRelaying
  <2>3. Forwarded' /\ Opened'
    BY <1>3, <2>1, <2>2, StepForwarded, StepOpened
  <2>4. Unregistering' /\ Kept'
    BY <1>3, <2>1, StepUnregistering, StepKept
  <2> QED
    BY <2>2, <2>3, <2>4 DEF Quietly
<1> QED
  BY <1>1, <1>2, <1>3 DEF Registry

\* A process that serves is in a table or its registration is on the way there,
\* if nothing goes wrong (NameServerRegisterService sends it and does not wait;
\* ForwardUpdate; DoFindServer and DoListOfServers remove what they cannot reach).
THEOREM RegistrationStays == ASSUME Shallow, DistinctNames PROVE Spec => []RegistrationKept
<1>1. Registry /\ [Next]_vars => Registry'
  BY StepRegistry
<1>2. Registry => RegistrationKept
  <2> SUFFICES ASSUME Registry, Faults = {}, NEW s \in Proc, stage[s] = "serving"
               PROVE  \E h \in Host :
                         \/ table[h][NameOf[s]] # None /\ table[h][NameOf[s]].port = s
                         \/ \E c \in Conns(h) : c.cmd = "register" /\ c.port = s
    BY DEF RegistrationKept
  <2>1. HostOf[s] \in Host /\ Root(s) \in Host
    BY RootFacts, Places DEF Registry, ServerTypes, Offers
  <2>2. RegAt(HostOf[s], s) \/ Settled(s) \/ RegAt(Root(s), s)
    BY DEF Registry, Quietly, Kept, AtRoot
  <2> QED
    BY <2>1, <2>2 DEF RegAt, Registers, Settled
<1> QED
  BY <1>1, <1>2, InitRegistry, PTL DEF Spec
-----------------------------------------------------------------------------
\* The services that p was sure of when it asked and that still serve.
Sure(p) == {s \in sure[p] : stage[s] = "serving"}

\* What a process is sure of are services of its host.
SureOf ==
    \A p \in Proc : \A s \in sure[p] :
        HostOf[s] = HostOf[p] /\ NameOf[s] # None /\ stage[s] \in {"serving", "leaving", "gone"}

\* Who asks is sure of services of the name it asks for.
SureName ==
    \A h \in Host, p \in Proc : \A c \in Conns(h) : AsksFor(c, p) => \A s \in sure[p] : NameOf[s] = c.name

\* The registration of s is served before the i-th connection in the queue of h.
Before(h, i, s) ==
    Registers(serving[h], s) \/ \E j \in DOMAIN queue[h] : j < i /\ Registers(queue[h][j], s)

\* A registration stays ahead of a request that came after it: in the queue of
\* their host, while the request is served there, ...
QueuedAsk ==
    \A h \in Host, p \in Proc : \A i \in DOMAIN queue[h] :
        AsksFor(queue[h][i], p) => \A s \in Sure(p) : AtRoot(s) \/ Before(h, i, s)
ServedAsk == \A h \in Host, p \in Proc : AsksFor(serving[h], p) => \A s \in Sure(p) : AtRoot(s)

\* ... in the queue of the root, and while the request is served by it.
QueuedForward ==
    \A h, g \in Host : \A i \in DOMAIN queue[h] :
        AsksFor(queue[h][i], g) /\ serving[g].peer \in Proc =>
            \A s \in Sure(serving[g].peer) : Settled(s) \/ Before(h, i, s)
ServedForward ==
    \A h, g \in Host :
        AsksFor(serving[h], g) /\ serving[g].peer \in Proc => \A s \in Sure(serving[g].peer) : Settled(s)

\* So the answer that there is no such service is right, on its way and at its end.
Denied ==
    /\ \A g \in Host : answer[g] = Absent /\ serving[g].peer \in Proc => Sure(serving[g].peer) = {}
    /\ \A p \in Proc : answer[p] = Absent => Sure(p) = {}

\* What a process is sure of changes when it asks; services leave meanwhile.
LEMMA SureSteps ==
    ASSUME Faults = {}, Typing, Calm, SureOf, [Next]_vars
    PROVE  /\ \A p \in Proc : \/ sure'[p] = sure[p] /\ Sure(p)' \subseteq Sure(p)
                              \/ \E cmd \in {"find", "list"}, n \in Name : Ask(p, cmd, n)
           /\ \A p \in Proc : wait[p] => sure'[p] = sure[p] /\ Sure(p)' \subseteq Sure(p)
<1>1. UNCHANGED sure \/ \E p \in Proc, cmd \in {"find", "list"}, n \in Name : Ask(p, cmd, n)
  BY CalmSteps DEF Listen, Close, Probe, Register, Unregister, Accept, ServeProbe, ForwardUpdate, DoRegisterServer,
        DoUnregisterServer, DoFindServer, DoListOfServers, AskParent, Relay, vars, clients
<1>2. \A p, q \in Proc : (\E cmd \in {"find", "list"}, n \in Name : Ask(q, cmd, n)) => ~wait[q] /\ (p # q => sure'[p] = sure[p])
  BY DEF Ask, Typing, TypeOK
<1>3. ASSUME NEW p \in Proc, sure'[p] = sure[p] PROVE Sure(p)' \subseteq Sure(p)
  <2>1. ASSUME NEW s \in sure[p], stage'[s] = "serving" PROVE stage[s] = "serving"
    <3>1. s \in Proc /\ stage[s] \in {"serving", "leaving", "gone"}
      BY DEF SureOf, Typing, TypeOK
    <3> QED
      BY <2>1, <3>1, StageSteps DEF Stages
  <2> QED
    BY <1>3, <2>1 DEF Sure
<1> QED
  BY <1>1, <1>2, <1>3

\* A lookup is sure of services of its own host.
LEMMA StepSureOf ==
    ASSUME Faults = {}, Typing, Offers, Calm, SureOf, [Next]_vars
    PROVE  SureOf'
<1> SUFFICES ASSUME NEW p \in Proc, NEW s \in sure'[p]
             PROVE  HostOf[s] = HostOf[p] /\ NameOf[s] # None /\ stage'[s] \in {"serving", "leaving", "gone"}
  BY DEF SureOf
<1>1. CASE sure'[p] = sure[p]
  <2>1. s \in Proc /\ HostOf[s] = HostOf[p] /\ NameOf[s] # None /\ stage[s] \in {"serving", "leaving", "gone"}
    BY <1>1 DEF SureOf, Typing, TypeOK
  <2> QED
    BY <2>1, StageSteps DEF Stages
<1>2. ASSUME NEW cmd \in {"find", "list"}, NEW n \in Name, Ask(p, cmd, n)
      PROVE  HostOf[s] = HostOf[p] /\ NameOf[s] # None /\ stage'[s] \in {"serving", "leaving", "gone"}
  <2>1. s \in Proc /\ stage[s] = "serving" /\ HostOf[s] = HostOf[p] /\ UNCHANGED stage
    BY <1>2 DEF Ask, Typing, TypeOK
  <2> QED
    BY <2>1 DEF Offers
<1> QED
  BY <1>1, <1>2, SureSteps

\* It is sure of them by the name that its request carries.
LEMMA StepSureName ==
    ASSUME Faults = {}, Typing, Calm, Once, SureOf, SureName, [Next]_vars
    PROVE  SureName'
<1> SUFFICES ASSUME NEW h \in Host, NEW p \in Proc, NEW c \in Conns(h)', AsksFor(c, p), NEW s \in sure'[p]
             PROVE  NameOf[s] = c.name
  BY DEF SureName, AsksFor
<1>1. c \in Conns(h) \/ Arrives(h, c)
  BY Arrivals DEF Accounted
<1>2. CASE c \in Conns(h)
  <2>1. wait[p]
    BY <1>2 DEF Once, AsksAt, Caller
  <2> QED
    BY <1>2, <2>1, SureSteps DEF SureName
<1>3. ASSUME NEW q \in Proc, Sent(q, c)
      PROVE  NameOf[s] = c.name
  <2>1. PICK cmd \in {"find", "list"}, n \in Name : Ask(q, cmd, n) /\ c = Conn(cmd, n, None, q)
    BY <1>3 DEF Sent, Conn, AsksFor, Asks
  <2>2. q = p /\ c.name = n
    BY <2>1 DEF Conn, AsksFor
  <2> QED
    BY <2>1, <2>2 DEF Ask, Typing, TypeOK
<1>4. ASSUME NEW k \in Host, HandedOn(k, c)
      PROVE  FALSE
  <2>1. serving[k] \in Request /\ c = [serving[k] EXCEPT !.peer = k]
    BY <1>4, ServingTyped DEF HandedOn
  <2> QED
    BY <2>1, Places DEF AsksFor, Request
<1>5. ASSUME NEW d \in Conns(h), c = [d EXCEPT !.peer = None]
      PROVE  FALSE
  <2>1. d \in Request
    BY ConnsTyped
  <2> QED
    BY <1>5, <2>1, Places DEF AsksFor, Request
<1>6. CASE c = Conn("stop", None, None, None)
  BY <1>6, Places DEF Conn, AsksFor
<1> QED
  BY <1>1, <1>2, <1>3, <1>4, <1>5, <1>6 DEF Arrives

-----------------------------------------------------------------------------
(* Order *)

\* How a request for an answer gets into the queue of h.
Question(h, c) ==
    /\ UNCHANGED serving
    /\ \/ \E p \in Proc, cmd \in {"find", "list"}, n \in Name : Ask(p, cmd, n) /\ HostOf[p] = h /\ c.peer = p
       \/ \E g \in Host : AskParent(g) /\ Parent[g] = h /\ c.peer = g

\* A queue changes by an Accept or one connection.
LEMMA QueueSteps ==
    ASSUME Faults = {}, Typing, Carries, Calm, [Next]_vars
    PROVE  \/ UNCHANGED queue
           \/ \E k \in Host : Accept(k)
           \/ \E k \in Host, c \in Request : queue' = Connected(queue, k, c) /\ (Asks(c) => Question(k, c))
<1>1. ASSUME NEW p \in Proc, Probe(p) \/ Register(p) \/ Unregister(p)
      PROVE  UNCHANGED queue \/ \E k \in Host, c \in Request : queue' = Connected(queue, k, c) /\ ~Asks(c)
  <2>1. HostOf[p] \in Host /\ p \in Caller /\ NameOf[p] \in Name \cup {None}
    BY Places DEF Caller
  <2> QED
    BY <1>1, <2>1, ConnTyped DEF Probe, Register, Unregister, Conn, Asks
<1>2. ASSUME NEW p \in Proc, NEW cmd \in {"find", "list"}, NEW n \in Name, Ask(p, cmd, n)
      PROVE  \E k \in Host, c \in Request : queue' = Connected(queue, k, c) /\ Question(k, c)
  <2> DEFINE c == Conn(cmd, n, None, p)
  <2>1. HostOf[p] \in Host /\ c \in Request /\ c.peer = p
    BY Places, ConnTyped DEF Conn, Caller
  <2>2. queue' = Connected(queue, HostOf[p], c) /\ UNCHANGED serving
    BY <1>2, <2>1, CalmFacts DEF Ask
  <2> HIDE DEF c
  <2> QED
    BY <1>2, <2>1, <2>2 DEF Question
<1>3. ASSUME NEW h \in Host, ForwardUpdate(h)
      PROVE  UNCHANGED queue \/ \E k \in Host, c \in Request : queue' = Connected(queue, k, c) /\ ~Asks(c)
  <2> DEFINE c == [serving[h] EXCEPT !.peer = h]
  <2>1. c \in Request /\ parent[h] \in Host /\ serving[h] \in Request
    BY <1>3, ServingTyped DEF ForwardUpdate, Serves, Typing, TypeOK
  <2>2. ~Asks(c)
    BY <1>3, <2>1 DEF ForwardUpdate, Serves, Asks, Request
  <2>3. UNCHANGED queue \/ queue' = Connected(queue, parent[h], c)
    BY <1>3 DEF ForwardUpdate
  <2> HIDE DEF c
  <2> QED
    BY <2>1, <2>2, <2>3
<1>4. ASSUME NEW h \in Host, AskParent(h)
      PROVE  \E k \in Host, c \in Request : queue' = Connected(queue, k, c) /\ Question(k, c)
  <2> DEFINE c == [serving[h] EXCEPT !.peer = h]
  <2>1. c \in Request /\ parent[h] \in Host /\ serving[h] \in Request /\ Parent[h] = parent[h]
    BY <1>4, ServingTyped DEF AskParent, Serves, Typing, TypeOK, Calm
  <2>2. c.peer = h
    BY <2>1 DEF Request
  <2>3. queue' = Connected(queue, parent[h], c) /\ UNCHANGED serving
    BY <1>4, <2>1, CalmFacts DEF AskParent
  <2> HIDE DEF c
  <2> QED
    BY <1>4, <2>1, <2>2, <2>3 DEF Question
<1>5. ASSUME NEW p \in Proc, Listen(p) \/ Close(p)
      PROVE  UNCHANGED queue
  BY <1>5 DEF Listen, Close
<1>6. ASSUME NEW h \in Host,
             \/ ServeProbe(h) \/ DoRegisterServer(h) \/ DoUnregisterServer(h)
             \/ DoFindServer(h) \/ DoListOfServers(h) \/ Relay(h)
      PROVE  UNCHANGED queue
  BY <1>6 DEF ServeProbe, DoRegisterServer, DoUnregisterServer, DoFindServer, DoListOfServers, Relay
<1>7. CASE UNCHANGED vars
  BY <1>7 DEF vars
<1> QED
  BY <1>1, <1>2, <1>3, <1>4, <1>5, <1>6, <1>7, CalmSteps

\* What is served changes by an Accept, or comes to an end.
LEMMA ServingSteps ==
    ASSUME Faults = {}, Typing, Carries, Calm, Relaying, [Next]_vars
    PROVE  \A h \in Host :
              \/ serving'[h] = serving[h]
              \/ Accept(h)
              \/ serving'[h] = None /\ \A s \in Proc : Registers(serving[h], s) => Handled(h, s)
<1> DEFINE Good(h) == \/ serving'[h] = serving[h]
                      \/ Accept(h)
                      \/ serving'[h] = None /\ \A s \in Proc : Registers(serving[h], s) => Handled(h, s)
<1>1. CASE UNCHANGED serving
  BY <1>1
<1>2. ASSUME NEW k \in Host, Finished(k), \A s \in Proc : Registers(serving[k], s) => Handled(k, s)
      PROVE  \A h \in Host : Good(h)
  BY <1>2, FinishedFacts
<1>3. ASSUME NEW k \in Host, Accept(k)
      PROVE  \A h \in Host : Good(h)
  BY <1>3, AcceptIndices
<1> HIDE DEF Good
<1>4. ASSUME NEW p \in Proc, Listen(p) \/ Close(p) \/ Probe(p) \/ Register(p) \/ Unregister(p)
      PROVE  UNCHANGED serving
  BY <1>4 DEF Listen, Close, Probe, Register, Unregister
<1>5. ASSUME NEW p \in Proc, NEW cmd \in {"find", "list"}, NEW n \in Name, Ask(p, cmd, n)
      PROVE  UNCHANGED serving
  BY <1>5 DEF Ask
<1>6. ASSUME NEW h \in Host, AskParent(h)
      PROVE  UNCHANGED serving
  <2>1. ~Refuses(parent[h])
    BY <1>6, CalmFacts DEF AskParent, Typing, TypeOK
  <2> QED
    BY <1>6, <2>1 DEF AskParent
<1>7. ASSUME NEW h \in Host, ServeProbe(h) \/ DoUnregisterServer(h) \/ DoFindServer(h) \/ DoListOfServers(h) \/ Relay(h)
      PROVE  Finished(h) /\ \A s \in Proc : ~Registers(serving[h], s)
  BY <1>7 DEF ServeProbe, DoUnregisterServer, DoFindServer, DoListOfServers, Relay, Serves, Relaying, Asks, Registers
<1>8. ASSUME NEW h \in Host, DoRegisterServer(h) \/ ForwardUpdate(h)
      PROVE  Finished(h) /\ \A s \in Proc : Registers(serving[h], s) => Handled(h, s)
  BY <1>8 DEF DoRegisterServer, ForwardUpdate, Handled
<1>9. CASE UNCHANGED vars
  BY <1>9 DEF vars
<1>10. UNCHANGED serving \/ \A h \in Host : Good(h)
  BY <1>2, <1>3, <1>4, <1>5, <1>6, <1>7, <1>8, <1>9, CalmSteps DEF vars
<1> QED
  BY <1>1, <1>10 DEF Good

\* A request for an answer keeps its place behind the registrations before it,
\* or comes in behind all that there are.
Stays(h, i) ==
    \E j \in DOMAIN queue[h] :
        /\ queue'[h][i] = queue[h][j]
        /\ \A s \in Proc : Before(h, j, s) => Before(h, i, s)' \/ Handled(h, s)
Joins(h, i) ==
    Asks(queue'[h][i]) => /\ Question(h, queue'[h][i])
                          /\ \A s \in Proc : RegAt(h, s) => Before(h, i, s)'

\* Every position of the next state is one of the two.
LEMMA Positions ==
    ASSUME Faults = {}, Typing, Carries, Calm, Relaying, [Next]_vars, NEW h \in Host, NEW i \in DOMAIN queue'[h]
    PROVE  Stays(h, i) \/ Joins(h, i)
<1>1. ASSUME ~Accept(h), NEW s \in Proc, Registers(serving[h], s)
      PROVE  Registers(serving'[h], s) \/ Handled(h, s)
  BY <1>1, ServingSteps
<1>2. ASSUME i \in DOMAIN queue[h], ~Accept(h), \A j \in DOMAIN queue[h] : j \in DOMAIN queue'[h] /\ queue'[h][j] = queue[h][j]
      PROVE  Stays(h, i)
  BY <1>1, <1>2 DEF Stays, Before
<1>3. CASE Accept(h)
  <2>1. /\ i \in Nat /\ i # 0 /\ i + 1 \in DOMAIN queue[h] /\ queue'[h][i] = queue[h][i + 1]
        /\ serving'[h] = queue[h][1] /\ serving[h] = None
    BY <1>3, AcceptIndices
  <2>2. ASSUME NEW s \in Proc, Before(h, i + 1, s)
        PROVE  Before(h, i, s)'
    <3>1. PICK j \in DOMAIN queue[h] : j < i + 1 /\ Registers(queue[h][j], s)
      BY <2>1, <2>2 DEF Before, Registers
    <3>2. CASE j = 1
      BY <2>1, <3>1, <3>2 DEF Before
    <3>3. CASE j # 1
      <4>1. j \in Nat /\ j - 1 \in DOMAIN queue'[h] /\ queue'[h][j - 1] = queue[h][j]
        BY <1>3, <3>3, AcceptIndices
      <4>2. j - 1 < i
        BY <2>1, <3>1, <4>1
      <4> QED
        BY <3>1, <4>1, <4>2 DEF Before
    <3> QED
      BY <3>2, <3>3
  <2> QED
    BY <2>1, <2>2 DEF Stays
<1>4. CASE ~Accept(h) /\ UNCHANGED queue
  BY <1>2, <1>4
<1>5. ASSUME ~Accept(h), NEW k \in Host, Accept(k)
      PROVE  Stays(h, i)
  <2>1. queue'[h] = queue[h]
    BY <1>5, AcceptIndices
  <2> QED
    BY <1>2, <1>5, <2>1
<1>6. ASSUME ~Accept(h), NEW k \in Host, NEW c \in Request,
             queue' = Connected(queue, k, c), Asks(c) => Question(k, c)
      PROVE  Stays(h, i) \/ Joins(h, i)
  <2>1. \A j \in DOMAIN queue[h] : j \in DOMAIN queue'[h] /\ queue'[h][j] = queue[h][j]
    BY <1>6, AppendIndices
  <2>2. i \in DOMAIN queue[h] \/ (h = k /\ i = Len(queue[k]) + 1 /\ queue'[h][i] = c)
    BY <1>6, AppendIndices
  <2>3. CASE h = k /\ i = Len(queue[k]) + 1 /\ queue'[h][i] = c
    <3>1. ASSUME Asks(c), NEW s \in Proc, RegAt(h, s)
          PROVE  Before(h, i, s)'
      <4>1. UNCHANGED serving
        BY <1>6, <3>1 DEF Question
      <4>2. \A j \in DOMAIN queue[h] : j < i
        BY <1>6, <2>3, AppendIndices
      <4> QED
        BY <2>1, <3>1, <4>1, <4>2 DEF RegAt, Conns, Before
    <3> QED
      BY <1>6, <2>3, <3>1 DEF Joins
  <2> QED
    BY <1>2, <1>6, <2>1, <2>2, <2>3
<1> QED
  BY <1>3, <1>4, <1>5, <1>6, QueueSteps

\* What is served was served, or nothing was before it.
LEMMA Heads ==
    ASSUME Faults = {}, Typing, Carries, Calm, Relaying, [Next]_vars, NEW h \in Host, serving'[h] # None
    PROVE  \/ serving'[h] = serving[h]
           \/ \E j \in DOMAIN queue[h] : serving'[h] = queue[h][j] /\ \A s \in Proc : ~Before(h, j, s)
<1>1. CASE Accept(h)
  <2>1. 1 \in DOMAIN queue[h] /\ serving'[h] = queue[h][1] /\ serving[h] = None /\ \A j \in DOMAIN queue[h] : j \in Nat
    BY <1>1, AcceptIndices
  <2>2. \A j \in DOMAIN queue[h] : ~(j < 1)
    <3>1. queue[h] \in Seq(Request)
      BY DEF Typing
    <3> QED
      BY <3>1
  <2> QED
    BY <2>1, <2>2 DEF Before, Registers
<1> QED
  BY <1>1, ServingSteps


\* What the order of the requests rests on.
Undisturbed == Faults = {} /\ ServerTypes /\ Routes /\ Entries /\ Quietly

\* The parts of it.
LEMMA UndisturbedFacts ==
    ASSUME Undisturbed
    PROVE  /\ Faults = {} /\ Typing /\ Carries /\ Offers /\ Routes /\ Entries
           /\ Calm /\ Once /\ Waiting /\ Relaying /\ Forwarded /\ Opened /\ Unregistering /\ Kept
BY DEF Undisturbed, ServerTypes, Quietly

\* The inductive invariant of the order of requests.
Ordered == SureOf /\ SureName /\ QueuedAsk /\ ServedAsk /\ QueuedForward /\ ServedForward /\ Denied

\* A process that asks is known to be sure of what it was sure of.
LEMMA SureProcess ==
    ASSUME Undisturbed, SureOf, [Next]_vars, NEW p \in Proc, NEW s \in Sure(p)', sure'[p] = sure[p]
    PROVE  /\ s \in Sure(p) /\ s \in Proc /\ HostOf[s] = HostOf[p] /\ NameOf[s] # None
           /\ stage[s] = "serving" /\ stage'[s] = "serving"
<1>1. s \in Proc /\ stage'[s] = "serving" /\ s \in sure[p]
  BY UndisturbedFacts DEF Sure, Typing, TypeOK
<1>2. HostOf[s] = HostOf[p] /\ NameOf[s] # None /\ stage[s] \in {"serving", "leaving", "gone"}
  BY <1>1 DEF SureOf
<1>3. stage[s] = "serving"
  BY <1>1, <1>2, StageSteps, UndisturbedFacts DEF Stages
<1> QED
  BY <1>1, <1>2, <1>3 DEF Sure

\* Whoever has a request under way waits, and asks nothing else.
LEMMA Asker ==
    ASSUME Undisturbed, SureOf, [Next]_vars, NEW h \in Host, NEW p \in Proc, AsksAt(h, p)
    PROVE  h = HostOf[p] /\ wait[p] /\ sure'[p] = sure[p]
<1>1. wait[p]
  BY UndisturbedFacts DEF Once, Caller
<1>2. sure'[p] = sure[p]
  BY <1>1, SureSteps, UndisturbedFacts
<1>3. h = HostOf[p]
  BY UndisturbedFacts DEF AsksAt, AsksFor, Routes, Route
<1> QED
  BY <1>1, <1>2, <1>3

\* A request that is queued or served is at its host.
LEMMA QueuedAsks ==
    \A h \in Host, x \in Caller :
        /\ \A i \in DOMAIN queue[h] : AsksFor(queue[h][i], x) => AsksAt(h, x)
        /\ AsksFor(serving[h], x) => AsksAt(h, x)
BY DEF AsksAt, Conns, AsksFor

\* A registration that was sent first stays first in its host's queue.
LEMMA StepQueuedAsk ==
    ASSUME DistinctNames, Shallow, Undisturbed, SureOf, QueuedAsk, [Next]_vars
    PROVE  QueuedAsk'
<1> SUFFICES ASSUME NEW h \in Host, NEW p \in Proc, NEW i \in DOMAIN queue'[h], AsksFor(queue'[h][i], p),
                    NEW s \in Sure(p)'
             PROVE  AtRoot(s)' \/ Before(h, i, s)'
  BY DEF QueuedAsk, AsksFor
<1>1. p \in Caller /\ p \notin Host
  BY Places DEF Caller
<1>2. CASE Stays(h, i)
  <2>1. PICK j \in DOMAIN queue[h] :
           /\ queue'[h][i] = queue[h][j]
           /\ \A t \in Proc : Before(h, j, t) => Before(h, i, t)' \/ Handled(h, t)
    BY <1>2 DEF Stays
  <2>2. AsksFor(queue[h][j], p) /\ AsksAt(h, p)
    BY <1>1, <2>1, QueuedAsks
  <2>3. h = HostOf[p] /\ sure'[p] = sure[p]
    BY <2>2, Asker
  <2>4. s \in Sure(p) /\ s \in Proc /\ HostOf[s] = h /\ stage[s] = "serving"
    BY <2>3, SureProcess
  <2>5. CASE AtRoot(s)
    BY <2>4, <2>5, AtRootStays, UndisturbedFacts
  <2>6. CASE Before(h, j, s)
    <3>1. Before(h, i, s)' \/ Handled(h, s)
      BY <2>1, <2>4, <2>6
    <3> QED
      BY <2>4, <3>1, HandledSteps, UndisturbedFacts DEF AtRoot
  <2> QED
    BY <2>2, <2>4, <2>5, <2>6 DEF QueuedAsk
<1>3. CASE Joins(h, i)
  <2>1. Question(h, queue'[h][i]) /\ \A t \in Proc : RegAt(h, t) => Before(h, i, t)'
    BY <1>3 DEF Joins, AsksFor
  <2>2. PICK cmd \in {"find", "list"}, n \in Name : Ask(p, cmd, n) /\ HostOf[p] = h
    BY <1>1, <2>1 DEF Question, AsksFor
  <2>3. s \in Proc /\ stage[s] = "serving" /\ HostOf[s] = h
    BY <2>2, UndisturbedFacts DEF Ask, Sure, Typing, TypeOK
  <2>4. RegAt(h, s) \/ AtRoot(s)
    BY <2>3, UndisturbedFacts DEF Kept
  <2> QED
    BY <2>1, <2>3, <2>4, AtRootStays, UndisturbedFacts
<1> QED
  BY <1>2, <1>3, Positions, UndisturbedFacts

\* When the request is served, the registration has gone on to the root.
LEMMA StepServedAsk ==
    ASSUME DistinctNames, Shallow, Undisturbed, SureOf, QueuedAsk, ServedAsk, [Next]_vars
    PROVE  ServedAsk'
<1> SUFFICES ASSUME NEW h \in Host, NEW p \in Proc, AsksFor(serving'[h], p), NEW s \in Sure(p)'
             PROVE  AtRoot(s)'
  BY DEF ServedAsk, AsksFor
<1>1. p \in Caller /\ serving'[h] # None
  BY DEF Caller, AsksFor
<1>2. AsksAt(h, p) /\ (s \in Sure(p) => AtRoot(s) \/ \E j \in DOMAIN queue[h] :
                          /\ Before(h, j, s) /\ serving'[h] = queue[h][j] /\ \A t \in Proc : ~Before(h, j, t))
  <2>1. CASE serving'[h] = serving[h]
    BY <1>1, <2>1, QueuedAsks DEF ServedAsk
  <2>2. CASE \E j \in DOMAIN queue[h] : serving'[h] = queue[h][j] /\ \A t \in Proc : ~Before(h, j, t)
    BY <1>1, <2>2, QueuedAsks DEF QueuedAsk
  <2> QED
    BY <1>1, <2>1, <2>2, Heads, UndisturbedFacts
<1>3. s \in Sure(p) /\ s \in Proc /\ stage[s] = "serving"
  BY <1>2, Asker, SureProcess
<1> QED
  BY <1>2, <1>3, AtRootStays, UndisturbedFacts

\* What a name server asks of its parent it asks for a process of its own host.
LEMMA Forwarder ==
    ASSUME Shallow, Undisturbed, SureOf, [Next]_vars, NEW h \in Host, NEW g \in Host, AsksAt(h, g),
           NEW p \in Proc, serving[g].peer = p, NEW s \in Sure(p)'
    PROVE  /\ AsksFor(serving[g], p) /\ sure'[p] = sure[p]
           /\ s \in Sure(p) /\ s \in Proc /\ stage[s] = "serving" /\ NameOf[s] # None
           /\ h = Root(s) /\ HostOf[s] = g /\ Parent[g] # None /\ Parent[h] = None
<1>1. g \in Caller /\ p \in Caller
  BY DEF Caller
<1>2. wait[g]
  BY <1>1, UndisturbedFacts DEF Once
<1>3. AsksFor(serving[g], p) /\ parent[g] # None /\ parent = Parent
  BY <1>2, UndisturbedFacts DEF Relaying, AsksFor, Calm
<1>4. g = HostOf[p] /\ sure'[p] = sure[p]
  BY <1>1, <1>3, Asker, QueuedAsks
<1>5. s \in Sure(p) /\ s \in Proc /\ HostOf[s] = g /\ stage[s] = "serving" /\ NameOf[s] # None
  BY <1>4, SureProcess
<1>6. h = Parent[g]
  BY Places, UndisturbedFacts DEF AsksAt, AsksFor, Routes, Route
<1> QED
  BY <1>3, <1>4, <1>5, <1>6, RootFacts DEF Root

\* There it is before the request that is passed on, ...
LEMMA StepQueuedForward ==
    ASSUME DistinctNames, Shallow, Undisturbed, Once', SureOf, ServedAsk, QueuedForward, [Next]_vars
    PROVE  QueuedForward'
<1> SUFFICES ASSUME NEW h \in Host, NEW g \in Host, NEW i \in DOMAIN queue'[h], AsksFor(queue'[h][i], g),
                    (serving[g].peer \in Proc)', NEW s \in Sure(serving[g].peer)'
             PROVE  Settled(s)' \/ Before(h, i, s)'
  BY DEF QueuedForward, AsksFor
<1>1. g \in Caller
  BY DEF Caller
<1>2. wait'[g]
  BY <1>1 DEF Once, AsksAt, Conns, AsksFor
<1>3. serving'[g] = serving[g]
  BY <1>2, HeldWhileWaiting, UndisturbedFacts
<1>4. PICK p \in Proc : serving[g].peer = p /\ s \in Sure(p)'
  BY <1>3 DEF Sure
<1>5. CASE Stays(h, i)
  <2>1. PICK j \in DOMAIN queue[h] :
           /\ queue'[h][i] = queue[h][j]
           /\ \A t \in Proc : Before(h, j, t) => Before(h, i, t)' \/ Handled(h, t)
    BY <1>5 DEF Stays
  <2>2. AsksFor(queue[h][j], g) /\ AsksAt(h, g)
    BY <1>1, <2>1, QueuedAsks
  <2>3. s \in Sure(p) /\ s \in Proc /\ stage[s] = "serving" /\ h = Root(s)
    BY <1>4, <2>2, Forwarder
  <2>4. CASE Settled(s)
    BY <2>3, <2>4, SettledStays, UndisturbedFacts
  <2>5. CASE Before(h, j, s)
    <3>1. Before(h, i, s)' \/ Handled(h, s)
      BY <2>1, <2>3, <2>5
    <3> QED
      BY <2>3, <3>1, HandledSteps, UndisturbedFacts
  <2> QED
    BY <1>4, <2>2, <2>3, <2>4, <2>5 DEF QueuedForward
<1>6. CASE Joins(h, i)
  <2>1. Question(h, queue'[h][i]) /\ \A t \in Proc : RegAt(h, t) => Before(h, i, t)'
    BY <1>6 DEF Joins, AsksFor
  <2>2. AskParent(g) /\ Parent[g] = h
    BY <2>1, Places DEF Question, AsksFor
  <2>3. AsksFor(serving[g], p) /\ p \in Caller
    BY <1>4, <2>2 DEF AskParent, Serves, AsksFor, Asks, Caller
  <2>4. g = HostOf[p] /\ sure'[p] = sure[p]
    BY <1>4, <2>3, Asker, QueuedAsks
  <2>5. s \in Sure(p) /\ s \in Proc /\ HostOf[s] = g /\ stage[s] = "serving"
    BY <1>4, <2>4, SureProcess
  <2>6. h = Root(s)
    BY <2>2, <2>5, Places DEF Root
  <2>7. Settled(s) \/ RegAt(h, s)
    BY <1>4, <2>3, <2>5, <2>6 DEF ServedAsk, AtRoot
  <2> QED
    BY <2>1, <2>5, <2>7, SettledStays, UndisturbedFacts
<1> QED
  BY <1>5, <1>6, Positions, UndisturbedFacts

\* ... and in the table when that is served.
LEMMA StepServedForward ==
    ASSUME DistinctNames, Shallow, Undisturbed, Once', SureOf, QueuedForward, ServedForward, [Next]_vars
    PROVE  ServedForward'
<1> SUFFICES ASSUME NEW h \in Host, NEW g \in Host, AsksFor(serving'[h], g),
                    (serving[g].peer \in Proc)', NEW s \in Sure(serving[g].peer)'
             PROVE  Settled(s)'
  BY DEF ServedForward, AsksFor
<1>1. g \in Caller /\ serving'[h] # None
  BY DEF Caller, AsksFor
<1>2. wait'[g]
  BY <1>1 DEF Once, AsksAt, Conns, AsksFor
<1>3. serving'[g] = serving[g]
  BY <1>2, HeldWhileWaiting, UndisturbedFacts
<1>4. PICK p \in Proc : serving[g].peer = p /\ s \in Sure(p)'
  BY <1>3 DEF Sure
<1>5. AsksAt(h, g) /\ (s \in Sure(p) => Settled(s) \/ \E j \in DOMAIN queue[h] :
                          /\ Before(h, j, s) /\ serving'[h] = queue[h][j] /\ \A t \in Proc : ~Before(h, j, t))
  <2>1. CASE serving'[h] = serving[h]
    BY <1>1, <1>4, <2>1, QueuedAsks DEF ServedForward
  <2>2. CASE \E j \in DOMAIN queue[h] : serving'[h] = queue[h][j] /\ \A t \in Proc : ~Before(h, j, t)
    BY <1>1, <1>4, <2>2, QueuedAsks DEF QueuedForward
  <2> QED
    BY <1>1, <2>1, <2>2, Heads, UndisturbedFacts
<1>6. s \in Sure(p) /\ s \in Proc /\ stage[s] = "serving"
  BY <1>4, <1>5, Forwarder
<1> QED
  BY <1>5, <1>6, SettledStays, UndisturbedFacts


\* A lookup that finds nothing, or nothing that can be reached.
Denies(h) ==
    /\ DoFindServer(h)
    /\ \/ table[h][serving[h].name] = None
       \/ TryServer(h, table[h][serving[h].name]) # {TRUE}

\* "No such server" is told from the other answers.
LEMMA AbsentAnswer ==
    /\ Absent # NoAnswer
    /\ \A e : Absent # [kind |-> "found", entry |-> e] /\ Absent # [kind |-> "list", names |-> e]
<1>1. NoAnswer.kind = "none" /\ Absent.kind = "absent"
  BY DEF NoAnswer, Absent
<1>2. \A e : [kind |-> "found", entry |-> e].kind = "found" /\ [kind |-> "list", names |-> e].kind = "list"
  OBVIOUS
<1> QED
  BY <1>1, <1>2

\* Who denies that there is a service: a root, or the server that relays it.
LEMMA Denials ==
    ASSUME Undisturbed, [Next]_vars, NEW x \in Caller, answer'[x] = Absent
    PROVE  \/ answer[x] = Absent
           \/ \E h \in Host : AsksFor(serving[h], x) /\ (Denies(h) \/ (Relay(h) /\ answer[h] = Absent))
<1> DEFINE Goal == \/ answer[x] = Absent
                   \/ \E h \in Host : AsksFor(serving[h], x) /\ (Denies(h) \/ (Relay(h) /\ answer[h] = Absent))
<1>1. CASE UNCHANGED answer
  BY <1>1
<1>2. ASSUME NEW p \in Proc, NEW cmd \in {"find", "list"}, NEW n \in Name, Ask(p, cmd, n)
      PROVE  Goal
  <2>1. answer' = [answer EXCEPT ![p] = NoAnswer]
    BY <1>2, UndisturbedFacts, CalmFacts, Places DEF Ask
  <2> QED
    BY <2>1, AbsentAnswer, UndisturbedFacts DEF Typing, TypeOK
<1>3. ASSUME NEW h \in Host, DoFindServer(h)
      PROVE  Goal
  <2> DEFINE e == table[h][serving[h].name]
  <2>1. /\ serving[h] # None /\ Asks(serving[h]) /\ serving[h].peer \in Caller \cup {None}
        /\ serving[h].name \in Name
    BY <1>3, UndisturbedFacts, ServingTyped, ConnsFacts DEF DoFindServer, Serves, Asks, Carries, Carried
  <2>2. e \in Entry \cup {None} /\ Absent \in Answer
    BY <2>1, UndisturbedFacts, AnswerTyped DEF Typing, TypeOK
  <2>3. Reply(serving[h].peer, Absent) \/ (e # None /\ Reply(serving[h].peer, [kind |-> "found", entry |-> e]))
    BY <1>3 DEF DoFindServer
  <2>4. e # None => [kind |-> "found", entry |-> e] \in Answer
    BY <2>2, AnswerTyped
  <2>5. serving[h].peer # x => answer'[x] = answer[x]
    BY <2>1, <2>2, <2>3, <2>4, ReplyFacts, UndisturbedFacts
  <2>6. CASE serving[h].peer = x
    <3>1. x # None /\ AsksFor(serving[h], x)
      BY <2>1, <2>6, Places DEF AsksFor
    <3>2. ~(e # None /\ Reply(x, [kind |-> "found", entry |-> e]))
      BY <2>4, <3>1, ReplyFacts, AbsentAnswer, UndisturbedFacts
    <3>3. ASSUME e = None
          PROVE  Denies(h)
      BY <1>3, <3>3 DEF Denies
    <3>4. ASSUME e # None
          PROVE  Denies(h)
      <4>1. PICK alive \in TryServer(h, e) :
               IF alive THEN Reply(x, [kind |-> "found", entry |-> e]) ELSE Reply(x, Absent)
        BY <1>3, <2>6, <3>4 DEF DoFindServer
      <4>2. alive # TRUE
        BY <3>2, <3>4, <4>1
      <4> QED
        BY <1>3, <4>1, <4>2 DEF Denies
    <3>5. Denies(h)
      BY <3>3, <3>4
    <3> QED
      BY <3>1, <3>5
  <2> QED
    BY <2>5, <2>6
<1>4. ASSUME NEW h \in Host, DoListOfServers(h)
      PROVE  Goal
  <2>1. PICK names \in SUBSET Name : Reply(serving[h].peer, [kind |-> "list", names |-> names])
    BY <1>4 DEF DoListOfServers
  <2>2. serving[h].peer \in Caller \cup {None} /\ [kind |-> "list", names |-> names] \in Answer
    BY <1>4, ServingTyped, AnswerTyped, UndisturbedFacts DEF DoListOfServers, Serves
  <2>3. answer'[x] = answer[x]
    BY <2>1, <2>2, ReplyFacts, AbsentAnswer, Places, UndisturbedFacts
  <2> QED
    BY <2>3
<1>5. ASSUME NEW h \in Host, AskParent(h)
      PROVE  UNCHANGED answer
  BY <1>5, UndisturbedFacts, CalmFacts DEF AskParent, Typing, TypeOK
<1>6. ASSUME NEW h \in Host, Relay(h)
      PROVE  Goal
  <2>1. h \in Caller
    BY DEF Caller
  <2>2. answer[h] # Broken /\ serving[h] # None /\ Asks(serving[h])
    BY <1>6, <2>1, UndisturbedFacts DEF Calm, Relaying, Relay
  <2>3. answer'[x] = IF x = serving[h].peer THEN answer[h] ELSE IF x = h THEN NoAnswer ELSE answer[x]
    BY <1>6, <2>2 DEF Relay
  <2> QED
    BY <1>6, <2>2, <2>3, AbsentAnswer DEF AsksFor
<1>7. \/ UNCHANGED answer
      \/ \E p \in Proc, cmd \in {"find", "list"}, n \in Name : Ask(p, cmd, n)
      \/ \E h \in Host : \/ DoFindServer(h) \/ DoListOfServers(h) \/ AskParent(h) \/ Relay(h)
  BY CalmSteps, UndisturbedFacts DEF Listen, Close, Probe, Register, Unregister, Accept, ServeProbe, ForwardUpdate,
        DoRegisterServer, DoUnregisterServer, vars
<1> HIDE DEF Goal
<1>8. Goal
  BY <1>1, <1>2, <1>3, <1>4, <1>5, <1>6, <1>7 DEF Goal
<1> QED
  BY <1>8 DEF Goal

\* What the root has and can reach is not denied.
LEMMA NotDenied ==
    ASSUME Undisturbed, NEW h \in Host, NEW s \in Proc, h = Root(s), Settled(s), stage[s] = "serving",
           NameOf[s] # None, serving[h].name = NameOf[s]
    PROVE  ~Denies(h)
<1>1. NameOf[s] \in Name /\ table[h][NameOf[s]] # None /\ table[h][NameOf[s]].port = s
  BY Places DEF Settled
<1>2. TryServer(h, table[h][NameOf[s]]) = {TRUE}
  BY <1>1, Alive, UndisturbedFacts
<1> QED
  BY <1>1, <1>2 DEF Denies

\* So nobody is told that there is no such service who is sure of one.
LEMMA StepDenied ==
    ASSUME Shallow, Undisturbed, Relaying', Ordered, [Next]_vars
    PROVE  Denied'
<1>0. SureOf /\ SureName /\ ServedAsk /\ ServedForward /\ Denied
  BY DEF Ordered
<1>1. ASSUME NEW g \in Host, answer'[g] = Absent, NEW p \in Proc, serving'[g].peer = p, NEW s \in Sure(p)'
      PROVE  FALSE
  <2>1. g \in Caller /\ p \in Caller
    BY DEF Caller
  <2>2. \/ answer[g] = Absent
        \/ \E h \in Host : AsksFor(serving[h], g) /\ (Denies(h) \/ (Relay(h) /\ answer[h] = Absent))
    BY <1>1, <2>1, Denials
  <2>3. wait[g] \/ answer[g] # NoAnswer
    BY <2>1, <2>2, QueuedAsks, AbsentAnswer, UndisturbedFacts DEF Once
  <2>4. serving[g] # None /\ Asks(serving[g]) /\ serving'[g] # None
    BY <1>1, <2>3, AbsentAnswer, UndisturbedFacts DEF Relaying
  <2>5. serving'[g] = serving[g]
    BY <2>4, ServingSteps, UndisturbedFacts DEF Accept
  <2>6. AsksFor(serving[g], p) /\ serving[g].peer = p
    BY <1>1, <2>4, <2>5 DEF AsksFor
  <2>7. CASE answer[g] = Absent
    <3>1. s \in Sure(p)
      BY <1>0, <1>1, <2>1, <2>6, QueuedAsks, Asker, SureProcess
    <3> QED
      BY <1>0, <2>6, <2>7, <3>1 DEF Denied
  <2>8. ASSUME NEW h \in Host, AsksFor(serving[h], g), Denies(h) \/ (Relay(h) /\ answer[h] = Absent)
        PROVE  FALSE
    <3>1. AsksAt(h, g) /\ serving[h] \in Conns(h) /\ serving[g] \in Conns(g)
      BY <2>1, <2>4, <2>8, QueuedAsks, ConnsFacts DEF AsksFor
    <3>2. /\ s \in Sure(p) /\ s \in Proc /\ stage[s] = "serving" /\ NameOf[s] # None
          /\ h = Root(s) /\ Parent[h] = None
      BY <1>0, <1>1, <2>6, <3>1, Forwarder
    <3>3. Settled(s)
      BY <1>0, <2>6, <2>8, <3>2 DEF ServedForward
    <3>4. serving[h].name = serving[g].name /\ NameOf[s] = serving[g].name
      BY <1>0, <2>6, <2>8, <3>1, <3>2, UndisturbedFacts DEF Forwarded, SureName, Sure
    <3>5. ~Denies(h)
      BY <3>2, <3>3, <3>4, NotDenied
    <3>6. answer[h] # Absent
      BY <3>2, AbsentAnswer, UndisturbedFacts DEF Relaying, Calm
    <3> QED
      BY <2>8, <3>5, <3>6
  <2> QED
    BY <2>2, <2>7, <2>8
<1>2. ASSUME NEW p \in Proc, answer'[p] = Absent, NEW s \in Sure(p)'
      PROVE  FALSE
  <2>1. p \in Caller
    BY DEF Caller
  <2>2. CASE answer[p] = Absent
    <3>1. ASSUME NEW cmd \in {"find", "list"}, NEW n \in Name, Ask(p, cmd, n)
          PROVE  FALSE
      <4>1. answer' = [answer EXCEPT ![p] = NoAnswer]
        BY <3>1, UndisturbedFacts, CalmFacts, Places DEF Ask
      <4> QED
        BY <1>2, <2>1, <4>1, AbsentAnswer, UndisturbedFacts DEF Typing, TypeOK
    <3>2. Sure(p)' \subseteq Sure(p)
      BY <1>0, <3>1, SureSteps, UndisturbedFacts
    <3> QED
      BY <1>0, <1>2, <2>2, <3>2 DEF Denied
  <2>3. ASSUME NEW h \in Host, AsksFor(serving[h], p), Denies(h) \/ (Relay(h) /\ answer[h] = Absent)
        PROVE  FALSE
    <3>1. h = HostOf[p] /\ sure'[p] = sure[p]
      BY <1>0, <2>1, <2>3, QueuedAsks, Asker
    <3>2. s \in Sure(p) /\ s \in Proc /\ HostOf[s] = h /\ stage[s] = "serving" /\ NameOf[s] # None
      BY <1>0, <1>2, <3>1, SureProcess
    <3>3. CASE Denies(h)
      <4>1. Parent[h] = None
        BY <3>3, UndisturbedFacts DEF Denies, DoFindServer, Calm
      <4>2. h = Root(s) /\ Settled(s)
        BY <1>0, <2>3, <3>2, <4>1 DEF Root, ServedAsk, AtRoot
      <4>3. serving[h] \in Conns(h)
        BY <2>3, ConnsFacts DEF AsksFor
      <4>4. serving[h].name = NameOf[s]
        BY <1>0, <2>3, <3>2, <4>3 DEF SureName, Sure
      <4> QED
        BY <3>2, <3>3, <4>2, <4>4, NotDenied
    <3>4. CASE Relay(h) /\ answer[h] = Absent
      BY <1>0, <2>3, <3>2, <3>4 DEF Denied, AsksFor
    <3> QED
      BY <2>3, <3>3, <3>4
  <2> QED
    BY <1>2, <2>1, <2>2, <2>3, Denials
<1>3. \A g \in Host : answer'[g] = Absent /\ serving'[g].peer \in Proc => (Sure(serving[g].peer) = {})'
  <2> SUFFICES ASSUME NEW g \in Host, answer'[g] = Absent, serving'[g].peer \in Proc
               PROVE  (Sure(serving[g].peer) = {})'
    OBVIOUS
  <2>1. PICK p \in Proc : p = serving'[g].peer
    OBVIOUS
  <2>2. \A s : s \notin Sure(p)'
    BY <1>1, <2>1
  <2> QED
    BY <2>1, <2>2 DEF Sure
<1>4. \A p \in Proc : answer'[p] = Absent => Sure(p)' = {}
  BY <1>2
<1> QED
  BY <1>3, <1>4 DEF Denied

\* It holds before the first request, ...
LEMMA InitOrdered ==
    ASSUME Init
    PROVE  Ordered
<1>1. \A h \in Host : Conns(h) = {} /\ DOMAIN queue[h] = {} /\ serving[h] = None
  BY DEF Init, Conns
<1>2. SureOf /\ SureName /\ \A p \in Proc : Sure(p) = {}
  BY <1>1 DEF Init, SureOf, SureName, Sure
<1>3. QueuedAsk /\ ServedAsk /\ QueuedForward /\ ServedForward
  BY <1>1 DEF QueuedAsk, ServedAsk, QueuedForward, ServedForward, AsksFor
<1>4. Denied
  BY AbsentAnswer DEF Init, Denied, Caller
<1> QED
  BY <1>2, <1>3, <1>4 DEF Ordered

\* ... and every step keeps it.
LEMMA StepOrdered ==
    ASSUME Shallow, DistinctNames, Undisturbed, Once', Relaying', Ordered, [Next]_vars
    PROVE  Ordered'
<1>1. SureOf /\ SureName /\ QueuedAsk /\ ServedAsk /\ QueuedForward /\ ServedForward
  BY DEF Ordered
<1>2. SureOf' /\ SureName'
  BY <1>1, StepSureOf, StepSureName, UndisturbedFacts
<1>3. QueuedAsk' /\ ServedAsk' /\ QueuedForward' /\ ServedForward'
  BY <1>1, StepQueuedAsk, StepServedAsk, StepQueuedForward, StepServedForward
<1> QED
  BY <1>2, <1>3, StepDenied DEF Ordered

\* A lookup made after a registration has returned does not answer that there is
\* no such service while the service stands, if nothing goes wrong: nothing
\* acknowledges a registration (NameServerRegisterService), but requests are
\* served in the order in which they came (ProcessRequests), at each of the two
\* name servers that they pass.
THEOREM ReadsOwnWrites == ASSUME Shallow, DistinctNames PROVE Spec => []ReadYourWrites
<1> DEFINE Inv == Registry /\ (Faults = {} => Ordered)
<1>1. Init => Inv
  BY InitRegistry, InitOrdered
<1>2. Inv /\ [Next]_vars => Inv'
  <2> SUFFICES ASSUME Registry, Faults = {} => Ordered, [Next]_vars
               PROVE  Registry' /\ (Faults' = {} => Ordered')
    OBVIOUS
  <2>1. Registry'
    BY StepRegistry
  <2>2. Faults' = Faults
    BY DEF Next, vars, Faults
  <2>3. ASSUME Faults = {} PROVE Ordered'
    <3>1. Undisturbed
      BY <2>3 DEF Registry, Undisturbed
    <3>2. Once' /\ Relaying'
      BY <2>1, <2>2, <2>3 DEF Registry, Quietly
    <3> QED
      BY <2>3, <3>1, <3>2, StepOrdered
  <2> QED
    BY <2>1, <2>2, <2>3
<1>3. Inv => ReadYourWrites
  <2> SUFFICES ASSUME Faults = {}, Ordered, NEW p \in Proc, answer[p] = Absent, NEW s \in sure[p], stage[s] = "serving"
               PROVE  FALSE
    BY DEF ReadYourWrites
  <2>1. s \in Sure(p)
    BY DEF Sure
  <2> QED
    BY <2>1 DEF Ordered, Denied
<1> HIDE DEF Inv
<1> QED
  BY <1>1, <1>2, <1>3, PTL DEF Spec
=============================================================================
