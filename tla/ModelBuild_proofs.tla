------------------------- MODULE ModelBuild_proofs -------------------------
(***************************************************************************)
(* Proofs about ModelBuild: for any number of builds, tries and cancels,   *)
(* whether or not the driver started the GUI, build processes never run    *)
(* side by side, done means that nothing runs, and a running process can   *)
(* be signalled.                                                           *)
(***************************************************************************)
EXTENDS ModelBuild, SequenceTheorems, TLAPS

Has(s, x) == \E i \in 1 .. Len(s) : s[i] = x
Single(s, x) == \A i, j \in 1 .. Len(s) : s[i] = x /\ s[j] = x => i = j

\* A thread counts its processes, and starts at most MaxTries.
TriesInv ==
    \A b \in Build :
        /\ pc[b] \in {"none", "wait.lp"} => tries[b] = 0
        /\ pc[b] = "try" => tries[b] < MaxTries

\* A process that has not ended is the latest of its build, and waited for.
ProcInv ==
    \A p \in Proc : Alive(p) => pc[p[1]] = "wait" /\ p[2] = tries[p[1]]

Active(b) == pc[b] \notin {"none", "over"}
Starting == driver \in {"reset", "launch"}

\* One request is under way at a time: as a command, in the hands of the driver,
\* as a thread, as a message about its end, or as the answer to the GUI.
ReplyFree == toGui = <<>>
PipeFree == ReplyFree /\ ~Has(pipe, "done")
ThreadsFree == PipeFree /\ \A b \in Build : ~Active(b)
DriverFree == ThreadsFree /\ ~Starting
AllFree == DriverFree /\ ~Has(inbox, "start")

TokenInv ==
    /\ Single(inbox, "start") /\ Single(pipe, "done") /\ Len(toGui) <= 1
    /\ \A b, c \in Build : Active(b) /\ Active(c) => b = c
    /\ Has(pipe, "done") => ReplyFree
    /\ (\E b \in Build : Active(b)) => PipeFree
    /\ Starting => ThreadsFree
    /\ Has(inbox, "start") => DriverFree
    /\ gui = "idle" => AllFree

\* done_sent is set for the last build only, and reset for the next.
DoneInv ==
    /\ (\E b \in Build : Active(b)) \/ Has(pipe, "done") => hadStart
    /\ doneSent => hadStart /\ ~Starting /\ ~Has(pipe, "done") /\ \A b \in Build : ~Active(b)

\* The pid that a cancel or a close has read lives for one step.
TargetInv == driver \notin {"cancel", "shut.kill", "gone"} => target = None

IInv ==
    /\ TypeOK
    /\ TriesInv
    /\ ProcInv
    /\ TokenInv
    /\ DoneInv
    /\ TargetInv
    /\ RunningIsKnown
-----------------------------------------------------------------------------
\* What Append does to a queue.
LEMMA AppendHas ==
    ASSUME NEW S, NEW s \in Seq(S), NEW x \in S, NEW y
    PROVE  /\ Append(s, x) \in Seq(S)
           /\ Len(Append(s, x)) = Len(s) + 1
           /\ Has(Append(s, x), y) <=> Has(s, y) \/ x = y
           /\ Single(s, y) /\ (x = y => ~Has(s, y)) => Single(Append(s, x), y)
<1> DEFINE a == Append(s, x)
<1>1. /\ a \in Seq(S) /\ Len(a) = Len(s) + 1 /\ Len(s) \in Nat
      /\ \A i \in 1 .. Len(s) : a[i] = s[i]
      /\ a[Len(s) + 1] = x
    BY AppendProperties, LenProperties
<1> HIDE DEF a
<1>2. Has(a, y) <=> Has(s, y) \/ x = y
    BY <1>1 DEF Has
<1>3. ASSUME Single(s, y), x = y => ~Has(s, y) PROVE Single(a, y)
    BY <1>1, <1>3 DEF Single, Has
<1>4. QED
    BY <1>1, <1>2, <1>3 DEF a

\* What Tail does to a queue.
LEMMA TailHas ==
    ASSUME NEW S, NEW s \in Seq(S), s # <<>>, NEW y
    PROVE  /\ Tail(s) \in Seq(S) /\ Head(s) \in S
           /\ Len(Tail(s)) = Len(s) - 1 /\ Len(s) >= 1
           /\ Has(s, Head(s))
           /\ Has(Tail(s), y) => Has(s, y)
           /\ Single(s, y) => Single(Tail(s), y)
           /\ Single(s, y) /\ Head(s) = y => ~Has(Tail(s), y)
<1> DEFINE r == Tail(s)
<1>1. /\ r \in Seq(S) /\ Len(r) = Len(s) - 1
      /\ \A i \in 1 .. Len(r) : r[i] = s[i + 1]
      /\ Head(s) = s[1] /\ Head(s) \in S
    BY HeadTailProperties
<1>2. Len(s) \in Nat /\ Len(s) >= 1
    BY EmptySeq, LenProperties
<1> HIDE DEF r
<1>3. Has(s, Head(s))
    BY <1>1, <1>2 DEF Has
<1>4. Has(r, y) => Has(s, y)
    BY <1>1, <1>2 DEF Has
<1>5. Single(s, y) => Single(r, y)
    BY <1>1, <1>2 DEF Single
<1>6. Single(s, y) /\ Head(s) = y => ~Has(r, y)
    BY <1>1, <1>2 DEF Single, Has
<1>7. QED
    BY <1>1, <1>2, <1>3, <1>4, <1>5, <1>6 DEF r

LEMMA EmptyHas ==
    ASSUME NEW S, NEW y
    PROVE  <<>> \in Seq(S) /\ Len(<<>>) = 0 /\ ~Has(<<>>, y) /\ Single(<<>>, y)
BY EmptySeq DEF Has, Single

\* The same for the two queues and the message that matters in each.
LEMMA CancelAppended ==
    ASSUME NEW s \in Seq({"start", "cancel"}), Single(s, "start")
    PROVE  /\ Single(Append(s, "cancel"), "start")
           /\ Has(Append(s, "cancel"), "start") <=> Has(s, "start")
BY AppendHas

LEMMA OtherAppended ==
    ASSUME NEW s \in Seq({"progress", "reset", "done"}), Single(s, "done"),
           NEW m \in {"progress", "reset"}
    PROVE  /\ Single(Append(s, m), "done")
           /\ Has(Append(s, m), "done") <=> Has(s, "done")
<1>1. m # "done"
    OBVIOUS
<1>2. QED
    BY <1>1, AppendHas

LEMMA DoneAppended ==
    ASSUME NEW s \in Seq({"progress", "reset", "done"}), Single(s, "done"), ~Has(s, "done")
    PROVE  Single(Append(s, "done"), "done") /\ Has(Append(s, "done"), "done")
BY AppendHas

LEMMA PipeTail ==
    ASSUME NEW s \in Seq({"progress", "reset", "done"}), Single(s, "done"), s # <<>>
    PROVE  /\ Single(Tail(s), "done")
           /\ Has(Tail(s), "done") => Has(s, "done")
           /\ Head(s) = "done" => Has(s, "done") /\ ~Has(Tail(s), "done")
BY TailHas
-----------------------------------------------------------------------------
LEMMA InitIInv == Init => IInv
<1> SUFFICES ASSUME Init PROVE IInv
    OBVIOUS
<1> USE TriesAssumption, NoneAssumption DEF Init
<1>1. TypeOK
  <2>1. /\ inbox \in Seq({"start", "cancel"}) /\ toGui \in Seq({"done", "failed"})
        /\ pipe \in Seq({"progress", "reset", "done"})
    BY EmptyHas
  <2>2. /\ pc \in [Build -> {"none", "wait.lp", "try", "wait", "doubt", "report", "over"}]
        /\ tries \in [Build -> 0 .. MaxTries]
    OBVIOUS
  <2>3. /\ proc \in [Proc -> {"none", "running", "killed", "ok", "bad"}]
        /\ heard \in [Proc -> BOOLEAN]
    OBVIOUS
  <2>4. /\ gui = "idle" /\ driver = "read" /\ cancels \in 0 .. MaxCancels
        /\ mbPid = None /\ target = None
    OBVIOUS
  <2>5. /\ hadStart \in BOOLEAN /\ hadProgress \in BOOLEAN /\ doneSent \in BOOLEAN
        /\ terminated \in BOOLEAN /\ lpUp \in BOOLEAN
    BY Zenon
  <2> HIDE DEF Init
  <2>6. QED
    BY <2>1, <2>2, <2>3, <2>4, <2>5 DEF TypeOK
<1>2. TriesInv /\ ProcInv /\ TargetInv /\ RunningIsKnown
    BY DEF TriesInv, ProcInv, TargetInv, RunningIsKnown, Alive
<1>3. TokenInv
    BY EmptyHas DEF TokenInv, AllFree, DriverFree, ThreadsFree, PipeFree, ReplyFree, Active, Starting
<1>4. DoneInv
    BY EmptyHas DEF DoneInv, Active
<1>5. QED
    BY <1>1, <1>2, <1>3, <1>4 DEF IInv
-----------------------------------------------------------------------------
(* Every step preserves each part of the invariant. *)

LEMMA StepTypeOK == IInv /\ [Next]_vars => TypeOK'
<1> SUFFICES ASSUME IInv, [Next]_vars PROVE TypeOK'
    OBVIOUS
<1> USE TriesAssumption, NoneAssumption DEF IInv, TypeOK, Alive, At, To, guiVars, flags, builder
<1>1. CASE GuiStart
    BY <1>1, AppendHas DEF GuiStart
<1>2. CASE GuiCancel
    BY <1>2, AppendHas DEF GuiCancel
<1>3. CASE GuiRead
    BY <1>3, TailHas DEF GuiRead
<1>4. CASE GuiClose
    BY <1>4 DEF GuiClose
<1>5. CASE ReadStart
    BY <1>5, TailHas DEF ReadStart, Receive
<1>6. CASE RefuseStart
    BY <1>6, TailHas, AppendHas DEF RefuseStart
<1>7. CASE SendReset
    BY <1>7, AppendHas DEF SendReset
<1>8. ASSUME NEW b \in Build, Launch(b) PROVE TypeOK'
    BY <1>8 DEF Launch
<1>9. CASE ReadCancel
    BY <1>9, TailHas DEF ReadCancel, Receive
<1>10. CASE Kill
    BY <1>10 DEF Kill
<1>11. CASE ReadClose
    BY <1>11 DEF ReadClose
<1>12. CASE ShutDownBuild
    BY <1>12 DEF ShutDownBuild
<1>13. CASE ShutDownLP
    BY <1>13, EmptyHas DEF ShutDownLP
<1>14. CASE Exit
    BY <1>14 DEF Exit
<1>15. ASSUME NEW b \in Build, FindLP(b) PROVE TypeOK'
    BY <1>15 DEF FindLP
<1>16. ASSUME NEW b \in Build, MissLP(b) PROVE TypeOK'
    BY <1>16, AppendHas DEF MissLP
<1>17. ASSUME NEW b \in Build, Stopped(b) PROVE TypeOK'
    BY <1>17 DEF Stopped
<1>18. ASSUME NEW b \in Build, Start(b) PROVE TypeOK'
    BY <1>18 DEF Start, TriesInv, Proc
<1>19. ASSUME NEW b \in Build, StartFails(b) PROVE TypeOK'
    BY <1>19, AppendHas DEF StartFails, SendLP
<1>20. ASSUME NEW b \in Build, Wait(b) PROVE TypeOK'
    BY <1>20 DEF Wait
<1>21. ASSUME NEW b \in Build, Doubt(b) PROVE TypeOK'
    BY <1>21 DEF Doubt
<1>22. ASSUME NEW b \in Build, Report(b) PROVE TypeOK'
    BY <1>22, AppendHas DEF Report, SendLP
<1>23. ASSUME NEW p \in Proc, ProcEnds(p) PROVE TypeOK'
    BY <1>23 DEF ProcEnds
<1>24. ASSUME NEW p \in Proc, Arrive(p) PROVE TypeOK'
    BY <1>24, AppendHas DEF Arrive
<1>25. CASE Pass
  <2>1. pipe' \in Seq({"progress", "reset", "done"})
    BY <1>25, TailHas DEF Pass
  <2>2. toGui' \in Seq({"done", "failed"})
    <3>1. Append(toGui, "done") \in Seq({"done", "failed"})
      BY AppendHas
    <3>2. QED
      BY <3>1, <1>25 DEF Pass
  <2>3. hadProgress' \in BOOLEAN
    <3>1. hadProgress \in BOOLEAN /\ hadProgress' \in {hadProgress, TRUE}
      BY <1>25 DEF Pass
    <3>2. QED
      BY ONLY <3>1
  <2>4. doneSent' \in BOOLEAN
    BY <1>25 DEF Pass
  <2>5. QED
    BY <2>1, <2>2, <2>3, <2>4, <1>25 DEF Pass
<1>26. CASE UNCHANGED vars
    BY <1>26 DEF vars
<1>27. QED
    BY <1>1, <1>2, <1>3, <1>4, <1>5, <1>6, <1>7, <1>8, <1>9, <1>10, <1>11, <1>12, <1>13, <1>14, <1>15, <1>16, <1>17, <1>18, <1>19, <1>20, <1>21, <1>22, <1>23, <1>24, <1>25, <1>26 DEF Next, Gui, Driver, MBThread

LEMMA StepTries == IInv /\ [Next]_vars => TriesInv'
<1> SUFFICES ASSUME IInv, [Next]_vars PROVE TriesInv'
    OBVIOUS
<1>0. \/ UNCHANGED <<pc, tries>>
      \/ \E b \in Build : Launch(b) \/ FindLP(b) \/ MissLP(b) \/ Stopped(b) \/ Start(b) \/ StartFails(b) \/ Wait(b) \/ Doubt(b) \/ Report(b)
    BY DEF Next, Gui, Driver, MBThread, vars, guiVars, flags, builder,
           Receive, GuiStart, GuiCancel, GuiRead, GuiClose, ReadStart,
           RefuseStart, SendReset, ReadCancel, Kill, ReadClose,
           ShutDownBuild, ShutDownLP, Exit, Pass, ProcEnds, Arrive
<1> USE TriesAssumption DEF IInv, TypeOK, TriesInv, At, To
<1>1. CASE UNCHANGED <<pc, tries>>
    BY <1>1
<1>2. ASSUME NEW b \in Build, Launch(b) PROVE TriesInv'
    BY <1>2 DEF Launch
<1>3. ASSUME NEW b \in Build, FindLP(b) PROVE TriesInv'
    BY <1>3 DEF FindLP
<1>4. ASSUME NEW b \in Build, MissLP(b) PROVE TriesInv'
    BY <1>4 DEF MissLP
<1>5. ASSUME NEW b \in Build, Stopped(b) PROVE TriesInv'
    BY <1>5 DEF Stopped
<1>6. ASSUME NEW b \in Build, Start(b) PROVE TriesInv'
    BY <1>6 DEF Start
<1>7. ASSUME NEW b \in Build, StartFails(b) PROVE TriesInv'
    BY <1>7 DEF StartFails
<1>8. ASSUME NEW b \in Build, Wait(b) PROVE TriesInv'
    BY <1>8 DEF Wait
<1>9. ASSUME NEW b \in Build, Doubt(b) PROVE TriesInv'
    BY <1>9 DEF Doubt
<1>10. ASSUME NEW b \in Build, Report(b) PROVE TriesInv'
    BY <1>10 DEF Report
<1>11. QED
    BY <1>0, <1>1, <1>2, <1>3, <1>4, <1>5, <1>6, <1>7, <1>8, <1>9, <1>10

LEMMA StepProc == IInv /\ [Next]_vars => ProcInv'
<1> SUFFICES ASSUME IInv, [Next]_vars PROVE ProcInv'
    OBVIOUS
<1>0. \/ UNCHANGED <<pc, tries, proc>>
      \/ Kill
      \/ \E b \in Build : Launch(b) \/ FindLP(b) \/ MissLP(b) \/ Stopped(b) \/ Start(b) \/ StartFails(b) \/ Wait(b) \/ Doubt(b) \/ Report(b)
      \/ \E p \in Proc : ProcEnds(p)
    BY DEF Next, Gui, Driver, MBThread, vars, guiVars, flags, builder,
           Receive, GuiStart, GuiCancel, GuiRead, GuiClose, ReadStart,
           RefuseStart, SendReset, ReadCancel, ReadClose, ShutDownBuild,
           ShutDownLP, Exit, Pass, Arrive
<1> USE DEF IInv, TypeOK, TriesInv, ProcInv, Alive, At, To, Proc
<1>1. CASE UNCHANGED <<pc, tries, proc>>
    BY <1>1
<1>2. ASSUME NEW b \in Build, Launch(b) PROVE ProcInv'
    BY <1>2 DEF Launch
<1>3. ASSUME NEW b \in Build, FindLP(b) PROVE ProcInv'
    BY <1>3 DEF FindLP
<1>4. ASSUME NEW b \in Build, MissLP(b) PROVE ProcInv'
    BY <1>4 DEF MissLP
<1>5. ASSUME NEW b \in Build, Stopped(b) PROVE ProcInv'
    BY <1>5 DEF Stopped
<1>6. ASSUME NEW b \in Build, Start(b) PROVE ProcInv'
    BY <1>6 DEF Start
<1>7. ASSUME NEW b \in Build, StartFails(b) PROVE ProcInv'
    BY <1>7 DEF StartFails
<1>8. ASSUME NEW b \in Build, Wait(b) PROVE ProcInv'
  <2>1. ~Alive(<<b, tries[b]>>)
    BY <1>8 DEF Wait
  <2>2. ASSUME NEW p \in Proc, Alive(p)' PROVE p[1] # b
    <3>1. Alive(p) /\ p = <<p[1], p[2]>>
        BY <1>8, <2>2 DEF Wait
    <3>2. QED
        BY <2>1, <3>1
  <2>3. QED
    BY <1>8, <2>2 DEF Wait
<1>9. ASSUME NEW b \in Build, Doubt(b) PROVE ProcInv'
    BY <1>9 DEF Doubt
<1>10. ASSUME NEW b \in Build, Report(b) PROVE ProcInv'
    BY <1>10 DEF Report
<1>11. CASE Kill
    BY <1>11 DEF Kill
<1>12. ASSUME NEW p \in Proc, ProcEnds(p) PROVE ProcInv'
    BY <1>12 DEF ProcEnds
<1>13. QED
    BY <1>0, <1>1, <1>2, <1>3, <1>4, <1>5, <1>6, <1>7, <1>8, <1>9, <1>10, <1>11, <1>12

LEMMA StepTarget == IInv /\ [Next]_vars => TargetInv'
<1> SUFFICES ASSUME IInv, [Next]_vars PROVE TargetInv'
    OBVIOUS
<1>0. \/ UNCHANGED <<driver, target>>
      \/ ReadStart \/ SendReset \/ ReadCancel \/ Kill \/ ReadClose \/ ShutDownBuild \/ ShutDownLP \/ Exit
      \/ \E b \in Build : Launch(b)
    BY DEF Next, Gui, Driver, MBThread, vars, guiVars, flags, builder,
           Receive, GuiStart, GuiCancel, GuiRead, GuiClose, RefuseStart,
           Pass, FindLP, MissLP, Stopped, Start, StartFails, Wait, Doubt,
           Report, ProcEnds, Arrive
<1> USE DEF IInv, TargetInv
<1>1. CASE UNCHANGED <<driver, target>>
    BY <1>1
<1>2. ASSUME NEW b \in Build, Launch(b) PROVE TargetInv'
    BY <1>2 DEF Launch
<1>3. CASE ReadStart
    BY <1>3 DEF ReadStart, Receive
<1>4. CASE SendReset
    BY <1>4 DEF SendReset, Receive
<1>5. CASE ReadCancel
    BY <1>5 DEF ReadCancel, Receive
<1>6. CASE Kill
    BY <1>6 DEF Kill, Receive
<1>7. CASE ReadClose
    BY <1>7 DEF ReadClose, Receive
<1>8. CASE ShutDownBuild
    BY <1>8 DEF ShutDownBuild, Receive
<1>9. CASE ShutDownLP
    BY <1>9 DEF ShutDownLP, Receive
<1>10. CASE Exit
    BY <1>10 DEF Exit, Receive
<1>11. QED
    BY <1>0, <1>1, <1>2, <1>3, <1>4, <1>5, <1>6, <1>7, <1>8, <1>9, <1>10

LEMMA StepRunning == IInv /\ [Next]_vars => RunningIsKnown'
<1> SUFFICES ASSUME IInv, [Next]_vars PROVE RunningIsKnown'
    OBVIOUS
<1>0. \/ UNCHANGED <<proc, mbPid, target>>
      \/ ReadCancel \/ Kill \/ ShutDownBuild
      \/ \E b \in Build : Start(b)
      \/ \E p \in Proc : ProcEnds(p)
    BY DEF Next, Gui, Driver, MBThread, vars, guiVars, flags, builder,
           Receive, GuiStart, GuiCancel, GuiRead, GuiClose, ReadStart,
           RefuseStart, SendReset, ReadClose, ShutDownLP, Exit, Pass,
           Launch, FindLP, MissLP, Stopped, StartFails, Wait, Doubt, Report,
           Arrive
<1> USE NoneAssumption DEF IInv, TypeOK, RunningIsKnown, Alive, At, To, builder
<1>1. CASE UNCHANGED <<proc, mbPid, target>>
    BY <1>1
<1>2. CASE ReadCancel
    BY <1>2 DEF ReadCancel, Receive, TargetInv
<1>3. CASE Kill
    BY <1>3 DEF Kill
<1>4. CASE ShutDownBuild
    BY <1>4 DEF ShutDownBuild, TargetInv
<1>5. ASSUME NEW b \in Build, Start(b) PROVE RunningIsKnown'
  <2>1. \A q \in Proc : ~Alive(q)
    BY <1>5 DEF Start, ProcInv, TokenInv, Active, Proc
  <2>2. QED
    BY <2>1, <1>5 DEF Start
<1>6. ASSUME NEW p \in Proc, ProcEnds(p) PROVE RunningIsKnown'
    BY <1>6 DEF ProcEnds
<1>7. QED
    BY <1>0, <1>1, <1>2, <1>3, <1>4, <1>5, <1>6

LEMMA StepToken == IInv /\ [Next]_vars => TokenInv'
<1> SUFFICES ASSUME IInv, [Next]_vars PROVE TokenInv'
    OBVIOUS
<1>0. \/ UNCHANGED <<gui, inbox, toGui, driver, pc, pipe>>
      \/ GuiStart \/ GuiCancel \/ GuiRead \/ GuiClose \/ ReadStart \/ RefuseStart \/ SendReset \/ ReadCancel \/ Kill \/ ReadClose \/ ShutDownBuild \/ ShutDownLP \/ Exit \/ Pass
      \/ \E b \in Build : Launch(b) \/ FindLP(b) \/ MissLP(b) \/ Stopped(b) \/ Start(b) \/ StartFails(b) \/ Wait(b) \/ Doubt(b) \/ Report(b)
      \/ \E p \in Proc : Arrive(p)
    BY DEF Next, Gui, Driver, MBThread, vars, guiVars, flags, builder,
           Receive, ProcEnds
<1> USE DEF IInv, TypeOK, TokenInv, AllFree, DriverFree, ThreadsFree, PipeFree, ReplyFree, Active, Starting, guiVars, flags, builder, At, To
<1>1. CASE UNCHANGED <<gui, inbox, toGui, driver, pc, pipe>>
    BY <1>1
<1>2. CASE GuiStart
    BY <1>2, AppendHas DEF GuiStart
<1>3. CASE GuiCancel
  <2>1. Single(inbox', "start") /\ (Has(inbox', "start") <=> Has(inbox, "start"))
    BY <1>3, CancelAppended DEF GuiCancel
  <2>2. QED
    BY <2>1, <1>3 DEF GuiCancel
<1>4. CASE GuiRead
    BY <1>4, TailHas, EmptySeq DEF GuiRead
<1>5. CASE GuiClose
    BY <1>5 DEF GuiClose
<1>6. CASE ReadStart
    BY <1>6, TailHas DEF ReadStart, Receive
<1>7. CASE RefuseStart
    BY <1>7, TailHas, AppendHas, EmptyHas DEF RefuseStart
<1>8. CASE SendReset
  <2>1. Single(pipe', "done") /\ (Has(pipe', "done") <=> Has(pipe, "done"))
    BY <1>8, OtherAppended DEF SendReset
  <2>2. QED
    BY <2>1, <1>8 DEF SendReset
<1>9. ASSUME NEW b \in Build, Launch(b) PROVE TokenInv'
    BY <1>9 DEF Launch
<1>10. CASE ReadCancel
    BY <1>10, TailHas DEF ReadCancel, Receive
<1>11. CASE Kill
    BY <1>11 DEF Kill
<1>12. CASE ReadClose
    BY <1>12 DEF ReadClose
<1>13. CASE ShutDownBuild
    BY <1>13 DEF ShutDownBuild
<1>14. CASE ShutDownLP
    BY <1>14, EmptyHas DEF ShutDownLP
<1>15. CASE Exit
    BY <1>15 DEF Exit
<1>16. ASSUME NEW b \in Build, FindLP(b) PROVE TokenInv'
    BY <1>16 DEF FindLP
<1>17. ASSUME NEW b \in Build, MissLP(b) PROVE TokenInv'
    BY <1>17, AppendHas, EmptyHas DEF MissLP
<1>18. ASSUME NEW b \in Build, Stopped(b) PROVE TokenInv'
    BY <1>18 DEF Stopped
<1>19. ASSUME NEW b \in Build, Start(b) PROVE TokenInv'
    BY <1>19 DEF Start
<1>20. ASSUME NEW b \in Build, StartFails(b) PROVE TokenInv'
  <2>1. Single(pipe', "done") /\ (Has(pipe', "done") <=> Has(pipe, "done"))
    BY <1>20, OtherAppended DEF StartFails, SendLP
  <2>2. QED
    BY <2>1, <1>20 DEF StartFails, SendLP
<1>21. ASSUME NEW b \in Build, Wait(b) PROVE TokenInv'
    BY <1>21 DEF Wait
<1>22. ASSUME NEW b \in Build, Doubt(b) PROVE TokenInv'
    BY <1>22 DEF Doubt
<1>23. ASSUME NEW b \in Build, Report(b) PROVE TokenInv'
  <2>1. Single(pipe', "done") /\ pipe' \in {pipe, Append(pipe, "done")} /\ ~Has(pipe, "done")
    BY <1>23, DoneAppended DEF Report, SendLP
  <2>2. QED
    BY <2>1, <1>23 DEF Report
<1>24. ASSUME NEW p \in Proc, Arrive(p) PROVE TokenInv'
    BY <1>24, AppendHas DEF Arrive
<1>25. CASE Pass
  <2>1. /\ Single(pipe', "done")
        /\ Has(pipe', "done") => Has(pipe, "done")
        /\ Head(pipe) = "done" => Has(pipe, "done") /\ ~Has(pipe', "done")
    BY <1>25, PipeTail DEF Pass
  <2>2. CASE Head(pipe) \in {"progress", "reset"}
    BY <2>1, <2>2, <1>25 DEF Pass
  <2>3. CASE Head(pipe) = "done"
    <3>1. ~Has(pipe', "done") /\ toGui = <<>>
      BY <2>1, <2>3
    <3>2. Len(toGui') <= 1
      <4>1. toGui' = Append(<<>>, "done")
        BY <2>3, <3>1, <1>25 DEF Pass
      <4>2. QED
        BY <4>1
    <3>3. QED
      BY <2>1, <2>3, <3>1, <3>2, <1>25 DEF Pass
  <2>4. QED
    BY <2>2, <2>3, <1>25 DEF Pass
<1>26. QED
    BY <1>0, <1>1, <1>2, <1>3, <1>4, <1>5, <1>6, <1>7, <1>8, <1>9, <1>10, <1>11, <1>12, <1>13, <1>14, <1>15, <1>16, <1>17, <1>18, <1>19, <1>20, <1>21, <1>22, <1>23, <1>24, <1>25

LEMMA StepDone == IInv /\ [Next]_vars => DoneInv'
<1> SUFFICES ASSUME IInv, [Next]_vars PROVE DoneInv'
    OBVIOUS
<1>0. \/ UNCHANGED <<hadStart, doneSent, driver, pc, pipe>>
      \/ ReadStart \/ SendReset \/ ReadCancel \/ Kill \/ ReadClose \/ ShutDownBuild \/ ShutDownLP \/ Exit \/ Pass
      \/ \E b \in Build : Launch(b) \/ FindLP(b) \/ MissLP(b) \/ Stopped(b) \/ Start(b) \/ StartFails(b) \/ Wait(b) \/ Doubt(b) \/ Report(b)
      \/ \E p \in Proc : Arrive(p)
    BY DEF Next, Gui, Driver, MBThread, vars, guiVars, flags, builder,
           Receive, GuiStart, GuiCancel, GuiRead, GuiClose, RefuseStart,
           ProcEnds
<1> USE DEF IInv, TypeOK, DoneInv, TokenInv, AllFree, DriverFree, ThreadsFree, PipeFree, ReplyFree, Active, Starting, guiVars, flags, builder, At, To
<1>1. CASE UNCHANGED <<hadStart, doneSent, driver, pc, pipe>>
    BY <1>1
<1>2. CASE ReadStart
    BY <1>2, TailHas DEF ReadStart, Receive
<1>3. CASE SendReset
  <2>1. Single(pipe', "done") /\ (Has(pipe', "done") <=> Has(pipe, "done"))
    BY <1>3, OtherAppended DEF SendReset
  <2>2. QED
    BY <2>1, <1>3 DEF SendReset
<1>4. CASE ReadCancel
    BY <1>4 DEF ReadCancel, Receive
<1>5. CASE Kill
    BY <1>5 DEF Kill
<1>6. CASE ReadClose
    BY <1>6 DEF ReadClose
<1>7. CASE ShutDownBuild
    BY <1>7 DEF ShutDownBuild
<1>8. CASE ShutDownLP
    BY <1>8, EmptyHas DEF ShutDownLP
<1>9. CASE Exit
    BY <1>9 DEF Exit
<1>10. CASE Pass
  <2>1. /\ Has(pipe', "done") => Has(pipe, "done")
        /\ Head(pipe) = "done" => Has(pipe, "done") /\ ~Has(pipe', "done")
    BY <1>10, PipeTail DEF Pass
  <2>2. CASE Head(pipe) \in {"progress", "reset"}
    <3>1. UNCHANGED <<hadStart, doneSent, driver, pc>>
      BY <2>2, <1>10 DEF Pass
    <3>2. QED
      BY <2>1, <3>1
  <2>3. CASE Head(pipe) = "done"
    BY <2>1, <2>3, <1>10 DEF Pass
  <2>4. QED
    BY <2>2, <2>3, <1>10 DEF Pass
<1>11. ASSUME NEW b \in Build, Launch(b) PROVE DoneInv'
    BY <1>11 DEF Launch
<1>12. ASSUME NEW b \in Build, FindLP(b) PROVE DoneInv'
    BY <1>12 DEF FindLP
<1>13. ASSUME NEW b \in Build, MissLP(b) PROVE DoneInv'
    BY <1>13 DEF MissLP
<1>14. ASSUME NEW b \in Build, Stopped(b) PROVE DoneInv'
    BY <1>14 DEF Stopped
<1>15. ASSUME NEW b \in Build, Start(b) PROVE DoneInv'
    BY <1>15 DEF Start
<1>16. ASSUME NEW b \in Build, StartFails(b) PROVE DoneInv'
    BY <1>16, AppendHas DEF StartFails, SendLP
<1>17. ASSUME NEW b \in Build, Wait(b) PROVE DoneInv'
    BY <1>17 DEF Wait
<1>18. ASSUME NEW b \in Build, Doubt(b) PROVE DoneInv'
    BY <1>18 DEF Doubt
<1>19. ASSUME NEW b \in Build, Report(b) PROVE DoneInv'
    BY <1>19, AppendHas DEF Report, SendLP
<1>20. ASSUME NEW p \in Proc, Arrive(p) PROVE DoneInv'
  <2>1. Single(pipe', "done") /\ (Has(pipe', "done") <=> Has(pipe, "done"))
    BY <1>20, OtherAppended DEF Arrive
  <2>2. QED
    BY <2>1, <1>20 DEF Arrive
<1>21. QED
    BY <1>0, <1>1, <1>2, <1>3, <1>4, <1>5, <1>6, <1>7, <1>8, <1>9, <1>10, <1>11, <1>12, <1>13, <1>14, <1>15, <1>16, <1>17, <1>18, <1>19, <1>20

\* Everything that is not over belongs to the one active build.
LEMMA Consequences == IInv => OneBuild /\ DoneMeansOver
<1> SUFFICES ASSUME IInv PROVE OneBuild /\ DoneMeansOver
    OBVIOUS
<1>1. \A p \in Proc : Alive(p) => p[1] \in Build /\ Active(p[1]) /\ p = <<p[1], tries[p[1]]>>
    BY DEF IInv, ProcInv, Active, Proc
<1>2. OneBuild
    BY <1>1 DEF OneBuild, IInv, TokenInv
<1>3. DoneMeansOver
    BY <1>1 DEF DoneMeansOver, IInv, TypeOK, DoneInv, Active
<1>4. QED
    BY <1>2, <1>3
-----------------------------------------------------------------------------
THEOREM Invariance == Spec => []IInv
<1>1. IInv /\ [Next]_vars => IInv'
    BY StepTypeOK, StepTries, StepProc, StepTarget, StepRunning, StepToken, StepDone DEF IInv
<1>2. QED
    BY InitIInv, <1>1, PTL DEF Spec

\* Every reachable state of the driver, its GUI and its builds is typed
\* (guidriver.cxx, mbdriver.cxx, lpdriver.cxx).
THEOREM Typing == Spec => []TypeOK
<1>1. IInv => TypeOK
    BY DEF IInv
<1>2. QED
    BY <1>1, Invariance, PTL

\* Build processes never run side by side, whatever is retried, cancelled or
\* started again (MBThread::run, mbdriver.cxx).
THEOREM NoOverlap == Spec => []OneBuild
    BY Consequences, Invariance, PTL

\* done_sent means that nothing runs and nothing will be started, so that
\* communicate may leave a closed GUI's build alone (guidriver.cxx).
THEOREM DoneIsOver == Spec => []DoneMeansOver
    BY Consequences, Invariance, PTL

\* A build process that has not been signalled is named by mb_pid, or by the copy
\* of it that is about to be signalled (cancel_model_build_process).
THEOREM RunningCanBeSignalled == Spec => []RunningIsKnown
<1>1. IInv => RunningIsKnown
    BY DEF IInv
<1>2. QED
    BY <1>1, Invariance, PTL
=============================================================================
