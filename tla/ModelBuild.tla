----------------------------- MODULE ModelBuild -----------------------------
(***************************************************************************)
(* How mbdriver runs model builds for its GUI: the commands that a GUI     *)
(* sends (src/mbdriver/src/guidriver.cxx), the thread that starts a build  *)
(* process, waits for it and starts it again when it failed early          *)
(* (src/mbdriver/src/mbdriver.cxx), and the log presentation, through      *)
(* which the build's messages reach the driver and the GUI (lpdriver.cxx). *)
(*                                                                         *)
(* The GUI lets its user start a build when the last one is done and       *)
(* cancel one until it is done (src/mbgui).  A message of a build is       *)
(* abstracted to "progress", and every build process sends at most one:    *)
(* the driver keeps no more of them than that there was one.  Sleeps are   *)
(* delays of any length.  What the GUI does with an answer is in a class   *)
(* that the repository lacks: after a failure its user may go on or leave. *)
(***************************************************************************)
EXTENDS Naturals, Sequences

CONSTANTS
    Build,       \* the builds that are started, each with a thread of its own
    None,
    AutoStart,   \* the driver has started the GUI itself
    MaxTries,    \* how often a build process is started (2 in the code)
    MaxCancels   \* bound: presses of the cancel button

\* The processes of build b: its first try, its second, ...
Proc == Build \X (1 .. MaxTries)

ASSUME TriesAssumption == MaxTries \in Nat \ {0} /\ MaxCancels \in Nat
ASSUME NoneAssumption == None \notin Proc
ASSUME StartAssumption == AutoStart \in BOOLEAN

VARIABLES
    gui,          \* "idle", "busy" with a build, or "closed"
    cancels,      \* presses of the cancel button so far
    inbox,        \* commands on their way from the GUI to the driver
    toGui,        \* answers on their way to the GUI
    driver,       \* where the thread in ServerToGUI::communicate is
    hadStart,     \* its local had_start
    target,       \* its local local_mb_pid
    hadProgress,  \* had_progress
    doneSent,     \* done_sent
    terminated, mbPid,
    pc, tries,    \* per build: where MBThread::run is, processes it started
    proc,         \* per process: its state
    heard,        \* per process: its message has arrived
    pipe,         \* messages_list of the log presentation and the socket after it
    lpUp          \* the log presentation runs

guiVars == <<gui, cancels, inbox, toGui>>
flags == <<hadProgress, doneSent>>
builder == <<pc, tries, proc, heard>>
vars == <<guiVars, driver, hadStart, target, flags, terminated, mbPid, builder, pipe, lpUp>>

Init ==
    /\ gui = "idle" /\ cancels = 0 /\ inbox = <<>> /\ toGui = <<>>
    /\ driver = "read" /\ hadStart = FALSE /\ target = None
    /\ hadProgress = FALSE /\ doneSent = FALSE
    /\ terminated = FALSE /\ mbPid = None
    /\ pc = [b \in Build |-> "none"]
    /\ tries = [b \in Build |-> 0]
    /\ proc = [p \in Proc |-> "none"]
    /\ heard = [p \in Proc |-> FALSE]
    /\ pipe = <<>> /\ lpUp = TRUE

Alive(p) == proc[p] \in {"running", "killed"}
Gone == driver = "gone"
-----------------------------------------------------------------------------
(* The GUI *)

GuiStart ==
    /\ gui = "idle" /\ \E b \in Build : pc[b] = "none"
    /\ gui' = "busy"
    /\ inbox' = Append(inbox, "start")
    /\ UNCHANGED <<cancels, toGui, driver, hadStart, target, flags, terminated, mbPid, builder, pipe, lpUp>>

GuiCancel ==
    /\ gui = "busy" /\ cancels < MaxCancels
    /\ cancels' = cancels + 1
    /\ inbox' = Append(inbox, "cancel")
    /\ UNCHANGED <<gui, toGui, driver, hadStart, target, flags, terminated, mbPid, builder, pipe, lpUp>>

GuiRead ==
    /\ gui # "closed" /\ toGui # <<>>
    /\ toGui' = Tail(toGui)
    /\ \/ gui' = "idle"
       \/ Head(toGui) = "failed" /\ gui' = "closed"
    /\ UNCHANGED <<cancels, inbox, driver, hadStart, target, flags, terminated, mbPid, builder, pipe, lpUp>>

GuiClose ==
    /\ gui # "closed"
    /\ gui' = "closed"
    /\ UNCHANGED <<cancels, inbox, toGui, driver, hadStart, target, flags, terminated, mbPid, builder, pipe, lpUp>>
-----------------------------------------------------------------------------
(* ServerToGUI::communicate *)

Receive(command) ==
    /\ driver = "read"
    /\ inbox # <<>> /\ Head(inbox) = command
    /\ inbox' = Tail(inbox)
    /\ UNCHANGED <<gui, cancels, toGui>>

\* Fault: the flags of the last build are kept.
ReadStartKeepsFlags ==
    /\ Receive("start")
    /\ driver' = IF hadStart THEN "reset" ELSE "launch"
    /\ UNCHANGED <<hadStart, target, flags, terminated, mbPid, builder, pipe, lpUp>>

\* A subsequent build resets the flags and then the log presentation.
ReadStart ==
    /\ Receive("start")
    /\ driver' = IF hadStart THEN "reset" ELSE "launch"
    /\ hadProgress' = (hadProgress /\ ~hadStart)
    /\ doneSent' = (doneSent /\ ~hadStart)
    /\ UNCHANGED <<hadStart, target, terminated, mbPid, builder, pipe, lpUp>>

\* check_lm_license_file: a build without a license is refused.
RefuseStart ==
    /\ driver = "read"
    /\ inbox # <<>> /\ Head(inbox) = "start"
    /\ inbox' = Tail(inbox)
    /\ toGui' = Append(toGui, "failed")
    /\ UNCHANGED <<gui, cancels, driver, hadStart, target, flags, terminated, mbPid, builder, pipe, lpUp>>

SendReset ==
    /\ driver = "reset"
    /\ driver' = "launch"
    /\ pipe' = Append(pipe, "reset")
    /\ UNCHANGED <<guiVars, hadStart, target, flags, terminated, mbPid, builder, lpUp>>

\* start_model_build_process
Launch(b) ==
    /\ driver = "launch"
    /\ pc[b] = "none"
    /\ driver' = "read" /\ hadStart' = TRUE
    /\ terminated' = FALSE
    /\ pc' = [pc EXCEPT ![b] = "wait.lp"]
    /\ UNCHANGED <<guiVars, target, flags, mbPid, tries, proc, heard, pipe, lpUp>>

\* Fault: cancelling does not stop a thread that is about to start a process.
ReadCancelKillsOnly ==
    /\ Receive("cancel")
    /\ driver' = "cancel"
    /\ target' = mbPid /\ mbPid' = None
    /\ UNCHANGED <<hadStart, flags, terminated, builder, pipe, lpUp>>

\* cancel_model_build_process, under mb_guard ...
ReadCancel ==
    /\ Receive("cancel")
    /\ driver' = "cancel"
    /\ target' = mbPid /\ mbPid' = None
    /\ terminated' = TRUE
    /\ UNCHANGED <<hadStart, flags, builder, pipe, lpUp>>

\* ... and terminate_process, which signals the process group.
Kill ==
    /\ driver \in {"cancel", "shut.kill"}
    /\ driver' = IF driver = "cancel" THEN "read" ELSE "shut.lp"
    /\ proc' = [p \in Proc |-> IF p = target /\ proc[p] = "running" THEN "killed" ELSE proc[p]]
    /\ target' = None
    /\ UNCHANGED <<guiVars, hadStart, flags, terminated, mbPid, pc, tries, heard, pipe, lpUp>>

\* The GUI has closed its socket: a build that is not done is shut down.
ReadClose ==
    /\ driver = "read"
    /\ gui = "closed" /\ inbox = <<>>
    /\ driver' = IF doneSent THEN "shut.lp" ELSE "shut.build"
    /\ UNCHANGED <<guiVars, hadStart, target, flags, terminated, mbPid, builder, pipe, lpUp>>

\* shut_down_model_build_process, under mb_guard
ShutDownBuild ==
    /\ driver = "shut.build"
    /\ driver' = "shut.kill"
    /\ target' = mbPid
    /\ UNCHANGED <<guiVars, hadStart, flags, terminated, mbPid, builder, pipe, lpUp>>

\* shut_down_log_presentation
ShutDownLP ==
    /\ driver = "shut.lp"
    /\ driver' = "exit"
    /\ lpUp' = FALSE /\ pipe' = <<>>
    /\ UNCHANGED <<guiVars, hadStart, target, flags, terminated, mbPid, builder>>

\* main returns, and no thread of the driver takes another step.  It waits for
\* the process of a GUI that it has started, and for communicate otherwise.
Exit ==
    /\ ~Gone
    /\ driver = "exit" \/ (AutoStart /\ gui = "closed")
    /\ driver' = "gone"
    /\ UNCHANGED <<guiVars, hadStart, target, flags, terminated, mbPid, builder, pipe, lpUp>>
-----------------------------------------------------------------------------
(* MBThread::run *)

At(b, from) == pc[b] = from /\ ~Gone
To(b, to) == pc' = [pc EXCEPT ![b] = to]

\* Messages that the driver sends to the log presentation, if it runs.
SendLP(m) == pipe' = IF lpUp THEN Append(pipe, m) ELSE pipe

\* wait_for_log_presentation_service succeeds, ...
FindLP(b) ==
    /\ At(b, "wait.lp") /\ To(b, "try")
    /\ lpUp
    /\ UNCHANGED <<guiVars, driver, hadStart, target, flags, terminated, mbPid, tries, proc, heard, pipe, lpUp>>

\* ... or gives up, which the GUI is told directly.
MissLP(b) ==
    /\ At(b, "wait.lp") /\ To(b, "over")
    /\ toGui' = Append(toGui, "failed")
    /\ UNCHANGED <<gui, cancels, inbox, driver, hadStart, target, flags, terminated, mbPid, tries, proc, heard, pipe, lpUp>>

\* The loop is left because the build has been cancelled.
Stopped(b) ==
    /\ At(b, "try") /\ To(b, "report")
    /\ terminated
    /\ UNCHANGED <<guiVars, driver, hadStart, target, flags, terminated, mbPid, tries, proc, heard, pipe, lpUp>>

\* Fault: only the first process is recorded for cancel.
StartRecordsFirst(b) ==
    LET p == <<b, tries[b] + 1>> IN
    /\ At(b, "try") /\ To(b, "wait")
    /\ ~terminated
    /\ tries' = [tries EXCEPT ![b] = @ + 1]
    /\ proc' = [proc EXCEPT ![p] = "running"]
    /\ mbPid' = IF tries[b] = 0 THEN p ELSE mbPid
    /\ UNCHANGED <<guiVars, driver, hadStart, target, flags, terminated, heard, pipe, lpUp>>

\* The flag is tested, and the process started and recorded, under mb_guard.
Start(b) ==
    LET p == <<b, tries[b] + 1>> IN
    /\ At(b, "try") /\ To(b, "wait")
    /\ ~terminated
    /\ tries' = [tries EXCEPT ![b] = @ + 1]
    /\ proc' = [proc EXCEPT ![p] = "running"]
    /\ mbPid' = p
    /\ UNCHANGED <<guiVars, driver, hadStart, target, flags, terminated, heard, pipe, lpUp>>

\* start_process fails; the message about it counts as progress.
StartFails(b) ==
    /\ At(b, "try") /\ To(b, "report")
    /\ ~terminated
    /\ SendLP("progress")
    /\ UNCHANGED <<guiVars, driver, hadStart, target, flags, terminated, mbPid, tries, proc, heard, lpUp>>

\* Fault: the thread goes on when its process has been signalled.
WaitForSignal(b) ==
    /\ At(b, "wait")
    /\ proc[<<b, tries[b]>>] \in {"ok", "bad", "killed"}
    /\ To(b, IF hadProgress THEN "report" ELSE "doubt")
    /\ UNCHANGED <<guiVars, driver, hadStart, target, flags, terminated, mbPid, tries, proc, heard, pipe, lpUp>>

\* wait_process returns, and had_progress is tested.
Wait(b) ==
    /\ At(b, "wait")
    /\ proc[<<b, tries[b]>>] \in {"ok", "bad"}
    /\ To(b, IF hadProgress THEN "report" ELSE "doubt")
    /\ UNCHANGED <<guiVars, driver, hadStart, target, flags, terminated, mbPid, tries, proc, heard, pipe, lpUp>>

\* Fault: one try too many.
DoubtOnceMore(b) ==
    LET again == ~hadProgress /\ proc[<<b, tries[b]>>] = "ok" /\ tries[b] <= MaxTries IN
    /\ At(b, "doubt")
    /\ To(b, IF again THEN "try" ELSE "report")
    /\ UNCHANGED <<guiVars, driver, hadStart, target, flags, terminated, mbPid, tries, proc, heard, pipe, lpUp>>

\* The second test, after a sleep: a build that ended well and has shown no
\* progress is tried again.
Doubt(b) ==
    LET again == ~hadProgress /\ proc[<<b, tries[b]>>] = "ok" /\ tries[b] < MaxTries IN
    /\ At(b, "doubt")
    /\ To(b, IF again THEN "try" ELSE "report")
    /\ UNCHANGED <<guiVars, driver, hadStart, target, flags, terminated, mbPid, tries, proc, heard, pipe, lpUp>>

Report(b) ==
    /\ At(b, "report") /\ To(b, "over")
    /\ SendLP("done")
    /\ UNCHANGED <<guiVars, driver, hadStart, target, flags, terminated, mbPid, tries, proc, heard, lpUp>>
-----------------------------------------------------------------------------
(* The build processes and the log presentation *)

ProcEnds(p) ==
    /\ Alive(p)
    /\ \E code \in {"ok", "bad"} :
          /\ proc[p] = "killed" => code = "bad"
          /\ proc' = [proc EXCEPT ![p] = code]
    /\ UNCHANGED <<guiVars, driver, hadStart, target, flags, terminated, mbPid, pc, tries, heard, pipe, lpUp>>

\* Every process has a connection of its own to the log presentation, so the
\* message it has sent may arrive long after its end.
Arrive(p) ==
    /\ lpUp /\ proc[p] # "none" /\ ~heard[p]
    /\ heard' = [heard EXCEPT ![p] = TRUE]
    /\ pipe' = Append(pipe, "progress")
    /\ UNCHANGED <<guiVars, driver, hadStart, target, flags, terminated, mbPid, pc, tries, proc, lpUp>>

\* The log presentation passes a message on and ServerToPresentation::
\* communicate takes note of it before it forwards it.  Not every progress is
\* passed on, but a reset may be answered by one.
Pass ==
    /\ ~Gone /\ pipe # <<>>
    /\ pipe' = Tail(pipe)
    /\ \/ /\ Head(pipe) \in {"progress", "reset"}
          /\ hadProgress' \in {hadProgress, TRUE}
          /\ UNCHANGED <<doneSent, toGui>>
       \/ /\ Head(pipe) = "done"
          /\ doneSent' = TRUE
          /\ toGui' = Append(toGui, "done")
          /\ UNCHANGED hadProgress
    /\ UNCHANGED <<gui, cancels, inbox, driver, hadStart, target, terminated, mbPid, builder, lpUp>>
-----------------------------------------------------------------------------
Gui == GuiStart \/ GuiCancel \/ GuiRead \/ GuiClose

Driver ==
    \/ ReadStart \/ RefuseStart \/ SendReset \/ ReadCancel \/ Kill
    \/ ReadClose \/ ShutDownBuild \/ ShutDownLP \/ Exit
    \/ \E b \in Build : Launch(b)

MBThread(b) ==
    \/ FindLP(b) \/ MissLP(b) \/ Stopped(b) \/ Start(b) \/ StartFails(b)
    \/ Wait(b) \/ Doubt(b) \/ Report(b)

Next ==
    \/ Gui \/ Driver \/ Pass
    \/ \E b \in Build : MBThread(b)
    \/ \E p \in Proc : ProcEnds(p) \/ Arrive(p)

Spec == Init /\ [][Next]_vars

\* The threads of the driver, the log presentation and the GUI run when they
\* can, and a process that has been signalled ends.
Fairness ==
    /\ WF_vars(Driver) /\ WF_vars(Pass) /\ WF_vars(GuiRead)
    /\ \A b \in Build : WF_vars(MBThread(b))
    /\ \A p \in Proc : WF_vars(ProcEnds(p) /\ proc[p] = "killed")

FairSpec == Spec /\ Fairness
-----------------------------------------------------------------------------
TypeOK ==
    /\ gui \in {"idle", "busy", "closed"}
    /\ cancels \in 0 .. MaxCancels
    /\ inbox \in Seq({"start", "cancel"})
    /\ toGui \in Seq({"done", "failed"})
    /\ driver \in {"read", "reset", "launch", "cancel", "shut.build", "shut.kill", "shut.lp", "exit", "gone"}
    /\ hadStart \in BOOLEAN /\ hadProgress \in BOOLEAN /\ doneSent \in BOOLEAN
    /\ terminated \in BOOLEAN /\ lpUp \in BOOLEAN
    /\ mbPid \in Proc \cup {None} /\ target \in Proc \cup {None}
    /\ pc \in [Build -> {"none", "wait.lp", "try", "wait", "doubt", "report", "over"}]
    /\ tries \in [Build -> 0 .. MaxTries]
    /\ proc \in [Proc -> {"none", "running", "killed", "ok", "bad"}]
    /\ heard \in [Proc -> BOOLEAN]
    /\ pipe \in Seq({"progress", "reset", "done"})

\* Two build processes never run side by side: they write the same model
\* (retries, cancels and restarts of mbdriver.cxx included).
OneBuild == \A p, q \in Proc : Alive(p) /\ Alive(q) => p = q

\* When the driver has noted that the command is done, no process of it runs and
\* none will be started, so that a GUI that closes need not terminate anything
\* (guidriver.cxx, end of communicate).
DoneMeansOver ==
    doneSent =>
        /\ \A p \in Proc : ~Alive(p)
        /\ \A b \in Build : pc[b] \in {"none", "over"}

\* A process that runs and has not been signalled can be: the driver's mb_pid
\* names it, or the thread that cancels or shuts down is about to signal it.
RunningIsKnown ==
    \A p \in Proc : proc[p] = "running" => p \in {mbPid, target}

\* A cancelled build ends and the GUI is told, wherever the build was: before its
\* first process, in a process that would not end by itself, or between two.
CancelEnds ==
    (gui = "busy" /\ inbox # <<>> /\ inbox[Len(inbox)] = "cancel") ~> gui # "busy"

\* "Early closing of the GUI terminates the command" (guidriver.cxx): when the
\* driver has gone, no build runs that nobody has signalled.
EarlyCloseTerminates == Gone => \A p \in Proc : proc[p] # "running"
=============================================================================
