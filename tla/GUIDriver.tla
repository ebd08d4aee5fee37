----------------------------- MODULE GUIDriver -----------------------------
(***************************************************************************)
(* How mbdriver opens and closes a session with its GUI: the listener for  *)
(* the GUI and the threads that shut it (src/mbdriver/src/guidriver.cxx),  *)
(* the listener for the log presentation and the log presentation process  *)
(* (src/mbdriver/src/lpdriver.cxx), over nTransport::listen                *)
(* (src/libs/stream_message/src/transport.cxx), whose listener object      *)
(* lives on the stack of the thread that listens.                          *)
(*                                                                         *)
(* What the session is used for is in ModelBuild; here a GUI sends         *)
(* messages, the first of which opens the session, and may ask for builds, *)
(* each of which first waits for the log presentation.                     *)
(***************************************************************************)
EXTENDS Naturals

CONSTANTS
    Conn,     \* connections to the GUI listener
    Gui,      \* the one that is made by a GUI; the others send nothing
    None,
    Modes,    \* <<starts, hasty>>: the driver starts the GUI itself; the GUI may
              \* close before the driver has opened the session
    Faults    \* what may fail: see GListen and LListen

ASSUME ConnAssumption == Gui \in Conn /\ None \notin Conn
ASSUME StateAssumption == Conn \cap {"none", "receive", "over"} = {} /\ None # "none"
ASSUME ModesAssumption == Modes \subseteq BOOLEAN \X BOOLEAN
ASSUME FaultsAssumption == Faults \subseteq {"gui.listen", "gui.start", "lp.listen", "lp.start"}

VARIABLES
    mode,
    g,            \* the thread "GUI listener", for which main waits
    t,            \* GUIThread, which waits for the GUI process
    conn,         \* per connection: its thread, in ServerToGUI::communicate
    peer,         \* per connection: what the other end has done
    guiProc,      \* the GUI process that the driver has started
    guiSock,      \* listeningSocket of the GUI listener is set
    guiNudge,     \* a connection made by shut waits to be accepted
    held,         \* a connection thread has locked guiThread
    connection,   \* where send_on_connection sends
    lpThread,     \* lp_thread is set
    l,            \* the thread "lp listener"
    lpSock, lpNudge,
    lpListener,   \* lplistener is set
    lp, lpPid,    \* the log presentation process, and whether lppid is set
    lpConn,       \* its connection waits to be accepted
    inbox,        \* a message is under way on it; at most one at a time
    serverReady,
    d,            \* ServerToPresentation::communicate; the connection it sends on
    b             \* a build's thread, in wait_for_log_presentation_service

guiVars == <<g, t, guiProc, guiSock, guiNudge>>
sessionVars == <<conn, peer, held, connection, lpThread>>
listenerVars == <<l, lpSock, lpNudge, lpListener>>
lpProcVars == <<lp, lpPid, lpConn, inbox>>
lpVars == <<listenerVars, lpProcVars, serverReady>>
vars == <<mode, guiVars, sessionVars, lpVars, d, b>>

Starts == mode[1]
Hasty == mode[2]
Gone == g = "over"

Init ==
    /\ mode \in Modes
    /\ g = "listen" /\ t = "none" /\ guiProc = "none"
    /\ guiSock = TRUE /\ guiNudge = FALSE
    /\ conn = [c \in Conn |-> "none"] /\ peer = [c \in Conn |-> "none"]
    /\ held = FALSE /\ connection = None /\ lpThread = FALSE
    /\ l = "none" /\ lpSock = TRUE /\ lpNudge = FALSE /\ lpListener = FALSE
    /\ lp = "none" /\ lpPid = FALSE /\ lpConn = FALSE /\ inbox = FALSE
    /\ serverReady = FALSE
    /\ d = "none" /\ b = "none"
-----------------------------------------------------------------------------
(* The GUI listener: nTransport::listen with ServerToGUI::ready, and main *)

\* The listener object exists until listen returns.
GuiListening == g \in {"check", "accept"}

\* Registering the service may fail, and so may starting the GUI.
GListen ==
    /\ g = "listen"
    /\ \/ /\ "gui.listen" \in Faults
          /\ g' = "join"
          /\ UNCHANGED <<t, guiProc, guiSock>>
       \/ /\ g' = "check"
          /\ ~Starts /\ UNCHANGED <<t, guiProc, guiSock>>
       \/ /\ g' = "check"
          /\ Starts /\ guiProc' = "running" /\ t' = "wait"
          /\ UNCHANGED guiSock
       \/ /\ g' = "check"
          /\ Starts /\ "gui.start" \in Faults /\ guiSock' = FALSE
          /\ UNCHANGED <<t, guiProc>>
    /\ UNCHANGED <<mode, guiNudge, sessionVars, lpVars, d, b>>

GCheck ==
    /\ g = "check"
    /\ g' = IF guiSock THEN "accept" ELSE "join"
    /\ UNCHANGED <<mode, t, guiProc, guiSock, guiNudge, sessionVars, lpVars, d, b>>

\* Every connection gets a thread; that of a nudge ends at once.
GAccept ==
    /\ g = "accept" /\ g' = "check"
    /\ \/ guiNudge /\ guiNudge' = FALSE /\ UNCHANGED conn
       \/ /\ \E c \in Conn :
                /\ conn[c] = "none" /\ peer[c] # "none"
                /\ conn' = [conn EXCEPT ![c] = "first"]
          /\ UNCHANGED guiNudge
    /\ UNCHANGED <<mode, t, guiProc, guiSock, peer, held, connection, lpThread, lpVars, d, b>>

\* GUIListenerThread::run locks guiThread and ends, and then main does.
GJoin ==
    /\ g = "join"
    /\ t \in {"none", "over"} /\ ~held
    /\ g' = "over"
    /\ UNCHANGED <<mode, t, guiProc, guiSock, guiNudge, sessionVars, lpVars, d, b>>
-----------------------------------------------------------------------------
(* GUIThread::run *)

\* Fault: the listener is shut whether or not there has been a connection.
TrackAlways ==
    /\ t = "wait" /\ guiProc = "ended"
    /\ t' = "shut"
    /\ UNCHANGED <<mode, g, guiProc, guiSock, guiNudge, sessionVars, lpVars, d, b>>

\* Fault: the listener is left to the thread of the session, even if there is none.
TrackOnly ==
    /\ t = "wait" /\ guiProc = "ended"
    /\ t' = "over"
    /\ UNCHANGED <<mode, g, guiProc, guiSock, guiNudge, sessionVars, lpVars, d, b>>

\* wait_process returns, and log_presentation_thread_created is asked.
Track ==
    /\ t = "wait" /\ guiProc = "ended"
    /\ t' = IF lpThread THEN "over" ELSE "shut"
    /\ UNCHANGED <<mode, g, guiProc, guiSock, guiNudge, sessionVars, lpVars, d, b>>

\* ActualListener::shut: the socket is taken from the listener ...
TShut ==
    /\ t = "shut" /\ ~Gone
    /\ guiSock' = FALSE
    /\ t' = IF guiSock THEN "nudge" ELSE "over"
    /\ UNCHANGED <<mode, g, guiProc, guiNudge, sessionVars, lpVars, d, b>>

\* ... and a connection to it wakes the thread in accept.
TNudge ==
    /\ t = "nudge" /\ ~Gone
    /\ t' = "over"
    /\ guiNudge' = GuiListening
    /\ UNCHANGED <<mode, g, guiProc, guiSock, sessionVars, lpVars, d, b>>
-----------------------------------------------------------------------------
(* ServerToGUI::communicate, in the thread of connection c *)

Goto(c, from, to) ==
    /\ conn[c] = from /\ ~Gone
    /\ conn' = [conn EXCEPT ![c] = to]

\* The first message, or the end of a connection without any.
First(c) ==
    /\ \/ peer[c] \in {"sent", "done"} /\ Goto(c, "first", "test")
       \/ peer[c] = "closed" /\ Goto(c, "first", "over")
    /\ UNCHANGED <<mode, guiVars, peer, held, connection, lpThread, lpVars, d, b>>

Test(c) ==
    /\ Goto(c, "test", IF lpThread THEN "over" ELSE "publish")
    /\ UNCHANGED <<mode, guiVars, peer, held, connection, lpThread, lpVars, d, b>>

\* Under connection_guard.
Publish(c) ==
    /\ Goto(c, "publish", "start")
    /\ d \notin Conn
    /\ connection' = c
    /\ UNCHANGED <<mode, guiVars, peer, held, lpThread, lpVars, d, b>>

\* start_log_presentation
StartLP(c) ==
    /\ Goto(c, "start", "hold")
    /\ lpThread' = TRUE /\ l' = "listen"
    /\ UNCHANGED <<mode, guiVars, peer, held, connection, lpSock, lpNudge, lpListener, lpProcVars, serverReady, d, b>>

\* Fault: nothing keeps the driver from leaving.
HoldNothing(c) ==
    /\ Goto(c, "hold", "shut")
    /\ UNCHANGED <<mode, guiVars, peer, held, connection, lpThread, lpVars, d, b>>

\* guiThread.lock(), if no GUIThread runs.
Hold(c) ==
    /\ Goto(c, "hold", "shut")
    /\ IF Starts THEN UNCHANGED held ELSE ~held /\ held' = TRUE
    /\ UNCHANGED <<mode, guiVars, peer, connection, lpThread, lpVars, d, b>>

\* guiListener->shut()
Shut(c) ==
    /\ Goto(c, "shut", IF guiSock THEN "nudge" ELSE "serve")
    /\ guiSock' = FALSE
    /\ UNCHANGED <<mode, g, t, guiProc, guiNudge, peer, held, connection, lpThread, lpVars, d, b>>

Nudge(c) ==
    /\ Goto(c, "nudge", "serve")
    /\ guiNudge' = GuiListening
    /\ UNCHANGED <<mode, g, t, guiProc, guiSock, peer, held, connection, lpThread, lpVars, d, b>>

StartBuild(c) ==
    /\ Goto(c, "serve", "serve")
    /\ b = "none" /\ b' = "ensure"
    /\ UNCHANGED <<mode, guiVars, peer, held, connection, lpThread, lpVars, d>>

\* The GUI has closed.  shut_down_log_presentation shuts the listener, ...
CloseSession(c) ==
    /\ peer[c] = "done"
    /\ Goto(c, "serve", IF lpListener /\ lpSock THEN "lp.nudge" ELSE "lp.kill")
    /\ lpSock' = (lpSock /\ ~lpListener)
    /\ UNCHANGED <<mode, guiVars, peer, held, connection, lpThread, l, lpNudge, lpListener, lpProcVars, serverReady, d, b>>

\* Fault: the thread in accept is not woken.
NudgeNobody(c) ==
    /\ Goto(c, "lp.nudge", "lp.kill")
    /\ UNCHANGED <<mode, guiVars, peer, held, connection, lpThread, lpVars, d, b>>

NudgeLP(c) ==
    /\ Goto(c, "lp.nudge", "lp.kill")
    /\ lpNudge' = (l # "over")
    /\ UNCHANGED <<mode, guiVars, peer, held, connection, lpThread, l, lpSock, lpListener, lpProcVars, serverReady, d, b>>

\* ... terminates the process, ...
KillLP(c) ==
    /\ Goto(c, "lp.kill", "lp.join")
    /\ lp' = IF lpPid /\ lp = "running" THEN "ended" ELSE lp
    /\ UNCHANGED <<mode, guiVars, peer, held, connection, lpThread, listenerVars, lpPid, lpConn, inbox, serverReady, d, b>>

\* Fault: the thread is not waited for.
JoinNobody(c) ==
    /\ Goto(c, "lp.join", "clear")
    /\ UNCHANGED <<mode, guiVars, peer, held, connection, lpThread, lpVars, d, b>>

\* ... and waits for the thread that listens.
JoinLP(c) ==
    /\ Goto(c, "lp.join", "clear")
    /\ l = "over"
    /\ UNCHANGED <<mode, guiVars, peer, held, connection, lpThread, lpVars, d, b>>

\* Fault: connection is cleared without connection_guard.
ClearAtOnce(c) ==
    /\ Goto(c, "clear", "unlock")
    /\ connection' = None
    /\ UNCHANGED <<mode, guiVars, peer, held, lpThread, lpVars, d, b>>

\* Under connection_guard, which the thread of the log presentation may have.
Clear(c) ==
    /\ Goto(c, "clear", "unlock")
    /\ d \notin Conn
    /\ connection' = None
    /\ UNCHANGED <<mode, guiVars, peer, held, lpThread, lpVars, d, b>>

Unlock(c) ==
    /\ Goto(c, "unlock", "over")
    /\ held' = FALSE
    /\ UNCHANGED <<mode, guiVars, peer, connection, lpThread, lpVars, d, b>>
-----------------------------------------------------------------------------
(* The log presentation's listener, process and connection *)

\* listen fails, or ready starts the process and sets lplistener, or fails to.
LListen ==
    /\ l = "listen" /\ ~Gone
    /\ \/ /\ "lp.listen" \in Faults
          /\ l' = "over"
          /\ UNCHANGED <<lp, lpSock, lpListener>>
       \/ /\ l' = "ready"
          /\ lp' = "running" /\ lpListener' = TRUE
          /\ UNCHANGED lpSock
       \/ /\ "lp.start" \in Faults
          /\ l' = "ready"
          /\ lpSock' = FALSE
          /\ UNCHANGED <<lp, lpListener>>
    /\ UNCHANGED <<mode, guiVars, sessionVars, lpNudge, lpPid, lpConn, inbox, serverReady, d, b>>

\* Fault: nobody is told when the process could not be started.
ReadyIfStarted ==
    /\ l = "ready" /\ ~Gone
    /\ l' = "check"
    /\ lpPid' = (lp # "none") /\ serverReady' = (lp # "none")
    /\ UNCHANGED <<mode, guiVars, sessionVars, lpSock, lpNudge, lpListener, lp, lpConn, inbox, d, b>>

\* The rest of ready.
Ready ==
    /\ l = "ready" /\ ~Gone
    /\ l' = "check"
    /\ lpPid' = (lp # "none") /\ serverReady' = TRUE
    /\ UNCHANGED <<mode, guiVars, sessionVars, lpSock, lpNudge, lpListener, lp, lpConn, inbox, d, b>>

LCheck ==
    /\ l = "check" /\ ~Gone
    /\ l' = IF lpSock THEN "accept" ELSE "over"
    /\ UNCHANGED <<mode, guiVars, sessionVars, lpSock, lpNudge, lpListener, lpProcVars, serverReady, d, b>>

LAccept ==
    /\ l = "accept" /\ ~Gone
    /\ l' = "check"
    /\ \/ lpNudge /\ lpNudge' = FALSE /\ UNCHANGED <<lpConn, d>>
       \/ lpConn /\ lpConn' = FALSE /\ d' = "receive" /\ UNCHANGED lpNudge
    /\ UNCHANGED <<mode, guiVars, sessionVars, lpSock, lpListener, lp, lpPid, inbox, serverReady, b>>

\* Fault: a message is sent although there is no connection.
ForwardAnyway ==
    /\ d = "receive" /\ inbox /\ ~Gone
    /\ inbox' = FALSE
    /\ d' = connection
    /\ UNCHANGED <<mode, guiVars, sessionVars, listenerVars, lp, lpPid, lpConn, serverReady, b>>

\* ServerToPresentation::communicate gets a message and sends it to the GUI,
\* under connection_guard; it ends when there is no connection to send it on.
Forward ==
    /\ d = "receive" /\ inbox /\ ~Gone
    /\ inbox' = FALSE
    /\ d' = IF connection = None THEN "over" ELSE connection
    /\ UNCHANGED <<mode, guiVars, sessionVars, listenerVars, lp, lpPid, lpConn, serverReady, b>>

Forwarded ==
    /\ d \in Conn /\ ~Gone
    /\ d' = "receive"
    /\ UNCHANGED <<mode, guiVars, sessionVars, lpVars, b>>

Disconnected ==
    /\ d = "receive" /\ lp = "ended" /\ ~inbox /\ ~Gone
    /\ d' = "over"
    /\ UNCHANGED <<mode, guiVars, sessionVars, lpVars, b>>

LPConnects ==
    /\ lp = "running" /\ d = "none" /\ ~lpConn
    /\ l # "over"
    /\ lpConn' = TRUE
    /\ UNCHANGED <<mode, guiVars, sessionVars, listenerVars, lp, lpPid, inbox, serverReady, d, b>>

LPSends ==
    /\ lp = "running" /\ ~inbox
    /\ lpConn \/ d \in Conn \cup {"receive"}
    /\ inbox' = TRUE
    /\ UNCHANGED <<mode, guiVars, sessionVars, listenerVars, lp, lpPid, lpConn, serverReady, d, b>>

LPEnds ==
    /\ lp = "running"
    /\ lp' = "ended"
    /\ UNCHANGED <<mode, guiVars, sessionVars, listenerVars, lpPid, lpConn, inbox, serverReady, d, b>>
-----------------------------------------------------------------------------
(* wait_for_log_presentation_service *)

EnsureReady ==
    /\ b = "ensure" /\ serverReady /\ ~Gone
    /\ b' = "poll"
    /\ UNCHANGED <<mode, guiVars, sessionVars, lpVars, d>>

\* The service is found, the process is dead, or the time is over.
Poll ==
    /\ b = "poll" /\ ~Gone
    /\ b' = "over"
    /\ UNCHANGED <<mode, guiVars, sessionVars, lpVars, d>>
-----------------------------------------------------------------------------
(* The other ends *)

Connect(c) ==
    /\ peer[c] = "none"
    /\ GuiListening
    /\ c = Gui /\ Starts => guiProc = "running"
    /\ peer' = [peer EXCEPT ![c] = "open"]
    /\ UNCHANGED <<mode, guiVars, conn, held, connection, lpThread, lpVars, d, b>>

Send(c) ==
    /\ c = Gui /\ peer[c] = "open"
    /\ peer' = [peer EXCEPT ![c] = "sent"]
    /\ UNCHANGED <<mode, guiVars, conn, held, connection, lpThread, lpVars, d, b>>

\* A GUI that the driver has started closes its connection by ending.
Close(c) ==
    /\ peer[c] \in {"open", "sent"}
    /\ c = Gui /\ ~Hasty => conn[c] = "serve" /\ serverReady
    /\ peer' = [peer EXCEPT ![c] = IF @ = "sent" THEN "done" ELSE "closed"]
    /\ guiProc' = IF c = Gui /\ Starts THEN "ended" ELSE guiProc
    /\ UNCHANGED <<mode, g, t, guiSock, guiNudge, conn, held, connection, lpThread, lpVars, d, b>>

\* A GUI may end before it connects.
GuiFails ==
    /\ guiProc = "running" /\ peer[Gui] = "none"
    /\ guiProc' = "ended"
    /\ UNCHANGED <<mode, g, t, guiSock, guiNudge, sessionVars, lpVars, d, b>>
-----------------------------------------------------------------------------
GuiListener == GListen \/ GCheck \/ GAccept \/ GJoin
GuiThread == Track \/ TShut \/ TNudge

Communicate(c) ==
    \/ First(c) \/ Test(c) \/ Publish(c) \/ StartLP(c) \/ Hold(c) \/ Shut(c) \/ Nudge(c)
    \/ CloseSession(c) \/ NudgeLP(c) \/ KillLP(c) \/ JoinLP(c) \/ Clear(c) \/ Unlock(c)

LPListener == LListen \/ Ready \/ LCheck \/ LAccept
LPForward == Forward \/ Forwarded \/ Disconnected
Builder == EnsureReady \/ Poll
Peer(c) == Connect(c) \/ Send(c) \/ Close(c)

Next ==
    \/ GuiListener \/ GuiThread
    \/ \E c \in Conn : Communicate(c) \/ StartBuild(c) \/ Peer(c)
    \/ LPListener \/ LPForward \/ LPConnects \/ LPSends \/ LPEnds
    \/ Builder \/ GuiFails

Spec == Init /\ [][Next]_vars

\* The driver's threads run when they can.
Fairness ==
    /\ WF_vars(GuiListener) /\ WF_vars(GuiThread)
    /\ \A c \in Conn : WF_vars(Communicate(c))
    /\ WF_vars(LPListener) /\ WF_vars(LPForward) /\ WF_vars(Builder)

FairSpec == Spec /\ Fairness
-----------------------------------------------------------------------------
TypeOK ==
    /\ mode \in Modes
    /\ g \in {"listen", "check", "accept", "join", "over"}
    /\ t \in {"none", "wait", "shut", "nudge", "over"}
    /\ conn \in [Conn -> {"none", "first", "test", "publish", "start", "hold", "shut", "nudge",
                          "serve", "lp.nudge", "lp.kill", "lp.join", "clear", "unlock", "over"}]
    /\ peer \in [Conn -> {"none", "open", "sent", "closed", "done"}]
    /\ guiProc \in {"none", "running", "ended"} /\ lp \in {"none", "running", "ended"}
    /\ guiSock \in BOOLEAN /\ guiNudge \in BOOLEAN /\ held \in BOOLEAN
    /\ connection \in Conn \cup {None}
    /\ lpThread \in BOOLEAN /\ lpSock \in BOOLEAN /\ lpNudge \in BOOLEAN
    /\ lpListener \in BOOLEAN /\ lpPid \in BOOLEAN /\ lpConn \in BOOLEAN /\ inbox \in BOOLEAN
    /\ serverReady \in BOOLEAN
    /\ l \in {"none", "listen", "ready", "check", "accept", "over"}
    /\ d \in Conn \cup {"none", "receive", "over"}
    /\ b \in {"none", "ensure", "poll", "over"}

\* A thread that shuts the GUI listener finds it: "the second call will find that
\* the listener object is already deleted" (guidriver.cxx, GUIThread::run).
ListenerLives ==
    (t = "shut" \/ \E c \in Conn : conn[c] = "shut") => GuiListening

\* The thread of the log presentation sends on the connection of a thread that
\* still communicates: the Connection is on that thread's stack.
SendsOnOpenConnection == d \in Conn => conn[d] \notin {"none", "unlock", "over"}

\* The driver of a GUI that was started by hand does not end under its session,
\* and leaves neither the log presentation's listener nor its process, if the GUI
\* gave it the time to set them up.
ExitAfterSession ==
    Gone /\ ~Starts =>
        /\ \A c \in Conn : conn[c] \in {"none", "first", "test", "over"}
        /\ ~Hasty => l \in {"none", "over"} /\ lp # "running"

\* When the GUI closes a session whose log presentation is listened for, all the
\* threads that wait for each other end and the driver does.
ClosedSessionEnds ==
    \A c \in Conn : (conn[c] = "serve" /\ peer[c] = "done" /\ lpListener) ~> Gone

\* A GUI process that ends, connected or not, ends the driver that started it.
EndedGuiEndsDriver == guiProc = "ended" ~> Gone

\* A build does not wait for ever for the log presentation, even if its process
\* could not be started.
BuildIsAnswered == b = "ensure" ~> (b = "over" \/ Gone)
=============================================================================
