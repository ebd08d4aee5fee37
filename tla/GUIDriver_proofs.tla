-------------------------- MODULE GUIDriver_proofs --------------------------
(***************************************************************************)
(* Proofs about GUIDriver, for any number of connections that say nothing  *)
(* beside the GUI's: nobody uses a listener or a connection that has gone, *)
(* and the driver does not leave its session.                              *)
(***************************************************************************)
EXTENDS GUIDriver, TLAPS

\* How far the thread of the GUI's connection is.
Serving == {"shut", "nudge", "serve", "lp.nudge", "lp.kill", "lp.join", "clear", "unlock"}
Closing == {"lp.nudge", "lp.kill", "lp.join", "clear", "unlock"}

\* Who does not speak never gets past the first message.
OthersInv ==
    \A c \in Conn \ {Gui} : conn[c] \in {"none", "first", "over"} /\ peer[c] \in {"none", "open", "closed"}

\* The GUI has sent a message to whoever reads it.
PeerInv ==
    /\ \A c \in Conn : conn[c] # "none" => peer[c] # "none"
    /\ conn[Gui] \notin {"none", "first", "over"} => peer[Gui] \in {"sent", "done"}
    /\ conn[Gui] \in Closing => peer[Gui] = "done"

\* Only the GUI's connection is published, while its thread is in the session;
\* what the log presentation's thread sends on is still published.
SendInv ==
    /\ connection # None => connection = Gui /\ conn[Gui] \in ({"start", "hold"} \cup Serving) \ {"unlock"}
    /\ d \in Conn => d = connection

\* How the log presentation is started: listen, start, note the process, tell.
ServerInv ==
    /\ conn[Gui] \in {"none", "first", "test", "publish", "start"} => ~lpThread /\ l = "none"
    /\ conn[Gui] \in {"hold"} \cup Serving => lpThread
    /\ l \in {"none", "listen"} => lp = "none" /\ ~serverReady
    /\ l = "ready" => ~serverReady
    /\ l = "over" /\ ~serverReady => lp = "none"
    /\ l \in {"check", "accept"} => serverReady
    /\ serverReady => l \in {"check", "accept", "over"} /\ (lp # "none" => lpPid)

\* How it is ended, and that nothing is started after that.
SessionInv ==
    /\ ~Hasty /\ peer[Gui] = "done" => serverReady
    /\ ~Hasty /\ conn[Gui] \in {"lp.join", "clear", "unlock", "over"} => lp # "running"
    /\ conn[Gui] \in {"clear", "unlock"} => l = "over"
    /\ conn[Gui] = "over" => l \in {"none", "over"}

\* The socket of the listener is there until the session has shut it, or nobody
\* will come: the GUI could not be started, or it has ended without connecting.
SocketInv ==
    /\ g = "listen" => guiSock /\ t = "none" /\ guiProc = "none" /\ \A c \in Conn : peer[c] = "none"
    /\ g \in {"join", "over"} /\ guiSock => t = "none" /\ \A c \in Conn : peer[c] = "none"
    /\ ~(Starts /\ Hasty) /\ ~guiSock =>
        \/ conn[Gui] \in (Serving \cup {"over"}) \ {"shut"}
        \/ Starts /\ guiProc # "running" /\ peer[Gui] = "none"

\* Main waits for the session through guiThread.
HeldInv ==
    /\ ~Starts => t = "none"
    /\ ~Starts /\ conn[Gui] \in Serving => held
    /\ g = "over" => ~held

\* The thread that waits for a GUI process shuts the listener only if the GUI
\* has not connected, and then it cannot any more.
ProcInv ==
    Starts /\ ~Hasty =>
        /\ guiProc = "none" => t = "none" /\ peer[Gui] = "none"
        /\ guiProc = "ended" => lpThread \/ peer[Gui] = "none"
        /\ t = "shut" \/ (t = "wait" /\ ~lpThread) => guiSock
        /\ t \in {"shut", "nudge"} => guiProc = "ended" /\ peer[Gui] = "none"

IInv ==
    /\ TypeOK /\ OthersInv /\ PeerInv /\ SendInv /\ ServerInv /\ SessionInv
    /\ SocketInv /\ HeldInv /\ ProcInv

USE ConnAssumption, StateAssumption, ModesAssumption, FaultsAssumption

\* The listener for the GUI and the thread that waits for the GUI process.
LEMMA ListenerStep ==
    ASSUME IInv, GuiListener \/ GuiThread
    PROVE  IInv'
<1>1. CASE GListen
    <2>1. TypeOK'
        <3>1. guiSock' \in BOOLEAN
            BY <1>1 DEF GListen, TypeOK, IInv
        <3>2. QED
            BY <1>1, <3>1 DEF GListen, TypeOK, IInv, sessionVars, lpVars, listenerVars,
                lpProcVars, Starts
    <2>2. SocketInv'
        BY <1>1 DEF GListen, SocketInv, IInv, TypeOK, Hasty, Serving, Starts, listenerVars,
            lpProcVars, lpVars, sessionVars, OthersInv, PeerInv
    <2>3. HeldInv'
        BY <1>1 DEF GListen, HeldInv, IInv, TypeOK, Hasty, Serving, Starts, listenerVars,
            lpProcVars, lpVars, sessionVars, OthersInv, PeerInv, SocketInv
    <2>4. ProcInv'
        BY <1>1 DEF GListen, ProcInv, IInv, TypeOK, Hasty, Serving, Starts, listenerVars,
            lpProcVars, lpVars, sessionVars, OthersInv, PeerInv, SocketInv
    <2>5. OthersInv' /\ PeerInv' /\ SendInv' /\ ServerInv' /\ SessionInv'
        BY <1>1 DEF GListen, IInv, OthersInv, PeerInv, SendInv, ServerInv, SessionInv, Hasty,
            listenerVars, lpProcVars, lpVars, sessionVars
    <2>6. QED
        BY <2>1, <2>2, <2>3, <2>4, <2>5 DEF IInv
<1>2. CASE GCheck
    <2>1. TypeOK'
        BY <1>2 DEF GCheck, TypeOK, IInv, sessionVars, lpVars, listenerVars, lpProcVars
    <2>2. SocketInv'
        BY <1>2 DEF GCheck, SocketInv, IInv, Hasty, Starts, sessionVars
    <2>3. HeldInv'
        BY <1>2 DEF GCheck, HeldInv, IInv, Starts, sessionVars
    <2>4. OthersInv' /\ PeerInv' /\ SendInv' /\ ServerInv' /\ SessionInv' /\ ProcInv'
        BY <1>2 DEF GCheck, IInv, OthersInv, PeerInv, SendInv, ServerInv, SessionInv, ProcInv,
            Hasty, Starts, listenerVars, lpProcVars, lpVars, sessionVars
    <2>5. QED
        BY <2>1, <2>2, <2>3, <2>4 DEF IInv
<1>3. CASE GAccept
    <2>1. TypeOK'
        <3>1. guiNudge' \in BOOLEAN
            BY <1>3 DEF GAccept, TypeOK, IInv
        <3>2. QED
            BY <1>3, <3>1 DEF GAccept, TypeOK, IInv, lpVars, listenerVars, lpProcVars
    <2>2. OthersInv'
        BY <1>3 DEF GAccept, OthersInv, IInv, TypeOK
    <2>3. PeerInv'
        BY <1>3 DEF GAccept, PeerInv, IInv, Closing, TypeOK
    <2>4. SendInv'
        BY <1>3 DEF GAccept, SendInv, IInv, Serving, TypeOK
    <2>5. ServerInv'
        BY <1>3 DEF GAccept, ServerInv, IInv, Serving, listenerVars, lpProcVars, lpVars, TypeOK
    <2>6. SessionInv'
        BY <1>3 DEF GAccept, SessionInv, IInv, Hasty, listenerVars, lpProcVars, lpVars, TypeOK
    <2>7. SocketInv'
        BY <1>3 DEF GAccept, SocketInv, IInv, Hasty, Serving, Starts, TypeOK
    <2>8. HeldInv'
        BY <1>3 DEF GAccept, HeldInv, IInv, Serving, Starts, TypeOK
    <2>9. ProcInv'
        BY <1>3 DEF GAccept, IInv, ProcInv, Hasty, Starts
    <2>10. QED
        BY <2>1, <2>2, <2>3, <2>4, <2>5, <2>6, <2>7, <2>8, <2>9 DEF IInv
<1>4. CASE GJoin
    <2>1. TypeOK'
        BY <1>4 DEF GJoin, TypeOK, IInv, sessionVars, lpVars, listenerVars, lpProcVars
    <2>2. SocketInv'
        BY <1>4 DEF GJoin, SocketInv, IInv, Hasty, Starts, sessionVars
    <2>3. HeldInv'
        BY <1>4 DEF GJoin, HeldInv, IInv, Starts, sessionVars
    <2>4. OthersInv' /\ PeerInv' /\ SendInv' /\ ServerInv' /\ SessionInv' /\ ProcInv'
        BY <1>4 DEF GJoin, IInv, OthersInv, PeerInv, SendInv, ServerInv, SessionInv, ProcInv, Hasty,
            Starts, listenerVars, lpProcVars, lpVars, sessionVars
    <2>5. QED
        BY <2>1, <2>2, <2>3, <2>4 DEF IInv
<1>5. CASE Track
    <2>1. TypeOK'
        BY <1>5 DEF Track, TypeOK, IInv, sessionVars, lpVars, listenerVars, lpProcVars
    <2>2. SocketInv'
        BY <1>5 DEF Track, SocketInv, IInv, Hasty, Starts, sessionVars
    <2>3. HeldInv'
        BY <1>5 DEF Track, HeldInv, IInv, Starts, sessionVars
    <2>4. ProcInv'
        BY <1>5 DEF Track, ProcInv, IInv, Hasty, Starts, sessionVars
    <2>5. OthersInv' /\ PeerInv' /\ SendInv' /\ ServerInv' /\ SessionInv'
        BY <1>5 DEF Track, IInv, OthersInv, PeerInv, SendInv, ServerInv, SessionInv, Hasty,
            listenerVars, lpProcVars, lpVars, sessionVars
    <2>6. QED
        BY <2>1, <2>2, <2>3, <2>4, <2>5 DEF IInv
<1>6. CASE TShut
    <2>1. TypeOK'
        <3>1. guiSock' \in BOOLEAN
            BY <1>6 DEF TShut, TypeOK, IInv
        <3>2. QED
            BY <1>6, <3>1 DEF TShut, TypeOK, IInv, sessionVars, lpVars, listenerVars, lpProcVars,
                Gone
    <2>2. SocketInv'
        BY <1>6 DEF TShut, SocketInv, IInv, Hasty, Starts, sessionVars, HeldInv, ProcInv
    <2>3. HeldInv'
        BY <1>6 DEF TShut, HeldInv, IInv, Starts, sessionVars
    <2>4. ProcInv'
        BY <1>6 DEF TShut, ProcInv, IInv, Hasty, Starts, sessionVars
    <2>5. OthersInv' /\ PeerInv' /\ SendInv' /\ ServerInv' /\ SessionInv'
        BY <1>6 DEF TShut, IInv, OthersInv, PeerInv, SendInv, ServerInv, SessionInv, Hasty,
            listenerVars, lpProcVars, lpVars, sessionVars
    <2>6. QED
        BY <2>1, <2>2, <2>3, <2>4, <2>5 DEF IInv
<1>7. CASE TNudge
    <2>1. TypeOK'
        BY <1>7 DEF TNudge, TypeOK, IInv, sessionVars, lpVars, listenerVars, lpProcVars, Gone,
            GuiListening
    <2>2. SocketInv'
        BY <1>7 DEF TNudge, SocketInv, IInv, Hasty, Starts, sessionVars
    <2>3. HeldInv'
        BY <1>7 DEF TNudge, HeldInv, IInv, Starts, sessionVars
    <2>4. ProcInv'
        BY <1>7 DEF TNudge, ProcInv, IInv, Hasty, Starts, sessionVars
    <2>5. OthersInv' /\ PeerInv' /\ SendInv' /\ ServerInv' /\ SessionInv'
        BY <1>7 DEF TNudge, IInv, OthersInv, PeerInv, SendInv, ServerInv, SessionInv, Hasty,
            listenerVars, lpProcVars, lpVars, sessionVars
    <2>6. QED
        BY <2>1, <2>2, <2>3, <2>4, <2>5 DEF IInv
<1>8. QED
    BY <1>1, <1>2, <1>3, <1>4, <1>5, <1>6, <1>7 DEF GuiListener, GuiThread

\* The threads of the connections.
LEMMA SessionStep ==
    ASSUME NEW c \in Conn, IInv, Communicate(c) \/ StartBuild(c)
    PROVE  IInv'
<1>1. CASE First(c)
    <2>1. TypeOK'
        BY <1>1 DEF First, TypeOK, IInv, guiVars, lpVars, listenerVars, lpProcVars, Goto, Gone
    <2>2. OthersInv'
        BY <1>1 DEF First, OthersInv, IInv, Goto, TypeOK
    <2>3. PeerInv'
        BY <1>1 DEF First, PeerInv, IInv, Closing, Goto, TypeOK
    <2>4. SendInv'
        BY <1>1 DEF First, SendInv, IInv, Goto, Serving, TypeOK
    <2>5. ServerInv'
        BY <1>1 DEF First, ServerInv, IInv, Goto, Serving, listenerVars, lpProcVars, lpVars, TypeOK
    <2>6. SessionInv'
        BY <1>1 DEF First, SessionInv, IInv, Goto, Hasty, listenerVars, lpProcVars, lpVars, TypeOK,
            ServerInv
    <2>7. SocketInv'
        BY <1>1 DEF First, SocketInv, IInv, Goto, Hasty, Serving, Starts, guiVars, TypeOK
    <2>8. HeldInv'
        BY <1>1 DEF First, HeldInv, IInv, Goto, Serving, Starts, guiVars, TypeOK
    <2>9. ProcInv'
        BY <1>1 DEF First, IInv, ProcInv, Hasty, Starts, guiVars
    <2>10. QED
        BY <2>1, <2>2, <2>3, <2>4, <2>5, <2>6, <2>7, <2>8, <2>9 DEF IInv
<1>2. CASE Test(c)
    <2>1. TypeOK'
        BY <1>2 DEF Test, TypeOK, IInv, guiVars, lpVars, listenerVars, lpProcVars, Goto, Gone
    <2>2. OthersInv'
        BY <1>2 DEF Test, OthersInv, IInv, Goto
    <2>3. PeerInv'
        BY <1>2 DEF Test, PeerInv, IInv, Closing, Goto
    <2>4. SendInv'
        BY <1>2 DEF Test, SendInv, IInv, Goto, Serving
    <2>5. ServerInv'
        BY <1>2 DEF Test, ServerInv, IInv, Goto, Serving, listenerVars, lpProcVars, lpVars
    <2>6. SessionInv'
        BY <1>2 DEF Test, SessionInv, IInv, Goto, Hasty, listenerVars, lpProcVars, lpVars, ServerInv
    <2>7. SocketInv'
        BY <1>2 DEF Test, SocketInv, IInv, Goto, Hasty, Serving, Starts, guiVars
    <2>8. HeldInv'
        BY <1>2 DEF Test, HeldInv, IInv, Goto, Serving, Starts, guiVars
    <2>9. ProcInv'
        BY <1>2 DEF Test, IInv, ProcInv, Hasty, Starts, guiVars
    <2>10. QED
        BY <2>1, <2>2, <2>3, <2>4, <2>5, <2>6, <2>7, <2>8, <2>9 DEF IInv
<1>3. CASE Publish(c)
    <2>1. TypeOK'
        BY <1>3 DEF Publish, TypeOK, IInv, guiVars, lpVars, listenerVars, lpProcVars, Goto, Gone
    <2>2. OthersInv'
        BY <1>3 DEF Publish, OthersInv, IInv, Goto
    <2>3. PeerInv'
        BY <1>3 DEF Publish, PeerInv, IInv, Closing, Goto
    <2>4. SendInv'
        BY <1>3 DEF Publish, SendInv, IInv, Goto, TypeOK, OthersInv
    <2>5. ServerInv'
        BY <1>3 DEF Publish, ServerInv, IInv, Goto, Serving, listenerVars, lpProcVars, lpVars
    <2>6. SessionInv'
        BY <1>3 DEF Publish, SessionInv, IInv, Goto, Hasty, listenerVars, lpProcVars, lpVars
    <2>7. SocketInv'
        BY <1>3 DEF Publish, SocketInv, IInv, Goto, Hasty, Serving, Starts, guiVars
    <2>8. HeldInv'
        BY <1>3 DEF Publish, HeldInv, IInv, Goto, Serving, Starts, guiVars
    <2>9. ProcInv'
        BY <1>3 DEF Publish, IInv, ProcInv, Hasty, Starts, guiVars
    <2>10. QED
        BY <2>1, <2>2, <2>3, <2>4, <2>5, <2>6, <2>7, <2>8, <2>9 DEF IInv
<1>4. CASE StartLP(c)
    <2>1. TypeOK'
        BY <1>4 DEF StartLP, TypeOK, IInv, guiVars, lpProcVars, Goto, Gone
    <2>2. OthersInv'
        BY <1>4 DEF StartLP, OthersInv, IInv, Goto
    <2>3. PeerInv'
        BY <1>4 DEF StartLP, PeerInv, IInv, Closing, Goto
    <2>4. SendInv'
        BY <1>4 DEF StartLP, SendInv, IInv, Goto
    <2>5. ServerInv'
        BY <1>4 DEF StartLP, ServerInv, IInv, Goto, lpProcVars, TypeOK, OthersInv
    <2>6. SessionInv'
        BY <1>4 DEF StartLP, SessionInv, IInv, Goto, Hasty, OthersInv
    <2>7. SocketInv'
        BY <1>4 DEF StartLP, SocketInv, IInv, Goto, Hasty, Serving, Starts, guiVars
    <2>8. HeldInv'
        BY <1>4 DEF StartLP, HeldInv, IInv, Goto, Serving, Starts, guiVars
    <2>9. ProcInv'
        BY <1>4 DEF StartLP, ProcInv, IInv, Hasty, Starts, guiVars
    <2>10. QED
        BY <2>1, <2>2, <2>3, <2>4, <2>5, <2>6, <2>7, <2>8, <2>9 DEF IInv
<1>5. CASE Hold(c)
    <2>1. TypeOK'
        <3>1. held' \in BOOLEAN
            BY <1>5 DEF Hold, TypeOK, IInv, sessionVars
        <3>2. QED
            BY <1>5, <3>1 DEF Hold, TypeOK, IInv, guiVars, lpVars, listenerVars, lpProcVars,
                Goto, Starts, Gone
    <2>2. OthersInv'
        BY <1>5 DEF Hold, OthersInv, IInv, Goto
    <2>3. PeerInv'
        BY <1>5 DEF Hold, PeerInv, IInv, Closing, Goto
    <2>4. SendInv'
        BY <1>5 DEF Hold, SendInv, IInv, Goto, Serving
    <2>5. ServerInv'
        BY <1>5 DEF Hold, ServerInv, IInv, Goto, listenerVars, lpProcVars, lpVars
    <2>6. SessionInv'
        BY <1>5 DEF Hold, SessionInv, IInv, Goto, Hasty, listenerVars, lpProcVars, lpVars
    <2>7. SocketInv'
        BY <1>5 DEF Hold, SocketInv, IInv, Goto, Hasty, Serving, Starts, guiVars
    <2>8. HeldInv'
        BY <1>5 DEF Hold, HeldInv, IInv, Gone, Goto, Starts, guiVars
    <2>9. ProcInv'
        BY <1>5 DEF Hold, IInv, ProcInv, Hasty, Starts, guiVars
    <2>10. QED
        BY <2>1, <2>2, <2>3, <2>4, <2>5, <2>6, <2>7, <2>8, <2>9 DEF IInv
<1>6. CASE Shut(c)
    <2>1. TypeOK'
        <3>1. guiSock' \in BOOLEAN
            BY <1>6 DEF Shut, TypeOK, IInv
        <3>2. QED
            BY <1>6, <3>1 DEF Shut, TypeOK, IInv, lpVars, listenerVars, lpProcVars, Goto, Gone
    <2>2. OthersInv'
        BY <1>6 DEF Shut, OthersInv, IInv, Goto
    <2>3. PeerInv'
        BY <1>6 DEF Shut, PeerInv, IInv, Closing, Goto
    <2>4. SendInv'
        BY <1>6 DEF Shut, SendInv, IInv, Goto, Serving
    <2>5. ServerInv'
        BY <1>6 DEF Shut, ServerInv, IInv, Goto, Serving, listenerVars, lpProcVars, lpVars
    <2>6. SessionInv'
        BY <1>6 DEF Shut, SessionInv, IInv, Goto, Hasty, listenerVars, lpProcVars, lpVars
    <2>7. SocketInv'
        BY <1>6 DEF Shut, SocketInv, IInv, Goto, Serving, TypeOK, OthersInv, PeerInv
    <2>8. HeldInv'
        BY <1>6 DEF Shut, HeldInv, IInv, Goto, Serving, Starts
    <2>9. ProcInv'
        BY <1>6 DEF Shut, ProcInv, IInv, Goto, Hasty, Serving, Starts, OthersInv, PeerInv, ServerInv
    <2>10. QED
        BY <2>1, <2>2, <2>3, <2>4, <2>5, <2>6, <2>7, <2>8, <2>9 DEF IInv
<1>7. CASE Nudge(c)
    <2>1. TypeOK'
        BY <1>7 DEF Nudge, TypeOK, IInv, lpVars, listenerVars, lpProcVars, Goto, GuiListening, Gone
    <2>2. OthersInv'
        BY <1>7 DEF Nudge, OthersInv, IInv, Goto
    <2>3. PeerInv'
        BY <1>7 DEF Nudge, PeerInv, IInv, Closing, Goto
    <2>4. SendInv'
        BY <1>7 DEF Nudge, SendInv, IInv, Goto, Serving
    <2>5. ServerInv'
        BY <1>7 DEF Nudge, ServerInv, IInv, Goto, Serving, listenerVars, lpProcVars, lpVars
    <2>6. SessionInv'
        BY <1>7 DEF Nudge, SessionInv, IInv, Goto, Hasty, listenerVars, lpProcVars, lpVars
    <2>7. SocketInv'
        BY <1>7 DEF Nudge, SocketInv, IInv, Goto, Hasty, Serving, Starts
    <2>8. HeldInv'
        BY <1>7 DEF Nudge, HeldInv, IInv, Goto, Serving, Starts
    <2>9. ProcInv'
        BY <1>7 DEF Nudge, IInv, ProcInv, Hasty, Starts
    <2>10. QED
        BY <2>1, <2>2, <2>3, <2>4, <2>5, <2>6, <2>7, <2>8, <2>9 DEF IInv
<1>8. CASE CloseSession(c)
    <2>1. TypeOK'
        BY <1>8 DEF CloseSession, TypeOK, IInv, guiVars, lpProcVars, Goto, Gone
    <2>2. OthersInv'
        BY <1>8 DEF CloseSession, OthersInv, IInv, Goto
    <2>3. PeerInv'
        BY <1>8 DEF CloseSession, PeerInv, IInv, Goto
    <2>4. SendInv'
        BY <1>8 DEF CloseSession, SendInv, IInv, Goto, Serving
    <2>5. ServerInv'
        BY <1>8 DEF CloseSession, ServerInv, IInv, Goto, Serving, lpProcVars
    <2>6. SessionInv'
        BY <1>8 DEF CloseSession, SessionInv, IInv, Goto, Hasty, lpProcVars
    <2>7. SocketInv'
        BY <1>8 DEF CloseSession, SocketInv, IInv, Goto, Hasty, Serving, Starts, guiVars
    <2>8. HeldInv'
        BY <1>8 DEF CloseSession, HeldInv, IInv, Goto, Serving, Starts, guiVars
    <2>9. ProcInv'
        BY <1>8 DEF CloseSession, IInv, ProcInv, Hasty, Starts, guiVars
    <2>10. QED
        BY <2>1, <2>2, <2>3, <2>4, <2>5, <2>6, <2>7, <2>8, <2>9 DEF IInv
<1>9. CASE NudgeLP(c)
    <2>1. TypeOK'
        BY <1>9 DEF NudgeLP, TypeOK, IInv, guiVars, lpProcVars, Goto, Gone
    <2>2. OthersInv'
        BY <1>9 DEF NudgeLP, OthersInv, IInv, Goto
    <2>3. PeerInv'
        BY <1>9 DEF NudgeLP, PeerInv, IInv, Closing, Goto
    <2>4. SendInv'
        BY <1>9 DEF NudgeLP, SendInv, IInv, Goto, Serving
    <2>5. ServerInv'
        BY <1>9 DEF NudgeLP, ServerInv, IInv, Goto, Serving, lpProcVars
    <2>6. SessionInv'
        BY <1>9 DEF NudgeLP, SessionInv, IInv, Goto, Hasty, lpProcVars
    <2>7. SocketInv'
        BY <1>9 DEF NudgeLP, SocketInv, IInv, Goto, Hasty, Serving, Starts, guiVars
    <2>8. HeldInv'
        BY <1>9 DEF NudgeLP, HeldInv, IInv, Goto, Serving, Starts, guiVars
    <2>9. ProcInv'
        BY <1>9 DEF NudgeLP, IInv, ProcInv, Hasty, Starts, guiVars
    <2>10. QED
        BY <2>1, <2>2, <2>3, <2>4, <2>5, <2>6, <2>7, <2>8, <2>9 DEF IInv
<1>10. CASE KillLP(c)
    <2>1. TypeOK'
        BY <1>10 DEF KillLP, TypeOK, IInv, guiVars, listenerVars, Goto, Gone
    <2>2. OthersInv'
        BY <1>10 DEF KillLP, OthersInv, IInv, Goto
    <2>3. PeerInv'
        BY <1>10 DEF KillLP, PeerInv, IInv, Closing, Goto
    <2>4. SendInv'
        BY <1>10 DEF KillLP, SendInv, IInv, Goto, Serving
    <2>5. ServerInv'
        BY <1>10 DEF KillLP, ServerInv, IInv, Goto, Serving, listenerVars
    <2>6. SessionInv'
        BY <1>10 DEF KillLP, SessionInv, IInv, Closing, Goto, Hasty, listenerVars, PeerInv,
            ServerInv
    <2>7. SocketInv'
        BY <1>10 DEF KillLP, SocketInv, IInv, Goto, Hasty, Serving, Starts, guiVars
    <2>8. HeldInv'
        BY <1>10 DEF KillLP, HeldInv, IInv, Goto, Serving, Starts, guiVars
    <2>9. ProcInv'
        BY <1>10 DEF KillLP, IInv, ProcInv, Hasty, Starts, guiVars
    <2>10. QED
        BY <2>1, <2>2, <2>3, <2>4, <2>5, <2>6, <2>7, <2>8, <2>9 DEF IInv
<1>11. CASE JoinLP(c)
    <2>1. TypeOK'
        BY <1>11 DEF JoinLP, TypeOK, IInv, guiVars, lpVars, listenerVars, lpProcVars, Goto, Gone
    <2>2. OthersInv'
        BY <1>11 DEF JoinLP, OthersInv, IInv, Goto
    <2>3. PeerInv'
        BY <1>11 DEF JoinLP, PeerInv, IInv, Closing, Goto
    <2>4. SendInv'
        BY <1>11 DEF JoinLP, SendInv, IInv, Goto, Serving
    <2>5. ServerInv'
        BY <1>11 DEF JoinLP, ServerInv, IInv, Goto, Serving, listenerVars, lpProcVars, lpVars
    <2>6. SessionInv'
        BY <1>11 DEF JoinLP, SessionInv, IInv, Goto, Hasty, listenerVars, lpProcVars, lpVars
    <2>7. SocketInv'
        BY <1>11 DEF JoinLP, SocketInv, IInv, Goto, Hasty, Serving, Starts, guiVars
    <2>8. HeldInv'
        BY <1>11 DEF JoinLP, HeldInv, IInv, Goto, Serving, Starts, guiVars
    <2>9. ProcInv'
        BY <1>11 DEF JoinLP, IInv, ProcInv, Hasty, Starts, guiVars
    <2>10. QED
        BY <2>1, <2>2, <2>3, <2>4, <2>5, <2>6, <2>7, <2>8, <2>9 DEF IInv
<1>12. CASE Clear(c)
    <2>1. TypeOK'
        BY <1>12 DEF Clear, TypeOK, IInv, guiVars, lpVars, listenerVars, lpProcVars, Goto, Gone
    <2>2. OthersInv'
        BY <1>12 DEF Clear, OthersInv, IInv, Goto
    <2>3. PeerInv'
        BY <1>12 DEF Clear, PeerInv, IInv, Closing, Goto
    <2>4. SendInv'
        BY <1>12 DEF Clear, SendInv, IInv
    <2>5. ServerInv'
        BY <1>12 DEF Clear, ServerInv, IInv, Goto, Serving, listenerVars, lpProcVars, lpVars
    <2>6. SessionInv'
        BY <1>12 DEF Clear, SessionInv, IInv, Goto, Hasty, listenerVars, lpProcVars, lpVars
    <2>7. SocketInv'
        BY <1>12 DEF Clear, SocketInv, IInv, Goto, Hasty, Serving, Starts, guiVars
    <2>8. HeldInv'
        BY <1>12 DEF Clear, HeldInv, IInv, Goto, Serving, Starts, guiVars
    <2>9. ProcInv'
        BY <1>12 DEF Clear, IInv, ProcInv, Hasty, Starts, guiVars
    <2>10. QED
        BY <2>1, <2>2, <2>3, <2>4, <2>5, <2>6, <2>7, <2>8, <2>9 DEF IInv
<1>13. CASE Unlock(c)
    <2>1. TypeOK'
        <3>1. held' \in BOOLEAN
            BY <1>13 DEF Unlock, TypeOK, IInv
        <3>2. QED
            BY <1>13, <3>1 DEF Unlock, TypeOK, IInv, guiVars, lpVars, listenerVars, lpProcVars,
                Goto, Gone
    <2>2. OthersInv'
        BY <1>13 DEF Unlock, OthersInv, IInv, Goto
    <2>3. PeerInv'
        BY <1>13 DEF Unlock, PeerInv, IInv, Closing, Goto
    <2>4. SendInv'
        BY <1>13 DEF Unlock, SendInv, IInv, Goto
    <2>5. ServerInv'
        BY <1>13 DEF Unlock, ServerInv, IInv, Goto, Serving, listenerVars, lpProcVars, lpVars
    <2>6. SessionInv'
        BY <1>13 DEF Unlock, SessionInv, IInv, Goto, Hasty, listenerVars, lpProcVars, lpVars
    <2>7. SocketInv'
        BY <1>13 DEF Unlock, SocketInv, IInv, Goto, Hasty, Starts, guiVars
    <2>8. HeldInv'
        BY <1>13 DEF Unlock, HeldInv, IInv, Goto, Serving, Starts, guiVars, TypeOK, OthersInv
    <2>9. ProcInv'
        BY <1>13 DEF Unlock, IInv, ProcInv, Hasty, Starts, guiVars
    <2>10. QED
        BY <2>1, <2>2, <2>3, <2>4, <2>5, <2>6, <2>7, <2>8, <2>9 DEF IInv
<1>14. CASE StartBuild(c)
    <2>1. TypeOK'
        BY <1>14 DEF StartBuild, TypeOK, IInv, guiVars, lpVars, listenerVars, lpProcVars, Goto, Gone
    <2>2. OthersInv'
        BY <1>14 DEF StartBuild, OthersInv, IInv, Goto
    <2>3. PeerInv'
        BY <1>14 DEF StartBuild, PeerInv, IInv, Goto
    <2>4. SendInv'
        BY <1>14 DEF StartBuild, SendInv, IInv, Goto
    <2>5. ServerInv'
        BY <1>14 DEF StartBuild, ServerInv, IInv, Goto, listenerVars, lpProcVars, lpVars
    <2>6. SessionInv'
        BY <1>14 DEF StartBuild, SessionInv, IInv, Goto, Hasty, listenerVars, lpProcVars, lpVars
    <2>7. SocketInv'
        BY <1>14 DEF StartBuild, SocketInv, IInv, Goto, Hasty, Starts, guiVars
    <2>8. HeldInv'
        BY <1>14 DEF StartBuild, HeldInv, IInv, Goto, Starts, guiVars
    <2>9. ProcInv'
        BY <1>14 DEF StartBuild, IInv, ProcInv, Hasty, Starts, guiVars
    <2>10. QED
        BY <2>1, <2>2, <2>3, <2>4, <2>5, <2>6, <2>7, <2>8, <2>9 DEF IInv
<1>15. QED
    BY <1>1, <1>2, <1>3, <1>4, <1>5, <1>6, <1>7, <1>8, <1>9, <1>10, <1>11, <1>12, <1>13,
        <1>14 DEF Communicate

\* The log presentation: its listener, its connection and its process.
LEMMA PresentationStep ==
    ASSUME IInv, LPListener \/ LPForward \/ LPConnects \/ LPSends \/ LPEnds
    PROVE  IInv'
<1>1. CASE LListen
    <2>1. TypeOK'
        <3>1. lpSock' \in BOOLEAN /\ lpListener' \in BOOLEAN
            BY <1>1 DEF LListen, TypeOK, IInv
        <3>2. QED
            BY <1>1, <3>1 DEF LListen, TypeOK, IInv, guiVars, sessionVars, Gone
    <2>2. ServerInv'
        BY <1>1 DEF LListen, ServerInv, IInv, sessionVars
    <2>3. SessionInv'
        BY <1>1 DEF LListen, SessionInv, IInv, Closing, Hasty, sessionVars, PeerInv, ServerInv
    <2>4. OthersInv' /\ PeerInv' /\ SendInv' /\ SocketInv' /\ HeldInv' /\ ProcInv'
        BY <1>1 DEF LListen, IInv, OthersInv, PeerInv, SendInv, SocketInv, HeldInv, ProcInv, Hasty,
            Starts, guiVars, sessionVars
    <2>5. QED
        BY <2>1, <2>2, <2>3, <2>4 DEF IInv
<1>2. CASE Ready
    <2>1. TypeOK'
        BY <1>2 DEF Ready, TypeOK, IInv, guiVars, sessionVars, Gone
    <2>2. ServerInv'
        BY <1>2 DEF Ready, ServerInv, IInv, Starts, sessionVars, TypeOK, SessionInv, SocketInv
    <2>3. SessionInv'
        BY <1>2 DEF Ready, SessionInv, IInv, Hasty, sessionVars
    <2>4. OthersInv' /\ PeerInv' /\ SendInv' /\ SocketInv' /\ HeldInv' /\ ProcInv'
        BY <1>2 DEF Ready, IInv, OthersInv, PeerInv, SendInv, SocketInv, HeldInv, ProcInv, Hasty,
            Starts, guiVars, sessionVars
    <2>5. QED
        BY <2>1, <2>2, <2>3, <2>4 DEF IInv
<1>3. CASE LCheck
    <2>1. TypeOK'
        BY <1>3 DEF LCheck, TypeOK, IInv, guiVars, sessionVars, lpProcVars, Gone
    <2>2. ServerInv'
        BY <1>3 DEF LCheck, ServerInv, IInv, lpProcVars, sessionVars
    <2>3. SessionInv'
        BY <1>3 DEF LCheck, SessionInv, IInv, Hasty, lpProcVars, sessionVars
    <2>4. OthersInv' /\ PeerInv' /\ SendInv' /\ SocketInv' /\ HeldInv' /\ ProcInv'
        BY <1>3 DEF LCheck, IInv, OthersInv, PeerInv, SendInv, SocketInv, HeldInv, ProcInv, Hasty,
            Starts, guiVars, sessionVars
    <2>5. QED
        BY <2>1, <2>2, <2>3, <2>4 DEF IInv
<1>4. CASE LAccept
    <2>1. TypeOK'
        <3>1. lpNudge' \in BOOLEAN /\ lpConn' \in BOOLEAN
            BY <1>4 DEF LAccept, TypeOK, IInv
        <3>2. QED
            BY <1>4, <3>1 DEF LAccept, TypeOK, IInv, guiVars, sessionVars, Gone
    <2>2. SendInv'
        BY <1>4 DEF LAccept, SendInv, IInv, sessionVars
    <2>3. ServerInv'
        BY <1>4 DEF LAccept, ServerInv, IInv, sessionVars
    <2>4. SessionInv'
        BY <1>4 DEF LAccept, SessionInv, IInv, Hasty, sessionVars
    <2>5. OthersInv' /\ PeerInv' /\ SocketInv' /\ HeldInv' /\ ProcInv'
        BY <1>4 DEF LAccept, IInv, OthersInv, PeerInv, SocketInv, HeldInv, ProcInv, Hasty, Starts,
            guiVars, sessionVars
    <2>6. QED
        BY <2>1, <2>2, <2>3, <2>4, <2>5 DEF IInv
<1>5. CASE Forward
    <2>1. TypeOK'
        <3>1. inbox' \in BOOLEAN
            BY <1>5 DEF Forward, TypeOK, IInv
        <3>2. QED
            BY <1>5, <3>1 DEF Forward, TypeOK, IInv, guiVars, sessionVars, listenerVars, Gone
    <2>2. SendInv'
        BY <1>5 DEF Forward, SendInv, IInv, sessionVars
    <2>3. OthersInv' /\ PeerInv' /\ ServerInv' /\ SessionInv' /\ SocketInv' /\ HeldInv' /\ ProcInv'
        BY <1>5 DEF Forward, IInv, OthersInv, PeerInv, ServerInv, SessionInv, SocketInv, HeldInv,
            ProcInv, Hasty, Starts, guiVars, listenerVars, sessionVars
    <2>4. QED
        BY <2>1, <2>2, <2>3 DEF IInv
<1>6. CASE Forwarded
    <2>1. TypeOK'
        BY <1>6 DEF Forwarded, TypeOK, IInv, guiVars, sessionVars, lpVars, listenerVars, lpProcVars,
            Gone
    <2>2. SendInv'
        BY <1>6 DEF Forwarded, SendInv, IInv, sessionVars
    <2>3. OthersInv' /\ PeerInv' /\ ServerInv' /\ SessionInv' /\ SocketInv' /\ HeldInv' /\ ProcInv'
        BY <1>6 DEF Forwarded, IInv, OthersInv, PeerInv, ServerInv, SessionInv, SocketInv, HeldInv,
            ProcInv, Hasty, Starts, guiVars, listenerVars, lpProcVars, lpVars, sessionVars
    <2>4. QED
        BY <2>1, <2>2, <2>3 DEF IInv
<1>7. CASE Disconnected
    <2>1. TypeOK'
        BY <1>7 DEF Disconnected, TypeOK, IInv, guiVars, sessionVars, lpVars, listenerVars,
            lpProcVars, Gone
    <2>2. SendInv'
        BY <1>7 DEF Disconnected, SendInv, IInv, sessionVars
    <2>3. OthersInv' /\ PeerInv' /\ ServerInv' /\ SessionInv' /\ SocketInv' /\ HeldInv' /\ ProcInv'
        BY <1>7 DEF Disconnected, IInv, OthersInv, PeerInv, ServerInv, SessionInv, SocketInv,
            HeldInv, ProcInv, Hasty, Starts, guiVars, listenerVars, lpProcVars, lpVars, sessionVars
    <2>4. QED
        BY <2>1, <2>2, <2>3 DEF IInv
<1>8. CASE LPConnects
    <2>1. TypeOK'
        BY <1>8 DEF LPConnects, TypeOK, IInv, guiVars, sessionVars, listenerVars
    <2>2. OthersInv' /\ PeerInv' /\ SendInv' /\ ServerInv' /\ SessionInv' /\ SocketInv' /\ HeldInv' /\ ProcInv'
        BY <1>8 DEF LPConnects, IInv, OthersInv, PeerInv, SendInv, ServerInv, SessionInv, SocketInv,
            HeldInv, ProcInv, Hasty, Starts, guiVars, listenerVars, sessionVars
    <2>3. QED
        BY <2>1, <2>2 DEF IInv
<1>9. CASE LPSends
    <2>1. TypeOK'
        BY <1>9 DEF LPSends, TypeOK, IInv, guiVars, sessionVars, listenerVars
    <2>2. OthersInv' /\ PeerInv' /\ SendInv' /\ ServerInv' /\ SessionInv' /\ SocketInv' /\ HeldInv' /\ ProcInv'
        BY <1>9 DEF LPSends, IInv, OthersInv, PeerInv, SendInv, ServerInv, SessionInv, SocketInv,
            HeldInv, ProcInv, Hasty, Starts, guiVars, listenerVars, sessionVars
    <2>3. QED
        BY <2>1, <2>2 DEF IInv
<1>10. CASE LPEnds
    <2>1. TypeOK'
        BY <1>10 DEF LPEnds, TypeOK, IInv, guiVars, sessionVars, listenerVars
    <2>2. ServerInv'
        BY <1>10 DEF LPEnds, ServerInv, IInv, listenerVars, sessionVars
    <2>3. SessionInv'
        BY <1>10 DEF LPEnds, SessionInv, IInv, Hasty, listenerVars, sessionVars
    <2>4. OthersInv' /\ PeerInv' /\ SendInv' /\ SocketInv' /\ HeldInv' /\ ProcInv'
        BY <1>10 DEF LPEnds, IInv, OthersInv, PeerInv, SendInv, SocketInv, HeldInv, ProcInv, Hasty,
            Starts, guiVars, sessionVars
    <2>5. QED
        BY <2>1, <2>2, <2>3, <2>4 DEF IInv
<1>11. QED
    BY <1>1, <1>2, <1>3, <1>4, <1>5, <1>6, <1>7, <1>8, <1>9, <1>10 DEF LPListener, LPForward

\* The other ends of the connections.
LEMMA PeerStep ==
    ASSUME NEW c \in Conn, IInv, Peer(c)
    PROVE  IInv'
<1>1. CASE Connect(c)
    <2>1. TypeOK'
        BY <1>1 DEF Connect, TypeOK, IInv, guiVars, lpVars, listenerVars, lpProcVars, GuiListening,
            Starts
    <2>2. OthersInv'
        BY <1>1 DEF Connect, OthersInv, IInv
    <2>3. PeerInv'
        BY <1>1 DEF Connect, PeerInv, IInv
    <2>4. SessionInv'
        BY <1>1 DEF Connect, SessionInv, IInv, Hasty, listenerVars, lpProcVars, lpVars
    <2>5. SocketInv'
        BY <1>1 DEF Connect, SocketInv, IInv, GuiListening, Hasty, Starts, guiVars
    <2>6. ProcInv'
        BY <1>1 DEF Connect, ProcInv, IInv, Hasty, Starts, guiVars
    <2>7. SendInv' /\ ServerInv' /\ HeldInv'
        BY <1>1 DEF Connect, IInv, SendInv, ServerInv, HeldInv, Starts, guiVars, listenerVars,
            lpProcVars, lpVars
    <2>8. QED
        BY <2>1, <2>2, <2>3, <2>4, <2>5, <2>6, <2>7 DEF IInv
<1>2. CASE Send(c)
    <2>1. TypeOK'
        BY <1>2 DEF Send, TypeOK, IInv, guiVars, lpVars, listenerVars, lpProcVars
    <2>2. OthersInv'
        BY <1>2 DEF Send, OthersInv, IInv
    <2>3. PeerInv'
        BY <1>2 DEF Send, PeerInv, IInv
    <2>4. SessionInv'
        BY <1>2 DEF Send, SessionInv, IInv, Hasty, listenerVars, lpProcVars, lpVars
    <2>5. SocketInv'
        BY <1>2 DEF Send, SocketInv, IInv, Hasty, Starts, guiVars
    <2>6. ProcInv'
        BY <1>2 DEF Send, ProcInv, IInv, Hasty, Starts, guiVars
    <2>7. SendInv' /\ ServerInv' /\ HeldInv'
        BY <1>2 DEF Send, IInv, SendInv, ServerInv, HeldInv, Starts, guiVars, listenerVars,
            lpProcVars, lpVars
    <2>8. QED
        BY <2>1, <2>2, <2>3, <2>4, <2>5, <2>6, <2>7 DEF IInv
<1>3. CASE Close(c)
    <2>1. TypeOK'
        BY <1>3 DEF Close, TypeOK, IInv, lpVars, listenerVars, lpProcVars, Starts, Hasty
    <2>2. OthersInv'
        BY <1>3 DEF Close, OthersInv, IInv
    <2>3. PeerInv'
        BY <1>3 DEF Close, PeerInv, IInv
    <2>4. SessionInv'
        BY <1>3 DEF Close, SessionInv, IInv, Hasty, listenerVars, lpProcVars, lpVars
    <2>5. SocketInv'
        BY <1>3 DEF Close, SocketInv, IInv, Hasty, Starts
    <2>6. ProcInv'
        BY <1>3 DEF Close, ProcInv, IInv, Hasty, Serving, Starts, ServerInv
    <2>7. SendInv' /\ ServerInv' /\ HeldInv'
        BY <1>3 DEF Close, IInv, SendInv, ServerInv, HeldInv, Starts, listenerVars, lpProcVars,
            lpVars
    <2>8. QED
        BY <2>1, <2>2, <2>3, <2>4, <2>5, <2>6, <2>7 DEF IInv
<1>4. QED
    BY <1>1, <1>2, <1>3 DEF Peer

\* A build that waits for the log presentation, and a GUI that ends before it connects.
LEMMA BuilderStep ==
    ASSUME IInv, Builder \/ GuiFails
    PROVE  IInv'
<1>1. CASE EnsureReady
    <2>1. TypeOK'
        BY <1>1 DEF EnsureReady, TypeOK, IInv, guiVars, sessionVars, lpVars, listenerVars,
            lpProcVars, Gone
    <2>2. OthersInv' /\ PeerInv' /\ SendInv' /\ ServerInv' /\ SessionInv' /\ SocketInv' /\ HeldInv' /\ ProcInv'
        BY <1>1 DEF EnsureReady, IInv, OthersInv, PeerInv, SendInv, ServerInv, SessionInv,
            SocketInv, HeldInv, ProcInv, Hasty, Starts, guiVars, listenerVars, lpProcVars, lpVars,
            sessionVars
    <2>3. QED
        BY <2>1, <2>2 DEF IInv
<1>2. CASE Poll
    <2>1. TypeOK'
        BY <1>2 DEF Poll, TypeOK, IInv, guiVars, sessionVars, lpVars, listenerVars, lpProcVars, Gone
    <2>2. OthersInv' /\ PeerInv' /\ SendInv' /\ ServerInv' /\ SessionInv' /\ SocketInv' /\ HeldInv' /\ ProcInv'
        BY <1>2 DEF Poll, IInv, OthersInv, PeerInv, SendInv, ServerInv, SessionInv, SocketInv,
            HeldInv, ProcInv, Hasty, Starts, guiVars, listenerVars, lpProcVars, lpVars, sessionVars
    <2>3. QED
        BY <2>1, <2>2 DEF IInv
<1>3. CASE GuiFails
    <2>1. TypeOK'
        BY <1>3 DEF GuiFails, TypeOK, IInv, sessionVars, lpVars, listenerVars, lpProcVars
    <2>2. SocketInv'
        BY <1>3 DEF GuiFails, SocketInv, IInv, Starts, sessionVars
    <2>3. ProcInv'
        BY <1>3 DEF GuiFails, ProcInv, IInv, Hasty, Starts, sessionVars
    <2>4. OthersInv' /\ PeerInv' /\ SendInv' /\ ServerInv' /\ SessionInv' /\ HeldInv'
        BY <1>3 DEF GuiFails, IInv, OthersInv, PeerInv, SendInv, ServerInv, SessionInv, HeldInv,
            Starts, listenerVars, lpProcVars, lpVars, sessionVars
    <2>5. QED
        BY <2>1, <2>2, <2>3, <2>4 DEF IInv
<1>4. QED
    BY <1>1, <1>2, <1>3 DEF Builder

LEMMA InitStep == Init => IInv
<1> SUFFICES ASSUME Init
    PROVE  IInv
    OBVIOUS
<1>1. TypeOK
    BY DEF Init, TypeOK
<1>2. OthersInv /\ PeerInv /\ SendInv
    BY DEF Init, OthersInv, PeerInv, SendInv, Closing
<1>3. ServerInv /\ SessionInv
    BY DEF Init, ServerInv, SessionInv, Serving
<1>4. SocketInv /\ HeldInv /\ ProcInv
    BY DEF Init, SocketInv, HeldInv, ProcInv, Serving
<1>5. QED
    BY <1>1, <1>2, <1>3, <1>4 DEF IInv

LEMMA NextStep == IInv /\ [Next]_vars => IInv'
<1> SUFFICES ASSUME IInv, [Next]_vars
    PROVE  IInv'
    OBVIOUS
<1>1. CASE GuiListener \/ GuiThread
    BY <1>1, ListenerStep
<1>2. ASSUME NEW c \in Conn, Communicate(c) \/ StartBuild(c)
      PROVE  IInv'
    BY <1>2, SessionStep
<1>3. ASSUME NEW c \in Conn, Peer(c)
      PROVE  IInv'
    BY <1>3, PeerStep
<1>4. CASE LPListener \/ LPForward \/ LPConnects \/ LPSends \/ LPEnds
    BY <1>4, PresentationStep
<1>5. CASE Builder \/ GuiFails
    BY <1>5, BuilderStep
<1>6. CASE UNCHANGED vars
    <2>1. TypeOK'
        BY <1>6 DEF IInv, TypeOK, vars, guiVars, sessionVars, lpVars, listenerVars, lpProcVars
    <2>2. OthersInv' /\ PeerInv' /\ SendInv' /\ ServerInv' /\ SessionInv'
        BY <1>6 DEF IInv, OthersInv, PeerInv, SendInv, ServerInv, SessionInv, Hasty, Serving,
            Closing,
            vars, guiVars, sessionVars, lpVars, listenerVars, lpProcVars
    <2>3. SocketInv' /\ HeldInv' /\ ProcInv'
        BY <1>6 DEF IInv, SocketInv, HeldInv, ProcInv, Starts, Hasty, Serving,
            vars, guiVars, sessionVars, lpVars, listenerVars, lpProcVars
    <2>4. QED
        BY <2>1, <2>2, <2>3 DEF IInv
<1>7. QED
    BY <1>1, <1>2, <1>3, <1>4, <1>5, <1>6 DEF Next

\* The invariant holds for any number of connections that send nothing.
THEOREM Inductive == Spec => []IInv
<1>1. QED
    BY InitStep, NextStep, PTL DEF Spec

\* Every variable keeps its type.
THEOREM Typing == Spec => []TypeOK
<1>1. IInv => TypeOK
    BY DEF IInv
<1>2. QED
    BY <1>1, Inductive, PTL

\* The thread of the log presentation sends on the connection of a thread that
\* still communicates (ServerToGUI::communicate publishes its own connection and
\* clears it under connection_guard before it ends).
THEOREM SendsAreSafe == Spec => []SendsOnOpenConnection
<1>1. IInv => SendsOnOpenConnection
    BY DEF IInv, SendInv, Serving, SendsOnOpenConnection
<1>2. QED
    BY <1>1, Inductive, PTL

\* The driver of a GUI started by hand does not end under its session, and leaves
\* neither the log presentation's listener nor its process behind.
THEOREM SessionOutlived == Spec => []ExitAfterSession
<1>1. IInv => ExitAfterSession
    <2> SUFFICES ASSUME IInv, Gone, ~Starts
        PROVE  /\ \A c \in Conn : conn[c] \in {"none", "first", "test", "over"}
               /\ ~Hasty => l \in {"none", "over"} /\ lp # "running"
        BY DEF ExitAfterSession
    <2>1. conn[Gui] \in {"none", "first", "test", "over"}
        BY DEF IInv, TypeOK, SocketInv, HeldInv, PeerInv, Gone, Serving
    <2>2. \A c \in Conn : conn[c] \in {"none", "first", "test", "over"}
        BY <2>1 DEF IInv, OthersInv
    <2>3. ASSUME ~Hasty
          PROVE  l \in {"none", "over"} /\ lp # "running"
        BY <2>1, <2>3 DEF IInv, ServerInv, SessionInv
    <2>4. QED
        BY <2>2, <2>3
<1>2. QED
    BY <1>1, Inductive, PTL

\* A thread that shuts the GUI listener finds it, unless the driver has started a
\* GUI that may close before the session is open (GUIThread::run then shuts it as
\* well, and the comment there accepts that the object may be gone).
THEOREM ListenerIsThere ==
    ASSUME <<TRUE, TRUE>> \notin Modes
    PROVE  Spec => []ListenerLives
<1>1. IInv => ListenerLives
    <2> SUFFICES ASSUME IInv
        PROVE  ListenerLives
        OBVIOUS
    <2>1. ~(Starts /\ Hasty)
        <3>1. PICK x \in BOOLEAN, y \in BOOLEAN : mode = <<x, y>>
            BY DEF IInv, TypeOK
        <3>2. mode[1] = x /\ mode[2] = y
            BY <3>1
        <3>3. SUFFICES ASSUME x, y
              PROVE  FALSE
            BY <3>2, Zenon DEF Starts, Hasty
        <3>4. x = TRUE /\ y = TRUE
            BY <3>3, Zenon
        <3>5. mode = <<TRUE, TRUE>>
            BY <3>1, <3>4, Zenon
        <3>6. QED
            BY <3>5 DEF IInv, TypeOK
    <2>2. ASSUME t = "shut"
          PROVE  GuiListening
        BY <2>1, <2>2 DEF IInv, TypeOK, SocketInv, HeldInv, ProcInv, GuiListening
    <2>3. ASSUME NEW c \in Conn, conn[c] = "shut"
          PROVE  GuiListening
        <3>1. c = Gui /\ peer[Gui] # "none"
            BY <2>3 DEF IInv, OthersInv, PeerInv
        <3>2. guiSock
            BY <2>1, <2>3, <3>1 DEF IInv, SocketInv, Serving
        <3>3. QED
            BY <3>1, <3>2 DEF IInv, TypeOK, SocketInv, GuiListening
    <2>4. QED
        BY <2>2, <2>3 DEF ListenerLives
<1>2. QED
    BY <1>1, Inductive, PTL
=============================================================================
