----------------------- MODULE LogPresentation_proofs -----------------------
(* Proofs about LogPresentation, for any commands, groups and configuration. *)
EXTENDS LogPresentation, TLAPS

\* What a step of Next is.
LEMMA Steps ==
    ASSUME Next
    PROVE  \/ \E c \in Command :
                 \/ Start(c) \/ Launch(c) \/ SendDone(c)
                 \/ Announce(c) \/ Finalize(c) \/ Finish(c) \/ End(c)
                 \/ ReceiveReset(c) \/ ReceiveDone(c)
           \/ \E p \in Command \cup Group :
                 \/ Say(p) \/ Receive(p)
                 \/ \E g \in Group : Spawn(p, g)
           \/ TakeMsg \/ Climb \/ TakeSpawn \/ TakeTask \/ TakeStart \/ TakeReset
           \/ TakeFinalize \/ TakeQa \/ TakeTaskDone \/ TakeDone
BY DEF Next, Processor

LEMMA SameScenario == [Next]_vars => scenario' = scenario
BY DEF Next, vars
-----------------------------------------------------------------------------
(* Messages *)

\* The fields of a message, by its kind.
LEMMA Fields ==
    ASSUME NEW m \in Message
    PROVE  /\ m.kind = "msg" => m.node \in Node /\ m.sev \in Severity
           /\ m.kind = "spawn" => m.node \in Group
           /\ m.kind \in Kind \cup {"done"} => m.cmd \in Command
BY DEF Message, Report, Kind

LEMMA Sendable ==
    /\ \A n \in Node, s \in Severity : [kind |-> "msg", node |-> n, sev |-> s] \in Report
    /\ \A g \in Group : [kind |-> "spawn", node |-> g] \in Report
    /\ \A k \in Kind, c \in Command : [kind |-> k, cmd |-> c] \in Report
    /\ \A k \in {"finalize pass", "qa calliper", "task done"} : Note(k) \in Report
BY DEF Report, Note

LEMMA Received ==
    /\ Report \subseteq Message /\ Note("reset") \in Message
    /\ \A c \in Command : [kind |-> "done", cmd |-> c] \in Message
    /\ \A m \in Report : m.kind \notin {"reset", "done"}
BY DEF Report, Message, Note, Kind

LEMMA HeadTail ==
    ASSUME NEW S, NEW q \in Seq(S), q # <<>>
    PROVE  /\ Head(q) \in S /\ Tail(q) \in Seq(S)
           /\ 1 \in 1 .. Len(q) /\ Head(q) = q[1]
           /\ \A i \in 1 .. Len(Tail(q)) : i + 1 \in 1 .. Len(q) /\ Tail(q)[i] = q[i + 1]
           /\ \A i \in 1 .. Len(q) : i = 1 \/ (i - 1 \in 1 .. Len(Tail(q)) /\ Tail(q)[i - 1] = q[i])
OBVIOUS

LEMMA Appended ==
    ASSUME NEW S, NEW q \in Seq(S), NEW m \in S
    PROVE  /\ Append(q, m) \in Seq(S)
           /\ \A i \in 1 .. Len(q) : i \in 1 .. Len(Append(q, m)) /\ Append(q, m)[i] = q[i]
           /\ Len(q) + 1 \in 1 .. Len(Append(q, m)) /\ Append(q, m)[Len(q) + 1] = m
           /\ \A i \in 1 .. Len(Append(q, m)) : i \in 1 .. Len(q) \/ i = Len(q) + 1
OBVIOUS

\* The message that is taken is the first one; the others move up.
LEMMA Taken ==
    ASSUME MessageTypes, NEW k, Take(k)
    PROVE  /\ Head(messages) \in Message /\ Head(messages).kind = k
           /\ 1 \in 1 .. Len(messages) /\ Head(messages) = messages[1]
           /\ \A i \in 1 .. Len(messages') : i + 1 \in 1 .. Len(messages) /\ messages'[i] = messages[i + 1]
           /\ \A i \in 1 .. Len(messages) : i = 1 \/ (i - 1 \in 1 .. Len(messages') /\ messages'[i - 1] = messages[i])
BY HeadTail DEF Take, MessageTypes

LEMMA Severities ==
    /\ Normal \in Severity /\ Catastrophe \in Severity
    /\ \A n \in Node, b \in BOOLEAN, s \in Severity : Filter[n][b][s] \in Severity
BY FilterAssumption DEF Normal, Catastrophe, Severity
-----------------------------------------------------------------------------
(* Types *)

\* The types of the control state.
LEMMA ControlStep == ControlTypes /\ MessageTypes /\ [Next]_vars => ControlTypes'
<1> SUFFICES ASSUME ControlTypes, MessageTypes, Next, scenario' = scenario PROVE ControlTypes'
  BY SameScenario DEF ControlTypes, vars, driving, processes, sockets, groups, progress, screen
<1>1. ASSUME NEW c \in Command, Start(c) PROVE ControlTypes'
  BY <1>1, ScenarioAssumption DEF Start, ControlTypes, vars, driving, processes, sockets, groups, progress, screen
<1>2. ASSUME NEW c \in Command, Launch(c) PROVE ControlTypes'
  BY <1>2 DEF Launch, ControlTypes, vars, driving, processes, sockets, groups, progress, screen
<1>3. ASSUME NEW c \in Command, SendDone(c) PROVE ControlTypes'
  BY <1>3 DEF SendDone, ControlTypes, vars, driving, processes, sockets, groups, progress, screen
<1>4. ASSUME NEW c \in Command, Announce(c) PROVE ControlTypes'
  BY <1>4 DEF Announce, Send, ControlTypes, vars, driving, processes, sockets, groups, progress, screen
<1>5. ASSUME NEW c \in Command, Finalize(c) PROVE ControlTypes'
  BY <1>5 DEF Finalize, Send, ControlTypes, vars, driving, processes, sockets, groups, progress, screen
<1>6. ASSUME NEW c \in Command, Finish(c) PROVE ControlTypes'
  BY <1>6 DEF Finish, Send, ControlTypes, vars, driving, processes, sockets, groups, progress, screen
<1>7. ASSUME NEW c \in Command, End(c) PROVE ControlTypes'
  BY <1>7 DEF End, ControlTypes, vars, driving, processes, sockets, groups, progress, screen
<1>8. ASSUME NEW c \in Command, ReceiveReset(c) PROVE ControlTypes'
  BY <1>8 DEF ReceiveReset, ControlTypes, vars, driving, processes, sockets, groups, progress, screen
<1>9. ASSUME NEW c \in Command, ReceiveDone(c) PROVE ControlTypes'
  BY <1>9 DEF ReceiveDone, ControlTypes, vars, driving, processes, sockets, groups, progress, screen
<1>10. ASSUME NEW p \in Command \cup Group, Say(p) PROVE ControlTypes'
  BY <1>10 DEF Say, Send, ControlTypes, vars, driving, processes, sockets, groups, progress, screen
<1>11. ASSUME NEW p \in Command \cup Group, Receive(p) PROVE ControlTypes'
  BY <1>11 DEF Receive, ControlTypes, vars, driving, processes, sockets, groups, progress, screen
<1>12. ASSUME NEW p \in Command \cup Group, NEW g \in Group, Spawn(p, g) PROVE ControlTypes'
  BY <1>12 DEF Spawn, Send, ControlTypes, vars, driving, processes, sockets, groups, progress, screen
<1>13. ASSUME TakeMsg PROVE ControlTypes'
  BY <1>13 DEF TakeMsg, Take, ControlTypes, vars, driving, processes, sockets, groups, progress, screen
<1>14. ASSUME Climb PROVE ControlTypes'
  BY <1>14 DEF Climb, ControlTypes, vars, driving, processes, sockets, groups, progress, screen
<1>15. ASSUME TakeSpawn PROVE ControlTypes'
  BY <1>15 DEF TakeSpawn, Take, ControlTypes, vars, driving, processes, sockets, groups, progress, screen
<1>16. ASSUME TakeTask PROVE ControlTypes'
  BY <1>16, HeadTail, Fields DEF TakeTask, Take, Kind, ControlTypes, MessageTypes, vars, driving, processes, sockets, groups, progress, screen
<1>17. ASSUME TakeStart PROVE ControlTypes'
  BY <1>17 DEF TakeStart, Take, ControlTypes, vars, driving, processes, sockets, groups, progress, screen
<1>18. ASSUME TakeReset PROVE ControlTypes'
  BY <1>18 DEF TakeReset, Take, ControlTypes, vars, driving, processes, sockets, groups, progress, screen
<1>19. ASSUME TakeFinalize PROVE ControlTypes'
  BY <1>19 DEF TakeFinalize, Take, ControlTypes, vars, driving, processes, sockets, groups, progress, screen
<1>20. ASSUME TakeQa PROVE ControlTypes'
  BY <1>20 DEF TakeQa, Take, ControlTypes, vars, driving, processes, sockets, groups, progress, screen
<1>21. ASSUME TakeTaskDone PROVE ControlTypes'
  BY <1>21 DEF TakeTaskDone, Take, ControlTypes, vars, driving, processes, sockets, groups, progress, screen
<1>22. ASSUME TakeDone PROVE ControlTypes'
  BY <1>22, HeadTail, Fields DEF TakeDone, Take, ControlTypes, MessageTypes, vars, driving, processes, sockets, groups, progress, screen
<1>23. QED
  BY <1>1, <1>2, <1>3, <1>4, <1>5, <1>6, <1>7, <1>8, <1>9, <1>10, <1>11, <1>12, <1>13, <1>14, <1>15, <1>16, <1>17, <1>18, <1>19, <1>20, <1>21, <1>22, Steps

\* How far each command is: a process runs while mbdriver waits for it, and a
\* command has its kind from the start on and begins after the ones before it.
Course ==
    /\ \A c \in Command : c \in running => cmd[c] = "running"
    /\ \A c \in Command : cmd[c] # "none" => kind[c] \in Kind
    /\ \A c \in Command, d \in Command : cmd[c] # "none" /\ d < c => cmd[d] = "answered"
    /\ \A c \in Command : stage[c] # "fresh" => cmd[c] \in {"running", "over", "answered"}
    /\ \A c \in dones : cmd[c] \in {"over", "answered"}
    /\ \A i \in 1 .. Len(messages) :
          messages[i].kind = "done" => cmd[messages[i].cmd] \in {"over", "answered"}

LEMMA CourseKept ==
    ASSUME MessageTypes, Course, NEW k, Take(k), UNCHANGED <<cmd, kind, stage, running, dones>>
    PROVE  Course'
<1>1. \A i \in 1 .. Len(messages') : i + 1 \in 1 .. Len(messages) /\ messages'[i] = messages[i + 1]
  BY Taken
<1>2. QED
  BY <1>1 DEF Course

LEMMA CourseStep == ControlTypes /\ MessageTypes /\ Course /\ [Next]_vars => Course'
<1> SUFFICES ASSUME ControlTypes, MessageTypes, Course, Next, scenario' = scenario PROVE Course'
  BY SameScenario DEF Course, vars, driving, processes, sockets, groups, progress, screen
<1>1. ASSUME NEW c \in Command, Start(c) PROVE Course'
  BY <1>1, ScenarioAssumption DEF Start, Command, ControlTypes, MessageTypes, Course, vars, driving, processes, sockets, groups, progress, screen
<1>2. ASSUME NEW c \in Command, Launch(c) PROVE Course'
  BY <1>2 DEF Launch, Command, ControlTypes, MessageTypes, Course, vars, driving, processes, sockets, groups, progress, screen
<1>3. ASSUME NEW c \in Command, SendDone(c) PROVE Course'
  BY <1>3 DEF SendDone, Command, ControlTypes, MessageTypes, Course, vars, driving, processes, sockets, groups, progress, screen
<1>4. ASSUME NEW c \in Command, Announce(c) PROVE Course'
  BY <1>4 DEF Announce, Send, ControlTypes, MessageTypes, Course, vars, driving, processes, sockets, groups, progress, screen
<1>5. ASSUME NEW c \in Command, Finalize(c) PROVE Course'
  BY <1>5 DEF Finalize, Send, ControlTypes, MessageTypes, Course, vars, driving, processes, sockets, groups, progress, screen
<1>6. ASSUME NEW c \in Command, Finish(c) PROVE Course'
  BY <1>6 DEF Finish, Send, ControlTypes, MessageTypes, Course, vars, driving, processes, sockets, groups, progress, screen
<1>7. ASSUME NEW c \in Command, End(c) PROVE Course'
  BY <1>7 DEF End, Command, ControlTypes, MessageTypes, Course, vars, driving, processes, sockets, groups, progress, screen
<1>8. ASSUME NEW c \in Command, ReceiveReset(c) PROVE Course'
  BY <1>8, Appended, Received DEF ReceiveReset, Note, ControlTypes, MessageTypes, Course, vars, driving, processes, sockets, groups, progress, screen
<1>9. ASSUME NEW c \in Command, ReceiveDone(c) PROVE Course'
  BY <1>9, Appended, Received DEF ReceiveDone, Note, ControlTypes, MessageTypes, Course, vars, driving, processes, sockets, groups, progress, screen
<1>10. ASSUME NEW p \in Command \cup Group, Say(p) PROVE Course'
  BY <1>10 DEF Say, Send, ControlTypes, MessageTypes, Course, vars, driving, processes, sockets, groups, progress, screen
<1>11. ASSUME NEW p \in Command \cup Group, Receive(p) PROVE Course'
  BY <1>11, HeadTail, Appended, Received DEF Receive, ControlTypes, MessageTypes, Course, vars, driving, processes, sockets, groups, progress, screen
<1>12. ASSUME NEW p \in Command \cup Group, NEW g \in Group, Spawn(p, g) PROVE Course'
  BY <1>12, NodeAssumption DEF Spawn, Send, ControlTypes, MessageTypes, Course, vars, driving, processes, sockets, groups, progress, screen
<1>13. ASSUME TakeMsg PROVE Course'
  BY <1>13, CourseKept DEF TakeMsg, driving, processes, sockets
<1>14. ASSUME Climb PROVE Course'
  BY <1>14 DEF Climb, Command, ControlTypes, MessageTypes, Course, vars, driving, processes, sockets, groups, progress, screen
<1>15. ASSUME TakeSpawn PROVE Course'
  BY <1>15, CourseKept DEF TakeSpawn, driving, processes, sockets
<1>16. ASSUME TakeTask PROVE Course'
  BY <1>16, CourseKept DEF TakeTask, driving, processes, sockets
<1>17. ASSUME TakeStart PROVE Course'
  BY <1>17, CourseKept DEF TakeStart, driving, processes, sockets
<1>18. ASSUME TakeReset PROVE Course'
  BY <1>18, CourseKept DEF TakeReset, driving, processes, sockets
<1>19. ASSUME TakeFinalize PROVE Course'
  BY <1>19, CourseKept DEF TakeFinalize, driving, processes, sockets
<1>20. ASSUME TakeQa PROVE Course'
  BY <1>20, CourseKept DEF TakeQa, driving, processes, sockets
<1>21. ASSUME TakeTaskDone PROVE Course'
  BY <1>21, CourseKept DEF TakeTaskDone, driving, processes, sockets
<1>22. ASSUME TakeDone PROVE Course'
  <2>1. \A i \in 1 .. Len(messages') : i + 1 \in 1 .. Len(messages) /\ messages'[i] = messages[i + 1]
    BY <1>22, Taken DEF TakeDone
  <2>2. PICK c \in Command : c = Head(messages).cmd /\ cmd[c] \in {"over", "answered"}
    BY <1>22, Taken, Fields DEF TakeDone, Course
  <2>3. cmd' = [cmd EXCEPT ![c] = "answered"] /\ UNCHANGED <<kind, stage, running, dones>>
    BY <1>22, <2>2 DEF TakeDone, processes, sockets
  <2>4. QED
    BY <2>1, <2>2, <2>3 DEF Course, ControlTypes
<1>23. QED
  BY <1>1, <1>2, <1>3, <1>4, <1>5, <1>6, <1>7, <1>8, <1>9, <1>10, <1>11, <1>12, <1>13, <1>14, <1>15, <1>16, <1>17, <1>18, <1>19, <1>20, <1>21, <1>22, Steps

LEMMA SendTyped ==
    ASSUME MessageTypes, NEW p \in Command \cup Group, NEW m \in Report, Send(p, m), messages' = messages
    PROVE  MessageTypes'
BY Appended DEF MessageTypes, Send

\* What is received has been sent as a message.
LEMMA MessageStep == ControlTypes /\ MessageTypes /\ Course /\ [Next]_vars => MessageTypes'
<1> SUFFICES ASSUME ControlTypes, MessageTypes, Course, Next PROVE MessageTypes'
  BY DEF MessageTypes, vars, driving, processes, sockets, groups, progress, screen
<1>1. ASSUME NEW c \in Command, Start(c) PROVE MessageTypes'
  BY <1>1 DEF Start, MessageTypes, vars, driving, processes, sockets, groups, progress, screen
<1>2. ASSUME NEW c \in Command, Launch(c) PROVE MessageTypes'
  BY <1>2 DEF Launch, MessageTypes, vars, driving, processes, sockets, groups, progress, screen
<1>3. ASSUME NEW c \in Command, SendDone(c) PROVE MessageTypes'
  BY <1>3 DEF SendDone, MessageTypes, vars, driving, processes, sockets, groups, progress, screen
<1>4. ASSUME NEW c \in Command, Announce(c) PROVE MessageTypes'
  <2>1. c \in running
    BY <1>4 DEF Announce, Send
  <2>2. kind[c] \in Kind
    BY <2>1 DEF Course
  <2>3. QED
    BY <1>4, <2>2, SendTyped, Sendable DEF Announce
<1>5. ASSUME NEW c \in Command, Finalize(c) PROVE MessageTypes'
  BY <1>5, SendTyped, Sendable DEF Finalize
<1>6. ASSUME NEW c \in Command, Finish(c) PROVE MessageTypes'
  BY <1>6, SendTyped, Sendable DEF Finish
<1>7. ASSUME NEW c \in Command, End(c) PROVE MessageTypes'
  BY <1>7 DEF End, MessageTypes, vars, driving, processes, sockets, groups, progress, screen
<1>8. ASSUME NEW c \in Command, ReceiveReset(c) PROVE MessageTypes'
  BY <1>8, Appended, Received DEF ReceiveReset, MessageTypes, vars, driving, processes, sockets, groups, progress, screen
<1>9. ASSUME NEW c \in Command, ReceiveDone(c) PROVE MessageTypes'
  BY <1>9, Appended, Received DEF ReceiveDone, MessageTypes, vars, driving, processes, sockets, groups, progress, screen
<1>10. ASSUME NEW p \in Command \cup Group, Say(p) PROVE MessageTypes'
  BY <1>10, ScenarioAssumption, SendTyped, Sendable DEF Say, NodeOf, Node
<1>11. ASSUME NEW p \in Command \cup Group, Receive(p) PROVE MessageTypes'
  BY <1>11, HeadTail, Appended, Received DEF Receive, MessageTypes, vars, driving, processes, sockets, groups, progress, screen
<1>12. ASSUME NEW p \in Command \cup Group, NEW g \in Group, Spawn(p, g) PROVE MessageTypes'
  BY <1>12, SendTyped, Sendable DEF Spawn
<1>13. ASSUME TakeMsg PROVE MessageTypes'
  BY <1>13, HeadTail DEF TakeMsg, Take, MessageTypes, vars, driving, processes, sockets, groups, progress, screen
<1>14. ASSUME Climb PROVE MessageTypes'
  BY <1>14 DEF Climb, MessageTypes, vars, driving, processes, sockets, groups, progress, screen
<1>15. ASSUME TakeSpawn PROVE MessageTypes'
  BY <1>15, HeadTail DEF TakeSpawn, Take, MessageTypes, vars, driving, processes, sockets, groups, progress, screen
<1>16. ASSUME TakeTask PROVE MessageTypes'
  BY <1>16, HeadTail DEF TakeTask, Take, MessageTypes, vars, driving, processes, sockets, groups, progress, screen
<1>17. ASSUME TakeStart PROVE MessageTypes'
  BY <1>17, HeadTail DEF TakeStart, Take, MessageTypes, vars, driving, processes, sockets, groups, progress, screen
<1>18. ASSUME TakeReset PROVE MessageTypes'
  BY <1>18, HeadTail DEF TakeReset, Take, MessageTypes, vars, driving, processes, sockets, groups, progress, screen
<1>19. ASSUME TakeFinalize PROVE MessageTypes'
  BY <1>19, HeadTail DEF TakeFinalize, Take, MessageTypes, vars, driving, processes, sockets, groups, progress, screen
<1>20. ASSUME TakeQa PROVE MessageTypes'
  BY <1>20, HeadTail DEF TakeQa, Take, MessageTypes, vars, driving, processes, sockets, groups, progress, screen
<1>21. ASSUME TakeTaskDone PROVE MessageTypes'
  BY <1>21, HeadTail DEF TakeTaskDone, Take, MessageTypes, vars, driving, processes, sockets, groups, progress, screen
<1>22. ASSUME TakeDone PROVE MessageTypes'
  BY <1>22, HeadTail DEF TakeDone, Take, MessageTypes, vars, driving, processes, sockets, groups, progress, screen
<1>23. QED
  BY <1>1, <1>2, <1>3, <1>4, <1>5, <1>6, <1>7, <1>8, <1>9, <1>10, <1>11, <1>12, <1>13, <1>14, <1>15, <1>16, <1>17, <1>18, <1>19, <1>20, <1>21, <1>22, Steps

-----------------------------------------------------------------------------
(* The tree of groups *)

\* The tree is closed under parents, and a group outside is as good as new.  While
\* a severity climbs, the group that it comes from may be ahead of its parent, but
\* not by more than what is still to be put there.
Tree ==
    /\ \A n \in tree \ {Root} : parent[n] \in tree
    /\ \A n \in Group : parent[n] # n
    /\ \A n \in Node \ tree : severity[n] = Normal
    /\ \A g \in Group : parent[g] = None => g \notin running
    /\ climb # None /\ climb.from # None =>
          LET n == climb.node
              f == climb.from
          IN  /\ f \in tree \ {Root} /\ parent[f] = n
              /\ \/ Filter[n][TRUE][severity[f]] <= severity[n]
                 \/ Filter[n][TRUE][severity[f]] <= Filter[n][TRUE][climb.sev]

LEMMA NoneIsNoNode == None \notin Node /\ None \notin Command /\ Root \in Node /\ Root \notin Group
BY NodeAssumption DEF Node, Root

LEMMA NoRecord ==
    \A n \in Node, s \in Severity, f \in Node \cup {None} : [node |-> n, sev |-> s, from |-> f] # None
BY NodeAssumption

LEMMA AtMost ==
    /\ \A a, b, c \in Severity : a <= b /\ b <= c => a <= c
    /\ \A a \in Severity : a <= a
BY DEF Severity

LEMMA Raised ==
    ASSUME GroupTypes, NEW n \in Node, NEW s \in Severity,
           severity' = [severity EXCEPT ![n] = IF @ < s THEN s ELSE @]
    PROVE  /\ severity' \in [Node -> Severity]
           /\ \A m \in Node : m # n => severity'[m] = severity[m]
           /\ severity[n] <= severity'[n] /\ s <= severity'[n]
           /\ severity'[n] = severity[n] \/ severity'[n] = s
BY DEF GroupTypes, Severity

LEMMA GroupStep == ControlTypes /\ MessageTypes /\ GroupTypes /\ Tree /\ [Next]_vars => GroupTypes'
<1> SUFFICES ASSUME ControlTypes, MessageTypes, GroupTypes, Tree, Next PROVE GroupTypes'
  BY DEF GroupTypes, vars, driving, processes, sockets, groups, progress, screen
<1>1. ASSUME NEW c \in Command, Start(c) PROVE GroupTypes'
  BY <1>1, Severities DEF Start, GroupTypes, vars, driving, processes, sockets, groups, progress, screen
<1>2. ASSUME NEW c \in Command, Launch(c) PROVE GroupTypes'
  BY <1>2 DEF Launch, GroupTypes, vars, driving, processes, sockets, groups, progress, screen
<1>3. ASSUME NEW c \in Command, SendDone(c) PROVE GroupTypes'
  BY <1>3 DEF SendDone, GroupTypes, vars, driving, processes, sockets, groups, progress, screen
<1>4. ASSUME NEW c \in Command, Announce(c) PROVE GroupTypes'
  BY <1>4 DEF Announce, GroupTypes, vars, driving, processes, sockets, groups, progress, screen
<1>5. ASSUME NEW c \in Command, Finalize(c) PROVE GroupTypes'
  BY <1>5 DEF Finalize, GroupTypes, vars, driving, processes, sockets, groups, progress, screen
<1>6. ASSUME NEW c \in Command, Finish(c) PROVE GroupTypes'
  BY <1>6 DEF Finish, GroupTypes, vars, driving, processes, sockets, groups, progress, screen
<1>7. ASSUME NEW c \in Command, End(c) PROVE GroupTypes'
  BY <1>7 DEF End, GroupTypes, vars, driving, processes, sockets, groups, progress, screen
<1>8. ASSUME NEW c \in Command, ReceiveReset(c) PROVE GroupTypes'
  BY <1>8 DEF ReceiveReset, GroupTypes, vars, driving, processes, sockets, groups, progress, screen
<1>9. ASSUME NEW c \in Command, ReceiveDone(c) PROVE GroupTypes'
  BY <1>9 DEF ReceiveDone, GroupTypes, vars, driving, processes, sockets, groups, progress, screen
<1>10. ASSUME NEW p \in Command \cup Group, Say(p) PROVE GroupTypes'
  BY <1>10 DEF Say, GroupTypes, vars, driving, processes, sockets, groups, progress, screen
<1>11. ASSUME NEW p \in Command \cup Group, Receive(p) PROVE GroupTypes'
  BY <1>11 DEF Receive, GroupTypes, vars, driving, processes, sockets, groups, progress, screen
<1>12. ASSUME NEW p \in Command \cup Group, NEW g \in Group, Spawn(p, g) PROVE GroupTypes'
  BY <1>12, NoneIsNoNode DEF Spawn, NodeOf, Node, GroupTypes, vars, driving, processes, sockets, groups, progress, screen
<1>13. ASSUME TakeMsg PROVE GroupTypes'
  BY <1>13, Taken, Fields, NoneIsNoNode DEF TakeMsg, GroupTypes, vars, driving, processes, sockets, groups, progress, screen
<1>14. ASSUME Climb PROVE GroupTypes'
  <2> DEFINE n == climb.node
             s == Filter[n][climb.from # None][climb.sev]
  <2>1. n \in tree /\ n \in Node /\ s \in Severity
    BY <1>14, Severities, NoneIsNoNode DEF Climb, GroupTypes
  <2>2. severity' \in [Node -> Severity] /\ shown' \in Severity
    BY <1>14, <2>1, Raised DEF Climb, GroupTypes
  <2>3. climb' \in [node : tree, sev : Severity, from : Node \cup {None}] \cup {None}
    BY <1>14, <2>1 DEF Climb, Tree
  <2>4. QED
    BY <1>14, <2>2, <2>3 DEF Climb, GroupTypes, vars, driving, processes, sockets, groups, progress, screen
<1>15. ASSUME TakeSpawn PROVE GroupTypes'
  BY <1>15, Taken, Fields DEF TakeSpawn, Take, Node, GroupTypes, vars, driving, processes, sockets, groups, progress, screen
<1>16. ASSUME TakeTask PROVE GroupTypes'
  BY <1>16 DEF TakeTask, Take, GroupTypes, vars, driving, processes, sockets, groups, progress, screen
<1>17. ASSUME TakeStart PROVE GroupTypes'
  BY <1>17, Severities, NoneIsNoNode DEF TakeStart, Take, ResetTree, GroupTypes, vars, driving, processes, sockets, groups, progress, screen
<1>18. ASSUME TakeReset PROVE GroupTypes'
  BY <1>18, Severities, NoneIsNoNode DEF TakeReset, Take, ResetTree, GroupTypes, vars, driving, processes, sockets, groups, progress, screen
<1>19. ASSUME TakeFinalize PROVE GroupTypes'
  BY <1>19 DEF TakeFinalize, Take, GroupTypes, vars, driving, processes, sockets, groups, progress, screen
<1>20. ASSUME TakeQa PROVE GroupTypes'
  BY <1>20 DEF TakeQa, Take, GroupTypes, vars, driving, processes, sockets, groups, progress, screen
<1>21. ASSUME TakeTaskDone PROVE GroupTypes'
  BY <1>21 DEF TakeTaskDone, Take, GroupTypes, vars, driving, processes, sockets, groups, progress, screen
<1>22. ASSUME TakeDone PROVE GroupTypes'
  <2>1. Head(messages).cmd \in Command
    BY <1>22, Taken, Fields DEF TakeDone
  <2>2. severity' \in [Node -> Severity] /\ shown' \in Severity
    BY <1>22, Severities DEF TakeDone, GroupTypes
  <2>3. QED
    BY <1>22, <2>1, <2>2 DEF TakeDone, ControlTypes, GroupTypes, vars, driving, processes, sockets, groups, progress, screen
<1>23. QED
  BY <1>1, <1>2, <1>3, <1>4, <1>5, <1>6, <1>7, <1>8, <1>9, <1>10, <1>11, <1>12, <1>13, <1>14, <1>15, <1>16, <1>17, <1>18, <1>19, <1>20, <1>21, <1>22, Steps

\* A step that touches neither the tree, the processes nor a climbing severity.
LEMMA TreeKept ==
    ASSUME Tree, SeverityRises, UNCHANGED <<groups, climb>>, running' \subseteq running \cup Command
    PROVE  Tree' /\ SeverityRises'
BY NodeAssumption DEF Tree, SeverityRises, groups

\* Every step keeps the tree in order.
LEMMA TreeStep ==
    ControlTypes /\ MessageTypes /\ GroupTypes /\ Tree /\ SeverityRises /\ [Next]_vars
        => Tree' /\ SeverityRises'
<1> SUFFICES ASSUME ControlTypes, MessageTypes, GroupTypes, Tree, SeverityRises, Next
           PROVE  Tree' /\ SeverityRises'
  BY TreeKept DEF vars, driving, processes, sockets, groups, progress, screen
<1>1. ASSUME NEW c \in Command, Start(c) PROVE Tree' /\ SeverityRises'
  BY <1>1, TreeKept DEF Start, groups, processes, screen
<1>2. ASSUME NEW c \in Command, Launch(c) PROVE Tree' /\ SeverityRises'
  BY <1>2, TreeKept DEF Launch, groups, processes, screen
<1>3. ASSUME NEW c \in Command, SendDone(c) PROVE Tree' /\ SeverityRises'
  BY <1>3, TreeKept DEF SendDone, groups, processes, screen
<1>4. ASSUME NEW c \in Command, Announce(c) PROVE Tree' /\ SeverityRises'
  BY <1>4, TreeKept DEF Announce, groups, processes, screen
<1>5. ASSUME NEW c \in Command, Finalize(c) PROVE Tree' /\ SeverityRises'
  BY <1>5, TreeKept DEF Finalize, groups, processes, screen
<1>6. ASSUME NEW c \in Command, Finish(c) PROVE Tree' /\ SeverityRises'
  BY <1>6, TreeKept DEF Finish, groups, processes, screen
<1>7. ASSUME NEW c \in Command, End(c) PROVE Tree' /\ SeverityRises'
  BY <1>7, TreeKept DEF End, groups, processes, screen
<1>8. ASSUME NEW c \in Command, ReceiveReset(c) PROVE Tree' /\ SeverityRises'
  BY <1>8, TreeKept DEF ReceiveReset, groups, processes, screen
<1>9. ASSUME NEW c \in Command, ReceiveDone(c) PROVE Tree' /\ SeverityRises'
  BY <1>9, TreeKept DEF ReceiveDone, groups, processes, screen
<1>10. ASSUME NEW p \in Command \cup Group, Say(p) PROVE Tree' /\ SeverityRises'
  BY <1>10, TreeKept DEF Say, groups, processes, screen
<1>11. ASSUME NEW p \in Command \cup Group, Receive(p) PROVE Tree' /\ SeverityRises'
  BY <1>11, TreeKept DEF Receive, groups, processes, screen
<1>12. ASSUME NEW p \in Command \cup Group, NEW g \in Group, Spawn(p, g) PROVE Tree' /\ SeverityRises'
  <2>1. g \notin tree /\ NodeOf(p) # g /\ NodeOf(p) # None
    BY <1>12, NoneIsNoNode, NodeAssumption DEF Spawn, Send, NodeOf, Tree, GroupTypes, Node
  <2>2. \A m \in Node : m # g => parent'[m] = parent[m]
    BY <1>12 DEF Spawn, GroupTypes
  <2>3. parent'[g] = NodeOf(p)
    BY <1>12 DEF Spawn, GroupTypes, Node
  <2>4. UNCHANGED <<tree, severity, climb>> /\ running' = running \cup {g}
    BY <1>12 DEF Spawn
  <2>5. SeverityRises'
    BY <2>1, <2>2, <2>4 DEF SeverityRises, GroupTypes
  <2>6. \A m \in tree : m \in Node /\ m # g
    BY <2>1 DEF GroupTypes
  <2>7. QED
    BY <2>1, <2>2, <2>3, <2>4, <2>5, <2>6 DEF Tree, Node
<1>13. ASSUME TakeMsg PROVE Tree' /\ SeverityRises'
  BY <1>13 DEF TakeMsg, Take, Tree, SeverityRises, groups, processes
<1>14. ASSUME Climb PROVE Tree' /\ SeverityRises'
  <2> DEFINE n == climb.node
             s == Filter[n][climb.from # None][climb.sev]
  <2>1. /\ climb # None /\ n \in tree /\ n \in Node /\ s \in Severity
        /\ climb.from \in Node \cup {None} /\ climb.sev \in Severity
        /\ tree' = tree /\ parent' = parent /\ running' = running
        /\ climb' = IF n = Root THEN None ELSE [node |-> parent[n], sev |-> s, from |-> n]
    BY <1>14, Severities, NoneIsNoNode DEF Climb, GroupTypes, groups, processes
  <2>2. /\ severity' \in [Node -> Severity] /\ severity \in [Node -> Severity]
        /\ \A m \in Node : m # n => severity'[m] = severity[m]
        /\ severity[n] <= severity'[n] /\ s <= severity'[n]
        /\ severity'[n] = severity[n] \/ severity'[n] = s
    BY <1>14, <2>1, Raised DEF Climb, GroupTypes
  <2>3. \A m \in tree \ {Root} : parent[m] \in tree /\ parent[m] # m /\ m \in Node /\ parent[m] \in Node
    BY DEF Tree, GroupTypes, Node
  <2>4. \A m \in tree \ {Root} : m # n => Filter[parent[m]][TRUE][severity[m]] <= severity'[parent[m]]
    <3> SUFFICES ASSUME NEW m \in tree \ {Root}, m # n
                 PROVE  Filter[parent[m]][TRUE][severity[m]] <= severity'[parent[m]]
      OBVIOUS
    <3>0. Filter[parent[m]][TRUE][severity[m]] \in Severity
      BY <2>2, <2>3, Severities
    <3>1. CASE climb.from # m
      <4>1. Filter[parent[m]][TRUE][severity[m]] <= severity[parent[m]]
        BY <3>1 DEF SeverityRises
      <4>2. severity[parent[m]] <= severity'[parent[m]]
        BY <2>2, <2>3 DEF Severity
      <4>3. severity[parent[m]] \in Severity /\ severity'[parent[m]] \in Severity
        BY <2>2, <2>3
      <4>4. QED
        BY <3>0, <4>1, <4>2, <4>3, AtMost
    <3>2. CASE climb.from = m
      <4>1. /\ parent[m] = n
            /\ \/ Filter[n][TRUE][severity[m]] <= severity[n]
               \/ Filter[n][TRUE][severity[m]] <= s
        BY <3>2, <2>1, <2>3, NoneIsNoNode DEF Tree
      <4>2. severity[n] \in Severity /\ severity'[n] \in Severity
        BY <2>1, <2>2
      <4>3. Filter[n][TRUE][severity[m]] \in Severity
        BY <3>0, <4>1
      <4>4. Filter[n][TRUE][severity[m]] <= severity'[n]
        <5> HIDE DEF n, s
        <5>1. QED
          BY <4>1, <4>2, <4>3, <2>1, <2>2, AtMost
      <4>5. QED
        BY <4>1, <4>4
    <3>3. QED
      BY <3>1, <3>2
  <2>5. SeverityRises'
    <3> SUFFICES ASSUME NEW m \in tree \ {Root}, climb' = None \/ climb'.from # m
                 PROVE  Filter[parent[m]][TRUE][severity'[m]] <= severity'[parent[m]]
      BY <2>1 DEF SeverityRises
    <3>1. m # n
      <4>1. CASE n = Root
        BY <4>1
      <4>2. CASE n # Root
        <5>1. climb' # None /\ climb'.from = n
          BY <2>1, <4>2, <2>3, NoRecord, NoneIsNoNode
        <5>2. QED
          BY <5>1
      <4>3. QED
        BY <4>1, <4>2
    <3>2. QED
      BY <3>1, <2>2, <2>3, <2>4
  <2>6. n # Root => \/ Filter[parent[n]][TRUE][severity'[n]] <= severity'[parent[n]]
                    \/ Filter[parent[n]][TRUE][severity'[n]] <= Filter[parent[n]][TRUE][s]
    <3> SUFFICES ASSUME n # Root PROVE \/ Filter[parent[n]][TRUE][severity'[n]] <= severity'[parent[n]]
                                       \/ Filter[parent[n]][TRUE][severity'[n]] <= Filter[parent[n]][TRUE][s]
      OBVIOUS
    <3>1. n \in tree \ {Root} /\ parent[n] # n /\ parent[n] \in Node
      BY <2>1, <2>3
    <3>2. CASE severity'[n] = s
      <4>1. Filter[parent[n]][TRUE][s] \in Severity
        BY <3>1, <2>1, Severities
      <4>2. QED
        BY <3>2, <4>1, AtMost
    <3>3. CASE severity'[n] = severity[n]
      <4>1. climb.from # n
        BY <2>1, <3>1, NoneIsNoNode DEF Tree
      <4>2. Filter[parent[n]][TRUE][severity[n]] <= severity[parent[n]]
        BY <4>1, <3>1 DEF SeverityRises
      <4>3. QED
        BY <3>1, <3>3, <4>2, <2>2
    <3>4. QED
      BY <2>2, <3>2, <3>3
  <2>7. \A m \in Node \ tree : severity'[m] = Normal
    BY <2>1, <2>2 DEF Tree
  <2>8. QED
    BY <2>1, <2>3, <2>5, <2>6, <2>7 DEF Tree
<1>15. ASSUME TakeSpawn PROVE Tree' /\ SeverityRises'
  <2> DEFINE g == Head(messages).node
  <2>1. g \in Group
    BY <1>15, Taken, Fields DEF TakeSpawn
  <2>2. /\ tree' = IF parent[g] \in tree THEN tree \cup {g} ELSE tree
        /\ climb = None /\ UNCHANGED <<parent, severity, climb, running>>
    BY <1>15 DEF TakeSpawn, Take, processes
  <2>3. parent[g] \in tree /\ g \notin tree => Filter[parent[g]][TRUE][severity[g]] <= severity[parent[g]]
    <3> SUFFICES ASSUME parent[g] \in tree, g \notin tree PROVE Filter[parent[g]][TRUE][severity[g]] <= severity[parent[g]]
      OBVIOUS
    <3>1. parent[g] \in Node /\ severity[parent[g]] \in Severity /\ severity[g] = Normal
      BY <2>1 DEF Tree, GroupTypes, Node
    <3>2. Filter[parent[g]][TRUE][Normal] = Normal
      BY <3>1, FilterAssumption
    <3>3. QED
      BY <3>1, <3>2 DEF Normal, Severity
  <2>4. SeverityRises'
    BY <2>2, <2>3 DEF SeverityRises
  <2>5. QED
    BY <2>2, <2>4 DEF Tree
<1>16. ASSUME TakeTask PROVE Tree' /\ SeverityRises'
  BY <1>16, TreeKept DEF TakeTask, Take, groups, processes, screen
<1>17. ASSUME TakeStart PROVE Tree' /\ SeverityRises'
  <2>1. climb = None /\ UNCHANGED <<parent, climb, running>>
    BY <1>17 DEF TakeStart, Take, processes
  <2>2. CASE UNCHANGED <<tree, severity>>
    BY <2>1, <2>2, TreeKept DEF groups
  <2>3. CASE ResetTree
    BY <2>1, <2>3 DEF ResetTree, Tree, SeverityRises
  <2>4. QED
    BY <1>17, <2>2, <2>3 DEF TakeStart
<1>18. ASSUME TakeReset PROVE Tree' /\ SeverityRises'
  <2>1. climb = None /\ UNCHANGED <<parent, climb, running>>
    BY <1>18 DEF TakeReset, Take, processes
  <2>2. CASE UNCHANGED <<tree, severity>>
    BY <2>1, <2>2, TreeKept DEF groups
  <2>3. CASE ResetTree
    BY <2>1, <2>3 DEF ResetTree, Tree, SeverityRises
  <2>4. QED
    BY <1>18, <2>2, <2>3 DEF TakeReset
<1>19. ASSUME TakeFinalize PROVE Tree' /\ SeverityRises'
  BY <1>19, TreeKept DEF TakeFinalize, Take, groups, processes, screen
<1>20. ASSUME TakeQa PROVE Tree' /\ SeverityRises'
  BY <1>20, TreeKept DEF TakeQa, Take, groups, processes, screen
<1>21. ASSUME TakeTaskDone PROVE Tree' /\ SeverityRises'
  BY <1>21, TreeKept DEF TakeTaskDone, Take, groups, processes, screen
<1>22. ASSUME TakeDone PROVE Tree' /\ SeverityRises'
  <2>1. /\ climb = None /\ UNCHANGED <<tree, parent, climb, running>>
        /\ severity' = [severity EXCEPT ![Root] = IF ~complete /\ @ < Catastrophe THEN Catastrophe ELSE @]
    BY <1>22 DEF TakeDone, Take, processes
  <2>2. /\ severity' \in [Node -> Severity] /\ severity \in [Node -> Severity]
        /\ \A m \in Node : m # Root => severity'[m] = severity[m]
        /\ severity[Root] <= severity'[Root]
    BY <2>1, Severities, NoneIsNoNode DEF GroupTypes, Severity, Catastrophe
  <2>3. ASSUME NEW m \in tree \ {Root} PROVE Filter[parent[m]][TRUE][severity'[m]] <= severity'[parent[m]]
    <3>1. m \in Node /\ parent[m] \in Node /\ severity'[m] = severity[m]
      BY <2>2 DEF Tree, GroupTypes
    <3>2. Filter[parent[m]][TRUE][severity[m]] <= severity[parent[m]]
      BY <2>1 DEF SeverityRises
    <3>3. Filter[parent[m]][TRUE][severity[m]] \in Severity
      BY <2>2, <3>1, Severities
    <3>4. severity[parent[m]] <= severity'[parent[m]]
      BY <2>2, <3>1 DEF Severity
    <3>5. severity[parent[m]] \in Severity /\ severity'[parent[m]] \in Severity
      BY <2>2, <3>1
    <3>6. QED
      BY <3>1, <3>2, <3>3, <3>4, <3>5, AtMost
  <2>4. SeverityRises'
    BY <2>1, <2>3 DEF SeverityRises
  <2>5. \A m \in Node \ tree : severity'[m] = Normal
    BY <2>2 DEF Tree, GroupTypes
  <2>6. QED
    BY <2>1, <2>4, <2>5 DEF Tree
<1>23. QED
  BY <1>1, <1>2, <1>3, <1>4, <1>5, <1>6, <1>7, <1>8, <1>9, <1>10, <1>11, <1>12, <1>13, <1>14, <1>15, <1>16, <1>17, <1>18, <1>19, <1>20, <1>21, <1>22, Steps
-----------------------------------------------------------------------------
(* What the GUI shows *)

Announced == {d \in Command : kind[d] = "task" /\ stage[d] # "fresh"}
Overtaken == {d \in Command : \E c \in Command : d < c /\ cmd[c] # "none"}

\* Before the first command nothing has been sent or shown.
Untouched ==
    (\A c \in Command : cmd[c] = "none")
        => /\ running = {} /\ resets = {} /\ dones = {}
           /\ \A p \in Command \cup Group : wire[p] = <<>>
           /\ messages = <<>> /\ climb = None /\ severity[Root] = Normal

\* A task message, wherever it is, and the main task are of a command that has
\* announced its task.
Tasks ==
    /\ \A p \in Command \cup Group : \A i \in 1 .. Len(wire[p]) :
          wire[p][i].kind = "task" => wire[p][i].cmd \in Announced
    /\ \A i \in 1 .. Len(messages) : messages[i].kind = "task" => messages[i].cmd \in Announced
    /\ mainTask # None => mainTask \in Announced

\* Prompt resets: a task that is announced ahead of one is of an earlier command.
Resets ==
    Prompt =>
        /\ \A c \in resets : cmd[c] = "launch"
        /\ \A i \in 1 .. Len(messages) : messages[i].kind = "reset" =>
              /\ mainTask # None => mainTask \in Overtaken
              /\ \A j \in 1 .. i - 1 : messages[j].kind = "task" => messages[j].cmd \in Overtaken

Known == ControlTypes /\ MessageTypes /\ GroupTypes /\ Course

\* What has been announced or overtaken remains so.
LEMMA Stable ==
    Known /\ Next => Announced \subseteq Announced' /\ Overtaken \subseteq Overtaken'
<1> SUFFICES ASSUME Known, Next PROVE Announced \subseteq Announced' /\ Overtaken \subseteq Overtaken'
  OBVIOUS
<1> DEFINE Goal == Announced \subseteq Announced' /\ Overtaken \subseteq Overtaken'
<1>1. ASSUME NEW c \in Command, Start(c) PROVE Goal
  BY <1>1 DEF Start, Known, ControlTypes, Course, Announced, Overtaken, vars, driving, processes, sockets, groups, progress, screen
<1>2. ASSUME NEW c \in Command, Launch(c) PROVE Goal
  BY <1>2 DEF Launch, Known, ControlTypes, Announced, Overtaken, vars, driving, processes, sockets, groups, progress, screen
<1>3. ASSUME NEW c \in Command, SendDone(c) PROVE Goal
  BY <1>3 DEF SendDone, Known, ControlTypes, Announced, Overtaken, vars, driving, processes, sockets, groups, progress, screen
<1>4. ASSUME NEW c \in Command, Announce(c) PROVE Goal
  BY <1>4 DEF Announce, Known, ControlTypes, Announced, Overtaken, vars, driving, processes, sockets, groups, progress, screen
<1>5. ASSUME NEW c \in Command, Finalize(c) PROVE Goal
  BY <1>5 DEF Finalize, Known, ControlTypes, Announced, Overtaken, vars, driving, processes, sockets, groups, progress, screen
<1>6. ASSUME NEW c \in Command, Finish(c) PROVE Goal
  BY <1>6 DEF Finish, Known, ControlTypes, Announced, Overtaken, vars, driving, processes, sockets, groups, progress, screen
<1>7. ASSUME NEW c \in Command, End(c) PROVE Goal
  BY <1>7 DEF End, Announced, Overtaken, driving, processes
<1>8. ASSUME NEW c \in Command, ReceiveReset(c) PROVE Goal
  BY <1>8 DEF ReceiveReset, Announced, Overtaken, driving, processes
<1>9. ASSUME NEW c \in Command, ReceiveDone(c) PROVE Goal
  BY <1>9 DEF ReceiveDone, Announced, Overtaken, driving, processes
<1>10. ASSUME NEW p \in Command \cup Group, Say(p) PROVE Goal
  BY <1>10 DEF Say, Announced, Overtaken, driving, processes
<1>11. ASSUME NEW p \in Command \cup Group, Receive(p) PROVE Goal
  BY <1>11 DEF Receive, Announced, Overtaken, driving, processes
<1>12. ASSUME NEW p \in Command \cup Group, NEW g \in Group, Spawn(p, g) PROVE Goal
  BY <1>12 DEF Spawn, Announced, Overtaken, driving, processes
<1>13. ASSUME TakeMsg PROVE Goal
  BY <1>13 DEF TakeMsg, Announced, Overtaken, driving, processes
<1>14. ASSUME Climb PROVE Goal
  BY <1>14 DEF Climb, Announced, Overtaken, driving, processes
<1>15. ASSUME TakeSpawn PROVE Goal
  BY <1>15 DEF TakeSpawn, Announced, Overtaken, driving, processes
<1>16. ASSUME TakeTask PROVE Goal
  BY <1>16 DEF TakeTask, Announced, Overtaken, driving, processes
<1>17. ASSUME TakeStart PROVE Goal
  BY <1>17 DEF TakeStart, Announced, Overtaken, driving, processes
<1>18. ASSUME TakeReset PROVE Goal
  BY <1>18 DEF TakeReset, Announced, Overtaken, driving, processes
<1>19. ASSUME TakeFinalize PROVE Goal
  BY <1>19 DEF TakeFinalize, Announced, Overtaken, driving, processes
<1>20. ASSUME TakeQa PROVE Goal
  BY <1>20 DEF TakeQa, Announced, Overtaken, driving, processes
<1>21. ASSUME TakeTaskDone PROVE Goal
  BY <1>21 DEF TakeTaskDone, Announced, Overtaken, driving, processes
<1>22. ASSUME TakeDone PROVE Goal
  BY <1>22, Taken, Fields DEF TakeDone, Known, ControlTypes, Announced, Overtaken, vars, driving, processes, sockets, groups, progress, screen
<1>23. QED
  BY <1>1, <1>2, <1>3, <1>4, <1>5, <1>6, <1>7, <1>8, <1>9, <1>10, <1>11, <1>12, <1>13, <1>14, <1>15, <1>16, <1>17, <1>18, <1>19, <1>20, <1>21, <1>22, Steps

LEMMA UntouchedStep == Known /\ Untouched /\ Next => Untouched'
<1> SUFFICES ASSUME Known, Untouched, Next PROVE Untouched'
  OBVIOUS
<1>1. ASSUME NEW c \in Command, Start(c) PROVE Untouched'
  BY <1>1 DEF Start, Known, ControlTypes, Course, Untouched, vars, driving, processes, sockets, groups, progress, screen
<1>2. ASSUME NEW c \in Command, Launch(c) PROVE Untouched'
  BY <1>2 DEF Launch, Known, ControlTypes, Course, Untouched, vars, driving, processes, sockets, groups, progress, screen
<1>3. ASSUME NEW c \in Command, SendDone(c) PROVE Untouched'
  BY <1>3 DEF SendDone, Known, ControlTypes, Course, Untouched, vars, driving, processes, sockets, groups, progress, screen
<1>4. ASSUME NEW c \in Command, Announce(c) PROVE Untouched'
  BY <1>4 DEF Announce, Send, Untouched, driving
<1>5. ASSUME NEW c \in Command, Finalize(c) PROVE Untouched'
  BY <1>5 DEF Finalize, Send, Untouched, driving
<1>6. ASSUME NEW c \in Command, Finish(c) PROVE Untouched'
  BY <1>6 DEF Finish, Send, Untouched, driving
<1>7. ASSUME NEW c \in Command, End(c) PROVE Untouched'
  BY <1>7 DEF End, Send, Untouched, driving
<1>8. ASSUME NEW c \in Command, ReceiveReset(c) PROVE Untouched'
  BY <1>8 DEF ReceiveReset, Untouched, driving
<1>9. ASSUME NEW c \in Command, ReceiveDone(c) PROVE Untouched'
  BY <1>9 DEF ReceiveDone, Untouched, driving
<1>10. ASSUME NEW p \in Command \cup Group, Say(p) PROVE Untouched'
  BY <1>10 DEF Say, Send, Untouched, driving
<1>11. ASSUME NEW p \in Command \cup Group, Receive(p) PROVE Untouched'
  BY <1>11 DEF Receive, Untouched, driving
<1>12. ASSUME NEW p \in Command \cup Group, NEW g \in Group, Spawn(p, g) PROVE Untouched'
  BY <1>12 DEF Spawn, Send, Untouched, driving
<1>13. ASSUME TakeMsg PROVE Untouched'
  BY <1>13 DEF TakeMsg, Take, Untouched, driving
<1>14. ASSUME Climb PROVE Untouched'
  BY <1>14 DEF Climb, Untouched, driving
<1>15. ASSUME TakeSpawn PROVE Untouched'
  BY <1>15 DEF TakeSpawn, Take, Untouched, driving
<1>16. ASSUME TakeTask PROVE Untouched'
  BY <1>16 DEF TakeTask, Take, Untouched, driving
<1>17. ASSUME TakeStart PROVE Untouched'
  BY <1>17 DEF TakeStart, Take, Untouched, driving
<1>18. ASSUME TakeReset PROVE Untouched'
  BY <1>18 DEF TakeReset, Take, Untouched, driving
<1>19. ASSUME TakeFinalize PROVE Untouched'
  BY <1>19 DEF TakeFinalize, Take, Untouched, driving
<1>20. ASSUME TakeQa PROVE Untouched'
  BY <1>20 DEF TakeQa, Take, Untouched, driving
<1>21. ASSUME TakeTaskDone PROVE Untouched'
  BY <1>21 DEF TakeTaskDone, Take, Untouched, driving
<1>22. ASSUME TakeDone PROVE Untouched'
  BY <1>22, Taken, Fields DEF TakeDone, Take, Known, ControlTypes, Untouched, vars, driving, processes, sockets, groups, progress, screen
<1>23. QED
  BY <1>1, <1>2, <1>3, <1>4, <1>5, <1>6, <1>7, <1>8, <1>9, <1>10, <1>11, <1>12, <1>13, <1>14, <1>15, <1>16, <1>17, <1>18, <1>19, <1>20, <1>21, <1>22, Steps

LEMMA SendTask ==
    ASSUME MessageTypes, Tasks, Announced \subseteq Announced',
           NEW p \in Command \cup Group, NEW m \in Report, Send(p, m),
           m.kind = "task" => m.cmd \in Announced', UNCHANGED <<messages, mainTask>>
    PROVE  Tasks'
<1>1. \A i \in 1 .. Len(wire'[p]) : (i \in 1 .. Len(wire[p]) /\ wire'[p][i] = wire[p][i]) \/ wire'[p][i] = m
  BY Appended DEF Send, MessageTypes
<1>2. \A q \in Command \cup Group : q # p => wire'[q] = wire[q]
  BY DEF Send, MessageTypes
<1>3. QED
  BY <1>1, <1>2 DEF Tasks

LEMMA AddTask ==
    ASSUME MessageTypes, Tasks, Announced \subseteq Announced',
           NEW m \in Message, messages' = Append(messages, m), m.kind = "task" => m.cmd \in Announced,
           UNCHANGED <<wire, mainTask>>
    PROVE  Tasks'
<1>1. \A i \in 1 .. Len(messages') : (i \in 1 .. Len(messages) /\ messages'[i] = messages[i]) \/ messages'[i] = m
  BY Appended DEF MessageTypes
<1>2. QED
  BY <1>1 DEF Tasks

LEMMA TakeAnyTask ==
    ASSUME MessageTypes, Tasks, Announced \subseteq Announced', NEW k, Take(k),
           mainTask' = mainTask \/ (k = "task" /\ mainTask' = Head(messages).cmd), UNCHANGED wire
    PROVE  Tasks'
<1>1. \A i \in 1 .. Len(messages') : i + 1 \in 1 .. Len(messages) /\ messages'[i] = messages[i + 1]
  BY Taken
<1>2. mainTask' # None => mainTask' \in Announced
  BY Taken DEF Tasks
<1>3. QED
  BY <1>1, <1>2 DEF Tasks

LEMMA TasksStep == Known /\ Tasks /\ Next => Tasks'
<1> SUFFICES ASSUME Known, Tasks, Next PROVE Tasks'
  OBVIOUS
<1> MessageTypes /\ Announced \subseteq Announced'
  BY Stable DEF Known
<1>1. ASSUME NEW c \in Command, Start(c) PROVE Tasks'
  BY <1>1 DEF Start, Tasks, sockets, progress
<1>2. ASSUME NEW c \in Command, Launch(c) PROVE Tasks'
  BY <1>2 DEF Launch, Tasks, sockets, progress
<1>3. ASSUME NEW c \in Command, SendDone(c) PROVE Tasks'
  BY <1>3 DEF SendDone, Tasks, sockets, progress
<1>4. ASSUME NEW c \in Command, Announce(c) PROVE Tasks'
  <2> DEFINE m == [kind |-> kind[c], cmd |-> c]
  <2>1. m \in Report
    BY <1>4, Sendable DEF Announce, Send, Known, Course
  <2>2. m.kind = "task" => m.cmd \in Announced'
    BY <1>4 DEF Announce, Announced, Known, ControlTypes, driving
  <2>3. Send(c, m) /\ UNCHANGED <<messages, mainTask>>
    BY <1>4 DEF Announce, progress
  <2>4. QED
    BY <2>1, <2>2, <2>3, SendTask
<1>5. ASSUME NEW c \in Command, Finalize(c) PROVE Tasks'
  BY <1>5, Sendable, SendTask DEF Finalize, Note, progress
<1>6. ASSUME NEW c \in Command, Finish(c) PROVE Tasks'
  BY <1>6, Sendable, SendTask DEF Finish, Note, progress
<1>7. ASSUME NEW c \in Command, End(c) PROVE Tasks'
  BY <1>7 DEF End, Tasks, sockets, progress
<1>8. ASSUME NEW c \in Command, ReceiveReset(c) PROVE Tasks'
  BY <1>8, Received, AddTask DEF ReceiveReset, Note, progress
<1>9. ASSUME NEW c \in Command, ReceiveDone(c) PROVE Tasks'
  BY <1>9, Received, AddTask DEF ReceiveDone, Note, progress
<1>10. ASSUME NEW p \in Command \cup Group, Say(p) PROVE Tasks'
  BY <1>10, Sendable, SendTask, ScenarioAssumption DEF Say, NodeOf, Node, progress
<1>11. ASSUME NEW p \in Command \cup Group, Receive(p) PROVE Tasks'
  <2> DEFINE m == Head(wire[p])
  <2>1. /\ wire[p] \in Seq(Report) /\ wire[p] # <<>> /\ wire' = [wire EXCEPT ![p] = Tail(@)]
        /\ messages' = Append(messages, m) /\ mainTask' = mainTask
    BY <1>11 DEF Receive, MessageTypes, progress
  <2>2. m \in Message /\ 1 \in 1 .. Len(wire[p]) /\ m = wire[p][1]
    BY <2>1, HeadTail, Received
  <2>3. m.kind = "task" => m.cmd \in Announced
    BY <2>2 DEF Tasks
  <2>4. \A i \in 1 .. Len(messages') : (i \in 1 .. Len(messages) /\ messages'[i] = messages[i]) \/ messages'[i] = m
    BY <2>1, <2>2, Appended DEF MessageTypes
  <2>5. \A i \in 1 .. Len(wire'[p]) : i + 1 \in 1 .. Len(wire[p]) /\ wire'[p][i] = wire[p][i + 1]
    BY <2>1, HeadTail DEF MessageTypes
  <2>6. \A q \in Command \cup Group : q # p => wire'[q] = wire[q]
    BY <2>1 DEF MessageTypes
  <2>7. QED
    BY <2>1, <2>3, <2>4, <2>5, <2>6 DEF Tasks
<1>12. ASSUME NEW p \in Command \cup Group, NEW g \in Group, Spawn(p, g) PROVE Tasks'
  BY <1>12, Sendable, SendTask DEF Spawn, Note, progress
<1>13. ASSUME TakeMsg PROVE Tasks'
  BY <1>13, TakeAnyTask DEF TakeMsg, sockets, progress
<1>14. ASSUME Climb PROVE Tasks'
  BY <1>14 DEF Climb, Tasks, sockets, progress
<1>15. ASSUME TakeSpawn PROVE Tasks'
  BY <1>15, TakeAnyTask DEF TakeSpawn, sockets, progress
<1>16. ASSUME TakeTask PROVE Tasks'
  BY <1>16, TakeAnyTask DEF TakeTask, sockets, progress
<1>17. ASSUME TakeStart PROVE Tasks'
  BY <1>17, TakeAnyTask DEF TakeStart, sockets, progress
<1>18. ASSUME TakeReset PROVE Tasks'
  BY <1>18, TakeAnyTask DEF TakeReset, sockets, progress
<1>19. ASSUME TakeFinalize PROVE Tasks'
  BY <1>19, TakeAnyTask DEF TakeFinalize, sockets, progress
<1>20. ASSUME TakeQa PROVE Tasks'
  BY <1>20, TakeAnyTask DEF TakeQa, sockets, progress
<1>21. ASSUME TakeTaskDone PROVE Tasks'
  BY <1>21, TakeAnyTask DEF TakeTaskDone, sockets, progress
<1>22. ASSUME TakeDone PROVE Tasks'
  BY <1>22, TakeAnyTask DEF TakeDone, sockets, progress
<1>23. QED
  BY <1>1, <1>2, <1>3, <1>4, <1>5, <1>6, <1>7, <1>8, <1>9, <1>10, <1>11, <1>12, <1>13, <1>14, <1>15, <1>16, <1>17, <1>18, <1>19, <1>20, <1>21, <1>22, Steps

LEMMA KeptResets ==
    ASSUME Resets, Overtaken \subseteq Overtaken', scenario' = scenario,
           resets' \subseteq resets, \A c \in resets : cmd[c] = "launch" => cmd'[c] = "launch",
           UNCHANGED <<messages, mainTask>>
    PROVE  Resets'
BY DEF Resets, Prompt

LEMMA AddReset ==
    ASSUME MessageTypes, Resets, Overtaken \subseteq Overtaken', scenario' = scenario,
           resets' \subseteq resets, NEW m \in Message, messages' = Append(messages, m),
           Prompt /\ m.kind = "reset" =>
               /\ mainTask # None => mainTask \in Overtaken
               /\ \A j \in 1 .. Len(messages) : messages[j].kind = "task" => messages[j].cmd \in Overtaken,
           UNCHANGED <<cmd, mainTask>>
    PROVE  Resets'
<1>1. /\ \A i \in 1 .. Len(messages) : messages'[i] = messages[i]
      /\ messages'[Len(messages) + 1] = m
      /\ \A i \in 1 .. Len(messages') : i \in 1 .. Len(messages) \/ i = Len(messages) + 1
      /\ Len(messages) \in Nat
  BY Appended DEF MessageTypes
<1> SUFFICES ASSUME Prompt
             PROVE  /\ \A c \in resets' : cmd'[c] = "launch"
                    /\ \A i \in 1 .. Len(messages') : messages'[i].kind = "reset" =>
                          /\ mainTask' # None => mainTask' \in Overtaken'
                          /\ \A j \in 1 .. i - 1 : messages'[j].kind = "task" => messages'[j].cmd \in Overtaken'
  BY DEF Resets, Prompt
<1>2. \A c \in resets' : cmd'[c] = "launch"
  BY DEF Resets
<1>3. ASSUME NEW i \in 1 .. Len(messages'), messages'[i].kind = "reset"
      PROVE  /\ mainTask' # None => mainTask' \in Overtaken'
             /\ \A j \in 1 .. i - 1 : messages'[j].kind = "task" => messages'[j].cmd \in Overtaken'
  <2>1. CASE i \in 1 .. Len(messages)
    <3>1. \A j \in 1 .. i - 1 : j \in 1 .. Len(messages)
      BY <2>1, <1>1
    <3>2. QED
      BY <1>3, <1>1, <2>1, <3>1 DEF Resets
  <2>2. CASE i = Len(messages) + 1
    <3>1. \A j \in 1 .. i - 1 : j \in 1 .. Len(messages)
      BY <2>2, <1>1
    <3>2. QED
      BY <1>3, <1>1, <2>2, <3>1
  <2>3. QED
    BY <1>1, <2>1, <2>2
<1>4. QED
  BY <1>2, <1>3

LEMMA TakeAnyReset ==
    ASSUME MessageTypes, Resets, Overtaken \subseteq Overtaken', scenario' = scenario, NEW k, Take(k),
           mainTask' = mainTask \/ (k = "task" /\ mainTask' = Head(messages).cmd),
           \A c \in resets : cmd[c] = "launch" => cmd'[c] = "launch", UNCHANGED resets
    PROVE  Resets'
<1>1. /\ Head(messages) = messages[1] /\ Head(messages).kind = k /\ Len(messages) \in Nat
      /\ \A i \in 1 .. Len(messages') : i + 1 \in 1 .. Len(messages) /\ messages'[i] = messages[i + 1]
  BY Taken DEF MessageTypes
<1> SUFFICES ASSUME Prompt, NEW i \in 1 .. Len(messages'), messages'[i].kind = "reset"
             PROVE  /\ mainTask' # None => mainTask' \in Overtaken'
                    /\ \A j \in 1 .. i - 1 : messages'[j].kind = "task" => messages'[j].cmd \in Overtaken'
  BY DEF Resets, Prompt
<1>2. /\ mainTask # None => mainTask \in Overtaken
      /\ \A j \in 1 .. i : messages[j].kind = "task" => messages[j].cmd \in Overtaken
  BY <1>1 DEF Resets
<1>3. mainTask' # None => mainTask' \in Overtaken'
  BY <1>1, <1>2
<1>4. \A j \in 1 .. i - 1 : j + 1 \in 1 .. i /\ j \in 1 .. Len(messages')
  <2>1. Len(messages') \in Nat
    BY HeadTail DEF Take, MessageTypes
  <2>2. QED
    BY <2>1
<1>5. QED
  BY <1>1, <1>2, <1>3, <1>4

LEMMA ResetsStep == Known /\ Tasks /\ Resets /\ Next => Resets'
<1> SUFFICES ASSUME Known, Tasks, Resets, Next PROVE Resets'
  OBVIOUS
<1> MessageTypes /\ Overtaken \subseteq Overtaken' /\ scenario' = scenario
  BY Stable, SameScenario DEF Known
<1>1. ASSUME NEW c \in Command, Start(c) PROVE Resets'
  BY <1>1 DEF Start, Resets, Prompt, Known, ControlTypes, progress
<1>2. ASSUME NEW c \in Command, Launch(c) PROVE Resets'
  BY <1>2 DEF Launch, Resets, Prompt, Known, ControlTypes, sockets, progress
<1>3. ASSUME NEW c \in Command, SendDone(c) PROVE Resets'
  BY <1>3, KeptResets DEF SendDone, Known, ControlTypes, progress
<1>4. ASSUME NEW c \in Command, Announce(c) PROVE Resets'
  BY <1>4, KeptResets DEF Announce, driving, sockets, progress
<1>5. ASSUME NEW c \in Command, Finalize(c) PROVE Resets'
  BY <1>5, KeptResets DEF Finalize, driving, sockets, progress
<1>6. ASSUME NEW c \in Command, Finish(c) PROVE Resets'
  BY <1>6, KeptResets DEF Finish, driving, sockets, progress
<1>7. ASSUME NEW c \in Command, End(c) PROVE Resets'
  BY <1>7, KeptResets DEF End, driving, sockets, progress
<1>8. ASSUME NEW c \in Command, ReceiveReset(c) PROVE Resets'
  <2>1. ASSUME Prompt, NEW d \in Announced PROVE d \in Overtaken
    <3>1. cmd[c] = "launch"
      BY <1>8, <2>1 DEF ReceiveReset, Resets
    <3>2. d \in Command /\ cmd[d] \in {"running", "over", "answered"}
      BY DEF Announced, Known, Course
    <3>3. ~(c < d) /\ d # c
      BY <3>1, <3>2 DEF Known, Course
    <3>4. d < c
      BY <3>2, <3>3 DEF Command
    <3>5. QED
      BY <3>1, <3>2, <3>4 DEF Overtaken
  <2>2. QED
    BY <1>8, <2>1, AddReset, Received DEF ReceiveReset, Tasks, driving, progress
<1>9. ASSUME NEW c \in Command, ReceiveDone(c) PROVE Resets'
  BY <1>9, AddReset, Received DEF ReceiveDone, driving, progress
<1>10. ASSUME NEW p \in Command \cup Group, Say(p) PROVE Resets'
  BY <1>10, KeptResets DEF Say, driving, sockets, progress
<1>11. ASSUME NEW p \in Command \cup Group, Receive(p) PROVE Resets'
  <2>1. Head(wire[p]) \in Report
    BY <1>11, HeadTail DEF Receive, MessageTypes
  <2>2. QED
    BY <1>11, <2>1, AddReset, Received DEF Receive, driving, progress
<1>12. ASSUME NEW p \in Command \cup Group, NEW g \in Group, Spawn(p, g) PROVE Resets'
  BY <1>12, KeptResets DEF Spawn, driving, sockets, progress
<1>13. ASSUME TakeMsg PROVE Resets'
  BY <1>13, TakeAnyReset DEF TakeMsg, driving, sockets, progress
<1>14. ASSUME Climb PROVE Resets'
  BY <1>14, KeptResets DEF Climb, driving, sockets, progress
<1>15. ASSUME TakeSpawn PROVE Resets'
  BY <1>15, TakeAnyReset DEF TakeSpawn, driving, sockets, progress
<1>16. ASSUME TakeTask PROVE Resets'
  BY <1>16, TakeAnyReset DEF TakeTask, driving, sockets, progress
<1>17. ASSUME TakeStart PROVE Resets'
  BY <1>17, TakeAnyReset DEF TakeStart, driving, sockets, progress
<1>18. ASSUME TakeReset PROVE Resets'
  BY <1>18, TakeAnyReset DEF TakeReset, driving, sockets, progress
<1>19. ASSUME TakeFinalize PROVE Resets'
  BY <1>19, TakeAnyReset DEF TakeFinalize, driving, sockets, progress
<1>20. ASSUME TakeQa PROVE Resets'
  BY <1>20, TakeAnyReset DEF TakeQa, driving, sockets, progress
<1>21. ASSUME TakeTaskDone PROVE Resets'
  BY <1>21, TakeAnyReset DEF TakeTaskDone, driving, sockets, progress
<1>22. ASSUME TakeDone PROVE Resets'
  <2>1. Head(messages).cmd \in Command /\ cmd[Head(messages).cmd] \in {"over", "answered"}
    BY <1>22, Taken, Fields DEF TakeDone, Known, Course
  <2>2. \A c \in resets : cmd[c] = "launch" => cmd'[c] = "launch"
    BY <1>22, <2>1 DEF TakeDone, Known, ControlTypes
  <2>3. QED
    BY <1>22, <2>2, TakeAnyReset DEF TakeDone, sockets, progress
<1>23. QED
  BY <1>1, <1>2, <1>3, <1>4, <1>5, <1>6, <1>7, <1>8, <1>9, <1>10, <1>11, <1>12, <1>13, <1>14, <1>15, <1>16, <1>17, <1>18, <1>19, <1>20, <1>21, <1>22, Steps
-----------------------------------------------------------------------------
LEMMA Ignored ==
    ControlTypes =>
        (ResetIgnored <=> (\E d \in Announced : d \in Overtaken) \/ (~Prompt /\ mainTask # None))
BY ScenarioAssumption DEF ResetIgnored, TasksBefore, Announced, Overtaken, Command, ControlTypes

LEMMA StillIgnored ==
    ASSUME Known, Next, ResetIgnored, ControlTypes', mainTask # None => mainTask' # None
    PROVE  ResetIgnored'
<1>1. ControlTypes /\ Announced \subseteq Announced' /\ Overtaken \subseteq Overtaken' /\ scenario' = scenario
  BY Stable, SameScenario DEF Known
<1>2. (\E d \in Announced : d \in Overtaken) \/ (~Prompt /\ mainTask # None)
  BY <1>1, Ignored
<1>3. (\E d \in Announced' : d \in Overtaken') \/ (~Prompt' /\ mainTask' # None)
  BY <1>1, <1>2 DEF Prompt
<1>4. (ControlTypes => (ResetIgnored <=> (\E d \in Announced : d \in Overtaken) \/ (~Prompt /\ mainTask # None)))'
  BY Ignored, PTL
<1>5. QED
  BY <1>3, <1>4

LEMMA StillPending ==
    ASSUME MessageTypes, NEW k, Take(k), k # "reset", UNCHANGED resets, ResetPending
    PROVE  ResetPending'
BY Taken DEF ResetPending

LEMMA MorePending ==
    ASSUME MessageTypes, NEW m \in Message, messages' = Append(messages, m), ResetPending,
           resets' = resets \/ m.kind = "reset"
    PROVE  ResetPending'
BY Appended DEF ResetPending, MessageTypes

\* The GUI and the tree agree about the root in every step.
LEMMA ShownStep ==
    Known /\ Untouched /\ Tasks /\ Resets /\ ShownIsWorst /\ ControlTypes' /\ Next => ShownIsWorst'
<1> SUFFICES ASSUME Known, Untouched, Tasks, Resets, ShownIsWorst, ControlTypes', Next PROVE ShownIsWorst'
  OBVIOUS
<1> MessageTypes /\ ControlTypes /\ GroupTypes /\ Course
  BY DEF Known
<1> Root \in Node /\ severity[Root] \in Severity /\ shown \in Severity /\ Normal \in Severity
  BY NoneIsNoNode, Severities DEF GroupTypes
<1>1. ASSUME NEW c \in Command, Start(c) PROVE ShownIsWorst'
  <2>1. CASE c = 1
    <3>1. \A d \in Command : cmd[d] = "none"
      BY <1>1, <2>1 DEF Start, Course, ControlTypes, Command
    <3>2. severity'[Root] = Normal /\ shown' = Normal
      BY <1>1, <3>1 DEF Start, Untouched, groups
    <3>3. QED
      BY <3>2 DEF ShownIsWorst, Normal
  <2>2. CASE c # 1
    BY <1>1, <2>2 DEF Start, ShownIsWorst, ResetPending
  <2>3. QED
    BY <2>1, <2>2
<1>2. ASSUME NEW c \in Command, Launch(c) PROVE ShownIsWorst'
  <2>1. UNCHANGED <<severity, shown, resets, messages, mainTask>>
    BY <1>2 DEF Launch, groups, screen, sockets, progress
  <2>2. ResetPending => ResetPending'
    BY <2>1 DEF ResetPending
  <2>3. QED
    BY <2>1, <2>2, StillIgnored DEF ShownIsWorst
<1>3. ASSUME NEW c \in Command, SendDone(c) PROVE ShownIsWorst'
  <2>1. UNCHANGED <<severity, shown, resets, messages, mainTask>>
    BY <1>3 DEF SendDone, groups, screen, sockets, progress
  <2>2. ResetPending => ResetPending'
    BY <2>1 DEF ResetPending
  <2>3. QED
    BY <2>1, <2>2, StillIgnored DEF ShownIsWorst
<1>4. ASSUME NEW c \in Command, Announce(c) PROVE ShownIsWorst'
  <2>1. UNCHANGED <<severity, shown, resets, messages, mainTask>>
    BY <1>4 DEF Announce, groups, screen, sockets, progress
  <2>2. ResetPending => ResetPending'
    BY <2>1 DEF ResetPending
  <2>3. QED
    BY <2>1, <2>2, StillIgnored DEF ShownIsWorst
<1>5. ASSUME NEW c \in Command, Finalize(c) PROVE ShownIsWorst'
  <2>1. UNCHANGED <<severity, shown, resets, messages, mainTask>>
    BY <1>5 DEF Finalize, groups, screen, sockets, progress
  <2>2. ResetPending => ResetPending'
    BY <2>1 DEF ResetPending
  <2>3. QED
    BY <2>1, <2>2, StillIgnored DEF ShownIsWorst
<1>6. ASSUME NEW c \in Command, Finish(c) PROVE ShownIsWorst'
  <2>1. UNCHANGED <<severity, shown, resets, messages, mainTask>>
    BY <1>6 DEF Finish, groups, screen, sockets, progress
  <2>2. ResetPending => ResetPending'
    BY <2>1 DEF ResetPending
  <2>3. QED
    BY <2>1, <2>2, StillIgnored DEF ShownIsWorst
<1>7. ASSUME NEW c \in Command, End(c) PROVE ShownIsWorst'
  <2>1. UNCHANGED <<severity, shown, resets, messages, mainTask>>
    BY <1>7 DEF End, groups, screen, sockets, progress
  <2>2. ResetPending => ResetPending'
    BY <2>1 DEF ResetPending
  <2>3. QED
    BY <2>1, <2>2, StillIgnored DEF ShownIsWorst
<1>8. ASSUME NEW c \in Command, ReceiveReset(c) PROVE ShownIsWorst'
  <2>1. ResetPending'
    BY <1>8, Appended, Received DEF ReceiveReset, ResetPending, Note
  <2>2. QED
    BY <2>1 DEF ShownIsWorst
<1>9. ASSUME NEW c \in Command, ReceiveDone(c) PROVE ShownIsWorst'
  BY <1>9, StillIgnored, MorePending, Received DEF ReceiveDone, ShownIsWorst, groups, screen, progress
<1>10. ASSUME NEW p \in Command \cup Group, Say(p) PROVE ShownIsWorst'
  <2>1. UNCHANGED <<severity, shown, resets, messages, mainTask>>
    BY <1>10 DEF Say, groups, screen, sockets, progress
  <2>2. ResetPending => ResetPending'
    BY <2>1 DEF ResetPending
  <2>3. QED
    BY <2>1, <2>2, StillIgnored DEF ShownIsWorst
<1>11. ASSUME NEW p \in Command \cup Group, Receive(p) PROVE ShownIsWorst'
  <2>1. Head(wire[p]) \in Message
    BY <1>11, HeadTail, Received DEF Receive, MessageTypes
  <2>2. QED
    BY <1>11, <2>1, StillIgnored, MorePending DEF Receive, ShownIsWorst, groups, screen, progress
<1>12. ASSUME NEW p \in Command \cup Group, NEW g \in Group, Spawn(p, g) PROVE ShownIsWorst'
  <2>1. UNCHANGED <<severity, shown, resets, messages, mainTask>>
    BY <1>12 DEF Spawn, groups, screen, sockets, progress
  <2>2. ResetPending => ResetPending'
    BY <2>1 DEF ResetPending
  <2>3. QED
    BY <2>1, <2>2, StillIgnored DEF ShownIsWorst
<1>13. ASSUME TakeMsg PROVE ShownIsWorst'
  BY <1>13, StillIgnored, StillPending DEF TakeMsg, ShownIsWorst, groups, screen, progress, sockets
<1>14. ASSUME Climb PROVE ShownIsWorst'
  <2> DEFINE n == climb.node
             s == Filter[n][climb.from # None][climb.sev]
  <2>1. n \in Node /\ s \in Severity
    BY <1>14, Severities, NoneIsNoNode DEF Climb, GroupTypes
  <2>2. CASE n = Root /\ severity[n] < s
    BY <1>14, <2>1, <2>2, AtMost DEF Climb, ShownIsWorst, GroupTypes
  <2>3. CASE ~(n = Root /\ severity[n] < s)
    <3>1. severity'[Root] = severity[Root] /\ shown' = shown
      BY <1>14, <2>1, <2>3 DEF Climb, GroupTypes
    <3>2. ResetPending => ResetPending'
      BY <1>14 DEF Climb, ResetPending, sockets
    <3>3. QED
      BY <1>14, <3>1, <3>2, StillIgnored DEF Climb, ShownIsWorst, progress
  <2>4. QED
    BY <2>2, <2>3
<1>15. ASSUME TakeSpawn PROVE ShownIsWorst'
  BY <1>15, StillIgnored, StillPending DEF TakeSpawn, ShownIsWorst, groups, screen, progress, sockets
<1>16. ASSUME TakeTask PROVE ShownIsWorst'
  <2>1. mainTask' # None
    BY <1>16, Taken, Fields, NoneIsNoNode DEF TakeTask, Kind
  <2>2. QED
    BY <1>16, <2>1, StillIgnored, StillPending DEF TakeTask, ShownIsWorst, groups, screen, sockets
<1>17. ASSUME TakeStart PROVE ShownIsWorst'
  <2>1. severity'[Root] = Normal \/ UNCHANGED severity
    BY <1>17 DEF TakeStart, ResetTree
  <2>2. shown' = shown /\ mainTask' = mainTask /\ (ResetPending => ResetPending')
    BY <1>17, StillPending DEF TakeStart, screen, progress, sockets
  <2>3. Normal <= shown
    BY DEF Normal, Severity
  <2>4. QED
    BY <2>1, <2>2, <2>3, StillIgnored DEF ShownIsWorst
<1>18. ASSUME TakeReset PROVE ShownIsWorst'
  <2>1. CASE mainTask = None
    <3>1. severity'[Root] = Normal /\ shown' = shown
      BY <1>18, <2>1 DEF TakeReset, ResetTree, screen
    <3>2. QED
      BY <3>1 DEF ShownIsWorst, Normal, Severity
  <2>2. CASE mainTask # None
    <3>1. mainTask \in Announced
      BY <2>2 DEF Tasks
    <3>2. Prompt => mainTask \in Overtaken
      BY <1>18, <2>2, Taken DEF TakeReset, Resets
    <3>3. ResetIgnored
      BY <2>2, <3>1, <3>2, Ignored
    <3>4. mainTask' = mainTask
      BY <1>18 DEF TakeReset
    <3>5. QED
      BY <3>3, <3>4, StillIgnored DEF ShownIsWorst
  <2>3. QED
    BY <2>1, <2>2
<1>19. ASSUME TakeFinalize PROVE ShownIsWorst'
  BY <1>19, StillIgnored, StillPending DEF TakeFinalize, ShownIsWorst, groups, screen, progress, sockets
<1>20. ASSUME TakeQa PROVE ShownIsWorst'
  BY <1>20, StillIgnored, StillPending DEF TakeQa, ShownIsWorst, groups, screen, progress, sockets
<1>21. ASSUME TakeTaskDone PROVE ShownIsWorst'
  BY <1>21, StillIgnored, StillPending DEF TakeTaskDone, ShownIsWorst, groups, screen, progress, sockets
<1>22. ASSUME TakeDone PROVE ShownIsWorst'
  <2>1. CASE ~complete /\ severity[Root] < Catastrophe
    BY <1>22, <2>1, Severities, AtMost DEF TakeDone, ShownIsWorst, GroupTypes
  <2>2. CASE ~(~complete /\ severity[Root] < Catastrophe)
    <3>1. severity'[Root] = severity[Root] /\ shown' = shown
      BY <1>22, <2>2 DEF TakeDone, GroupTypes
    <3>2. QED
      BY <1>22, <3>1, StillIgnored, StillPending DEF TakeDone, ShownIsWorst, progress, sockets
  <2>3. QED
    BY <2>1, <2>2
<1>23. QED
  BY <1>1, <1>2, <1>3, <1>4, <1>5, <1>6, <1>7, <1>8, <1>9, <1>10, <1>11, <1>12, <1>13, <1>14, <1>15, <1>16, <1>17, <1>18, <1>19, <1>20, <1>21, <1>22, Steps
-----------------------------------------------------------------------------
(* What a command has come to, when messages are prompt: what of it is pending is
   the end of what it has sent, in the order in which it has sent it. *)

\* A message about groups, or one about the progress of a command.
Noise(m) == m.kind \in {"msg", "spawn"}
Ctl(q) == {q[i] : i \in {j \in 1 .. Len(q) : ~Noise(q[j])}}

\* The place of a message in the course of its command.
Rank(m) ==
    IF m.kind = "reset" THEN 0
    ELSE IF m.kind \in Kind THEN 1
    ELSE IF m.kind = "finalize pass" THEN 2
    ELSE IF m.kind \in {"qa calliper", "task done"} THEN 3 ELSE 4

Sorted(q) ==
    \A i, j \in 1 .. Len(q) : i < j /\ ~Noise(q[i]) /\ ~Noise(q[j]) => Rank(q[i]) < Rank(q[j])

\* The command that is under way, what it has sent so far and what of that has
\* not been processed.
Current(c) == cmd[c] \in {"launch", "running", "over"}
Line(c) == Ctl(messages) \cup Ctl(wire[c])

Sent(c) ==
    {r \in 1 .. 3 :
        \/ r = 1 /\ stage[c] # "fresh"
        \/ r = 2 /\ ((kind[c] = "script" /\ stage[c] = "finished") \/ (kind[c] = "qa" /\ stage[c] \in {"built", "finished"}))
        \/ r = 3 /\ kind[c] \in {"qa", "task"} /\ stage[c] = "finished"}

Pend(c) ==
    {r \in 0 .. 4 :
        \/ \E m \in Line(c) : Rank(m) = r
        \/ r = 0 /\ c \in resets
        \/ r = 4 /\ c \in dones}

\* m is a message that the course of command c accounts for.
Belongs(c, m) ==
    \/ m.kind = "reset"
    \/ m.kind = kind[c] /\ m.cmd = c /\ 1 \in Sent(c)
    \/ m.kind = "finalize pass" /\ 2 \in Sent(c)
    \/ m.kind = "qa calliper" /\ kind[c] = "qa" /\ 3 \in Sent(c)
    \/ m.kind = "task done" /\ kind[c] = "task" /\ 3 \in Sent(c)
    \/ m.kind = "done" /\ m.cmd = c /\ cmd[c] = "over"

\* With prompt messages, those about progress are of the current command and
\* come in the order in which it has sent them: the list, then its connection.
Lines ==
    /\ \A p \in Command \cup Group : Ctl(wire[p]) # {} => p \in Command /\ cmd[p] = "running"
    /\ (\A c \in Command : ~Current(c)) => Ctl(messages) = {}
    /\ \A c \in resets : cmd[c] = "launch" /\ Ctl(messages) = {}
    /\ \A c \in dones : cmd[c] = "over" /\ \A m \in Ctl(messages) : Rank(m) < 4
    /\ Sorted(messages)
    /\ \A c \in Command :
          /\ Sorted(wire[c])
          /\ \A m \in Ctl(messages), n \in Ctl(wire[c]) : Rank(m) < Rank(n)
          /\ Current(c) => \A m \in Line(c) : Belongs(c, m)

\* What of a command is processed is the beginning of what it has sent.
Chain(c) == \A a \in Pend(c), b \in Sent(c) : a < b => b \in Pend(c)

\* What the processor knows of the current command, once it has read its start.
Track(c) ==
    stage[c] # "fresh" /\ 1 \notin Pend(c) =>
        IF kind[c] = "task" THEN mainTask # None ELSE mainTask = None => (qaTrack <=> kind[c] = "qa")

Last(c) == IF kind[c] = "script" THEN 2 ELSE 3

\* Whether it counts as complete, up to the messages that are pending.
Ending(c) ==
    Identified(c) =>
        IF stage[c] = "finished" THEN Last(c) \in Pend(c) \/ complete
        ELSE ~complete \/ 0 \in Pend(c) \/ (kind[c] = "task" /\ 1 \in Pend(c))

Knows == \A c \in Command : Current(c) => Chain(c) /\ Track(c) /\ Ending(c)

Fresh == (\A c \in Command : cmd[c] = "none") => ~complete
Answers == \A c \in Command : answer[c] # None => cmd[c] = "answered"

PromptInv == Prompt => Lines /\ Knows
-----------------------------------------------------------------------------
(* Sequences of messages *)

LEMMA Ranks == \A m \in Message : Rank(m) \in 0 .. 4
BY DEF Rank

LEMMA WireOfMessages == ASSUME NEW q \in Seq(Report) PROVE q \in Seq(Message)
BY Received

LEMMA CtlOfMessages == ASSUME NEW q \in Seq(Message) PROVE Ctl(q) \subseteq Message
BY DEF Ctl

LEMMA CtlEmpty == Ctl(<<>>) = {} /\ Sorted(<<>>)
BY DEF Ctl, Sorted

LEMMA CtlAppend ==
    ASSUME NEW q \in Seq(Message), NEW m \in Message
    PROVE  Ctl(Append(q, m)) = IF Noise(m) THEN Ctl(q) ELSE Ctl(q) \cup {m}
<1> DEFINE p == Append(q, m)
<1>1. /\ \A i \in 1 .. Len(q) : i \in 1 .. Len(p) /\ p[i] = q[i]
      /\ Len(q) + 1 \in 1 .. Len(p) /\ p[Len(q) + 1] = m
      /\ \A i \in 1 .. Len(p) : i \in 1 .. Len(q) \/ i = Len(q) + 1
  BY Appended
<1> HIDE DEF p
<1>2. ASSUME NEW x \in Ctl(p) PROVE x \in Ctl(q) \/ (x = m /\ ~Noise(m))
  BY <1>1 DEF Ctl
<1>3. Ctl(q) \subseteq Ctl(p)
  BY <1>1 DEF Ctl
<1>4. ~Noise(m) => m \in Ctl(p)
  BY <1>1 DEF Ctl
<1>5. QED
  BY <1>2, <1>3, <1>4 DEF p

LEMMA SortedAppend ==
    ASSUME NEW q \in Seq(Message), NEW m \in Message, Sorted(q),
           ~Noise(m) => \A n \in Ctl(q) : Rank(n) < Rank(m)
    PROVE  Sorted(Append(q, m))
<1> DEFINE p == Append(q, m)
<1>1. /\ \A i \in 1 .. Len(p) : (i \in 1 .. Len(q) /\ p[i] = q[i]) \/ (i = Len(q) + 1 /\ p[i] = m)
      /\ Len(q) \in Nat
  BY Appended
<1> HIDE DEF p
<1>2. SUFFICES ASSUME NEW i \in 1 .. Len(p), NEW j \in 1 .. Len(p), i < j, ~Noise(p[i]), ~Noise(p[j])
               PROVE  Rank(p[i]) < Rank(p[j])
  BY DEF Sorted, p
<1>3. i \in 1 .. Len(q) /\ p[i] = q[i]
  BY <1>1, <1>2
<1>4. CASE j \in 1 .. Len(q) /\ p[j] = q[j]
  BY <1>2, <1>3, <1>4 DEF Sorted
<1>5. CASE j = Len(q) + 1 /\ p[j] = m
  BY <1>2, <1>3, <1>5 DEF Ctl
<1>6. QED
  BY <1>1, <1>4, <1>5

LEMMA CtlTail ==
    ASSUME NEW q \in Seq(Message), q # <<>>
    PROVE  Ctl(q) = IF Noise(Head(q)) THEN Ctl(Tail(q)) ELSE Ctl(Tail(q)) \cup {Head(q)}
<1> DEFINE h == Head(q)
           t == Tail(q)
<1>1. /\ 1 \in 1 .. Len(q) /\ h = q[1]
      /\ \A i \in 1 .. Len(t) : i + 1 \in 1 .. Len(q) /\ t[i] = q[i + 1]
      /\ \A i \in 1 .. Len(q) : i = 1 \/ (i - 1 \in 1 .. Len(t) /\ t[i - 1] = q[i])
  BY HeadTail
<1> HIDE DEF h, t
<1>2. ASSUME NEW x \in Ctl(q) PROVE x \in Ctl(t) \/ (x = h /\ ~Noise(h))
  BY <1>1 DEF Ctl
<1>3. Ctl(t) \subseteq Ctl(q)
  BY <1>1 DEF Ctl
<1>4. ~Noise(h) => h \in Ctl(q)
  BY <1>1 DEF Ctl
<1>5. QED
  BY <1>2, <1>3, <1>4 DEF h, t

LEMMA SortedTail ==
    ASSUME NEW q \in Seq(Message), q # <<>>, Sorted(q)
    PROVE  /\ Sorted(Tail(q))
           /\ ~Noise(Head(q)) => \A n \in Ctl(Tail(q)) : Rank(Head(q)) < Rank(n)
<1> DEFINE h == Head(q)
           t == Tail(q)
<1>1. /\ 1 \in 1 .. Len(q) /\ h = q[1]
      /\ \A i \in 1 .. Len(t) : i + 1 \in 1 .. Len(q) /\ t[i] = q[i + 1]
  BY HeadTail
<1> HIDE DEF h, t
<1>2. Sorted(t)
  <2> SUFFICES ASSUME NEW i \in 1 .. Len(t), NEW j \in 1 .. Len(t), i < j, ~Noise(t[i]), ~Noise(t[j])
               PROVE  Rank(t[i]) < Rank(t[j])
    BY DEF Sorted
  <2>1. i + 1 < j + 1
    OBVIOUS
  <2>2. QED
    BY <1>1, <2>1 DEF Sorted
<1>3. ASSUME ~Noise(h), NEW n \in Ctl(t) PROVE Rank(h) < Rank(n)
  <2>1. PICK i \in 1 .. Len(t) : n = t[i] /\ ~Noise(t[i])
    BY <1>3 DEF Ctl
  <2>2. 1 < i + 1
    BY <2>1
  <2>3. QED
    BY <1>1, <1>3, <2>1, <2>2 DEF Sorted
<1>4. QED
  BY <1>2, <1>3 DEF h, t

LEMMA OneCurrent ==
    ASSUME Course, NEW c \in Command, NEW d \in Command, Current(c), Current(d)
    PROVE  c = d
<1>1. c < d \/ d < c \/ c = d
  BY ScenarioAssumption DEF Command
<1>2. QED
  BY <1>1 DEF Course, Current
-----------------------------------------------------------------------------
(* What is on its way, when messages are prompt *)

\* A step that concerns no message about progress.
LEMMA LinesSame ==
    ASSUME Known, Lines, Ctl(messages') = Ctl(messages), Sorted(messages'),
           \A p \in Command \cup Group : Ctl(wire'[p]) = Ctl(wire[p]),
           \A c \in Command : Sorted(wire'[c]),
           UNCHANGED <<resets, dones, kind, stage>>,
           \A c \in Command : Current(c)' <=> Current(c),
           \A c \in Command : cmd'[c] = cmd[c] \/ (cmd[c] = "launch" /\ c \notin resets)
    PROVE  /\ Lines'
           /\ \A c \in Command : Sent(c)' = Sent(c) /\ Pend(c)' = Pend(c)
<1>1. \A c \in Command : Sent(c)' = Sent(c) /\ Line(c)' = Line(c)
  BY DEF Sent, Line
<1>2. \A c \in Command : Pend(c)' = Pend(c)
  BY <1>1 DEF Pend
<1>3. \A c \in Command : \A m : Belongs(c, m) => Belongs(c, m)'
  BY <1>1 DEF Belongs
<1>4. \A c \in Command : Current(c)' => \A m \in Line(c)' : Belongs(c, m)'
  BY <1>1, <1>3 DEF Lines
<1>5. \A p \in Command \cup Group : Ctl(wire'[p]) # {} => p \in Command /\ cmd'[p] = "running"
  BY DEF Lines
<1>6. (\A c \in Command : ~Current(c)') => Ctl(messages') = {}
  BY DEF Lines
<1>7. /\ \A c \in resets' : cmd'[c] = "launch" /\ Ctl(messages') = {}
      /\ \A c \in dones' : cmd'[c] = "over" /\ \A m \in Ctl(messages') : Rank(m) < 4
  <2>1. resets \subseteq Command /\ dones \subseteq Command
    BY DEF Known, ControlTypes
  <2>2. QED
    BY <2>1 DEF Lines
<1>8. \A c \in Command : \A m \in Ctl(messages'), n \in Ctl(wire'[c]) : Rank(m) < Rank(n)
  BY DEF Lines
<1>9. QED
  BY <1>1, <1>2, <1>4, <1>5, <1>6, <1>7, <1>8 DEF Lines

\* Nothing about progress is on its way but of the current command.
LEMMA NobodyElse ==
    ASSUME Course, Lines, NEW c \in Command, Current(c)
    PROVE  /\ \A d \in Command : Current(d) => d = c
           /\ \A p \in Command \cup Group : p # c => Ctl(wire[p]) = {}
           /\ cmd[c] # "running" => Ctl(wire[c]) = {}
           /\ resets \cap Command \subseteq {c} /\ dones \cap Command \subseteq {c}
<1>1. \A d \in Command : Current(d) => d = c
  BY OneCurrent
<1>2. \A p \in Command \cup Group : Ctl(wire[p]) # {} => p = c /\ cmd[c] = "running"
  BY <1>1 DEF Lines, Current
<1>3. QED
  BY <1>1, <1>2 DEF Lines, Current

\* The first process of command c sends a message about progress.
LEMMA LinesSend ==
    ASSUME Known, Lines, NEW c \in Command, NEW m \in Report, ~Noise(m), Send(c, m),
           UNCHANGED <<messages, resets, dones, cmd, kind>>,
           \A n \in Line(c) : Rank(n) < Rank(m),
           \A d \in Command : Sent(d) \subseteq Sent(d)', Belongs(c, m)'
    PROVE  Lines' /\ Pend(c)' = Pend(c) \cup {Rank(m)}
<1>1. cmd[c] = "running" /\ Current(c)
  BY DEF Send, Known, Course, Current
<1>2. /\ \A q \in Command \cup Group : wire[q] \in Seq(Message)
      /\ m \in Message /\ messages \in Seq(Message)
      /\ wire'[c] = Append(wire[c], m) /\ \A q \in Command \cup Group : q # c => wire'[q] = wire[q]
  BY Received, WireOfMessages DEF Send, Known, MessageTypes
<1>3. Ctl(wire'[c]) = Ctl(wire[c]) \cup {m}
  BY <1>2, CtlAppend
<1>4. Sorted(wire'[c])
  BY <1>2, SortedAppend DEF Lines, Line
<1>5. Line(c)' = Line(c) \cup {m}
  BY <1>3 DEF Line
<1>6. \A d \in Command : d # c => ~Current(d)
  BY <1>1, NobodyElse DEF Known
<1>7. \A n : Belongs(c, n) => Belongs(c, n)'
  BY DEF Belongs
<1>8. \A p \in Command \cup Group : Ctl(wire'[p]) # {} => p \in Command /\ cmd'[p] = "running"
  BY <1>1, <1>2 DEF Lines
<1>9. \A d \in Command :
         /\ Sorted(wire'[d])
         /\ \A k \in Ctl(messages'), n \in Ctl(wire'[d]) : Rank(k) < Rank(n)
  BY <1>2, <1>3, <1>4 DEF Lines, Line
<1>10. \A d \in Command : Current(d)' => \A n \in Line(d)' : Belongs(d, n)'
  <2>1. SUFFICES ASSUME NEW n \in Line(c)' PROVE Belongs(c, n)'
    BY <1>6 DEF Current
  <2>2. QED
    BY <1>1, <1>5, <1>7 DEF Lines
<1>11. Pend(c)' = Pend(c) \cup {Rank(m)}
  <2>1. Rank(m) \in 0 .. 4
    BY <1>2, Ranks
  <2>2. QED
    BY <1>5, <2>1 DEF Pend
<1>12. Sorted(messages') /\ ((\A d \in Command : ~Current(d)') => Ctl(messages') = {})
  BY DEF Lines, Current
<1>13. /\ \A d \in resets' : cmd'[d] = "launch" /\ Ctl(messages') = {}
       /\ \A d \in dones' : cmd'[d] = "over" /\ \A n \in Ctl(messages') : Rank(n) < 4
  BY DEF Lines
<1>14. QED
  BY <1>8, <1>9, <1>10, <1>11, <1>12, <1>13 DEF Lines

\* A thread of the log presentation puts a message about progress into the list:
\* one of those that the current command has sent, the next one.
LEMMA LinesReceive ==
    ASSUME Known, Lines, NEW c \in Command, Current(c), NEW m \in Message, ~Noise(m),
           messages' = Append(messages, m), UNCHANGED <<cmd, kind, stage>>,
           \A n \in Ctl(messages) : Rank(n) < Rank(m),
           Belongs(c, m), resets' = {}, dones' = {},
           \A p \in Command \cup Group : p # c => Ctl(wire'[p]) = Ctl(wire[p]),
           \A d \in Command : d # c => Sorted(wire'[d]),
           Sorted(wire'[c]), Ctl(wire'[c]) \subseteq Ctl(wire[c]),
           \A n \in Ctl(wire'[c]) : Rank(m) < Rank(n)
    PROVE  Lines'
<1>1. Ctl(messages') = Ctl(messages) \cup {m} /\ Sorted(messages')
  BY CtlAppend, SortedAppend DEF Lines, Known, MessageTypes
<1>2. \A d \in Command : d # c => ~Current(d)
  BY NobodyElse DEF Known
<1>3. \A p \in Command \cup Group : p # c => Ctl(wire'[p]) = {}
  BY NobodyElse DEF Known
<1>4. \A p \in Command \cup Group : Ctl(wire'[p]) # {} => p \in Command /\ cmd'[p] = "running"
  BY <1>3 DEF Lines
<1>5. \A d \in Command : \A k \in Ctl(messages'), n \in Ctl(wire'[d]) : Rank(k) < Rank(n)
  <2>1. \A k \in Ctl(messages'), n \in Ctl(wire'[c]) : Rank(k) < Rank(n)
    BY <1>1 DEF Lines
  <2>2. QED
    BY <1>3, <2>1
<1>6. \A d \in Command : Current(d)' => \A n \in Line(d)' : Belongs(d, n)'
  <2>1. SUFFICES ASSUME NEW n \in Line(c)' PROVE Belongs(c, n)'
    BY <1>2 DEF Current
  <2>2. n \in Line(c) \/ n = m
    BY <1>1 DEF Line
  <2>3. Belongs(c, n)
    BY <2>2 DEF Lines
  <2>4. QED
    BY <2>3 DEF Belongs, Sent
<1>7. Current(c)'
  BY DEF Current
<1>8. QED
  BY <1>1, <1>4, <1>5, <1>6, <1>7 DEF Lines

\* The processor takes a message.
LEMMA LinesTake ==
    ASSUME Known, Lines, NEW k, Take(k), UNCHANGED <<wire, resets, dones, cmd, kind, stage>>
    PROVE  /\ Lines'
           /\ \A c \in Command : Sent(c)' = Sent(c)
           /\ Noise(Head(messages)) => \A c \in Command : Pend(c)' = Pend(c)
           /\ ~Noise(Head(messages)) =>
                 \A c \in Command : Current(c) =>
                    /\ Pend(c)' = Pend(c) \ {Rank(Head(messages))}
                    /\ Rank(Head(messages)) \in Pend(c)
                    /\ \A r \in Pend(c) : Rank(Head(messages)) <= r
                    /\ Belongs(c, Head(messages))
<1> DEFINE h == Head(messages)
<1>1. /\ messages \in Seq(Message) /\ messages # <<>> /\ messages' = Tail(messages)
      /\ h \in Message /\ Rank(h) \in 0 .. 4
  BY Taken, Ranks DEF Take, Known, MessageTypes
<1>2. /\ Ctl(messages) = IF Noise(h) THEN Ctl(messages') ELSE Ctl(messages') \cup {h}
      /\ Sorted(messages')
      /\ ~Noise(h) => \A n \in Ctl(messages') : Rank(h) < Rank(n)
  BY <1>1, CtlTail, SortedTail DEF Lines
<1>3. \A c \in Command : Sent(c)' = Sent(c) /\ (Current(c)' <=> Current(c))
  BY DEF Sent, Current
<1>4. CASE Noise(h)
  BY <1>2, <1>3, <1>4, LinesSame DEF Lines
<1> HIDE DEF h
<1>5. CASE ~Noise(h)
  <2>1. Lines'
    <3>1. \A c \in Command : \A m : Belongs(c, m) => Belongs(c, m)'
      BY <1>3 DEF Belongs
    <3>2. Ctl(messages') \subseteq Ctl(messages)
      BY <1>2
    <3>3. \A c \in Command : Line(c)' \subseteq Line(c)
      BY <3>2 DEF Line
    <3>4. \A c \in Command : Current(c)' => \A m \in Line(c)' : Belongs(c, m)'
      BY <1>3, <3>1, <3>3 DEF Lines
    <3>5. \A c \in Command : \A m \in Ctl(messages'), n \in Ctl(wire'[c]) : Rank(m) < Rank(n)
      BY <3>2 DEF Lines
    <3>6. /\ \A c \in resets' : cmd'[c] = "launch" /\ Ctl(messages') = {}
          /\ \A c \in dones' : cmd'[c] = "over" /\ \A n \in Ctl(messages') : Rank(n) < 4
      BY <3>2 DEF Lines
    <3>7. (\A d \in Command : ~Current(d)') => Ctl(messages') = {}
      BY <1>3, <3>2 DEF Lines
    <3>8. QED
      BY <1>2, <3>4, <3>5, <3>6, <3>7 DEF Lines
  <2>2. ASSUME NEW c \in Command, Current(c)
        PROVE  /\ Pend(c)' = Pend(c) \ {Rank(h)}
               /\ Rank(h) \in Pend(c)
               /\ \A r \in Pend(c) : Rank(h) <= r
               /\ Belongs(c, h)
    <3>1. c \notin resets /\ (c \in dones => Rank(h) < 4)
      BY <1>2, <1>5 DEF Lines
    <3>2. \A n \in Line(c)' : Rank(h) < Rank(n)
      BY <1>2, <1>5 DEF Lines, Line
    <3>3. Line(c) = Line(c)' \cup {h}
      BY <1>2, <1>5 DEF Line
    <3>4. Line(c) \subseteq Message
      BY <1>1, CtlOfMessages, WireOfMessages DEF Line, Known, MessageTypes
    <3>5. \A n \in Line(c) : Rank(n) \in 0 .. 4
      BY <3>4, Ranks
    <3>6. Belongs(c, h)
      BY <2>2, <3>3 DEF Lines
    <3>7. Pend(c)' = {r \in 0 .. 4 : (\E m \in Line(c)' : Rank(m) = r) \/ (r = 4 /\ c \in dones)}
      BY <3>1 DEF Pend
    <3>8. Pend(c) = {r \in 0 .. 4 : (\E m \in Line(c) : Rank(m) = r) \/ (r = 4 /\ c \in dones)}
      BY <3>1 DEF Pend
    <3>9. Pend(c) = Pend(c)' \cup {Rank(h)}
      BY <1>1, <3>3, <3>7, <3>8
    <3>10. \A r \in Pend(c)' : Rank(h) < r
      BY <1>1, <3>1, <3>2, <3>7
    <3>11. \A r \in Pend(c) : Rank(h) <= r
      <4> SUFFICES ASSUME NEW r \in Pend(c) PROVE Rank(h) <= r
        OBVIOUS
      <4>1. r \in 0 .. 4
        BY <3>8
      <4>2. r = Rank(h) \/ Rank(h) < r
        BY <3>9, <3>10
      <4>3. QED
        BY <1>1, <4>1, <4>2
    <3>12. Rank(h) \notin Pend(c)'
      BY <1>1, <3>10
    <3>13. Pend(c)' = Pend(c) \ {Rank(h)} /\ Rank(h) \in Pend(c)
      <4> HIDE DEF Pend
      <4>1. QED
        BY <3>9, <3>12
    <3>14. QED
      BY <3>6, <3>11, <3>13
  <2>3. QED
    BY <1>3, <1>5, <2>1, <2>2 DEF h
<1>6. QED
  BY <1>4, <1>5 DEF h
-----------------------------------------------------------------------------
(* What the processor knows *)

\* The main task, if there is one, is that of the current command or of an
\* earlier one.
LEMMA WhoseTask ==
    ASSUME Known, Tasks, NEW c \in Command, Current(c), mainTask # None
    PROVE  (mainTask = c /\ kind[c] = "task" /\ stage[c] # "fresh") \/ mainTask \in TasksBefore(c)
<1>1. mainTask \in Command /\ kind[mainTask] = "task" /\ stage[mainTask] # "fresh"
  BY DEF Tasks, Announced
<1>2. ~(c < mainTask)
  BY <1>1 DEF Known, Course, Current
<1>3. mainTask = c \/ mainTask \in 1 .. c - 1
  BY <1>1, <1>2, ScenarioAssumption DEF Command
<1>4. QED
  BY <1>1, <1>3 DEF TasksBefore

\* Before a prompt reset is processed, the main task is of an earlier command.
LEMMA TaskBeforeReset ==
    ASSUME Known, Tasks, Resets, Prompt, NEW c \in Command, Current(c), mainTask # None, Take("reset")
    PROVE  TasksBefore(c) # {}
<1>1. mainTask \in Overtaken
  BY Taken DEF Known, Resets
<1>2. PICK d \in Command : mainTask < d /\ cmd[d] # "none" /\ mainTask \in Command
  BY <1>1 DEF Overtaken
<1>3. mainTask # c
  BY <1>2 DEF Known, Course, Current
<1>4. QED
  BY <1>3, WhoseTask

\* Steps that leave processor and messages alone, but for a done message.
LEMMA KnowsSame ==
    ASSUME Known, Knows, UNCHANGED <<kind, stage, mainTask, complete, qaTrack>>,
           \A c \in Command : Current(c)' => Current(c),
           \A c \in Command : Current(c)' => Pend(c)' = Pend(c) \/ Pend(c)' = Pend(c) \cup {4}
    PROVE  Knows'
<1> SUFFICES ASSUME NEW c \in Command, Current(c)' PROVE Chain(c)' /\ Track(c)' /\ Ending(c)'
  BY DEF Knows
<1>1. Current(c) /\ Chain(c) /\ Track(c) /\ Ending(c)
  BY DEF Knows
<1>2. Sent(c)' = Sent(c) /\ Sent(c) \subseteq 1 .. 3 /\ Identified(c)' = Identified(c) /\ Last(c)' = Last(c) /\ Last(c) \in 1 .. 3
  BY DEF Sent, Identified, TasksBefore, Last
<1>3. Pend(c) \subseteq Pend(c)' /\ \A r \in 0 .. 3 : r \in Pend(c)' => r \in Pend(c)
  OBVIOUS
<1>4. \A a \in Pend(c)', b \in Sent(c) : a < b => a \in 0 .. 3
  BY <1>2 DEF Pend
<1>5. Chain(c)'
  BY <1>1, <1>2, <1>3, <1>4 DEF Chain
<1>6. Track(c)'
  BY <1>1, <1>3 DEF Track
<1>7. Ending(c)'
  BY <1>1, <1>2, <1>3 DEF Ending
<1>8. QED
  BY <1>5, <1>6, <1>7

\* Ranks are within their ranges.
LEMMA Finite == \A c \in Command : Pend(c) \subseteq 0 .. 4 /\ Sent(c) \subseteq 1 .. 3
BY DEF Pend, Sent

\* The chain of what is pending survives when the first of it is taken.
LEMMA ChainTake ==
    ASSUME NEW P \in SUBSET (0 .. 4), NEW S \in SUBSET (1 .. 3), NEW r \in P, \A a \in P : r <= a,
           \A a \in P, b \in S : a < b => b \in P
    PROVE  \A a \in P \ {r}, b \in S : a < b => b \in P \ {r}
<1> SUFFICES ASSUME NEW a \in P \ {r}, NEW b \in S, a < b PROVE b \in P \ {r}
  OBVIOUS
<1>1. r <= a /\ a \in 0 .. 4 /\ r \in 0 .. 4 /\ b \in 1 .. 3
  OBVIOUS
<1>2. b # r
  BY <1>1
<1>3. QED
  BY <1>2

\* The effect of a message about progress on what the processor knows: taking
\* the one of rank r, the lowest that is pending.
LEMMA KnowsTake ==
    ASSUME Known, Lines, Knows, NEW k, Take(k), ~Noise(Head(messages)),
           UNCHANGED <<wire, resets, dones, cmd, kind, stage>>,
           NEW c \in Command, Current(c)
    PROVE  LET r == Rank(Head(messages))
           IN  /\ Chain(c) /\ Track(c) /\ Ending(c) /\ Chain(c)'
               /\ Pend(c)' = Pend(c) \ {r} /\ r \in Pend(c) /\ r \in 0 .. 4
               /\ \A a \in 0 .. 4 : a < r => a \notin Pend(c)
               /\ Belongs(c, Head(messages))
               /\ \A b \in Sent(c) : r < b => b \in Pend(c)'
               /\ Sent(c)' = Sent(c) /\ Identified(c)' = Identified(c)
<1> DEFINE r == Rank(Head(messages))
           h == Head(messages)
<1>1. Chain(c) /\ Track(c) /\ Ending(c)
  BY DEF Knows
<1>2. /\ Pend(c)' = Pend(c) \ {r} /\ r \in Pend(c) /\ Belongs(c, h)
      /\ \A a \in Pend(c) : r <= a
      /\ Sent(c)' = Sent(c)
  BY LinesTake
<1> HIDE DEF r
<1>3. r \in 0 .. 4
  BY <1>2, Finite
<1>4. \A a \in 0 .. 4 : a < r => a \notin Pend(c)
  BY <1>2, <1>3
<1>5. \A b \in Sent(c) : r < b => b \in Pend(c)'
  BY <1>1, <1>2, <1>3, Finite DEF Chain
<1>6. Chain(c)'
  BY <1>1, <1>2, ChainTake, Finite DEF Chain
<1>7. Identified(c)' = Identified(c)
  BY DEF Identified, TasksBefore
<1>8. QED
  BY <1>1, <1>2, <1>3, <1>4, <1>5, <1>6, <1>7 DEF r, h

\* A step of a process or a thread that concerns no message about progress.
LEMMA QuietStep ==
    ASSUME Known, Lines, Knows, Ctl(messages') = Ctl(messages), Sorted(messages'),
           \A p \in Command \cup Group : Ctl(wire'[p]) = Ctl(wire[p]),
           \A c \in Command : Sorted(wire'[c]),
           UNCHANGED <<resets, dones, cmd, kind, stage, mainTask, complete, qaTrack>>
    PROVE  Lines' /\ Knows'
<1>1. \A c \in Command : (Current(c)' <=> Current(c))
  BY DEF Current
<1>2. Lines' /\ \A c \in Command : Pend(c)' = Pend(c)
  BY <1>1, LinesSame
<1>3. QED
  BY <1>1, <1>2, KnowsSame

\* A process says something that is not about progress.
LEMMA NoiseSent ==
    ASSUME Known, Lines, Knows, NEW p \in Command \cup Group, NEW m \in Report, Noise(m), Send(p, m),
           UNCHANGED <<messages, resets, dones, cmd, kind, stage, mainTask, complete, qaTrack>>
    PROVE  Lines' /\ Knows'
<1>1. /\ wire[p] \in Seq(Message) /\ m \in Message
      /\ wire'[p] = Append(wire[p], m) /\ \A q \in Command \cup Group : q # p => wire'[q] = wire[q]
  BY Received, WireOfMessages DEF Send, Known, MessageTypes
<1>2. Ctl(wire'[p]) = Ctl(wire[p])
  BY <1>1, CtlAppend
<1>3. p \in Command => Sorted(wire'[p])
  BY <1>1, SortedAppend DEF Lines
<1>4. \A c \in Command : Sorted(wire'[c])
  BY <1>1, <1>3 DEF Lines
<1>5. \A q \in Command \cup Group : Ctl(wire'[q]) = Ctl(wire[q])
  BY <1>1, <1>2
<1>6. Ctl(messages') = Ctl(messages) /\ Sorted(messages')
  BY DEF Lines
<1>7. QED
  BY <1>4, <1>5, <1>6, QuietStep

\* The first process of a command sends a message about progress.
LEMMA ProgressSent ==
    ASSUME Known, Lines, Knows, NEW c \in Command, NEW m \in Report, ~Noise(m), Send(c, m),
           UNCHANGED <<messages, resets, dones, cmd, kind, mainTask, complete, qaTrack>>,
           \A d \in Command : d # c => stage'[d] = stage[d],
           Sent(c)' = Sent(c) \cup {Rank(m)}, Rank(m) \in 1 .. 3, \A b \in Sent(c) : b < Rank(m),
           stage[c] # "finished", stage'[c] # "fresh", Belongs(c, m)',
           stage[c] = "fresh" => Rank(m) = 1,
           stage'[c] = "finished" => Rank(m) = Last(c)
    PROVE  Lines' /\ Knows'
<1>1. cmd[c] = "running" /\ Current(c)
  BY DEF Send, Known, Course, Current
<1>2. \A d \in Command : Current(d) => d = c
  BY <1>1, NobodyElse DEF Known
<1>3. \A n \in Line(c) : Rank(n) < Rank(m)
  <2> SUFFICES ASSUME NEW n \in Line(c) PROVE Rank(n) < Rank(m)
    OBVIOUS
  <2>1. Belongs(c, n)
    BY <1>1 DEF Lines
  <2>2. n.kind = "reset" \/ Rank(n) \in Sent(c)
    BY <1>1, <2>1 DEF Belongs, Rank, Sent, Kind, Known, Course
  <2>3. n.kind = "reset" => Rank(n) = 0
    BY DEF Rank
  <2>4. QED
    BY <2>2, <2>3
<1>4. \A d \in Command : Sent(d) \subseteq Sent(d)'
  <2>1. \A d \in Command : d # c => Sent(d)' = Sent(d)
    BY DEF Sent
  <2>2. QED
    BY <2>1
<1>5. Lines' /\ Pend(c)' = Pend(c) \cup {Rank(m)}
  BY <1>3, <1>4, LinesSend
<1>6. Chain(c) /\ Ending(c)
  BY <1>1 DEF Knows
<1>7. Chain(c)'
  <2> SUFFICES ASSUME NEW a \in Pend(c)', NEW b \in Sent(c)', a < b PROVE b \in Pend(c)'
    BY DEF Chain
  <2>1. CASE b = Rank(m)
    BY <1>5, <2>1
  <2>2. CASE b \in Sent(c)
    <3>1. a # Rank(m)
      BY <2>2, Finite
    <3>2. a \in Pend(c)
      BY <1>5, <3>1
    <3>3. QED
      BY <1>5, <1>6, <2>2, <3>2 DEF Chain
  <2>3. QED
    BY <2>1, <2>2
<1>8. Track(c)'
  <2>1. CASE stage[c] = "fresh"
    BY <1>5, <2>1 DEF Track
  <2>2. CASE stage[c] # "fresh"
    <3>1. Track(c)
      BY <1>1 DEF Knows
    <3>2. 1 \notin Pend(c)' => 1 \notin Pend(c)
      BY <1>5
    <3>3. QED
      BY <2>2, <3>1, <3>2 DEF Track
  <2>3. QED
    BY <2>1, <2>2
<1>9. Ending(c)'
  <2>1. CASE stage'[c] = "finished"
    BY <1>5, <2>1 DEF Ending, Last
  <2>2. CASE stage'[c] # "finished"
    <3>1. TasksBefore(c)' = TasksBefore(c)
      <4>1. \A d \in 1 .. c - 1 : stage'[d] = stage[d]
        BY ScenarioAssumption DEF Known, ControlTypes, Command
      <4>2. QED
        BY <4>1 DEF TasksBefore
    <3>2. CASE Identified(c)
      BY <1>5, <1>6, <2>2, <3>2 DEF Ending
    <3>3. CASE ~Identified(c) /\ Identified(c)'
      <4>1. kind[c] = "task" /\ stage[c] = "fresh"
        BY <3>1, <3>3 DEF Identified
      <4>2. QED
        BY <1>5, <2>2, <4>1 DEF Ending
    <3>4. QED
      BY <3>2, <3>3 DEF Ending
  <2>3. QED
    BY <2>1, <2>2
<1>10. \A d \in Command : Current(d)' => d = c
  BY <1>2 DEF Current
<1>11. QED
  BY <1>5, <1>7, <1>8, <1>9, <1>10 DEF Knows

\* The processor takes a message that is not about progress.
LEMMA NoiseTaken ==
    ASSUME Known, Lines, Knows, NEW k \in {"msg", "spawn"}, Take(k),
           UNCHANGED <<wire, resets, dones, cmd, kind, stage, mainTask, complete, qaTrack>>
    PROVE  Lines' /\ Knows'
<1>1. Noise(Head(messages))
  BY Taken DEF Noise, Known
<1>2. Lines' /\ \A c \in Command : Pend(c)' = Pend(c)
  BY <1>1, LinesTake
<1>3. \A c \in Command : Current(c)' => Current(c)
  BY DEF Current
<1>4. QED
  BY <1>2, <1>3, KnowsSame

\* What is put into the list or on a connection is of the right kind.
LEMMA SentSorts ==
    \A c \in Command :
        /\ \A k \in Kind : ~Noise([kind |-> k, cmd |-> c]) /\ Rank([kind |-> k, cmd |-> c]) = 1
        /\ ~Noise(Note("finalize pass")) /\ Rank(Note("finalize pass")) = 2
        /\ \A k \in {"qa calliper", "task done"} : ~Noise(Note(k)) /\ Rank(Note(k)) = 3
        /\ ~Noise(Note("reset")) /\ Rank(Note("reset")) = 0
        /\ ~Noise([kind |-> "done", cmd |-> c]) /\ Rank([kind |-> "done", cmd |-> c]) = 4
BY DEF Noise, Rank, Note, Kind

LEMMA SentSoFar ==
    ASSUME NEW c \in Command
    PROVE  /\ Sent(c) \subseteq {1, 2, 3}
           /\ 1 \in Sent(c) <=> stage[c] # "fresh"
           /\ 2 \in Sent(c) <=> (kind[c] = "script" /\ stage[c] = "finished") \/ (kind[c] = "qa" /\ stage[c] \in {"built", "finished"})
           /\ 3 \in Sent(c) <=> kind[c] \in {"qa", "task"} /\ stage[c] = "finished"
<1>1. 1 .. 3 = {1, 2, 3}
  OBVIOUS
<1>2. QED
  BY <1>1 DEF Sent

LEMMA SentThen ==
    ASSUME NEW c \in Command
    PROVE  /\ Sent(c)' \subseteq {1, 2, 3}
           /\ 1 \in Sent(c)' <=> stage'[c] # "fresh"
           /\ 2 \in Sent(c)' <=> (kind'[c] = "script" /\ stage'[c] = "finished") \/ (kind'[c] = "qa" /\ stage'[c] \in {"built", "finished"})
           /\ 3 \in Sent(c)' <=> kind'[c] \in {"qa", "task"} /\ stage'[c] = "finished"
<1>1. 1 .. 3 = {1, 2, 3}
  OBVIOUS
<1>2. QED
  BY <1>1 DEF Sent

\* The steps of the GUI, of mbdriver and of the processes of commands.
LEMMA SendersKnow ==
    ASSUME Known, Lines, Knows, Fresh, Prompt, NEW c \in Command,
           Start(c) \/ Launch(c) \/ SendDone(c) \/ Announce(c) \/ Finalize(c) \/ Finish(c) \/ End(c)
    PROVE  Lines' /\ Knows'
<1> DEFINE Goal == Lines' /\ Knows'
<1> HIDE DEF Goal
<1>0. /\ \A d \in Command : stage[d] # "fresh" => cmd[d] \in {"running", "over", "answered"}
      /\ \A d \in Command : wire[d] \in Seq(Message)
      /\ stage \in [Command -> {"fresh", "begun", "built", "finished"}]
      /\ cmd \in [Command -> {"none", "launch", "running", "over", "answered"}]
  BY WireOfMessages DEF Known, Course, MessageTypes, ControlTypes
<1>1. ASSUME Start(c) PROVE Goal
  <2>1. \A d \in Command : ~Current(d) /\ (c < d => cmd[d] = "none")
    <3> SUFFICES ASSUME NEW d \in Command PROVE ~Current(d) /\ (c < d => cmd[d] = "none")
      OBVIOUS
    <3>1. d \in 1 .. c - 1 \/ d = c \/ c < d
      BY ScenarioAssumption DEF Command
    <3>2. c < d => cmd[d] = "none"
      BY <1>1 DEF Start, Known, Course
    <3>3. QED
      BY <1>1, <3>1, <3>2 DEF Start, Current
  <2>2. /\ Ctl(messages) = {} /\ \A p \in Command \cup Group : Ctl(wire[p]) = {}
        /\ resets = {} /\ dones = {}
    <3>1. resets \subseteq Command /\ dones \subseteq Command
      BY DEF Known, ControlTypes
    <3>2. QED
      BY <2>1, <3>1 DEF Lines, Current
  <2>3. /\ cmd'[c] = "launch" /\ \A d \in Command : d # c => cmd'[d] = cmd[d]
        /\ messages' = messages /\ wire' = wire /\ dones' = dones /\ stage' = stage /\ complete' = complete
        /\ resets' = IF c = 1 THEN resets ELSE resets \cup {c}
    BY <1>0, <1>1 DEF Start, processes, progress
  <2>4. Line(c)' = {}
    BY <2>2, <2>3 DEF Line
  <2>5. \A d \in Command : Current(d)' => d = c
    BY <2>1, <2>3 DEF Current
  <2>6. Current(c)'
    BY <2>3 DEF Current
  <2>7. \A d \in Command : Current(d)' => \A m \in Line(d)' : Belongs(d, m)'
    BY <2>4, <2>5
  <2>8. Sorted(messages') /\ \A d \in Command : Sorted(wire'[d])
    BY <2>3 DEF Lines
  <2>9. Lines'
    <3>1. \A p \in Command \cup Group : Ctl(wire'[p]) = {}
      BY <2>2, <2>3
    <3>2. Ctl(messages') = {} /\ dones' = {} /\ \A d \in resets' : cmd'[d] = "launch"
      BY <2>2, <2>3
    <3>3. QED
      BY <2>7, <2>8, <3>1, <3>2 DEF Lines
  <2>10. stage'[c] = "fresh"
    BY <1>0, <1>1, <2>3 DEF Start
  <2>11. Sent(c)' = {}
    BY <2>10 DEF Sent
  <2>12. Chain(c)' /\ Track(c)'
    BY <2>10, <2>11 DEF Chain, Track
  <2>13. Ending(c)'
    <3>1. CASE c = 1
      <4>1. \A d \in Command : cmd[d] = "none"
        BY <1>1, <2>1, <3>1, ScenarioAssumption DEF Start, Command
      <4>2. QED
        BY <2>3, <2>10, <4>1 DEF Fresh, Ending
    <3>2. CASE c # 1
      <4>1. 0 \in Pend(c)'
        BY <2>3, <3>2 DEF Pend
      <4>2. QED
        BY <2>10, <4>1 DEF Ending
    <3>3. QED
      BY <3>1, <3>2
  <2>14. QED
    BY <2>5, <2>9, <2>12, <2>13 DEF Knows, Goal
<1>2. ASSUME Launch(c) PROVE Goal
  <2>1. /\ cmd[c] = "launch" /\ c \notin resets /\ cmd'[c] = "running" /\ \A d \in Command : d # c => cmd'[d] = cmd[d]
        /\ UNCHANGED <<kind, stage, wire, resets, dones, messages, mainTask, complete, qaTrack>>
    BY <1>0, <1>2 DEF Launch, sockets, progress
  <2>2. \A d \in Command : (Current(d)' <=> Current(d))
    BY <2>1 DEF Current
  <2>3. \A d \in Command : Sorted(wire'[d])
    BY <2>1 DEF Lines
  <2>4. Ctl(messages') = Ctl(messages) /\ Sorted(messages') /\ \A p \in Command \cup Group : Ctl(wire'[p]) = Ctl(wire[p])
    BY <2>1 DEF Lines
  <2>5. Lines' /\ \A d \in Command : Pend(d)' = Pend(d)
    BY <2>1, <2>2, <2>3, <2>4, LinesSame
  <2>6. QED
    BY <2>1, <2>2, <2>5, KnowsSame DEF Goal
<1>3. ASSUME SendDone(c) PROVE Goal
  <2>1. /\ cmd[c] = "running" /\ wire[c] = <<>> /\ cmd'[c] = "over" /\ \A d \in Command : d # c => cmd'[d] = cmd[d]
        /\ dones' = dones \cup {c}
        /\ UNCHANGED <<kind, stage, wire, resets, messages, mainTask, complete, qaTrack>>
    BY <1>0, <1>3 DEF SendDone, processes, progress
  <2>2. Current(c)
    BY <2>1 DEF Current
  <2>3. /\ \A d \in Command : (Current(d)' <=> Current(d)) /\ (Current(d) => d = c)
        /\ \A p \in Command \cup Group : Ctl(wire[p]) = {}
    BY <2>1, <2>2, NobodyElse, CtlEmpty DEF Current, Known
  <2>4. resets = {} /\ dones = {}
    <3>1. resets \subseteq {c} /\ dones \subseteq {c}
      BY <2>2, NobodyElse DEF Known, ControlTypes
    <3>2. QED
      BY <2>1, <3>1 DEF Lines
  <2>5. \A d \in Command : Sent(d)' = Sent(d) /\ Line(d)' = Line(d)
    BY <2>1 DEF Sent, Line
  <2>6. \A m : Belongs(c, m) => Belongs(c, m)'
    BY <2>1, <2>5 DEF Belongs
  <2>7. \A m \in Ctl(messages) : Rank(m) < 4
    <3> SUFFICES ASSUME NEW m \in Ctl(messages) PROVE Rank(m) < 4
      OBVIOUS
    <3>1. Belongs(c, m)
      BY <2>2 DEF Lines, Line
    <3>2. kind[c] \in Kind /\ "done" \notin Kind
      BY <2>1 DEF Known, Course, Kind
    <3>3. m.kind = "reset" => Rank(m) = 0
      BY DEF Rank
    <3>4. m.kind = kind[c] => Rank(m) = 1
      BY <3>2 DEF Rank, Kind
    <3>5. m.kind \in {"finalize pass", "qa calliper", "task done"} => Rank(m) = 2 \/ Rank(m) = 3
      BY DEF Rank, Kind
    <3>6. m.kind = "reset" \/ m.kind = kind[c] \/ m.kind \in {"finalize pass", "qa calliper", "task done"}
      BY <2>1, <3>1 DEF Belongs
    <3>7. Rank(m) \in {0, 1, 2, 3}
      BY <3>3, <3>4, <3>5, <3>6, Zenon
    <3>8. QED
      BY <3>7
  <2>8. Lines'
    <3>1. \A p \in Command \cup Group : Ctl(wire'[p]) = {}
      BY <2>1, <2>3
    <3>2. /\ \A d \in resets' : cmd'[d] = "launch" /\ Ctl(messages') = {}
          /\ \A d \in dones' : cmd'[d] = "over" /\ \A m \in Ctl(messages') : Rank(m) < 4
      BY <2>1, <2>4, <2>7
    <3>3. \A d \in Command : Current(d)' => \A m \in Line(d)' : Belongs(d, m)'
      BY <2>2, <2>3, <2>5, <2>6 DEF Lines
    <3>4. Sorted(messages') /\ \A d \in Command : Sorted(wire'[d])
      BY <2>1 DEF Lines
    <3>5. (\A d \in Command : ~Current(d)') => Ctl(messages') = {}
      BY <2>2, <2>3
    <3>6. QED
      BY <3>1, <3>2, <3>3, <3>4, <3>5 DEF Lines
  <2>9. Pend(c)' = Pend(c) \cup {4}
    BY <2>1, <2>5 DEF Pend
  <2>10. \A d \in Command : Current(d)' => Pend(d)' = Pend(d) \/ Pend(d)' = Pend(d) \cup {4}
    BY <2>3, <2>9
  <2>11. QED
    BY <2>1, <2>3, <2>8, <2>10, KnowsSame DEF Goal
<1>4. ASSUME Announce(c) PROVE Goal
  <2>0. PICK m : m = [kind |-> kind[c], cmd |-> c]
    OBVIOUS
  <2>1. /\ stage[c] = "fresh" /\ stage' = [stage EXCEPT ![c] = "begun"] /\ Send(c, m)
        /\ UNCHANGED <<messages, resets, dones, cmd, kind, mainTask, complete, qaTrack>>
    BY <1>4, <2>0 DEF Announce, driving, progress
  <2>2. kind[c] \in Kind
    BY <2>1 DEF Send, Known, Course
  <2>3. m \in Report /\ ~Noise(m) /\ Rank(m) = 1
    BY <2>0, <2>2, Sendable, SentSorts
  <2>4. stage'[c] = "begun" /\ \A d \in Command : d # c => stage'[d] = stage[d]
    BY <1>0, <2>1
  <2>5. Sent(c) = {} /\ Sent(c)' = {1}
    BY <2>1, <2>4, SentSoFar, SentThen
  <2>6. Belongs(c, m)'
    BY <2>0, <2>1, <2>5 DEF Belongs
  <2>7. Sent(c)' = Sent(c) \cup {Rank(m)} /\ Rank(m) \in 1 .. 3 /\ \A b \in Sent(c) : b < Rank(m)
    BY <2>3, <2>5
  <2>8. stage[c] = "fresh" /\ stage[c] # "finished" /\ stage'[c] # "fresh" /\ stage'[c] # "finished"
    BY <2>1, <2>4
  <2>9. /\ m \in Report /\ ~Noise(m) /\ Send(c, m) /\ \A d \in Command : d # c => stage'[d] = stage[d]
        /\ UNCHANGED <<messages, resets, dones, cmd, kind, mainTask, complete, qaTrack>>
        /\ stage[c] = "fresh" => Rank(m) = 1
        /\ stage'[c] = "finished" => Rank(m) = Last(c)
    BY <2>1, <2>3, <2>4, <2>8
  <2>10. QED
    BY <2>6, <2>7, <2>8, <2>9, ProgressSent DEF Goal
<1>5. ASSUME Finalize(c) PROVE Goal
  <2> DEFINE m == Note("finalize pass")
  <2>1. /\ stage[c] = "begun" /\ kind[c] \in {"script", "qa"} /\ Send(c, m)
        /\ stage' = [stage EXCEPT ![c] = IF kind[c] = "qa" THEN "built" ELSE "finished"]
        /\ UNCHANGED <<messages, resets, dones, cmd, kind, mainTask, complete, qaTrack>>
    BY <1>5 DEF Finalize, driving, progress
  <2>2. m \in Report /\ ~Noise(m) /\ Rank(m) = 2
    BY Sendable, SentSorts
  <2>3. stage'[c] = (IF kind[c] = "qa" THEN "built" ELSE "finished") /\ \A d \in Command : d # c => stage'[d] = stage[d]
    BY <1>0, <2>1
  <2>4. Sent(c) = {1}
    BY <2>1, SentSoFar
  <2>5. Sent(c)' = {1, 2}
    <3>1. (kind'[c] = "qa" /\ stage'[c] = "built") \/ (kind'[c] = "script" /\ stage'[c] = "finished")
      BY <2>1, <2>3
    <3>2. QED
      BY <3>1, SentThen
  <2>6. Belongs(c, m)'
    BY <2>5 DEF Belongs, Note
  <2>7. stage'[c] = "finished" => Last(c) = 2
    <3>1. stage'[c] = "finished" => kind[c] # "qa"
      BY <2>3
    <3>2. QED
      BY <2>1, <3>1 DEF Last
  <2> HIDE DEF m
  <2>8. Sent(c)' = Sent(c) \cup {Rank(m)} /\ Rank(m) \in 1 .. 3 /\ \A b \in Sent(c) : b < Rank(m)
    BY <2>2, <2>4, <2>5
  <2>9. stage[c] # "finished" /\ stage[c] # "fresh" /\ stage'[c] # "fresh"
    BY <2>1, <2>3
  <2>10. QED
    BY <2>1, <2>2, <2>3, <2>6, <2>7, <2>8, <2>9, ProgressSent DEF Goal
<1>6. ASSUME Finish(c) PROVE Goal
  <2>0. PICK m : m = IF kind[c] = "qa" THEN Note("qa calliper") ELSE Note("task done")
    OBVIOUS
  <2>1. /\ \/ kind[c] = "qa" /\ stage[c] = "built"
           \/ kind[c] = "task" /\ stage[c] = "begun"
        /\ Send(c, m)
    BY <1>6, <2>0 DEF Finish
  <2>2. /\ stage' = [stage EXCEPT ![c] = "finished"]
        /\ UNCHANGED <<messages, resets, dones, cmd, kind, mainTask, complete, qaTrack>>
    BY <1>6 DEF Finish, driving, progress
  <2>3. m \in Report /\ ~Noise(m) /\ Rank(m) = 3
    BY <2>0, Sendable, SentSorts
  <2>4. stage'[c] = "finished" /\ \A d \in Command : d # c => stage'[d] = stage[d]
    BY <1>0, <2>2
  <2>5. kind[c] \in {"qa", "task"} /\ kind' = kind
    BY <2>1, <2>2
  <2>6. Sent(c) \subseteq {1, 2}
    BY <2>1, SentSoFar
  <2>7. Sent(c)' = Sent(c) \cup {3}
    BY <2>1, <2>4, <2>5, SentSoFar, SentThen
  <2>8. Belongs(c, m)'
    BY <2>0, <2>1, <2>5, <2>7 DEF Belongs, Note
  <2>9. Last(c) = 3 /\ stage[c] # "fresh" /\ stage[c] # "finished"
    BY <2>1 DEF Last
  <2>10. Sent(c)' = Sent(c) \cup {Rank(m)} /\ Rank(m) \in 1 .. 3 /\ \A b \in Sent(c) : b < Rank(m)
    <3>1. \A b \in Sent(c) : b = 1 \/ b = 2
      BY <2>6
    <3>2. QED
      BY <2>3, <2>7, <3>1
  <2>11. /\ m \in Report /\ ~Noise(m) /\ Send(c, m) /\ \A d \in Command : d # c => stage'[d] = stage[d]
         /\ UNCHANGED <<messages, resets, dones, cmd, kind, mainTask, complete, qaTrack>>
         /\ stage[c] # "finished" /\ stage'[c] # "fresh"
         /\ stage[c] = "fresh" => Rank(m) = 1
         /\ stage'[c] = "finished" => Rank(m) = Last(c)
    BY <2>1, <2>2, <2>3, <2>4, <2>9
  <2>12. QED
    BY <2>8, <2>10, <2>11, ProgressSent DEF Goal
<1>7. ASSUME End(c) PROVE Goal
  <2>1. UNCHANGED <<messages, wire, resets, dones, cmd, kind, stage, mainTask, complete, qaTrack>>
    BY <1>7 DEF End, driving, sockets, progress
  <2>2. Ctl(messages') = Ctl(messages) /\ Sorted(messages') /\ \A d \in Command : Sorted(wire'[d])
    BY <2>1 DEF Lines
  <2>3. \A p \in Command \cup Group : Ctl(wire'[p]) = Ctl(wire[p])
    BY <2>1
  <2>4. QED
    BY <2>1, <2>2, <2>3, QuietStep DEF Goal
<1>8. QED
  BY <1>1, <1>2, <1>3, <1>4, <1>5, <1>6, <1>7 DEF Goal
-----------------------------------------------------------------------------
\* A thread of the log presentation receives from a process.
LEMMA ReceiveKnows ==
    ASSUME Known, Lines, Knows, NEW p \in Command \cup Group, Receive(p)
    PROVE  Lines' /\ Knows'
<1>0. PICK h : h = Head(wire[p])
  OBVIOUS
<1>1. /\ wire[p] \in Seq(Message) /\ wire[p] # <<>> /\ h \in Message /\ messages \in Seq(Message)
      /\ messages' = Append(messages, h)
      /\ wire'[p] = Tail(wire[p]) /\ \A q \in Command \cup Group : q # p => wire'[q] = wire[q]
      /\ UNCHANGED <<resets, dones, cmd, kind, stage, mainTask, complete, qaTrack>>
  BY <1>0, HeadTail, WireOfMessages, Received DEF Receive, Known, MessageTypes, driving, processes, progress
<1>2. Ctl(wire[p]) = IF Noise(h) THEN Ctl(wire'[p]) ELSE Ctl(wire'[p]) \cup {h}
  BY <1>0, <1>1, CtlTail
<1>3. p \in Command => Sorted(wire'[p]) /\ (~Noise(h) => \A n \in Ctl(wire'[p]) : Rank(h) < Rank(n))
  BY <1>0, <1>1, SortedTail DEF Lines
<1>4. \A d \in Command : Sorted(wire'[d])
  BY <1>1, <1>3 DEF Lines
<1>5. CASE Noise(h)
  <2>1. Ctl(messages') = Ctl(messages) /\ Sorted(messages')
    BY <1>1, <1>5, CtlAppend, SortedAppend DEF Lines
  <2>2. \A q \in Command \cup Group : Ctl(wire'[q]) = Ctl(wire[q])
    BY <1>1, <1>2, <1>5
  <2>3. QED
    BY <1>1, <1>4, <2>1, <2>2, QuietStep
<1>6. CASE ~Noise(h)
  <2>1. p \in Command /\ cmd[p] = "running" /\ Current(p) /\ h \in Ctl(wire[p])
    BY <1>2, <1>6 DEF Lines, Current
  <2>2. resets = {} /\ dones = {}
    <3>1. resets \subseteq {p} /\ dones \subseteq {p}
      BY <2>1, NobodyElse DEF Known, ControlTypes
    <3>2. QED
      BY <2>1, <3>1 DEF Lines
  <2>3. Belongs(p, h) /\ \A n \in Ctl(messages) : Rank(n) < Rank(h)
    BY <2>1 DEF Lines, Line
  <2>4. Ctl(wire'[p]) \subseteq Ctl(wire[p]) /\ \A n \in Ctl(wire'[p]) : Rank(h) < Rank(n)
    BY <1>2, <1>3, <1>6, <2>1
  <2>5. Lines'
    BY <1>1, <1>4, <1>6, <2>1, <2>2, <2>3, <2>4, LinesReceive
  <2>6. Ctl(messages') = Ctl(messages) \cup {h}
    BY <1>1, <1>6, CtlAppend
  <2>7. Line(p)' = Line(p)
    BY <1>2, <1>6, <2>6 DEF Line
  <2>8. Pend(p)' = Pend(p)
    BY <1>1, <2>7 DEF Pend
  <2>9. \A d \in Command : Current(d)' => d = p /\ Current(d)
    BY <1>1, <2>1, NobodyElse DEF Current, Known
  <2>10. QED
    BY <1>1, <2>5, <2>8, <2>9, KnowsSame
<1>7. QED
  BY <1>5, <1>6

\* It receives a reset or a done message from mbdriver.
LEMMA ReceiveResetKnows ==
    ASSUME Known, Lines, Knows, NEW c \in Command, ReceiveReset(c)
    PROVE  Lines' /\ Knows'
<1>0. PICK m : m = Note("reset")
  OBVIOUS
<1>1. /\ c \in resets /\ resets' = resets \ {c} /\ messages' = Append(messages, m) /\ messages \in Seq(Message)
      /\ UNCHANGED <<wire, dones, cmd, kind, stage, mainTask, complete, qaTrack>>
  BY <1>0 DEF ReceiveReset, driving, processes, progress, Known, MessageTypes
<1>2. m \in Message /\ ~Noise(m) /\ Rank(m) = 0 /\ m.kind = "reset"
  BY <1>0, SentSorts, Received DEF Note
<1>3. cmd[c] = "launch" /\ Current(c) /\ Ctl(messages) = {}
  BY <1>1 DEF Lines, Current
<1>4. /\ \A p \in Command \cup Group : Ctl(wire[p]) = {}
      /\ resets' = {} /\ dones' = {}
  <2>1. cmd[c] # "running" /\ cmd[c] # "over"
    BY <1>3
  <2>2. \A p \in Command \cup Group : Ctl(wire[p]) = {}
    BY <1>3, <2>1, NobodyElse DEF Known
  <2>3. resets \subseteq {c} /\ dones \subseteq {c}
    BY <1>3, NobodyElse DEF Known, ControlTypes
  <2>4. c \notin dones
    BY <2>1 DEF Lines
  <2>5. QED
    BY <1>1, <2>2, <2>3, <2>4
<1>5. Belongs(c, m)
  BY <1>2 DEF Belongs
<1>6. \A d \in Command : Sorted(wire'[d])
  BY <1>1 DEF Lines
<1>7. Lines'
  BY <1>1, <1>2, <1>3, <1>4, <1>5, <1>6, LinesReceive
<1>8. Ctl(messages') = {m}
  BY <1>1, <1>2, <1>3, CtlAppend
<1>9. Line(c) = {} /\ Line(c)' = {m}
  BY <1>1, <1>3, <1>4, <1>8 DEF Line
<1>10. Pend(c)' = Pend(c)
  BY <1>1, <1>2, <1>4, <1>9 DEF Pend
<1>11. \A d \in Command : Current(d)' => d = c /\ Current(d)
  BY <1>1, <1>3, NobodyElse DEF Current, Known
<1>12. QED
  BY <1>1, <1>7, <1>10, <1>11, KnowsSame

LEMMA ReceiveDoneKnows ==
    ASSUME Known, Lines, Knows, NEW c \in Command, ReceiveDone(c)
    PROVE  Lines' /\ Knows'
<1>0. PICK m : m = [kind |-> "done", cmd |-> c]
  OBVIOUS
<1>1. /\ c \in dones /\ dones' = dones \ {c} /\ messages' = Append(messages, m) /\ messages \in Seq(Message)
      /\ UNCHANGED <<wire, resets, cmd, kind, stage, mainTask, complete, qaTrack>>
  BY <1>0 DEF ReceiveDone, driving, processes, progress, Known, MessageTypes
<1>2. m \in Message /\ ~Noise(m) /\ Rank(m) = 4 /\ m.kind = "done" /\ m.cmd = c
  BY <1>0, SentSorts, Received
<1>3. cmd[c] = "over" /\ Current(c) /\ \A n \in Ctl(messages) : Rank(n) < Rank(m)
  BY <1>1, <1>2 DEF Lines, Current
<1>4. /\ \A p \in Command \cup Group : Ctl(wire[p]) = {}
      /\ resets' = {} /\ dones' = {}
  <2>1. cmd[c] # "running" /\ cmd[c] # "launch"
    BY <1>3
  <2>2. \A p \in Command \cup Group : Ctl(wire[p]) = {}
    BY <1>3, <2>1, NobodyElse DEF Known
  <2>3. resets \subseteq {c} /\ dones \subseteq {c}
    BY <1>3, NobodyElse DEF Known, ControlTypes
  <2>4. c \notin resets
    BY <2>1 DEF Lines
  <2>5. QED
    BY <1>1, <2>2, <2>3, <2>4
<1>5. Belongs(c, m)
  BY <1>2, <1>3 DEF Belongs
<1>6. \A d \in Command : Sorted(wire'[d])
  BY <1>1 DEF Lines
<1>7. Lines'
  BY <1>1, <1>2, <1>3, <1>4, <1>5, <1>6, LinesReceive
<1>8. Ctl(messages') = Ctl(messages) \cup {m}
  BY <1>1, <1>2, CtlAppend
<1>9. Line(c)' = Line(c) \cup {m}
  BY <1>1, <1>8 DEF Line
<1>10. Pend(c)' = Pend(c)
  BY <1>1, <1>2, <1>9 DEF Pend
<1>11. \A d \in Command : Current(d)' => d = c /\ Current(d)
  BY <1>1, <1>3, NobodyElse DEF Current, Known
<1>12. QED
  BY <1>1, <1>7, <1>10, <1>11, KnowsSame
-----------------------------------------------------------------------------
\* The processor takes a message about progress.
LEMMA TakeTaskKnows == ASSUME Known, Lines, Knows, TakeTask PROVE Lines' /\ Knows'
<1>1. /\ Take("task") /\ mainTask' = Head(messages).cmd /\ complete' = FALSE
      /\ UNCHANGED <<wire, resets, dones, cmd, kind, stage, qaTrack>>
  BY DEF TakeTask, driving, processes, sockets
<1>2. Head(messages) \in Message /\ Head(messages).kind = "task"
  BY <1>1, Taken DEF Known
<1>3. ~Noise(Head(messages)) /\ Rank(Head(messages)) = 1 /\ Head(messages).cmd # None
  BY <1>2, Fields, NoneIsNoNode DEF Noise, Rank, Kind
<1>4. Lines'
  BY <1>1, LinesTake
<1>5. ASSUME NEW c \in Command, Current(c) PROVE Chain(c)' /\ Track(c)' /\ Ending(c)'
  <2>1. /\ Chain(c)' /\ Belongs(c, Head(messages)) /\ Sent(c)' = Sent(c) /\ Identified(c)' = Identified(c)
        /\ \A b \in Sent(c) : 1 < b => b \in Pend(c)'
    BY <1>1, <1>3, <1>5, KnowsTake
  <2>2. kind[c] = "task"
    BY <1>2, <2>1 DEF Belongs
  <2>3. Track(c)'
    BY <1>1, <1>3, <2>2 DEF Track
  <2>4. stage[c] = "finished" => 3 \in Pend(c)'
    BY <2>1, <2>2, SentSoFar
  <2>5. Ending(c)'
    BY <1>1, <2>2, <2>4 DEF Ending, Last
  <2>6. QED
    BY <2>1, <2>3, <2>5
<1>6. \A c \in Command : Current(c)' => Current(c)
  BY <1>1 DEF Current
<1>7. QED
  BY <1>4, <1>5, <1>6 DEF Knows

LEMMA TakeStartKnows == ASSUME Known, Lines, Knows, TakeStart PROVE Lines' /\ Knows'
<1>1. PICK k \in {"script", "qa"} : Take(k)
  BY DEF TakeStart
<1>2. UNCHANGED <<wire, resets, dones, cmd, kind, stage, mainTask, complete>>
  BY DEF TakeStart, driving, processes, sockets
<1>3. Head(messages) \in Message /\ Head(messages).kind = k
  BY <1>1, Taken DEF Known
<1>4. ~Noise(Head(messages)) /\ Rank(Head(messages)) = 1
  BY <1>3 DEF Noise, Rank, Kind
<1>5. mainTask = None => (qaTrack' <=> k = "qa")
  BY <1>3 DEF TakeStart
<1>6. Lines'
  BY <1>1, <1>2, LinesTake
<1>7. ASSUME NEW c \in Command, Current(c) PROVE Chain(c)' /\ Track(c)' /\ Ending(c)'
  <2>1. /\ Chain(c)' /\ Belongs(c, Head(messages)) /\ Sent(c)' = Sent(c) /\ Identified(c)' = Identified(c)
        /\ \A b \in Sent(c) : 1 < b => b \in Pend(c)'
        /\ Ending(c) /\ 0 \notin Pend(c)
    BY <1>1, <1>2, <1>4, <1>7, KnowsTake
  <2>2. kind[c] = k
    BY <1>3, <2>1 DEF Belongs
  <2>3. Track(c)'
    BY <1>2, <1>5, <2>2 DEF Track
  <2>4. stage[c] = "finished" => Last(c) \in Pend(c)' /\ Last(c)' = Last(c)
    <3>1. stage[c] = "finished" => Last(c) \in Sent(c)
      BY <2>2, SentSoFar DEF Last
    <3>2. Last(c)' = Last(c) /\ (Last(c) = 2 \/ Last(c) = 3)
      BY <1>2 DEF Last
    <3>3. QED
      BY <2>1, <3>1, <3>2
  <2>5. Ending(c)'
    BY <1>2, <2>1, <2>2, <2>4 DEF Ending
  <2>6. QED
    BY <2>1, <2>3, <2>5
<1>8. \A c \in Command : Current(c)' => Current(c)
  BY <1>2 DEF Current
<1>9. QED
  BY <1>6, <1>7, <1>8 DEF Knows

\* A reset that comes to a main task leaves it its outcome, which then is not of
\* the current command.
LEMMA TakeResetKnows ==
    ASSUME Known, Lines, Knows, Tasks, Resets, Prompt, TakeReset PROVE Lines' /\ Knows'
<1>1. /\ Take("reset")
      /\ UNCHANGED <<wire, resets, dones, cmd, kind, stage, mainTask>>
      /\ mainTask = None => ~complete'
  BY DEF TakeReset, driving, processes, sockets
<1>2. Head(messages) \in Message /\ Head(messages).kind = "reset"
  BY <1>1, Taken DEF Known
<1>3. ~Noise(Head(messages)) /\ Rank(Head(messages)) = 0
  BY <1>2 DEF Noise, Rank
<1>4. Lines'
  BY <1>1, LinesTake
<1>5. ASSUME NEW c \in Command, Current(c) PROVE Chain(c)' /\ Track(c)' /\ Ending(c)'
  <2>1. /\ Chain(c)' /\ Sent(c)' = Sent(c) /\ Identified(c)' = Identified(c)
        /\ \A b \in Sent(c) : 0 < b => b \in Pend(c)'
    BY <1>1, <1>3, <1>5, KnowsTake
  <2>2. stage[c] # "fresh" => 1 \in Pend(c)'
    BY <2>1, SentSoFar
  <2>3. Track(c)'
    BY <1>1, <2>2 DEF Track
  <2>4. stage[c] = "finished" => Last(c) \in Pend(c)' /\ Last(c)' = Last(c)
    <3>1. stage[c] = "finished" => kind[c] \in Kind
      BY DEF Known, Course
    <3>2. stage[c] = "finished" => Last(c) \in Sent(c)
      BY <3>1, SentSoFar DEF Last, Kind
    <3>3. Last(c)' = Last(c) /\ (Last(c) = 2 \/ Last(c) = 3)
      BY <1>1 DEF Last
    <3>4. QED
      BY <2>1, <3>2, <3>3
  <2>5. mainTask # None => TasksBefore(c) # {}
    BY <1>1, <1>5, TaskBeforeReset
  <2>6. mainTask # None /\ Identified(c) => kind[c] = "task" /\ stage[c] # "fresh"
    BY <2>5 DEF Identified
  <2>7. Ending(c)'
    BY <1>1, <2>1, <2>2, <2>4, <2>6 DEF Ending
  <2>8. QED
    BY <2>1, <2>3, <2>7
<1>6. \A c \in Command : Current(c)' => Current(c)
  BY <1>1 DEF Current
<1>7. QED
  BY <1>4, <1>5, <1>6 DEF Knows

\* The end of a build without QA.
LEMMA TakeFinalizeKnows ==
    ASSUME Known, Lines, Knows, Tasks, TakeFinalize PROVE Lines' /\ Knows'
<1>0. PICK k : k = "finalize pass"
  OBVIOUS
<1>1. /\ Take(k)
      /\ UNCHANGED <<wire, resets, dones, cmd, kind, stage, mainTask, qaTrack>>
      /\ complete' = (complete \/ (mainTask = None /\ ~qaTrack))
  BY <1>0 DEF TakeFinalize, driving, processes, sockets
<1>2. Head(messages) \in Message /\ Head(messages).kind = "finalize pass"
  BY <1>0, <1>1, Taken DEF Known
<1>3. ~Noise(Head(messages)) /\ Rank(Head(messages)) = 2
  BY <1>2 DEF Noise, Rank, Kind
<1>4. Lines'
  BY <1>1, LinesTake
<1>5. ASSUME NEW c \in Command, Current(c) PROVE Chain(c)' /\ Track(c)' /\ Ending(c)'
  <2>1. /\ Chain(c)' /\ Belongs(c, Head(messages)) /\ Sent(c)' = Sent(c) /\ Identified(c)' = Identified(c)
        /\ \A b \in Sent(c) : 2 < b => b \in Pend(c)'
        /\ Track(c) /\ Ending(c) /\ 0 \notin Pend(c) /\ 1 \notin Pend(c)
    BY <1>1, <1>3, <1>5, KnowsTake
  <2>2. kind[c] \in Kind
    BY <1>5 DEF Known, Course, Current
  <2>3. (kind[c] = "script" /\ stage[c] = "finished") \/ (kind[c] = "qa" /\ stage[c] \in {"built", "finished"})
    BY <1>2, <2>1, <2>2, SentSoFar DEF Belongs, Kind
  <2>4. Track(c)'
    BY <1>1, <2>1, <2>3 DEF Track
  <2>5. Identified(c) => mainTask = None
    BY <1>5, <2>3, WhoseTask DEF Identified
  <2>6. Identified(c) => (qaTrack <=> kind[c] = "qa")
    BY <2>1, <2>3, <2>5 DEF Track
  <2>7. kind[c] = "qa" /\ stage[c] = "finished" => 3 \in Pend(c)'
    BY <2>1, SentSoFar
  <2>8. CASE kind[c] = "script"
    BY <1>1, <2>1, <2>3, <2>4, <2>5, <2>6, <2>8 DEF Ending
  <2>9. CASE kind[c] = "qa"
    BY <1>1, <2>1, <2>3, <2>4, <2>5, <2>6, <2>7, <2>9 DEF Ending, Last
  <2>10. QED
    BY <2>3, <2>8, <2>9
<1>6. \A c \in Command : Current(c)' => Current(c)
  BY <1>1 DEF Current
<1>7. QED
  BY <1>4, <1>5, <1>6 DEF Knows

\* The end of a build with QA: its track is there, the log presentation goes on.
LEMMA TakeQaKnows ==
    ASSUME Known, Lines, Knows, Tasks, TakeQa PROVE Lines' /\ Knows' /\ up'
<1>0. PICK k : k = "qa calliper"
  OBVIOUS
<1>1. /\ Take(k)
      /\ UNCHANGED <<wire, resets, dones, cmd, kind, stage, mainTask, qaTrack>>
      /\ complete' = (complete \/ (mainTask = None /\ qaTrack))
      /\ up' = (mainTask # None \/ qaTrack)
  BY <1>0 DEF TakeQa, driving, processes, sockets
<1>2. Head(messages) \in Message /\ Head(messages).kind = "qa calliper"
  BY <1>0, <1>1, Taken DEF Known
<1>3. ~Noise(Head(messages)) /\ Rank(Head(messages)) = 3
  BY <1>2 DEF Noise, Rank, Kind
<1>4. Lines'
  BY <1>1, LinesTake
<1>5. ASSUME NEW c \in Command, Current(c)
      PROVE  Chain(c)' /\ Track(c)' /\ Ending(c)' /\ (mainTask # None \/ qaTrack)
  <2>1. /\ Chain(c)' /\ Belongs(c, Head(messages)) /\ Sent(c)' = Sent(c) /\ Identified(c)' = Identified(c)
        /\ Track(c) /\ Ending(c) /\ 0 \notin Pend(c) /\ 1 \notin Pend(c)
    BY <1>1, <1>3, <1>5, KnowsTake
  <2>2. kind[c] \in Kind
    BY <1>5 DEF Known, Course, Current
  <2>3. kind[c] = "qa" /\ stage[c] = "finished"
    BY <1>2, <2>1, <2>2, SentSoFar DEF Belongs, Kind
  <2>4. Track(c)' /\ (mainTask # None \/ qaTrack)
    BY <1>1, <2>1, <2>3 DEF Track
  <2>5. Identified(c) => mainTask = None
    BY <1>5, <2>3, WhoseTask DEF Identified
  <2>6. Ending(c)'
    BY <1>1, <2>1, <2>3, <2>4, <2>5 DEF Ending
  <2>7. QED
    BY <2>1, <2>4, <2>6
<1>6. PICK c \in Command : Current(c)
  <2>1. Head(messages) \in Ctl(messages)
    BY <1>1, <1>3, CtlTail DEF Take, Known, MessageTypes
  <2>2. QED
    BY <2>1 DEF Lines
<1>7. \A d \in Command : Current(d)' => Current(d)
  BY <1>1 DEF Current
<1>8. QED
  BY <1>1, <1>4, <1>5, <1>6, <1>7 DEF Knows

\* The end of a main task.
LEMMA TakeTaskDoneKnows ==
    ASSUME Known, Lines, Knows, TakeTaskDone PROVE Lines' /\ Knows'
<1>0. PICK k : k = "task done"
  OBVIOUS
<1>1. /\ Take(k)
      /\ UNCHANGED <<wire, resets, dones, cmd, kind, stage, mainTask, qaTrack>>
      /\ complete' = (complete \/ mainTask # None)
  BY <1>0 DEF TakeTaskDone, driving, processes, sockets
<1>2. Head(messages) \in Message /\ Head(messages).kind = "task done"
  BY <1>0, <1>1, Taken DEF Known
<1>3. ~Noise(Head(messages)) /\ Rank(Head(messages)) = 3
  BY <1>2 DEF Noise, Rank, Kind
<1>4. Lines'
  BY <1>1, LinesTake
<1>5. ASSUME NEW c \in Command, Current(c) PROVE Chain(c)' /\ Track(c)' /\ Ending(c)'
  <2>1. /\ Chain(c)' /\ Belongs(c, Head(messages)) /\ Sent(c)' = Sent(c) /\ Identified(c)' = Identified(c)
        /\ Track(c) /\ 1 \notin Pend(c)
    BY <1>1, <1>3, <1>5, KnowsTake
  <2>2. kind[c] \in Kind
    BY <1>5 DEF Known, Course, Current
  <2>3. kind[c] = "task" /\ stage[c] = "finished"
    BY <1>2, <2>1, <2>2, SentSoFar DEF Belongs, Kind
  <2>4. Track(c)' /\ mainTask # None
    BY <1>1, <2>1, <2>3 DEF Track
  <2>5. Ending(c)'
    BY <1>1, <2>3, <2>4 DEF Ending
  <2>6. QED
    BY <2>1, <2>4, <2>5
<1>6. \A c \in Command : Current(c)' => Current(c)
  BY <1>1 DEF Current
<1>7. QED
  BY <1>4, <1>5, <1>6 DEF Knows

\* The done message is the last one of its command: what has become of the
\* command is known, and nothing about progress is on its way.
LEMMA TakeDoneKnows ==
    ASSUME Known, Lines, Knows, TakeDone
    PROVE  /\ Lines' /\ Knows'
           /\ LET c == Head(messages).cmd
              IN  c \in Command /\ (Identified(c) => (complete <=> stage[c] = "finished"))
<1>0. PICK h : h = Head(messages)
  OBVIOUS
<1>1. /\ Take("done") /\ cmd' = [cmd EXCEPT ![h.cmd] = "answered"]
      /\ UNCHANGED <<wire, resets, dones, kind, stage, mainTask, complete, qaTrack>>
  BY <1>0 DEF TakeDone, processes, sockets, progress
<1>2. h \in Message /\ h.kind = "done"
  BY <1>0, <1>1, Taken DEF Known
<1>3. ~Noise(h) /\ Rank(h) = 4
  BY <1>2 DEF Noise, Rank, Kind
<1>4. /\ messages \in Seq(Message) /\ messages # <<>> /\ messages' = Tail(messages)
      /\ messages' \in Seq(Message) /\ \A p \in Command \cup Group : wire[p] \in Seq(Message)
  BY <1>1, HeadTail, WireOfMessages DEF Take, Known, MessageTypes
<1>5. /\ h \in Ctl(messages) /\ Sorted(messages') /\ \A n \in Ctl(messages') : Rank(h) < Rank(n)
      /\ Ctl(messages') \subseteq Ctl(messages)
  BY <1>0, <1>3, <1>4, CtlTail, SortedTail DEF Lines
<1>6. PICK c \in Command : Current(c)
  BY <1>5 DEF Lines
<1>7. h.cmd = c /\ cmd[c] = "over"
  <2>1. kind[c] \in Kind
    BY <1>6 DEF Known, Course, Current
  <2>2. Belongs(c, h)
    BY <1>5, <1>6 DEF Lines, Line
  <2>3. QED
    BY <1>2, <2>1, <2>2 DEF Belongs, Kind
<1>8. Ctl(messages') = {}
  <2> SUFFICES ASSUME NEW n \in Ctl(messages') PROVE FALSE
    OBVIOUS
  <2>1. n \in Message
    BY <1>4, CtlOfMessages
  <2>2. Rank(n) \in 0 .. 4 /\ 4 < Rank(n)
    BY <1>3, <1>5, <2>1, Ranks
  <2>3. QED
    BY <2>2
<1>9. \A p \in Command \cup Group : Ctl(wire[p]) = {}
  BY <1>6, <1>7, NobodyElse DEF Known
<1>10. resets = {} /\ dones = {}
  <2>1. resets \subseteq {c} /\ dones \subseteq {c}
    BY <1>6, NobodyElse DEF Known, ControlTypes
  <2>2. c \notin resets
    BY <1>7 DEF Lines
  <2>3. c \notin dones
    BY <1>3, <1>5 DEF Lines
  <2>4. QED
    BY <2>1, <2>2, <2>3
<1>11. \A d \in Command : ~Current(d)'
  <2>1. cmd'[c] = "answered" /\ \A d \in Command : d # c => cmd'[d] = cmd[d]
    BY <1>1, <1>7 DEF Known, ControlTypes
  <2>2. QED
    BY <1>6, <2>1, NobodyElse DEF Current, Known
<1>12. Lines' /\ Knows'
  <2>1. \A p \in Command \cup Group : Ctl(wire'[p]) = {}
    BY <1>1, <1>9
  <2>2. resets' = {} /\ dones' = {}
    BY <1>1, <1>10
  <2>3. \A d \in Command : Sorted(wire'[d])
    BY <1>1 DEF Lines
  <2>4. Lines'
    BY <1>5, <1>8, <1>11, <2>1, <2>2, <2>3 DEF Lines
  <2>5. QED
    BY <1>11, <2>4 DEF Knows
<1>13. Identified(c) => (complete <=> stage[c] = "finished")
  <2>1. \A m \in Line(c) : Rank(m) = 4
    <3> SUFFICES ASSUME NEW m \in Line(c) PROVE Rank(m) = 4
      OBVIOUS
    <3>1. m \in Ctl(messages)
      BY <1>9 DEF Line
    <3>2. m = h
      BY <1>0, <1>3, <1>4, <1>8, <3>1, CtlTail
    <3>3. QED
      BY <1>3, <3>2
  <2>2. \A r \in Pend(c) : r = 4
    BY <1>10, <2>1 DEF Pend
  <2>3. 0 \notin Pend(c) /\ 1 \notin Pend(c) /\ 2 \notin Pend(c) /\ 3 \notin Pend(c)
    BY <2>2
  <2>4. Last(c) \notin Pend(c)
    BY <2>3 DEF Last
  <2>5. Ending(c)
    BY <1>6 DEF Knows
  <2>6. QED
    BY <2>3, <2>4, <2>5 DEF Ending
<1>14. QED
  BY <1>0, <1>7, <1>12, <1>13
-----------------------------------------------------------------------------
LEMMA PromptStep ==
    ASSUME Known, Tasks, Resets, Fresh, PromptInv, Next
    PROVE  PromptInv'
<1>0. SUFFICES ASSUME Prompt, Lines, Knows PROVE Lines' /\ Knows'
  BY SameScenario DEF PromptInv, Prompt
<1> DEFINE Goal == Lines' /\ Knows'
<1> HIDE DEF Goal
<1>1. ASSUME NEW c \in Command,
             Start(c) \/ Launch(c) \/ SendDone(c) \/ Announce(c) \/ Finalize(c) \/ Finish(c) \/ End(c)
      PROVE  Goal
  BY <1>0, <1>1, SendersKnow DEF Goal
<1>2. ASSUME NEW c \in Command, ReceiveReset(c) \/ ReceiveDone(c) PROVE Goal
  BY <1>0, <1>2, ReceiveResetKnows, ReceiveDoneKnows DEF Goal
<1>3. ASSUME NEW p \in Command \cup Group, Say(p) PROVE Goal
  <2>1. PICK s \in Said : Send(p, [kind |-> "msg", node |-> NodeOf(p), sev |-> s])
    BY <1>3 DEF Say
  <2>2. PICK m : m = [kind |-> "msg", node |-> NodeOf(p), sev |-> s]
    OBVIOUS
  <2>3. NodeOf(p) \in Node /\ s \in Severity
    BY ScenarioAssumption DEF NodeOf, Node
  <2>4. m \in Report /\ Noise(m) /\ Send(p, m)
    BY <2>1, <2>2, <2>3, Sendable DEF Noise
  <2>5. UNCHANGED <<messages, resets, dones, cmd, kind, stage, mainTask, complete, qaTrack>>
    BY <1>3 DEF Say, driving, progress
  <2>6. QED
    BY <1>0, <2>4, <2>5, NoiseSent DEF Goal
<1>4. ASSUME NEW p \in Command \cup Group, Receive(p) PROVE Goal
  BY <1>0, <1>4, ReceiveKnows DEF Goal
<1>5. ASSUME NEW p \in Command \cup Group, NEW g \in Group, Spawn(p, g) PROVE Goal
  <2>1. PICK m : m = [kind |-> "spawn", node |-> g]
    OBVIOUS
  <2>2. m \in Report /\ Noise(m) /\ Send(p, m)
    BY <1>5, <2>1, Sendable DEF Noise, Spawn
  <2>3. UNCHANGED <<messages, resets, dones, cmd, kind, stage, mainTask, complete, qaTrack>>
    BY <1>5 DEF Spawn, driving, progress
  <2>4. QED
    BY <1>0, <2>2, <2>3, NoiseSent DEF Goal
<1>6. ASSUME TakeMsg PROVE Goal
  <2>1. Take("msg") /\ UNCHANGED <<wire, resets, dones, cmd, kind, stage, mainTask, complete, qaTrack>>
    BY <1>6 DEF TakeMsg, driving, processes, sockets, progress
  <2>2. QED
    BY <1>0, <2>1, NoiseTaken DEF Goal
<1>7. ASSUME Climb PROVE Goal
  <2>1. UNCHANGED <<messages, wire, resets, dones, cmd, kind, stage, mainTask, complete, qaTrack>>
    BY <1>7 DEF Climb, driving, processes, sockets, progress
  <2>2. /\ Ctl(messages') = Ctl(messages) /\ Sorted(messages') /\ \A d \in Command : Sorted(wire'[d])
        /\ \A p \in Command \cup Group : Ctl(wire'[p]) = Ctl(wire[p])
    BY <1>0, <2>1 DEF Lines
  <2>3. QED
    BY <1>0, <2>1, <2>2, QuietStep DEF Goal
<1>8. ASSUME TakeSpawn PROVE Goal
  <2>1. Take("spawn") /\ UNCHANGED <<wire, resets, dones, cmd, kind, stage, mainTask, complete, qaTrack>>
    BY <1>8 DEF TakeSpawn, driving, processes, sockets, progress
  <2>2. QED
    BY <1>0, <2>1, NoiseTaken DEF Goal
<1>9. ASSUME TakeTask \/ TakeStart \/ TakeReset PROVE Goal
  BY <1>0, <1>9, TakeTaskKnows, TakeStartKnows, TakeResetKnows DEF Goal
<1>10. ASSUME TakeFinalize \/ TakeQa \/ TakeTaskDone \/ TakeDone PROVE Goal
  BY <1>0, <1>10, TakeFinalizeKnows, TakeQaKnows, TakeTaskDoneKnows, TakeDoneKnows DEF Goal
<1>11. QED
  BY <1>1, <1>2, <1>3, <1>4, <1>5, <1>6, <1>7, <1>8, <1>9, <1>10, Steps DEF Goal

\* A command that has been answered does not change any more.
LEMMA AnsweredStays ==
    ASSUME Known, Next, NEW c \in Command, cmd[c] = "answered"
    PROVE  cmd'[c] = "answered" /\ kind'[c] = kind[c] /\ stage'[c] = stage[c]
<1> DEFINE Goal == cmd'[c] = "answered" /\ kind'[c] = kind[c] /\ stage'[c] = stage[c]
<1> HIDE DEF Goal
<1>1. ASSUME NEW d \in Command,
             \/ Start(d) \/ Launch(d) \/ SendDone(d) \/ End(d) \/ ReceiveReset(d) \/ ReceiveDone(d)
      PROVE  Goal
  <2>1. UNCHANGED stage /\ (UNCHANGED <<cmd, kind>> \/ cmd[d] # "answered")
    BY <1>1 DEF Start, Launch, SendDone, End, ReceiveReset, ReceiveDone, driving, processes
  <2>2. /\ cmd' = [cmd EXCEPT ![d] = cmd'[d]] \/ UNCHANGED cmd
        /\ kind' = [kind EXCEPT ![d] = kind'[d]] \/ UNCHANGED kind
    BY <1>1 DEF Start, Launch, SendDone, End, ReceiveReset, ReceiveDone, driving, processes, Known, ControlTypes
  <2>3. QED
    BY <2>1, <2>2 DEF Goal, Known, ControlTypes
<1>2. ASSUME NEW d \in Command, Announce(d) \/ Finalize(d) \/ Finish(d) PROVE Goal
  <2>1. d \in running /\ UNCHANGED <<cmd, kind>> /\ stage' = [stage EXCEPT ![d] = stage'[d]]
    BY <1>2 DEF Announce, Finalize, Finish, Send, driving, Known, ControlTypes
  <2>2. d # c
    BY <2>1 DEF Known, Course
  <2>3. QED
    BY <2>1, <2>2 DEF Goal, Known, ControlTypes
<1>3. ASSUME NEW p \in Command \cup Group, Say(p) \/ Receive(p) \/ \E g \in Group : Spawn(p, g) PROVE Goal
  BY <1>3 DEF Goal, Say, Receive, Spawn, driving, processes
<1>4. ASSUME TakeMsg \/ Climb \/ TakeSpawn \/ TakeTask \/ TakeStart PROVE Goal
  BY <1>4 DEF Goal, TakeMsg, Climb, TakeSpawn, TakeTask, TakeStart, driving, processes
<1>5. ASSUME TakeReset \/ TakeFinalize \/ TakeQa \/ TakeTaskDone PROVE Goal
  BY <1>5 DEF Goal, TakeReset, TakeFinalize, TakeQa, TakeTaskDone, driving, processes
<1>6. ASSUME TakeDone PROVE Goal
  BY <1>6 DEF Goal, TakeDone, processes, Known, ControlTypes
<1>7. QED
  BY <1>1, <1>2, <1>3, <1>4, <1>5, <1>6, Steps DEF Goal

\* Commands are answered by the done message only.
LEMMA OnlyDoneAnswers ==
    ASSUME Next
    PROVE  UNCHANGED answer \/ TakeDone
BY Steps DEF Start, Launch, SendDone, Announce, Finalize, Finish, End, ReceiveReset, ReceiveDone,
             Say, Receive, Spawn, TakeMsg, Climb, TakeSpawn, TakeTask, TakeStart, TakeReset,
             TakeFinalize, TakeQa, TakeTaskDone, screen

LEMMA AnswersStep ==
    ASSUME Known, Answers, Next
    PROVE  Answers'
<1> SUFFICES ASSUME NEW c \in Command, answer'[c] # None PROVE cmd'[c] = "answered"
  BY DEF Answers
<1>1. CASE answer[c] # None
  BY <1>1, AnsweredStays DEF Answers
<1>2. CASE answer[c] = None
  <2>1. TakeDone
    BY <1>2, OnlyDoneAnswers
  <2>2. c = Head(messages).cmd
    BY <1>2, <2>1 DEF TakeDone, Known, GroupTypes
  <2>3. QED
    BY <2>1, <2>2 DEF TakeDone, Known, ControlTypes
<1>3. QED
  BY <1>1, <1>2

\* Before the first command, nothing counts as complete.
LEMMA FreshStep ==
    ASSUME Known, Untouched, Fresh, Next
    PROVE  Fresh'
<1> SUFFICES ASSUME \A c \in Command : cmd'[c] = "none" PROVE ~complete'
  BY DEF Fresh
<1>1. \A c \in Command : cmd[c] = "none"
  <2> SUFFICES ASSUME NEW c \in Command, cmd[c] # "none" PROVE FALSE
    OBVIOUS
  <2>1. cmd'[c] # "none"
    BY Steps DEF Start, Launch, SendDone, Announce, Finalize, Finish, End, ReceiveReset, ReceiveDone,
         Say, Receive, Spawn, TakeMsg, Climb, TakeSpawn, TakeTask, TakeStart, TakeReset,
         TakeFinalize, TakeQa, TakeTaskDone, TakeDone, driving, Known, ControlTypes
  <2>2. QED
    BY <2>1
<1>2. messages = <<>> /\ ~complete
  BY <1>1 DEF Untouched, Fresh
<1>3. complete' = complete
  BY <1>2, Steps DEF Start, Launch, SendDone, Announce, Finalize, Finish, End, ReceiveReset, ReceiveDone,
       Say, Receive, Spawn, TakeMsg, Climb, TakeSpawn, TakeTask, TakeStart, TakeReset,
       TakeFinalize, TakeQa, TakeTaskDone, TakeDone, Take, progress
<1>4. QED
  BY <1>2, <1>3

\* What the GUI has been told about a command, it has been told with its done message.
LEMMA OutcomeStep ==
    ASSUME Known, Answers, PromptInv, OutcomeIsTold, Next
    PROVE  OutcomeIsTold'
<1>0. Prompt' = Prompt
  BY SameScenario DEF Prompt
<1> SUFFICES ASSUME NEW c \in Command, Prompt, answer'[c] # None, Identified(c)'
             PROVE  answer'[c].incomplete <=> stage'[c] # "finished"
  BY <1>0 DEF OutcomeIsTold
<1>1. CASE answer'[c] = answer[c]
  <2>1. cmd[c] = "answered" /\ kind'[c] = kind[c] /\ stage'[c] = stage[c]
    BY <1>1, AnsweredStays DEF Answers
  <2>2. \A d \in 1 .. c - 1 : kind'[d] = kind[d] /\ stage'[d] = stage[d]
    <3> SUFFICES ASSUME NEW d \in 1 .. c - 1 PROVE kind'[d] = kind[d] /\ stage'[d] = stage[d]
      OBVIOUS
    <3>1. d \in Command /\ d < c
      BY ScenarioAssumption DEF Command
    <3>2. cmd[d] = "answered"
      BY <2>1, <3>1 DEF Known, Course
    <3>3. QED
      BY <3>1, <3>2, AnsweredStays
  <2>3. Identified(c)
    BY <2>1, <2>2 DEF Identified, TasksBefore
  <2>4. QED
    BY <1>1, <2>1, <2>3 DEF OutcomeIsTold
<1>2. CASE answer'[c] # answer[c]
  <2>1. TakeDone
    BY <1>2, OnlyDoneAnswers
  <2>2. c = Head(messages).cmd /\ answer'[c].incomplete = ~complete /\ UNCHANGED <<kind, stage>>
    BY <1>2, <2>1 DEF TakeDone, Known, GroupTypes, processes
  <2>3. Identified(c)
    BY <2>2 DEF Identified, TasksBefore
  <2>4. complete <=> stage[c] = "finished"
    BY <2>1, <2>2, <2>3, TakeDoneKnows DEF PromptInv
  <2>5. QED
    BY <2>2, <2>4
<1>3. QED
  BY <1>1, <1>2

\* Only a message about QA can bring the log presentation down, and its track is there.
LEMMA UpStep ==
    ASSUME Known, Tasks, PromptInv, TrackIsThere, Next
    PROVE  TrackIsThere'
<1>1. up' = up \/ TakeQa
  BY Steps DEF Start, Launch, SendDone, Announce, Finalize, Finish, End, ReceiveReset, ReceiveDone,
       Say, Receive, Spawn, TakeMsg, Climb, TakeSpawn, TakeTask, TakeStart, TakeReset,
       TakeFinalize, TakeTaskDone, TakeDone
<1>2. Prompt' = Prompt
  BY SameScenario DEF Prompt
<1>3. QED
  BY <1>1, <1>2, TakeQaKnows DEF TrackIsThere, PromptInv
-----------------------------------------------------------------------------
(* Theorems *)

IInv ==
    /\ TypeOK /\ Course /\ Tree /\ SeverityRises /\ Untouched /\ Tasks /\ Resets /\ ShownIsWorst
    /\ PromptInv /\ Fresh /\ Answers /\ OutcomeIsTold /\ TrackIsThere

LEMMA InitIInv == Init => IInv
<1> SUFFICES ASSUME Init PROVE IInv
  OBVIOUS
<1>1. ControlTypes
  BY DEF Init, ControlTypes
<1>2. MessageTypes
  BY DEF Init, MessageTypes
<1>3. GroupTypes
  BY Severities, NoneIsNoNode DEF Init, GroupTypes
<1>4. Course
  BY DEF Init, Course
<1>5. Tree /\ SeverityRises
  BY NodeAssumption DEF Init, Tree, SeverityRises, Node, Root
<1>6. Untouched /\ Tasks /\ Resets
  BY NoneIsNoNode DEF Init, Untouched, Tasks, Resets
<1>7. ShownIsWorst
  BY NoneIsNoNode DEF Init, ShownIsWorst, Normal
<1>8. PromptInv
  <2>1. \A c \in Command : ~Current(c)
    BY DEF Init, Current
  <2>2. \A p \in Command \cup Group : wire[p] = <<>>
    BY DEF Init
  <2>3. Ctl(messages) = {} /\ Sorted(messages) /\ resets = {} /\ dones = {}
    BY CtlEmpty DEF Init
  <2>4. Lines
    BY <2>1, <2>2, <2>3, CtlEmpty DEF Lines
  <2>5. QED
    BY <2>1, <2>4 DEF PromptInv, Knows
<1>9. Fresh /\ Answers /\ OutcomeIsTold /\ TrackIsThere
  BY DEF Init, Fresh, Answers, OutcomeIsTold, TrackIsThere
<1>10. QED
  BY <1>1, <1>2, <1>3, <1>4, <1>5, <1>6, <1>7, <1>8, <1>9 DEF IInv, TypeOK

LEMMA NextIInv == IInv /\ [Next]_vars => IInv'
<1> SUFFICES ASSUME IInv, [Next]_vars PROVE IInv'
  OBVIOUS
<1>1. ControlTypes /\ MessageTypes /\ GroupTypes /\ Course /\ Tree /\ SeverityRises /\ Known
  BY DEF IInv, TypeOK, Known
<1>2. ControlTypes' /\ MessageTypes' /\ GroupTypes' /\ Course' /\ Tree' /\ SeverityRises'
  BY <1>1, ControlStep, MessageStep, GroupStep, CourseStep, TreeStep
<1>3. Untouched' /\ Tasks' /\ Resets' /\ ShownIsWorst'
  <2>1. CASE Next
    BY <1>1, <1>2, <2>1, UntouchedStep, TasksStep, ResetsStep, ShownStep DEF IInv
  <2>2. CASE UNCHANGED vars
    <3>1. UNCHANGED <<scenario, kind, cmd, stage, running, wire, resets, dones, messages, mainTask, severity, climb, shown>>
      BY <2>2 DEF vars, driving, processes, sockets, groups, progress, screen
    <3>2. Announced' = Announced /\ Overtaken' = Overtaken /\ Prompt' = Prompt
      BY <3>1 DEF Announced, Overtaken, Prompt
    <3>3. Untouched' /\ Tasks' /\ Resets'
      BY <3>1, <3>2 DEF IInv, Untouched, Tasks, Resets
    <3>4. ShownIsWorst'
      BY <3>1, <3>2 DEF IInv, ShownIsWorst, ResetPending, ResetIgnored, TasksBefore
    <3>5. QED
      BY <3>3, <3>4
  <2>3. QED
    BY <2>1, <2>2
<1>4. PromptInv' /\ Fresh' /\ Answers' /\ OutcomeIsTold' /\ TrackIsThere'
  <2>1. CASE Next
    BY <1>1, <2>1, PromptStep, FreshStep, AnswersStep, OutcomeStep, UpStep DEF IInv
  <2>2. CASE UNCHANGED vars
    <3>1. UNCHANGED <<scenario, kind, cmd, stage, wire, resets, dones, messages, up, mainTask, complete, qaTrack, answer>>
      BY <2>2 DEF vars, driving, processes, sockets, groups, progress, screen
    <3>2. Prompt' = Prompt
      BY <3>1 DEF Prompt
    <3>3. Lines /\ Knows => Lines' /\ Knows'
      <4>1. SUFFICES ASSUME Lines, Knows PROVE Lines' /\ Knows'
        OBVIOUS
      <4>2. /\ Ctl(messages') = Ctl(messages) /\ Sorted(messages') /\ \A d \in Command : Sorted(wire'[d])
            /\ \A p \in Command \cup Group : Ctl(wire'[p]) = Ctl(wire[p])
        BY <3>1, <4>1 DEF Lines
      <4>3. QED
        BY <1>1, <3>1, <4>1, <4>2, QuietStep
    <3>4. PromptInv'
      BY <3>2, <3>3 DEF IInv, PromptInv
    <3>5. Fresh' /\ Answers' /\ TrackIsThere'
      BY <3>1, <3>2 DEF IInv, Fresh, Answers, TrackIsThere
    <3>6. OutcomeIsTold'
      BY <3>1, <3>2 DEF IInv, OutcomeIsTold, Identified, TasksBefore
    <3>7. QED
      BY <3>4, <3>5, <3>6
  <2>3. QED
    BY <2>1, <2>2
<1>5. QED
  BY <1>2, <1>3, <1>4 DEF IInv, TypeOK

\* The inductive invariant of the log presentation: types, the course of the
\* commands, the tree of groups, what is on its way, and what of it is known.
THEOREM Invariance == Spec => []IInv
<1>1. QED
  BY InitIInv, NextIInv, PTL DEF Spec

\* No group is ever better than what the configured filter makes of its subgroups,
\* in whatever order messages and groups arrive (propagate_severity_up).
THEOREM SeveritiesReachTheTop == Spec => []SeverityRises
<1>1. IInv => SeverityRises
  BY DEF IInv
<1>2. QED
  BY <1>1, Invariance, PTL

\* The GUI never shows a better root than the log presentation has, unless a
\* reset is pending or has been ignored, for any number of commands and messages.
THEOREM RootIsShown == Spec => []ShownIsWorst
<1>1. IInv => ShownIsWorst
  BY DEF IInv
<1>2. QED
  BY <1>1, Invariance, PTL

\* Every variable of the log presentation stays within its type: its lists hold
\* messages only, its climbs are of groups in the tree (msgreceiver.cxx, logpresent.cxx).
THEOREM LogTypes == Spec => []TypeOK
<1>1. IInv => TypeOK
  BY DEF IInv
<1>2. QED
  BY <1>1, Invariance, PTL

\* With prompt messages, a command that announces its task, or comes before any that
\* did, is reported incomplete exactly if it did not come to its end (retrieveDoneMessage).
THEOREM OutcomeIsKnown == Spec => []OutcomeIsTold
<1>1. IInv => OutcomeIsTold
  BY DEF IInv
<1>2. QED
  BY <1>1, Invariance, PTL

\* With prompt messages, a progress message about QA never meets a build without a
\* track for it, which would crash the log presentation, whatever the commands are.
THEOREM TracksHold == Spec => []TrackIsThere
<1>1. IInv => TrackIsThere
  BY DEF IInv
<1>2. QED
  BY <1>1, Invariance, PTL
=============================================================================
