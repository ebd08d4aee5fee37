-------------------------- MODULE LogPresentation --------------------------
(***************************************************************************)
(* The log presentation (src/log_presentation): every process of a command *)
(* that mbdriver runs sends its messages over a connection of its own; a   *)
(* thread per connection (msgreceiver.cxx) puts them into one list, and    *)
(* one thread (logpresent.cxx) takes them from it, keeps the severities of *)
(* the tree of message groups, finds out whether the command came to its   *)
(* end, and tells the GUI through mbdriver.                                *)
(*                                                                         *)
(* A command is a model build ("script", with QA "qa"), which reports its  *)
(* phases, or one that announces a main task ("task").  Its first process  *)
(* writes into the root group, the one that it starts for a group into     *)
(* that group.  Percentages, texts and the nodes of messages are left out: *)
(* of the progress of a command only its beginning and its end are kept.   *)
(* All main tasks bear the same name.  mb_done and done_sent change        *)
(* together, so that the loop never has a done message to make up.         *)
(***************************************************************************)
EXTENDS Naturals, Sequences

CONSTANTS
    MaxCommands,  \* bound: commands of the GUI
    Group,        \* ids of message groups that the pool hands out
    None,
    Scenarios,    \* the circumstances that are considered
    Filter,       \* filter_severity: per group, for messages and subgroups
    Said          \* severities of the messages above "normal"

Command == 1 .. MaxCommands
Kind == {"script", "qa", "task"}
Severity == 0 .. 3
Normal == 0
Error == 2
Catastrophe == 3
Root == 0
Node == Group \cup {Root}

\* Messages arrive at any time, or they are prompt: what the first process of a
\* command has sent is there when mbdriver has slept for a second, and the reset
\* before the process that mbdriver starts after it sends anything.  A scenario
\* bounds the commands, groups and messages (other than about progress or groups).
ASSUME ScenarioAssumption ==
    /\ MaxCommands \in Nat
    /\ Scenarios \subseteq [prompt : BOOLEAN, commands : Nat, kinds : SUBSET Kind,
                          groups : SUBSET Group, says : Nat]
    /\ Said \subseteq Severity \ {Normal}
ASSUME NodeAssumption ==
    /\ Group \subseteq Nat \ (Command \cup {Root})
    /\ None \notin Node \cup Command \cup [node : Node, sev : Severity, from : Node \cup {None}]
\* The root group has no name for the configuration to filter.
ASSUME FilterAssumption ==
    /\ Filter \in [Node -> [BOOLEAN -> [Severity -> Severity]]]
    /\ \A n \in Node, b \in BOOLEAN, r, s \in Severity :
          r <= s => Filter[n][b][r] <= Filter[n][b][s]
    /\ \A n \in Node : Filter[n][TRUE][Normal] = Normal
    /\ \A b \in BOOLEAN, s \in Severity : Filter[Root][b][s] = s

VARIABLES
    scenario,
    kind, cmd,    \* per command: its kind, and how far mbdriver is with it
    stage,        \* per command: how far its first process is
    running,      \* first processes and groups whose processes run
    says,
    wire,         \* per process: the messages on its connection
    resets, dones,  \* the connections of mbdriver for a reset, for a done message
    messages,     \* messages_list
    up,           \* the log presentation runs
    mainTask,     \* main_task: the command that announced it
    complete,     \* mb_complete
    qaTrack,      \* qa_calliper_track is there
    parent,       \* per group: the one that its spawn message names
    tree, severity,   \* the groups below mgid_tree_root
    climb,        \* the locals of propagate_severity_up
    shown,        \* the severity of the root that the GUI shows
    answer        \* per command: what the GUI knew when it read the done message

driving == <<kind, cmd>>
processes == <<stage, running, says>>
sockets == <<wire, resets, dones>>
groups == <<tree, parent, severity>>
progress == <<mainTask, complete, qaTrack>>
screen == <<shown, answer>>
vars == <<scenario, driving, processes, sockets, messages, up, progress, groups, climb, screen>>

Note(k) == [kind |-> k]

\* What the processes of commands send, and what else gets into the list.
Report ==
    [kind : {"msg"}, node : Node, sev : Severity] \cup [kind : {"spawn"}, node : Group]
    \cup [kind : Kind, cmd : Command]
    \cup [kind : {"finalize pass", "qa calliper", "task done"}]
Message == Report \cup [kind : {"reset"}] \cup [kind : {"done"}, cmd : Command]

Init ==
    /\ scenario \in Scenarios
    /\ kind = [c \in Command |-> None] /\ cmd = [c \in Command |-> "none"]
    /\ stage = [c \in Command |-> "fresh"]
    /\ running = {} /\ says = 0
    /\ wire = [p \in Command \cup Group |-> <<>>] /\ resets = {} /\ dones = {}
    /\ messages = <<>>
    /\ up = TRUE
    /\ mainTask = None /\ complete = FALSE /\ qaTrack = FALSE
    /\ tree = {Root}
    /\ parent = [n \in Node |-> None] /\ severity = [n \in Node |-> Normal]
    /\ climb = None
    /\ shown = Normal /\ answer = [c \in Command |-> None]

Prompt == scenario.prompt
-----------------------------------------------------------------------------
(* The GUI and mbdriver *)

\* The GUI clears its messages and starts a command, when the last one is done;
\* had_start: mbdriver resets the log presentation for a subsequent one.  How the
\* command travels to mbdriver is part of how its reset travels on.
Start(c) ==
    /\ c <= scenario.commands
    /\ cmd[c] = "none" /\ \A d \in 1 .. c - 1 : cmd[d] = "answered"
    /\ cmd' = [cmd EXCEPT ![c] = "launch"]
    /\ \E k \in scenario.kinds : kind' = [kind EXCEPT ![c] = k]
    /\ shown' = Normal
    /\ resets' = IF c = 1 THEN resets ELSE resets \cup {c}
    /\ UNCHANGED <<processes, wire, dones, messages, up, progress, groups, climb, answer>>

Launch(c) ==
    /\ cmd[c] = "launch"
    /\ Prompt => c \notin resets
    /\ cmd' = [cmd EXCEPT ![c] = "running"]
    /\ running' = running \cup {c}
    /\ UNCHANGED <<kind, stage, says, sockets, messages, up, progress, groups, climb, screen>>

\* The thread that waited for the process sleeps and sends the done message.
SendDone(c) ==
    /\ cmd[c] = "running" /\ c \notin running
    /\ Prompt => wire[c] = <<>>
    /\ cmd' = [cmd EXCEPT ![c] = "over"]
    /\ dones' = dones \cup {c}
    /\ UNCHANGED <<kind, processes, wire, resets, messages, up, progress, groups, climb, screen>>
-----------------------------------------------------------------------------
(* The processes of a command *)

Send(p, m) == p \in running /\ wire' = [wire EXCEPT ![p] = Append(@, m)]

\* "start modelbuild", "start modelbuildAndQA", or the name of the main task.
Announce(c) ==
    /\ stage[c] = "fresh"
    /\ stage' = [stage EXCEPT ![c] = "begun"]
    /\ Send(c, [kind |-> kind[c], cmd |-> c])
    /\ UNCHANGED <<driving, running, says, resets, dones, messages, up, progress, groups, climb, screen>>

\* "finalize pass", which with QA is not the end.
Finalize(c) ==
    /\ stage[c] = "begun" /\ kind[c] \in {"script", "qa"}
    /\ stage' = [stage EXCEPT ![c] = IF kind[c] = "qa" THEN "built" ELSE "finished"]
    /\ Send(c, Note("finalize pass"))
    /\ UNCHANGED <<driving, running, says, resets, dones, messages, up, progress, groups, climb, screen>>

\* "qa calliper", or the progress message that names the main task.
Finish(c) ==
    /\ \/ kind[c] = "qa" /\ stage[c] = "built" /\ Send(c, Note("qa calliper"))
       \/ kind[c] = "task" /\ stage[c] = "begun" /\ Send(c, Note("task done"))
    /\ stage' = [stage EXCEPT ![c] = "finished"]
    /\ UNCHANGED <<driving, running, says, resets, dones, messages, up, progress, groups, climb, screen>>

NodeOf(p) == IF p \in Group THEN p ELSE Root

Say(p) ==
    /\ says < scenario.says
    /\ \E s \in Said : Send(p, [kind |-> "msg", node |-> NodeOf(p), sev |-> s])
    /\ says' = says + 1
    /\ UNCHANGED <<driving, stage, running, resets, dones, messages, up, progress, groups, climb, screen>>

\* IdPool::get gives a new id, which is announced; then the group's process starts.
Spawn(p, g) ==
    /\ g \in scenario.groups /\ parent[g] = None
    /\ \A h \in Group : h < g => parent[h] # None
    /\ Send(p, [kind |-> "spawn", node |-> g])
    /\ parent' = [parent EXCEPT ![g] = NodeOf(p)]
    /\ running' = running \cup {g}
    /\ UNCHANGED <<driving, stage, says, resets, dones, messages, up, progress, tree, severity, climb, screen>>

\* The first process ends, well or not; those of groups may go on.
End(c) ==
    /\ c \in running
    /\ running' = running \ {c}
    /\ UNCHANGED <<driving, stage, says, sockets, messages, up, progress, groups, climb, screen>>
-----------------------------------------------------------------------------
(* MessageReceiver::communicate: a thread per connection *)

Receive(p) ==
    /\ up /\ wire[p] # <<>>
    /\ messages' = Append(messages, Head(wire[p]))
    /\ wire' = [wire EXCEPT ![p] = Tail(@)]
    /\ UNCHANGED <<driving, processes, resets, dones, up, progress, groups, climb, screen>>

ReceiveReset(c) ==
    /\ up /\ c \in resets
    /\ messages' = Append(messages, Note("reset"))
    /\ resets' = resets \ {c}
    /\ UNCHANGED <<driving, processes, wire, dones, up, progress, groups, climb, screen>>

ReceiveDone(c) ==
    /\ up /\ c \in dones
    /\ messages' = Append(messages, [kind |-> "done", cmd |-> c])
    /\ dones' = dones \ {c}
    /\ UNCHANGED <<driving, processes, wire, resets, up, progress, groups, climb, screen>>
-----------------------------------------------------------------------------
(* MsgProcessor::processAllMessages, one message after the other *)

Take(k) ==
    /\ up /\ climb = None
    /\ messages # <<>> /\ Head(messages).kind = k
    /\ messages' = Tail(messages)

\* MsgGroupIdNode::reset
ResetTree == tree' = {Root} /\ severity' = [n \in Node |-> Normal]

\* A severity above "normal" climbs from the group, if that is in the tree.
TakeMsg ==
    /\ Take("msg")
    /\ LET m == Head(messages)
       IN  climb' = IF m.node \in tree THEN [node |-> m.node, sev |-> m.sev, from |-> None] ELSE None
    /\ UNCHANGED <<driving, processes, sockets, up, progress, groups, screen>>

\* Fault: the severity climbs no further than the group that it raises.
ClimbToRaised ==
    /\ up /\ climb # None
    /\ LET n == climb.node
           s == Filter[n][climb.from # None][climb.sev]
       IN  /\ severity' = [severity EXCEPT ![n] = IF @ < s THEN s ELSE @]
           /\ shown' = IF n = Root /\ severity[n] < s THEN s ELSE shown
           /\ climb' = IF n = Root \/ severity[n] < s THEN None
                       ELSE [node |-> parent[n], sev |-> s, from |-> n]
    /\ UNCHANGED <<driving, processes, sockets, messages, up, progress, tree, parent, answer>>

\* propagate_severity_up: one turn of its loop.  The GUI is told when a group
\* is raised; of what it shows, only the root is kept.
Climb ==
    /\ up /\ climb # None
    /\ LET n == climb.node
           s == Filter[n][climb.from # None][climb.sev]
       IN  /\ severity' = [severity EXCEPT ![n] = IF @ < s THEN s ELSE @]
           /\ shown' = IF n = Root /\ severity[n] < s THEN s ELSE shown
           /\ climb' = IF n = Root THEN None ELSE [node |-> parent[n], sev |-> s, from |-> n]
    /\ UNCHANGED <<driving, processes, sockets, messages, up, progress, tree, parent, answer>>

\* add_new_mgid: a group below one that is not in the tree is not added.
TakeSpawn ==
    /\ Take("spawn")
    /\ LET g == Head(messages).node
       IN  tree' = IF parent[g] \in tree THEN tree \cup {g} ELSE tree
    /\ UNCHANGED <<driving, processes, sockets, up, progress, parent, severity, climb, screen>>

\* Fault: the outcome of the last command is kept.
TakeTaskKeepsOutcome ==
    /\ Take("task")
    /\ mainTask' = Head(messages).cmd
    /\ UNCHANGED <<driving, processes, sockets, up, complete, qaTrack, groups, climb, screen>>

TakeTask ==
    /\ Take("task")
    /\ mainTask' = Head(messages).cmd
    /\ complete' = FALSE
    /\ UNCHANGED <<driving, processes, sockets, up, qaTrack, groups, climb, screen>>

\* Fault: the tracks are those of a build without QA.
TakeStartWithoutQa ==
    /\ \/ Take("script")
       \/ Take("qa")
    /\ IF mainTask = None THEN qaTrack' = FALSE /\ ResetTree
       ELSE UNCHANGED <<qaTrack, tree, severity>>
    /\ UNCHANGED <<driving, processes, sockets, up, mainTask, complete, parent, climb, screen>>

\* ProgressMsgProcessor::reset and MsgProcessor::reset, when no task has been
\* announced: to a main task, the message is progress that it does not know.
TakeStart ==
    /\ \/ Take("script")
       \/ Take("qa")
    /\ IF mainTask = None THEN qaTrack' = (Head(messages).kind = "qa") /\ ResetTree
       ELSE UNCHANGED <<qaTrack, tree, severity>>
    /\ UNCHANGED <<driving, processes, sockets, up, mainTask, complete, parent, climb, screen>>

\* Fault: the group tree survives the reset.
TakeResetKeepsTree ==
    /\ Take("reset")
    /\ IF mainTask = None THEN qaTrack' = FALSE /\ complete' = FALSE
       ELSE UNCHANGED <<qaTrack, complete>>
    /\ UNCHANGED <<driving, processes, sockets, up, mainTask, groups, climb, screen>>

\* "invoke model build"
TakeReset ==
    /\ Take("reset")
    /\ IF mainTask = None THEN qaTrack' = FALSE /\ complete' = FALSE /\ ResetTree
       ELSE UNCHANGED <<qaTrack, complete, tree, severity>>
    /\ UNCHANGED <<driving, processes, sockets, up, mainTask, parent, climb, screen>>

TakeFinalize ==
    /\ Take("finalize pass")
    /\ complete' = (complete \/ (mainTask = None /\ ~qaTrack))
    /\ UNCHANGED <<driving, processes, sockets, up, mainTask, qaTrack, groups, climb, screen>>

\* Without a track, a null pointer is followed: the log presentation crashes.
TakeQa ==
    /\ Take("qa calliper")
    /\ up' = (mainTask # None \/ qaTrack)
    /\ complete' = (complete \/ (mainTask = None /\ qaTrack))
    /\ UNCHANGED <<driving, processes, sockets, mainTask, qaTrack, groups, climb, screen>>

\* TaskProgress::process_progress_message, note_progress
TakeTaskDone ==
    /\ Take("task done")
    /\ complete' = (complete \/ mainTask # None)
    /\ UNCHANGED <<driving, processes, sockets, up, mainTask, qaTrack, groups, climb, screen>>

\* Fault: the done message waits for a complete command.
TakeDoneIfComplete ==
    /\ Take("done")
    /\ LET c == Head(messages).cmd
       IN  IF complete
             THEN /\ answer' = [answer EXCEPT ![c] = [incomplete |-> FALSE, severity |-> shown]]
                  /\ cmd' = [cmd EXCEPT ![c] = "answered"]
             ELSE UNCHANGED <<answer, cmd>>
    /\ UNCHANGED <<kind, processes, sockets, up, progress, groups, climb, shown>>

\* retrieveDoneMessage: an incomplete command is reported to the root group
\* before the done message, with which the GUI takes the command for over.
TakeDone ==
    /\ Take("done")
    /\ LET c == Head(messages).cmd
           raised == ~complete /\ severity[Root] < Catastrophe
       IN  /\ severity' = [severity EXCEPT ![Root] = IF raised THEN Catastrophe ELSE @]
           /\ shown' = IF raised THEN Catastrophe ELSE shown
           /\ answer' = [answer EXCEPT ![c] = [incomplete |-> ~complete, severity |-> shown']]
           /\ cmd' = [cmd EXCEPT ![c] = "answered"]
    /\ UNCHANGED <<kind, processes, sockets, up, progress, tree, parent, climb>>
-----------------------------------------------------------------------------
Processor ==
    \/ TakeMsg \/ Climb \/ TakeSpawn \/ TakeTask \/ TakeStart \/ TakeReset
    \/ TakeFinalize \/ TakeQa \/ TakeTaskDone \/ TakeDone

Next ==
    /\ UNCHANGED scenario
    /\ \/ \E c \in Command :
             \/ Start(c) \/ Launch(c) \/ SendDone(c)
             \/ Announce(c) \/ Finalize(c) \/ Finish(c) \/ End(c)
             \/ ReceiveReset(c) \/ ReceiveDone(c)
       \/ \E p \in Command \cup Group :
             \/ Say(p) \/ Receive(p)
             \/ \E g \in Group : Spawn(p, g)
       \/ Processor

Spec == Init /\ [][Next]_vars

\* The threads of mbdriver and of the log presentation go on.
Fairness ==
    /\ WF_vars(UNCHANGED scenario /\ Processor)
    /\ \A p \in Command \cup Group : WF_vars(UNCHANGED scenario /\ Receive(p))
    /\ \A c \in Command :
          /\ WF_vars(UNCHANGED scenario /\ SendDone(c))
          /\ WF_vars(UNCHANGED scenario /\ ReceiveDone(c))

FairSpec == Spec /\ Fairness
-----------------------------------------------------------------------------
ControlTypes ==
    /\ scenario \in Scenarios
    /\ kind \in [Command -> Kind \cup {None}]
    /\ cmd \in [Command -> {"none", "launch", "running", "over", "answered"}]
    /\ stage \in [Command -> {"fresh", "begun", "built", "finished"}]
    /\ running \subseteq Command \cup Group /\ says \in Nat
    /\ resets \subseteq Command /\ dones \subseteq Command
    /\ up \in BOOLEAN /\ complete \in BOOLEAN /\ qaTrack \in BOOLEAN
    /\ mainTask \in Command \cup {None}

MessageTypes == wire \in [Command \cup Group -> Seq(Report)] /\ messages \in Seq(Message)

GroupTypes ==
    /\ Root \in tree /\ tree \subseteq Node
    /\ parent \in [Node -> Node \cup {None}] /\ severity \in [Node -> Severity]
    /\ climb \in [node : tree, sev : Severity, from : Node \cup {None}] \cup {None}
    /\ shown \in Severity
    /\ answer \in [Command -> [incomplete : BOOLEAN, severity : Severity] \cup {None}]

TypeOK == ControlTypes /\ MessageTypes /\ GroupTypes

\* Commands before c that have announced a main task, which stays for good.
TasksBefore(c) == {d \in 1 .. c - 1 : kind[d] = "task" /\ stage[d] # "fresh"}

\* Whether the log presentation can know what became of command c.
Identified(c) == TasksBefore(c) = {} \/ (kind[c] = "task" /\ stage[c] # "fresh")

\* logpresent.cxx:521-523, "Ensure GUI is informed of error": when messages are
\* prompt, a command is reported incomplete exactly if it has not come to its end,
\* unless it announces no task after one that did.
OutcomeIsTold ==
    \A c \in Command :
        Prompt /\ answer[c] # None /\ Identified(c)
            => (answer[c].incomplete <=> stage[c] # "finished")

\* A reset on its way, for a GUI that has cleared its messages.
ResetPending ==
    \/ resets # {}
    \/ \E i \in 1 .. Len(messages) : messages[i].kind = "reset"

\* A reset that comes after a main task is announced is ignored: when an earlier
\* command has announced one, or this one before a late reset.
ResetIgnored ==
    \/ \E c \in Command : cmd[c] # "none" /\ TasksBefore(c) # {}
    \/ ~Prompt /\ mainTask # None

\* The GUI goes on to browse the model unless the root group that it shows has
\* an error (MainFrame.DoneMessage): it never shows a better root than the tree
\* has, whatever arrives late, unless a reset is pending or has been ignored.
ShownIsWorst == severity[Root] <= shown \/ ResetPending \/ ResetIgnored

\* Between two messages no group is better than what its subgroups, filtered,
\* make of it: severities that arrive in any order reach every group above.
SeverityRises ==
    \A n \in tree \ {Root} :
        climb = None \/ climb.from # n
            => Filter[parent[n]][TRUE][severity[n]] <= severity[parent[n]]

\* A progress message about QA finds its track as long as messages are prompt;
\* one of an earlier build that arrives after the reset crashes the processor.
TrackIsThere == Prompt => up

\* Every command whose process has ended is answered by a done message, unless
\* the log presentation crashes: the GUI does not wait for ever.
DoneArrives ==
    \A c \in Command :
        (cmd[c] = "running" /\ c \notin running) ~> (cmd[c] = "answered" \/ ~up)
=============================================================================
