----------------------------- MODULE HTTPServer -----------------------------
(***************************************************************************)
(* The HTTP server of the browser (src/httpserver): a thread per client    *)
(* (ClientConnection.java) evaluates commands on a model server that it    *)
(* takes from the pool of the service it asks for (ModelsCollection.java,  *)
(* ModelConnection.java); a killer thread disconnects the clients that     *)
(* have been there for too long, and the main thread accepts clients and   *)
(* disconnects them when the server is shut down (HTTPServerApp.java).     *)
(*                                                                         *)
(* One service, whose connections are the pool; requests for pages, for    *)
(* the list of services and for unknown services are "page".  The data     *)
(* source of a connection is a class that the repository lacks: setting it *)
(* connected succeeds or fails, and a command succeeds only while it is    *)
(* connected.  Waits are delays of any length; what is written to a client *)
(* is left out.                                                            *)
(***************************************************************************)
EXTENDS Naturals, SequencesExt

CONSTANTS
    Client,      \* clients, each served by a thread of its own
    Server,      \* the connections of the service, each to a model server
    Startable,   \* those with a command on the local host
    None,
    Modes,       \* the circumstances that are considered
    MaxTries,    \* per mode: rounds through the pool before giving up (50 in the code)
    Limit,       \* ticks of the killer that a client may stay (30 in the code)
    MaxEnds      \* bound: ends of started model servers

\* "steady": commands succeed in time; "nocache": the same with -no_cache;
\* "ending": model servers may end; "failing": commands fail or last longer than
\* the killer allows, and clients break off; "closing": the server is shut down.
ASSUME ModeAssumption == Modes \subseteq {"steady", "nocache", "ending", "failing", "closing"}
\* A service is listed with its first connection.
ASSUME SetAssumption ==
    /\ None \notin Client \cup Server /\ Startable \subseteq Server
    /\ IsFiniteSet(Server) /\ Server # {}
ASSUME BoundAssumption == MaxTries \in [Modes -> Nat \ {0}] /\ Limit \in Nat /\ MaxEnds \in Nat

VARIABLES
    mode,
    pool,        \* the Vector of the service's connections
    link,        \* per connection: dataSource.isConnected()
    running, inUse, dead,
    child,       \* per connection: a model server was started for it
    readers,     \* threads that still have to report the end of one
    ends,        \* ends of model servers so far
    poolLock,    \* the monitor of ModelsCollection
    pc,          \* per client: where its thread is
    pass, idx,   \* per client: pass and index of its search
    tries,       \* per client: rounds so far
    held,        \* per client: the local modelConnection
    connected,   \* per client: connectedServer
    code,        \* per client: the error code of its reply
    closed,      \* clients whose socket has been closed
    list,        \* connectionsList
    age,         \* per client: timeout
    killer, victim, prey,           \* the killer thread, its client and server
    main, drop,                     \* the main thread, its index
    shuttingDown

servers == <<link, running, inUse, dead, child, readers, ends>>
search == <<pass, idx, tries>>
clients == <<pc, search, held, connected, code>>
killing == <<killer, victim, prey>>
control == <<main, drop, shuttingDown>>
vars == <<mode, pool, servers, poolLock, clients, closed, list, age, killing, control>>

InitialPool == SetToSeq(Server)

Init ==
    /\ mode \in Modes
    /\ pool = InitialPool
    /\ link = [s \in Server |-> FALSE] /\ running = [s \in Server |-> TRUE]
    /\ inUse = [s \in Server |-> FALSE] /\ dead = [s \in Server |-> FALSE]
    /\ child = [s \in Server |-> FALSE] /\ readers = [s \in Server |-> 0]
    /\ ends = 0
    /\ poolLock = None
    /\ pc = [c \in Client |-> "absent"]
    /\ pass = [c \in Client |-> 1] /\ idx = [c \in Client |-> 1]
    /\ tries = [c \in Client |-> 0]
    /\ held = [c \in Client |-> None] /\ connected = [c \in Client |-> None]
    /\ code = [c \in Client |-> "ok"]
    /\ closed = {}
    /\ list = <<>> /\ age = [c \in Client |-> 0]
    /\ killer = "nap" /\ victim = None /\ prey = None
    /\ main = "accept" /\ drop = 1
    /\ shuttingDown = FALSE

Failing == mode = "failing"
Closing == mode = "closing"
Caching == mode # "nocache"

\* The monitor of the application: removeDeadConnections and
\* removeAllConnections hold it from beginning to end.
AppFree == killer \in {"nap", "over"} /\ main \notin {"kill", "drop"}

\* The flag shutDown is set by the killer when its loop ends.
ShutDown == killer = "over"

Goto(c, from, to) == pc[c] = from /\ pc' = [pc EXCEPT ![c] = to]

\* The socket is closed and the client leaves the list, which has its timeout.
Leave(c) ==
    /\ closed' = closed \cup {c}
    /\ list' = RemoveFirst(list, c)
    /\ age' = [age EXCEPT ![c] = 0]
-----------------------------------------------------------------------------
(* HTTPServerApp.run and the beginning of ClientConnection.run *)

Accept(c) ==
    /\ main = "accept" /\ ~shuttingDown
    /\ AppFree
    /\ Goto(c, "absent", "read")
    /\ list' = Append(list, c)
    /\ UNCHANGED <<pool, servers, poolLock, search, held, connected, code, closed, age, killing, control>>

\* The request cannot be read: the thread ends, its client stays in the list.
ReadFails(c) ==
    /\ Failing
    /\ Goto(c, "read", "dead")
    /\ UNCHANGED <<pool, servers, poolLock, search, held, connected, code, closed, list, age, killing, control>>

\* The request is for a page or for a command; both ask for getModels.
Read(c) ==
    /\ AppFree
    /\ \/ Goto(c, "read", "reply")
       \/ Goto(c, "read", "enter")
    /\ UNCHANGED <<pool, servers, poolLock, search, held, connected, code, closed, list, age, killing, control>>

\* The request to shut down: disconnect, shutDownServer.
ReadShutDown(c) ==
    /\ Closing
    /\ AppFree
    /\ Goto(c, "read", "done")
    /\ Leave(c)
    /\ shuttingDown' = TRUE
    /\ UNCHANGED <<pool, servers, poolLock, search, held, connected, code, killing, main, drop>>
-----------------------------------------------------------------------------
(* ModelsCollection.useConnection, which holds its monitor except in wait *)

\* The locals of a search that is over.
SearchOver(c) == pass' = [pass EXCEPT ![c] = 1] /\ idx' = [idx EXCEPT ![c] = 1]

\* No connection was found: the client is told that there is no service.
GiveUp(c) ==
    /\ pc' = [pc EXCEPT ![c] = "reply"]
    /\ code' = [code EXCEPT ![c] = "noService"]
    /\ poolLock' = None
    /\ UNCHANGED <<pass, idx>>

Search(c) ==
    /\ pc' = [pc EXCEPT ![c] = "test"]
    /\ poolLock' = c
    /\ UNCHANGED <<pass, idx, code>>

\* Fault: there is one round of the loop, whatever the limit.
EnterOnce(c) ==
    /\ pc[c] \in {"enter", "sleep"}
    /\ poolLock = None
    /\ tries' = [tries EXCEPT ![c] = IF pc[c] = "sleep" THEN @ + 1 ELSE @]
    /\ IF pool # <<>> /\ pc[c] = "enter" THEN Search(c) ELSE GiveUp(c)
    /\ UNCHANGED <<pool, servers, held, connected, closed, list, age, killing, control>>

\* The loop condition, when the method is entered or a wait is over.
Enter(c) ==
    /\ pc[c] \in {"enter", "sleep"}
    /\ poolLock = None
    /\ tries' = [tries EXCEPT ![c] = IF pc[c] = "sleep" THEN @ + 1 ELSE @]
    /\ IF pool # <<>> /\ tries'[c] < MaxTries[mode] THEN Search(c) ELSE GiveUp(c)
    /\ UNCHANGED <<pool, servers, held, connected, closed, list, age, killing, control>>

\* i < connections.size(), or else the next pass or a wait
Test(c) ==
    /\ pc[c] = "test"
    /\ \/ /\ idx[c] <= Len(pool)
          /\ pc' = [pc EXCEPT ![c] = "get"]
          /\ UNCHANGED <<pass, idx, poolLock>>
       \/ /\ idx[c] > Len(pool) /\ pass[c] < 3
          /\ pass' = [pass EXCEPT ![c] = @ + 1]
          /\ idx' = [idx EXCEPT ![c] = 1]
          /\ UNCHANGED <<pc, poolLock>>
       \/ /\ idx[c] > Len(pool) /\ pass[c] = 3
          /\ pc' = [pc EXCEPT ![c] = "sleep"]
          /\ poolLock' = None
          /\ SearchOver(c)
    /\ UNCHANGED <<pool, servers, tries, held, connected, code, closed, list, age, killing, control>>

\* connections.get(i) throws when lowPriority has shortened the Vector since
\* the test; nobody catches it, and the thread ends.
GetThrows(c) ==
    /\ Goto(c, "get", "dead")
    /\ idx[c] > Len(pool)
    /\ poolLock' = None
    /\ SearchOver(c)
    /\ UNCHANGED <<pool, servers, tries, held, connected, code, closed, list, age, killing, control>>

\* The connection that the search of c looks at.
Looks(c, s) == pc[c] = "get" /\ idx[c] <= Len(pool) /\ s = pool[idx[c]]

Choose(c, s) ==
    /\ pc' = [pc EXCEPT ![c] = "take"]
    /\ held' = [held EXCEPT ![c] = s]
    /\ UNCHANGED idx

Pass(c) ==
    /\ pc' = [pc EXCEPT ![c] = "test"]
    /\ idx' = [idx EXCEPT ![c] = @ + 1]
    /\ UNCHANGED held

\* Fault: the flag that says that a connection is in use is not asked for.
ChooseAnyAlive(c) ==
    \E s \in Server :
        /\ Looks(c, s) /\ pass[c] = 1
        /\ IF link[s] THEN Choose(c, s) ELSE Pass(c)
        /\ UNCHANGED <<pool, servers, poolLock, pass, tries, connected, code, closed, list, age, killing, control>>

\* Pass 1: a connection that is alive and not in use.
ChooseAlive(c) ==
    \E s \in Server :
        /\ Looks(c, s) /\ pass[c] = 1
        /\ IF link[s] /\ ~inUse[s] THEN Choose(c, s) ELSE Pass(c)
        /\ UNCHANGED <<pool, servers, poolLock, pass, tries, connected, code, closed, list, age, killing, control>>

\* Pass 2: a broken connection to a server that runs.  Whether it is in use
\* is not asked.
Reconnect(c) ==
    \E s \in Server :
        /\ Looks(c, s) /\ pass[c] = 2
        /\ \/ /\ ~link[s] /\ running[s]
              /\ \/ link' = [link EXCEPT ![s] = TRUE] /\ Choose(c, s) /\ UNCHANGED running
                 \/ running' = [running EXCEPT ![s] = FALSE] /\ Pass(c) /\ UNCHANGED link
           \/ (link[s] \/ ~running[s]) /\ Pass(c) /\ UNCHANGED <<link, running>>
        /\ UNCHANGED <<pool, inUse, dead, child, readers, ends, poolLock, pass, tries, connected, code, closed, list, age, killing, control>>

\* Pass 3, ModelConnection.run: connect, or else start a model server.
Run(c) ==
    \E s \in Server :
        /\ Looks(c, s) /\ pass[c] = 3
        /\ \/ /\ ~running[s]
              /\ link' = [link EXCEPT ![s] = TRUE]
              /\ running' = [running EXCEPT ![s] = TRUE]
              /\ inUse' = [inUse EXCEPT ![s] = FALSE]
              /\ dead' = [dead EXCEPT ![s] = FALSE]
              /\ Choose(c, s)
              /\ UNCHANGED child
           \/ /\ ~running[s] /\ ~dead[s] /\ s \in Startable
              /\ child' = [child EXCEPT ![s] = TRUE]
              /\ held' = [held EXCEPT ![c] = s]
              /\ pc' = [pc EXCEPT ![c] = "start"]
              /\ UNCHANGED <<link, running, inUse, dead, idx>>
           \/ /\ running[s] \/ dead[s] \/ s \notin Startable
              /\ Pass(c)
              /\ UNCHANGED <<link, running, inUse, dead, child>>
        /\ UNCHANGED <<pool, readers, ends, poolLock, pass, tries, connected, code, closed, list, age, killing, control>>

\* One of the attempts to connect to the started server succeeds, ...
Started(c) ==
    /\ Goto(c, "start", "take")
    /\ link' = [link EXCEPT ![held[c]] = TRUE]
    /\ running' = [running EXCEPT ![held[c]] = TRUE]
    /\ inUse' = [inUse EXCEPT ![held[c]] = FALSE]
    /\ UNCHANGED <<pool, dead, child, readers, ends, poolLock, search, held, connected, code, closed, list, age, killing, control>>

\* ... or none of a hundred does.
StartFails(c) ==
    /\ pc[c] = "start"
    /\ dead' = [dead EXCEPT ![held[c]] = TRUE]
    /\ pc' = [pc EXCEPT ![c] = "test"]
    /\ idx' = [idx EXCEPT ![c] = @ + 1]
    /\ held' = [held EXCEPT ![c] = None]
    /\ UNCHANGED <<pool, link, running, inUse, child, readers, ends, poolLock, pass, tries, connected, code, closed, list, age, killing, control>>

\* setInUse(true), and the connection is returned.
Take(c) ==
    /\ Goto(c, "take", "got")
    /\ inUse' = [inUse EXCEPT ![held[c]] = TRUE]
    /\ poolLock' = None
    /\ SearchOver(c)
    /\ UNCHANGED <<pool, link, running, dead, child, readers, ends, tries, held, connected, code, closed, list, age, killing, control>>
-----------------------------------------------------------------------------
(* The rest of ClientConnection.run *)

Attach(c) ==
    /\ Goto(c, "got", "exec")
    /\ connected' = [connected EXCEPT ![c] = held[c]]
    /\ UNCHANGED <<pool, servers, poolLock, search, held, code, closed, list, age, killing, control>>

\* source.Exec(command) returns.
Exec(c) ==
    /\ Goto(c, "exec", "evaluated")
    /\ \/ link[held[c]] /\ UNCHANGED code
       \/ /\ ~link[held[c]] \/ Failing
          /\ code' = [code EXCEPT ![c] = "commError"]
    /\ UNCHANGED <<pool, servers, poolLock, search, held, connected, closed, list, age, killing, control>>

\* The connection is broken after an error, and always with -no_cache.
Evaluated(c) ==
    /\ Goto(c, "evaluated", "reply")
    /\ link' = [link EXCEPT ![held[c]] = @ /\ code[c] = "ok" /\ Caching]
    /\ UNCHANGED <<pool, running, inUse, dead, child, readers, ends, poolLock, search, held, connected, code, closed, list, age, killing, control>>

\* Fault: the thread ends after an error without giving the connection back.
ReplyOrEnd(c) ==
    /\ Goto(c, "reply", IF code[c] = "commError" THEN "close" ELSE "detach")
    /\ UNCHANGED <<pool, servers, poolLock, search, held, connected, code, closed, list, age, killing, control>>

Reply(c) ==
    /\ Goto(c, "reply", "detach")
    /\ UNCHANGED <<pool, servers, poolLock, search, held, connected, code, closed, list, age, killing, control>>

Detach(c) ==
    /\ Goto(c, "detach", "release")
    /\ connected' = [connected EXCEPT ![c] = None]
    /\ UNCHANGED <<pool, servers, poolLock, search, held, code, closed, list, age, killing, control>>

\* setInUse(false), if the client had a connection
Release(c) ==
    /\ Goto(c, "release", "close")
    /\ inUse' = [s \in Server |-> inUse[s] /\ s # held[c]]
    /\ held' = [held EXCEPT ![c] = None]
    /\ UNCHANGED <<pool, link, running, dead, child, readers, ends, poolLock, search, connected, code, closed, list, age, killing, control>>

\* disconnect, of a client without a server
Close(c) ==
    /\ AppFree
    /\ Goto(c, "close", "done")
    /\ Leave(c)
    /\ UNCHANGED <<pool, servers, poolLock, search, held, connected, code, killing, control>>
-----------------------------------------------------------------------------
(* The model servers that were started here *)

\* The output and the error output of a model server end with it.
ServerEnds(s) ==
    /\ mode = "ending"
    /\ child[s] /\ readers[s] = 0 /\ ends < MaxEnds
    /\ ends' = ends + 1
    /\ readers' = [readers EXCEPT ![s] = 2]
    /\ UNCHANGED <<pool, link, running, inUse, dead, child, poolLock, clients, closed, list, age, killing, control>>

\* Each of the two threads that read them notes it in the connection.
ReaderEnds(s) ==
    /\ readers[s] > 0
    /\ readers' = [readers EXCEPT ![s] = @ - 1]
    /\ link' = [link EXCEPT ![s] = FALSE]
    /\ inUse' = [inUse EXCEPT ![s] = FALSE]
    /\ UNCHANGED <<pool, running, dead, child, ends, poolLock, clients, closed, list, age, killing, control>>
-----------------------------------------------------------------------------
(* killerLoop: removeDeadConnections looks for the first client in the list *)
(* that has been there too long and ages those before it.                   *)

Expired == {i \in 1 .. Len(list) : age[list[i]] >= Limit}

\* Where the loop goes on after a round.
Again ==
    /\ killer' = IF shuttingDown THEN "over" ELSE "nap"
    /\ victim' = None /\ prey' = None

\* A round in which no client has been there too long; only where commands
\* last does its ageing matter.
TickEarly ==
    /\ killer = "nap" /\ AppFree
    /\ ~Failing
    /\ Again
    /\ UNCHANGED <<pool, servers, poolLock, clients, closed, list, age, main, drop, shuttingDown>>

\* Fault: clients without a server are not looked at.
TickBusy ==
    /\ killer = "nap" /\ AppFree
    /\ Failing
    /\ LET old == {i \in Expired : connected[list[i]] # None}
           stop == IF old = {} THEN Len(list) + 1 ELSE CHOOSE i \in old : \A j \in old : i <= j
       IN /\ age' = [c \in Client |-> IF age[c] < Limit /\ \E i \in 1 .. Len(list) : i < stop /\ list[i] = c
                                      THEN age[c] + 1 ELSE age[c]]
          /\ \/ old = {} /\ Again
             \/ /\ old # {}
                /\ victim' = list[stop] /\ prey' = connected[list[stop]]
                /\ killer' = IF prey' = None THEN "close" ELSE "cut"
    /\ UNCHANGED <<pool, servers, poolLock, clients, closed, list, main, drop, shuttingDown>>

Tick ==
    /\ killer = "nap" /\ AppFree
    /\ Failing
    /\ LET stop == IF Expired = {} THEN Len(list) + 1 ELSE CHOOSE i \in Expired : \A j \in Expired : i <= j
       IN /\ age' = [c \in Client |-> IF \E i \in 1 .. Len(list) : i < stop /\ list[i] = c
                                      THEN age[c] + 1 ELSE age[c]]
          /\ \/ Expired = {} /\ Again
             \/ /\ Expired # {}
                /\ victim' = list[stop] /\ prey' = connected[list[stop]]
                /\ killer' = IF prey' = None THEN "close" ELSE "cut"
    /\ UNCHANGED <<pool, servers, poolLock, clients, closed, list, main, drop, shuttingDown>>

\* server.disconnect()
Cut ==
    /\ killer = "cut" /\ killer' = "remove"
    /\ link' = [link EXCEPT ![prey] = FALSE]
    /\ UNCHANGED <<pool, running, inUse, dead, child, readers, ends, poolLock, clients, closed, list, age, victim, prey, control>>

\* ModelsCollection.lowPriority, which is not synchronized: remove, then add
LowerOut ==
    /\ killer = "remove" /\ killer' = "add"
    /\ pool' = RemoveFirst(pool, prey)
    /\ UNCHANGED <<servers, poolLock, clients, closed, list, age, victim, prey, control>>

LowerIn ==
    /\ killer = "add" /\ killer' = "close"
    /\ pool' = Append(pool, prey)
    /\ prey' = None
    /\ UNCHANGED <<servers, poolLock, clients, closed, list, age, victim, control>>

\* client.disconnect(), which tells a client that has a server of the error
Kill ==
    /\ killer = "close"
    /\ Leave(victim)
    /\ Again
    /\ UNCHANGED <<pool, servers, poolLock, clients, main, drop, shuttingDown>>
-----------------------------------------------------------------------------
(* HTTPServerApp.run: the end *)

\* accept fails, on the closed socket or on its own.
AcceptFails ==
    /\ main = "accept" /\ main' = "wait"
    /\ shuttingDown \/ Closing
    /\ shuttingDown' = TRUE
    /\ UNCHANGED <<pool, servers, poolLock, clients, closed, list, age, killing, drop>>

\* removeAllConnections, from the condition of its loop on
RemoveAll ==
    /\ main = "wait" /\ ShutDown
    /\ main' = "kill"
    /\ UNCHANGED <<pool, servers, poolLock, clients, closed, list, age, killing, drop, shuttingDown>>

\* server.kill(), which throws if the server was not started here
KillServer ==
    /\ main = "kill" /\ drop <= Len(list)
    /\ LET s == connected[list[drop]] IN
          /\ link' = [t \in Server |-> link[t] /\ t # s]
          /\ main' = IF s = None THEN "drop" ELSE IF child[s] THEN "drop" ELSE "crashed"
    /\ UNCHANGED <<pool, running, inUse, dead, child, readers, ends, poolLock, clients, closed, list, age, killing, drop, shuttingDown>>

\* The index goes on although the list has become shorter.
DropClient ==
    /\ main = "drop" /\ main' = "kill"
    /\ Leave(list[drop])
    /\ drop' = drop + 1
    /\ UNCHANGED <<pool, servers, poolLock, clients, killing, shuttingDown>>

Exit ==
    /\ main = "kill" /\ drop > Len(list)
    /\ main' = "exited"
    /\ UNCHANGED <<pool, servers, poolLock, clients, closed, list, age, killing, drop, shuttingDown>>
-----------------------------------------------------------------------------
ClientThread(c) ==
    \/ Read(c) \/ Enter(c) \/ Test(c) \/ GetThrows(c)
    \/ ChooseAlive(c) \/ Reconnect(c) \/ Run(c) \/ Started(c) \/ StartFails(c) \/ Take(c)
    \/ Attach(c) \/ Exec(c) \/ Evaluated(c) \/ Reply(c) \/ Detach(c) \/ Release(c) \/ Close(c)

KillerThread == TickEarly \/ Tick \/ Cut \/ LowerOut \/ LowerIn \/ Kill

MainThread == AcceptFails \/ RemoveAll \/ KillServer \/ DropClient \/ Exit

Users == \E c \in Client : Accept(c) \/ ReadFails(c) \/ ReadShutDown(c)

\* System.exit ends every thread.
Next ==
    /\ main # "exited"
    /\ UNCHANGED mode
    /\ \/ Users \/ KillerThread \/ MainThread
       \/ \E c \in Client : ClientThread(c)
       \/ \E s \in Server : ServerEnds(s) \/ ReaderEnds(s)

Spec == Init /\ [][Next]_vars

\* Threads run when they can.  Where a command may last for ever, Exec returns
\* when its data source is disconnected.
Up(A) == main # "exited" /\ UNCHANGED mode /\ A
Fairness ==
    /\ WF_vars(Up(KillerThread))
    /\ WF_vars(Up(MainThread /\ (main = "accept" => shuttingDown)))
    /\ \A c \in Client : WF_vars(Up(ClientThread(c) /\ (pc[c] = "exec" /\ Failing => ~link[held[c]])))

FairSpec == Spec /\ Fairness
-----------------------------------------------------------------------------
TypeOK ==
    /\ mode \in Modes
    /\ pool \in Seq(Server)
    /\ link \in [Server -> BOOLEAN] /\ running \in [Server -> BOOLEAN]
    /\ inUse \in [Server -> BOOLEAN] /\ dead \in [Server -> BOOLEAN]
    /\ child \in [Server -> BOOLEAN] /\ readers \in [Server -> 0 .. 2]
    /\ ends \in 0 .. MaxEnds
    /\ poolLock \in Client \cup {None}
    /\ pc \in [Client -> {"absent", "read", "enter", "test", "get", "start", "take", "sleep", "got",
                         "exec", "evaluated", "reply", "detach", "release", "close", "done", "dead"}]
    /\ pass \in [Client -> 1 .. 3] /\ idx \in [Client -> Nat \ {0}]
    /\ tries \in [Client -> 0 .. MaxTries[mode]]
    /\ held \in [Client -> Server \cup {None}]
    /\ connected \in [Client -> Server \cup {None}]
    /\ code \in [Client -> {"ok", "commError", "noService"}]
    /\ closed \subseteq Client
    /\ list \in Seq(Client) /\ age \in [Client -> 0 .. Limit]
    /\ killer \in {"nap", "cut", "remove", "add", "close", "over"}
    /\ victim \in Client \cup {None} /\ prey \in Server \cup {None}
    /\ main \in {"accept", "wait", "kill", "drop", "exited", "crashed"}
    /\ drop \in Nat \ {0}
    /\ shuttingDown \in BOOLEAN

\* The thread of c has been given s and has not given it back.
Holds(c, s) ==
    /\ held[c] = s
    /\ pc[c] \in {"got", "exec", "evaluated", "reply", "detach", "release"}

\* A connection that is marked as in use has a user who will unmark it, so that
\* the pool is never used up by clients that have gone: not by those that were
\* disconnected by the killer, nor by errors, nor by ends of model servers.
InUseHasUser == \A s \in Server : inUse[s] => \E c \in Client : Holds(c, s)

\* setInUse: "some client is currently evaluating an access command using this
\* connection" - one client at a time, in circumstances where no connection is
\* ever broken while it is in use.
OneUserEach == \A s \in Server : \A c, d \in Client : Holds(c, s) /\ Holds(d, s) => c = d
SteadyExclusive == mode = "steady" => OneUserEach

\* The reply that there is no such service is only given to a client that has
\* searched as often as it may, unless the pool is a single connection, which
\* lowPriority takes out and puts back.
DeniedAfterTries ==
    \A c \in Client : code[c] = "noService" => tries[c] = MaxTries[mode] \/ Cardinality(Server) = 1

\* Every client that was accepted is disconnected in the end, also those whose
\* thread has died, whose command does not return and who wait for a server;
\* provided that the program exits normally if it exits.
ClientsLeave ==
    \A c \in Client :
        (\E i \in 1 .. Len(list) : list[i] = c) ~> (c \in closed \/ main \in {"exited", "crashed"})
=============================================================================
