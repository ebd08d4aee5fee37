----------------------------- MODULE NameServer -----------------------------
(***************************************************************************)
(* nameserv, the table in which the applications of the system find each   *)
(* other (src/nameserver/src/nameServ.cxx), its client library (src/libs/  *)
(* nameserver/src/nameServCalls.cxx) and the registration of a service     *)
(* (src/libs/stream_message/src/service.cxx).  A host runs at most one     *)
(* name server; it handles one connection at a time.  A name server with a *)
(* parent keeps no table: it forwards every request and waits for answers. *)
(*                                                                         *)
(* A connection carries one request, sent in full when the client has      *)
(* returned from its calls of send; it waits in the backlog of the         *)
(* listening socket.  A port number is identified with the process that    *)
(* listens on it.                                                          *)
(***************************************************************************)
EXTENDS Naturals, Sequences, SequencesExt

CONSTANTS
    Host, Proc, Name,
    HostOf,      \* HostOf[p]: the host p runs on
    NameOf,      \* NameOf[p]: the service p offers, or None
    Parent,      \* the parent each name server is started with, or None
    None,
    Loopback,    \* the address 127.0.0.1
    Scenarios    \* the circumstances that are considered

ASSUME NameAssumption == None \notin Host \cup Proc /\ Loopback \notin Host /\ Host \cap Proc = {}
ASSUME PlaceAssumption ==
    HostOf \in [Proc -> Host] /\ NameOf \in [Proc -> Name \cup {None}] /\ Parent \in [Host -> Host \cup {None}]

\* What may go wrong: nameserv -stop is used; a name server dies; connections to
\* a full or busy listener fail; a name server runs out of descriptors.
Fault == {"stop", "crash", "refuse", "leak"}

\* A scenario has processes, names that are looked up, bounds of the requests for
\* a lookup or a list and of the sockets' queues (40 in the code), and faults.
ASSUME ScenarioAssumption ==
    Scenarios \subseteq [procs : SUBSET Proc, names : SUBSET Name, finds : Nat, backlog : Nat, faults : SUBSET Fault]

VARIABLES
    scenario,
    up, parent,  \* per host: its name server runs; the variable parent
    queue,       \* per host: connections that have not been accepted
    serving,     \* per host: the connection in ProcessRequests, or None
    table,       \* per host: sd_list, as a function on Name
    stage,       \* per process: how far it is with offering its service
    open,        \* per process: its listening socket is open
    wait,        \* per process and host: it waits for an answer
    answer,      \* per process and host: the answer it has got
    sure,        \* history: services whose registration preceded the lookup
    finds        \* requests for a lookup or a list so far

clients == <<stage, open, sure, finds>>
vars == <<scenario, up, parent, queue, serving, table, clients, wait, answer>>

Caller == Proc \cup Host
NoAnswer == [kind |-> "none"]
Broken == [kind |-> "broken"]
Absent == [kind |-> "absent"]
Faults == scenario.faults
Backlog == scenario.backlog
Asks(c) == c.cmd \in {"find", "list"}

\* The connections host h has got and not finished.
Conns(h) == {queue[h][i] : i \in DOMAIN queue[h]} \cup ({serving[h]} \ {None})

Init ==
    /\ scenario \in Scenarios
    /\ up = [h \in Host |-> TRUE]
    /\ parent = Parent
    /\ queue = [h \in Host |-> <<>>]
    /\ serving = [h \in Host |-> None]
    /\ table = [h \in Host |-> [n \in Name |-> None]]
    /\ stage = [p \in Proc |-> IF p \in scenario.procs THEN "new" ELSE "gone"]
    /\ open = [p \in Proc |-> FALSE]
    /\ wait = [x \in Caller |-> FALSE]
    /\ answer = [x \in Caller |-> NoAnswer]
    /\ sure = [p \in Proc |-> {}]
    /\ finds = 0
-----------------------------------------------------------------------------
(* Connections *)

Conn(cmd, name, port, peer) == [cmd |-> cmd, name |-> name, port |-> port, peer |-> peer]

Accepts(h) == up[h] /\ Len(queue[h]) < Backlog
Refuses(h) == ~up[h] \/ (Len(queue[h]) = Backlog /\ "refuse" \in Faults)

\* q with one more connection to h.
Connected(q, h, c) == [q EXCEPT ![h] = Append(@, c)]

\* The host an address leads to, seen from host h.
Reached(h, addr) == IF addr = Loopback THEN h ELSE addr

\* Fault: the address of this side of the connection is taken.
OwnAddr(h, c) == Loopback

\* The address of the other side of connection c, seen from host h.
PeerAddr(h, c) ==
    LET from == IF c.peer \in Proc THEN HostOf[c.peer] ELSE c.peer
    IN  IF from = h THEN Loopback ELSE from

IsAlive(h, e) == open[e.port] /\ HostOf[e.port] = Reached(h, e.addr)

\* What TryServer may return.
TryServer(h, e) ==
    {IsAlive(h, e)}
        \cup (IF "refuse" \in Faults THEN {FALSE} ELSE {})
        \cup (IF "leak" \in Faults THEN {TRUE} ELSE {})
-----------------------------------------------------------------------------
(* A process that offers a service *)

Step(p, from, to) ==
    /\ stage[p] = from
    /\ stage' = [stage EXCEPT ![p] = to]

\* nTransport::listen creates its socket.
Listen(p) ==
    /\ NameOf[p] # None
    /\ Step(p, "new", "probe")
    /\ open' = [open EXCEPT ![p] = TRUE]
    /\ UNCHANGED <<up, parent, queue, serving, table, sure, finds, wait, answer>>

\* doRegister makes sure that there is a name server, with a connection of its
\* own, ...
Probe(p) ==
    LET h == HostOf[p] IN
    /\ Step(p, "probe", "send")
    /\ Accepts(h)
    /\ queue' = Connected(queue, h, Conn("probe", None, None, p))
    /\ UNCHANGED <<up, parent, serving, table, open, sure, finds, wait, answer>>

\* ... starts one where there is none, without arguments, ...
StartNameServer(p) ==
    LET h == HostOf[p] IN
    /\ stage[p] = "probe"
    /\ ~up[h]
    /\ up' = [up EXCEPT ![h] = TRUE]
    /\ parent' = [parent EXCEPT ![h] = None]
    /\ UNCHANGED <<queue, serving, table, clients, wait, answer>>

\* ... or gives up, like a registration that finds no name server.
GiveUp(p) ==
    /\ stage[p] \in {"probe", "send"}
    /\ Refuses(HostOf[p])
    /\ stage' = [stage EXCEPT ![p] = "gone"]
    /\ open' = [open EXCEPT ![p] = FALSE]
    /\ UNCHANGED <<up, parent, queue, serving, table, sure, finds, wait, answer>>

\* NameServerRegisterService returns without an answer.
Register(p) ==
    LET h == HostOf[p] IN
    /\ Step(p, "send", "serving")
    /\ Accepts(h)
    /\ queue' = Connected(queue, h, Conn("register", NameOf[p], p, p))
    /\ UNCHANGED <<up, parent, serving, table, open, sure, finds, wait, answer>>

\* listen unregisters before it closes its socket; a failure is ignored.
Unregister(p) ==
    LET h == HostOf[p] IN
    /\ Step(p, "serving", "leaving")
    /\ ~wait[p]
    /\ \/ Accepts(h) /\ queue' = Connected(queue, h, Conn("unregister", NameOf[p], None, p))
       \/ Refuses(h) /\ UNCHANGED queue
    /\ UNCHANGED <<up, parent, serving, table, open, sure, finds, wait, answer>>

\* The socket is closed at the end, or because the process dies.
Close(p) ==
    /\ stage[p] \in {"serving", "leaving"}
    /\ ~wait[p]
    /\ stage' = [stage EXCEPT ![p] = "gone"]
    /\ open' = [open EXCEPT ![p] = FALSE]
    /\ UNCHANGED <<up, parent, queue, serving, table, sure, finds, wait, answer>>

\* NameServerGetService and NameServerGetListOfServices.
Ask(p, cmd, n) ==
    LET h == HostOf[p] IN
    /\ finds < scenario.finds /\ n \in scenario.names
    /\ finds' = finds + 1
    /\ stage[p] # "gone" /\ ~wait[p]
    /\ sure' = [sure EXCEPT ![p] =
                   {s \in Proc : stage[s] = "serving" /\ NameOf[s] = n /\ HostOf[s] = h}]
    /\ \/ /\ Accepts(h)
          /\ queue' = Connected(queue, h, Conn(cmd, n, None, p))
          /\ wait' = [wait EXCEPT ![p] = TRUE]
          /\ answer' = [answer EXCEPT ![p] = NoAnswer]
       \/ /\ Refuses(h)
          /\ answer' = [answer EXCEPT ![p] = Broken]
          /\ UNCHANGED <<queue, wait>>
    /\ UNCHANGED <<up, parent, serving, table, stage, open>>

\* nameserv -stop
SendStop(h) ==
    /\ "stop" \in Faults
    /\ Accepts(h)
    /\ \A i \in DOMAIN queue[h] : queue[h][i].cmd # "stop"
    /\ queue' = Connected(queue, h, Conn("stop", None, None, None))
    /\ UNCHANGED <<up, parent, serving, table, clients, wait, answer>>
-----------------------------------------------------------------------------
(* The name server *)

\* Fault: the latest connection is accepted first.
AcceptLatest(h) ==
    /\ up[h] /\ serving[h] = None
    /\ queue[h] # <<>>
    /\ serving' = [serving EXCEPT ![h] = Last(queue[h])]
    /\ queue' = [queue EXCEPT ![h] = Front(queue[h])]
    /\ UNCHANGED <<up, parent, table, clients, wait, answer>>

Accept(h) ==
    /\ up[h] /\ serving[h] = None
    /\ queue[h] # <<>>
    /\ serving' = [serving EXCEPT ![h] = Head(queue[h])]
    /\ queue' = [queue EXCEPT ![h] = Tail(queue[h])]
    /\ UNCHANGED <<up, parent, table, clients, wait, answer>>

\* ProcessRequests has received command cmd and has not passed it on.
Serves(h, cmd) ==
    /\ up[h] /\ serving[h] # None
    /\ serving[h].cmd = cmd
    /\ ~wait[h] /\ answer[h] = NoAnswer

Finished(h) == serving' = [serving EXCEPT ![h] = None]

\* An answer for x, unless x has gone.
Reply(x, a) ==
    IF x = None
    THEN UNCHANGED <<wait, answer>>
    ELSE wait' = [wait EXCEPT ![x] = FALSE] /\ answer' = [answer EXCEPT ![x] = a]

\* A connection that is closed before a command has been sent.
ServeProbe(h) ==
    /\ Serves(h, "probe")
    /\ Finished(h)
    /\ UNCHANGED <<up, parent, queue, table, clients, wait, answer>>

\* RegisterServerOnParent and UnregisterServerOnParent: no answer, no retry.
ForwardUpdate(h) ==
    LET c == serving[h] IN
    /\ Serves(h, "register") \/ Serves(h, "unregister")
    /\ parent[h] # None
    /\ \/ Accepts(parent[h]) /\ queue' = Connected(queue, parent[h], [c EXCEPT !.peer = h])
       \/ Refuses(parent[h]) /\ UNCHANGED queue
    /\ Finished(h)
    /\ UNCHANGED <<up, parent, table, clients, wait, answer>>

\* Update replaces the registration that a name has already.
DoRegisterServer(h) ==
    LET c == serving[h] IN
    /\ Serves(h, "register")
    /\ parent[h] = None
    /\ table' = [table EXCEPT ![h][c.name] = [port |-> c.port, addr |-> PeerAddr(h, c)]]
    /\ Finished(h)
    /\ UNCHANGED <<up, parent, queue, clients, wait, answer>>

DoUnregisterServer(h) ==
    /\ Serves(h, "unregister")
    /\ parent[h] = None
    /\ table' = [table EXCEPT ![h][serving[h].name] = None]
    /\ Finished(h)
    /\ UNCHANGED <<up, parent, queue, clients, wait, answer>>

\* Fault: a registration is removed although it has just been found alive.
DoFindServerOnce(h) ==
    LET c == serving[h]
        e == table[h][c.name]
    IN
    /\ Serves(h, "find")
    /\ parent[h] = None
    /\ \/ e = None /\ Reply(c.peer, Absent)
       \/ e # None /\ Reply(c.peer, [kind |-> "found", entry |-> e])
    /\ table' = [table EXCEPT ![h][c.name] = None]
    /\ Finished(h)
    /\ UNCHANGED <<up, parent, queue, clients>>

\* A registration that cannot be reached is removed.
DoFindServer(h) ==
    LET c == serving[h]
        e == table[h][c.name]
    IN
    /\ Serves(h, "find")
    /\ parent[h] = None
    /\ \/ /\ e = None
          /\ Reply(c.peer, Absent)
          /\ UNCHANGED table
       \/ /\ e # None
          /\ \E alive \in TryServer(h, e) :
                IF alive
                THEN /\ Reply(c.peer, [kind |-> "found", entry |-> e])
                     /\ UNCHANGED table
                ELSE /\ Reply(c.peer, Absent)
                     /\ table' = [table EXCEPT ![h][c.name] = None]
    /\ Finished(h)
    /\ UNCHANGED <<up, parent, queue, clients>>

\* All registrations are tried, and those that cannot be reached removed.
DoListOfServers(h) ==
    /\ Serves(h, "list")
    /\ parent[h] = None
    /\ \E names \in SUBSET Name :
          /\ \A n \in Name :
                IF table[h][n] = None THEN n \notin names
                ELSE (n \in names) \in TryServer(h, table[h][n])
          /\ Reply(serving[h].peer, [kind |-> "list", names |-> names])
          /\ table' = [table EXCEPT ![h] = [n \in Name |-> IF n \in names THEN @[n] ELSE None]]
    /\ Finished(h)
    /\ UNCHANGED <<up, parent, queue, clients>>

\* FindServerOnParent and DoListOfServers ask the parent.  Without one that
\* can be reached the answer is "no such server", or none.
AskParent(h) ==
    LET c == serving[h] IN
    /\ Serves(h, "find") \/ Serves(h, "list")
    /\ parent[h] # None
    /\ \/ /\ Accepts(parent[h])
          /\ queue' = Connected(queue, parent[h], [c EXCEPT !.peer = h])
          /\ wait' = [wait EXCEPT ![h] = TRUE]
          /\ UNCHANGED <<serving, answer>>
       \/ /\ Refuses(parent[h])
          /\ Reply(c.peer, IF c.cmd = "find" THEN Absent ELSE Broken)
          /\ Finished(h)
          /\ UNCHANGED queue
    /\ UNCHANGED <<up, parent, table, clients>>

\* Fault: when the parent fails, the child gives its client no answer.
RelaySuccess(h) ==
    /\ up[h] /\ serving[h] # None
    /\ answer[h].kind \in {"found", "list"}
    /\ answer' = [x \in Caller |->
                     IF x = serving[h].peer THEN answer[h] ELSE IF x = h THEN NoAnswer ELSE answer[x]]
    /\ wait' = [x \in Caller |-> x # serving[h].peer /\ wait[x]]
    /\ Finished(h)
    /\ UNCHANGED <<up, parent, queue, table, clients>>

\* The parent's answer is passed on; a broken one is no server to a lookup.
\* (A list that breaks off still gets its end mark; a client takes it as it is.)
Relay(h) ==
    LET c == serving[h]
        a == IF answer[h] # Broken THEN answer[h]
             ELSE IF c.cmd = "find" THEN Absent ELSE [kind |-> "list", names |-> {}]
    IN
    /\ up[h] /\ c # None
    /\ answer[h] # NoAnswer
    /\ answer' = [x \in Caller |-> IF x = c.peer THEN a ELSE IF x = h THEN NoAnswer ELSE answer[x]]
    /\ wait' = [x \in Caller |-> x # c.peer /\ wait[x]]
    /\ Finished(h)
    /\ UNCHANGED <<up, parent, queue, table, clients>>

\* The process ends: its table is gone, its connections break, and nobody
\* takes the answers it was waiting for.
End(h) ==
    LET lost == {c.peer : c \in {d \in Conns(h) : Asks(d)}} \ {None}
        Orphan(c) == IF Asks(c) /\ c.peer = h THEN [c EXCEPT !.peer = None] ELSE c
    IN
    /\ up' = [up EXCEPT ![h] = FALSE]
    /\ table' = [table EXCEPT ![h] = [n \in Name |-> None]]
    /\ queue' = [g \in Host |->
                    IF g = h THEN <<>> ELSE [i \in DOMAIN queue[g] |-> Orphan(queue[g][i])]]
    /\ serving' = [g \in Host |->
                      IF g = h \/ serving[g] = None THEN None ELSE Orphan(serving[g])]
    /\ answer' = [x \in Caller |->
                     IF x \in lost THEN Broken ELSE IF x = h THEN NoAnswer ELSE answer[x]]
    /\ wait' = [x \in Caller |-> x \notin lost \cup {h} /\ wait[x]]
    /\ UNCHANGED <<parent, clients>>

ServeStop(h) == Serves(h, "stop") /\ End(h)

Crash(h) == up[h] /\ "crash" \in Faults /\ End(h)
-----------------------------------------------------------------------------
Serve(h) ==
    \/ Accept(h) \/ ServeProbe(h) \/ ForwardUpdate(h)
    \/ DoRegisterServer(h) \/ DoUnregisterServer(h)
    \/ DoFindServer(h) \/ DoListOfServers(h)
    \/ AskParent(h) \/ Relay(h) \/ ServeStop(h)

Offer(p) == Probe(p) \/ StartNameServer(p) \/ GiveUp(p) \/ Register(p)

Next ==
    /\ UNCHANGED scenario
    /\ \/ \E h \in Host : Serve(h) \/ SendStop(h) \/ Crash(h)
       \/ \E p \in Proc :
             \/ Listen(p) \/ Offer(p) \/ Unregister(p) \/ Close(p)
             \/ \E cmd \in {"find", "list"}, n \in Name : Ask(p, cmd, n)

Spec == Init /\ [][Next]_vars

\* Name servers run when they can, and so do registrations that have begun.
Fairness ==
    /\ \A h \in Host : WF_vars(UNCHANGED scenario /\ Serve(h))
    /\ \A p \in Proc : WF_vars(UNCHANGED scenario /\ Offer(p))

FairSpec == Spec /\ Fairness
-----------------------------------------------------------------------------
Entry == [port : Proc, addr : Host \cup {Loopback}]
Request == [cmd : {"probe", "register", "unregister", "find", "list", "stop"},
            name : Name \cup {None}, port : Proc \cup {None}, peer : Caller \cup {None}]
\* None is told from what it stands for the lack of.
ASSUME NoneAssumption == None \notin Request \cup Entry

Answer == [kind : {"none", "broken", "absent"}] \cup [kind : {"found"}, entry : Entry]
              \cup [kind : {"list"}, names : SUBSET Name]

TypeOK ==
    /\ scenario \in Scenarios
    /\ up \in [Host -> BOOLEAN]
    /\ parent \in [Host -> Host \cup {None}]
    /\ \A h \in Host : \A i \in DOMAIN queue[h] : queue[h][i] \in Request
    /\ serving \in [Host -> Request \cup {None}]
    /\ table \in [Host -> [Name -> Entry \cup {None}]]
    /\ stage \in [Proc -> {"new", "probe", "send", "serving", "leaving", "gone"}]
    /\ open \in [Proc -> BOOLEAN]
    /\ wait \in [Caller -> BOOLEAN]
    /\ answer \in [Caller -> Answer]
    /\ sure \in [Proc -> SUBSET Proc]
    /\ finds \in 0 .. scenario.finds

\* What the proofs suppose of the network.  No service is behind more than two
\* name servers: the third would enter the address of the second, ...
Shallow ==
    \A s \in Proc : NameOf[s] # None =>
        \/ Parent[HostOf[s]] = None
        \/ Parent[HostOf[s]] \in Host /\ Parent[Parent[HostOf[s]]] = None

\* ... none is on a host that others forward to, ...
RootsServeNothing == \A s \in Proc : NameOf[s] # None => \A h \in Host : Parent[h] # HostOf[s]

\* ... and no two processes offer the same one.
DistinctNames == \A s, t \in Proc : NameOf[s] # None /\ NameOf[s] = NameOf[t] => s = t

\* A lookup leads its caller to a process of the name it asked for: the
\* address is the one the name server has seen on the connection that carried
\* the registration, and it is used on another host (service.cxx).  A service
\* on the host of the root would be found under the loopback address: the
\* instances have none.
FoundReaches ==
    \A p \in Proc : answer[p].kind = "found" =>
        LET e == answer[p].entry IN Reached(HostOf[p], e.addr) = HostOf[e.port]

\* A registration that has returned is seen by every later lookup through the
\* same name server, though nothing acknowledges it, as long as it stands and
\* nothing goes wrong.
ReadYourWrites ==
    Faults = {} =>
        \A p \in Proc : answer[p] = Absent => \A s \in sure[p] : stage[s] # "serving"

\* A process that serves is in the table of the root, or its registration is on
\* the way there, if nothing goes wrong: no lookup and no list removes it.
RegistrationKept ==
    Faults = {} => \A s \in Proc : stage[s] = "serving" =>
        \E h \in Host :
            \/ table[h][NameOf[s]] # None /\ table[h][NameOf[s]].port = s
            \/ \E c \in Conns(h) : c.cmd = "register" /\ c.port = s

\* Whoever asks is answered.
AskReturns == \A p \in Proc : wait[p] ~> ~wait[p]

=============================================================================
