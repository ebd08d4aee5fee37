-------------------------- MODULE HTTPServer_proofs --------------------------
(***************************************************************************)
(* Proofs about HTTPServer, for any clients, connections and bounds and in *)
(* all circumstances: types; a connection that is marked as in use has a   *)
(* user, and, where no connection is broken while it is in use, a single   *)
(* one; a client is only denied one after all its tries.                   *)
(***************************************************************************)
EXTENDS HTTPServer, FiniteSetTheorems, WellFoundedInduction, TLAPS

Where == {"absent", "read", "enter", "test", "get", "start", "take", "sleep", "got",
          "exec", "evaluated", "reply", "detach", "release", "close", "done", "dead"}

\* The types of what the use of connections depends on.
Typed ==
    /\ mode \in Modes
    /\ link \in [Server -> BOOLEAN] /\ running \in [Server -> BOOLEAN] /\ inUse \in [Server -> BOOLEAN]
    /\ readers \in [Server -> 0 .. 2]
    /\ poolLock \in Client \cup {None}
    /\ pc \in [Client -> Where]
    /\ held \in [Client -> Server \cup {None}]
    /\ code \in [Client -> {"ok", "commError", "noService"}]
    /\ killer \in {"nap", "cut", "remove", "add", "close", "over"}
    /\ main \in {"accept", "wait", "kill", "drop", "exited", "crashed"}
    /\ shuttingDown \in BOOLEAN

\* A search has the monitor of ModelsCollection, and `held' goes with `pc'.
PhaseInv ==
    \A c \in Client :
        /\ pc[c] \in {"start", "take", "got", "exec", "evaluated"} => held[c] \in Server
        /\ pc[c] \in {"absent", "read", "enter", "test", "get", "sleep", "close", "done"} => held[c] = None
        /\ pc[c] \in {"test", "get", "start", "take"} => poolLock = c

\* s has been chosen for c, or c holds it.
Has(c, s) == (held[c] = s /\ pc[c] = "take") \/ Holds(c, s)

\* In steady circumstances nobody but a search changes a connection, ...
QuietInv ==
    /\ \A s \in Server : readers[s] = 0
    /\ killer = "nap" /\ main = "accept" /\ ~shuttingDown
    /\ \A c \in Client :
          pc[c] \in {"absent", "read", "enter", "test", "get", "start", "take", "sleep", "got", "exec", "evaluated"}
              => code[c] = "ok"

\* ... and a search only changes those that are not connected.
LinkInv ==
    /\ \A s \in Server : link[s] => running[s]
    /\ \A c \in Client : pc[c] = "start" => ~running[held[c]]
    /\ \A c \in Client, s \in Server :
          /\ Has(c, s) => link[s]
          /\ Holds(c, s) => inUse[s]

OneOwner == \A s \in Server : \A c, d \in Client : Has(c, s) /\ Has(d, s) => c = d

SteadyInv == mode = "steady" => QuietInv /\ LinkInv /\ OneOwner

\* The types of everything else.
Rest ==
    /\ pool \in Seq(Server)
    /\ dead \in [Server -> BOOLEAN] /\ child \in [Server -> BOOLEAN]
    /\ ends \in 0 .. MaxEnds
    /\ pass \in [Client -> 1 .. 3] /\ idx \in [Client -> Nat \ {0}]
    /\ tries \in [Client -> 0 .. MaxTries[mode]]
    /\ connected \in [Client -> Server \cup {None}]
    /\ closed \subseteq Client
    /\ list \in Seq(Client) /\ age \in [Client -> 0 .. Limit]
    /\ victim \in Client \cup {None} /\ prey \in Server \cup {None}
    /\ drop \in Nat \ {0}

\* The killer has a client until its round is over, and a server until it has
\* put that back into the pool.
KillInv ==
    /\ killer \in {"cut", "remove", "add", "close"} => victim \in Client
    /\ killer \in {"cut", "remove", "add"} => prey \in Server

\* The killer is over when the main thread disconnects the clients, so that
\* nobody shortens the list under its index.
DropInv ==
    /\ main \in {"kill", "drop"} => killer = "over"
    /\ main = "drop" => drop <= Len(list)

\* Every connection is in the pool, except the one that lowPriority moves.
InPool(s) == \E i \in 1 .. Len(pool) : pool[i] = s
PoolInv == \A s \in Server : InPool(s) \/ (killer = "add" /\ prey = s)

\* A client that is still to search, or searches, has tries left and no reply.
TriesLeft(c) == pc[c] \in {"absent", "read", "enter", "test", "get", "start", "take", "sleep"} => tries[c] < MaxTries[mode]
NoReplyYet(c) ==
    pc[c] \in {"absent", "read", "enter", "test", "get", "start", "take", "sleep", "got", "exec"} => code[c] = "ok"
TryInv == \A c \in Client : TriesLeft(c) /\ NoReplyYet(c)

IInv ==
    /\ Typed
    /\ PhaseInv
    /\ InUseHasUser
    /\ SteadyInv
    /\ Rest
    /\ KillInv
    /\ DropInv
    /\ PoolInv
    /\ TryInv
    /\ DeniedAfterTries
-----------------------------------------------------------------------------
(* Sets and sequences *)

\* A set of natural numbers that is not empty has a least one.
LEMMA Least ==
    ASSUME NEW T \in SUBSET Nat, T # {}
    PROVE  \E m \in T : \A t \in T : m <= t
<1> DEFINE R == OpToRel(<, Nat)
<1>1. IsWellFoundedOn(R, Nat)
    BY NatLessThanWellFounded
<1>2. PICK m \in T : \A t \in T : ~(<<t, m>> \in R)
    <2> HIDE DEF R
    <2>1. QED
        BY <1>1, WFMin
<1>3. \A t \in T : ~(t < m)
    BY <1>2 DEF OpToRel
<1>4. QED
    BY <1>3

\* Vector.remove(x): what is left is as it was, without one x.
LEMMA FirstRemoved ==
    ASSUME NEW S, NEW q \in Seq(S), NEW x
    PROVE  /\ RemoveFirst(q, x) \in Seq(S)
           /\ \A i \in 1 .. Len(q) :
                 q[i] # x => \E j \in 1 .. Len(RemoveFirst(q, x)) : RemoveFirst(q, x)[j] = q[i]
<1> DEFINE I == {i \in 1 .. Len(q) : q[i] = x}
           k == CHOOSE i \in I : \A j \in I : i <= j
<1>1. CASE I = {}
    <2>1. RemoveFirst(q, x) = q
        BY <1>1 DEF RemoveFirst
    <2>2. QED
        BY <2>1
<1>2. CASE I # {}
    <2>1. k \in I
        <3>1. I \in SUBSET Nat
            OBVIOUS
        <3>2. \E i \in I : \A j \in I : i <= j
            <4> HIDE DEF I
            <4>1. QED
                BY <1>2, <3>1, Least
        <3>3. QED
            BY <3>2
    <2>2. RemoveFirst(q, x) = RemoveAt(q, k)
        BY <1>2 DEF RemoveFirst, SelectInSeq, Min
    <2> HIDE DEF k
    <2>3. k \in 1 .. Len(q) /\ q[k] = x
        BY <2>1
    <2> HIDE DEF I
    <2> DEFINE a == SubSeq(q, 1, k - 1)
               b == SubSeq(q, k + 1, Len(q))
    <2>4. a \in Seq(S) /\ Len(a) = k - 1 /\ \A i \in 1 .. k - 1 : a[i] = q[i]
        BY <2>3
    <2>5. b \in Seq(S) /\ Len(b) = Len(q) - k /\ \A i \in 1 .. Len(q) - k : b[i] = q[k + i]
        BY <2>3
    <2> HIDE DEF a, b
    <2>6. a \o b \in Seq(S) /\ Len(a \o b) = Len(q) - 1
        <3>1. a \o b \in Seq(S) /\ Len(a \o b) = Len(a) + Len(b)
            BY <2>4, <2>5
        <3>2. Len(q) \in Nat /\ k \in Nat
            BY <2>3
        <3>3. QED
            BY <2>4, <2>5, <3>1, <3>2
    <2>7. ASSUME NEW i \in 1 .. Len(q), q[i] # x
          PROVE  \E j \in 1 .. Len(a \o b) : (a \o b)[j] = q[i]
        <3>1. CASE i < k
            <4>1. i \in 1 .. Len(a \o b) /\ (a \o b)[i] = q[i]
                BY <2>3, <2>4, <2>5, <2>6, <3>1
            <4>2. QED
                BY <4>1
        <3>2. CASE i > k
            <4>1. i - 1 \in 1 .. Len(a \o b) /\ (a \o b)[i - 1] = b[i - k] /\ b[i - k] = q[i]
                BY <2>3, <2>4, <2>5, <2>6, <3>2
            <4>2. QED
                BY <4>1
        <3>3. QED
            BY <2>3, <2>7, <3>1, <3>2
    <2>8. RemoveFirst(q, x) = a \o b
        BY <2>2 DEF RemoveAt, a, b
    <2>9. QED
        BY <2>6, <2>7, <2>8
<1>3. QED
    BY <1>1, <1>2

LEMMA Appended ==
    ASSUME NEW S, NEW q \in Seq(S), NEW x \in S
    PROVE  /\ Append(q, x) \in Seq(S)
           /\ \A i \in 1 .. Len(q) : i \in 1 .. Len(Append(q, x)) /\ Append(q, x)[i] = q[i]
           /\ Len(q) + 1 \in 1 .. Len(Append(q, x)) /\ Append(q, x)[Len(q) + 1] = x
OBVIOUS

\* The pool begins with every connection.
LEMMA PoolIsFull ==
    /\ InitialPool \in Seq(Server)
    /\ \A s \in Server : \E i \in 1 .. Len(InitialPool) : InitialPool[i] = s
<1> DEFINE n == Cardinality(Server)
<1>1. n \in Nat /\ ExistsBijection(1 .. n, Server)
    BY SetAssumption, FS_CardinalityType
<1>2. PICK f \in Bijection(1 .. n, Server) : TRUE
    BY <1>1 DEF ExistsBijection
<1>3. f \in [1 .. n -> Server] /\ IsInjective(f)
    BY <1>2 DEF Bijection, Injection
<1>4. InitialPool \in [1 .. n -> Server] /\ IsInjective(InitialPool)
    BY <1>3 DEF InitialPool, SetToSeq
<1>5. InitialPool \in Seq(Server) /\ Len(InitialPool) = n
    BY <1>1, <1>4
<1>6. InitialPool \in Injection(1 .. n, Server)
    BY <1>4 DEF Injection
<1>7. Cardinality(1 .. n) = n /\ IsFiniteSet(1 .. n)
    BY <1>1, FS_Interval
<1>8. InitialPool \in Surjection(1 .. n, Server)
    <2> HIDE DEF n
    <2>1. Cardinality(1 .. n) = Cardinality(Server)
        BY <1>7 DEF n
    <2>2. QED
        BY <1>6, <2>1, SetAssumption, FS_Injection
<1>9. QED
    BY <1>5, <1>8 DEF Surjection

\* What ModelConnection.run has done to the connection that was looked at.
RunConnects(c, s) ==
    /\ ~running[s]
    /\ link' = [link EXCEPT ![s] = TRUE] /\ running' = [running EXCEPT ![s] = TRUE]
    /\ inUse' = [inUse EXCEPT ![s] = FALSE] /\ dead' = [dead EXCEPT ![s] = FALSE]
    /\ pc' = [pc EXCEPT ![c] = "take"] /\ held' = [held EXCEPT ![c] = s]
    /\ UNCHANGED <<child, idx>>

RunStarts(c, s) ==
    /\ ~running[s]
    /\ child' = [child EXCEPT ![s] = TRUE]
    /\ pc' = [pc EXCEPT ![c] = "start"] /\ held' = [held EXCEPT ![c] = s]
    /\ UNCHANGED <<link, running, inUse, dead, idx>>

RunPasses(c) ==
    /\ pc' = [pc EXCEPT ![c] = "test"] /\ idx' = [idx EXCEPT ![c] = @ + 1]
    /\ UNCHANGED <<link, running, inUse, dead, child, held>>

LEMMA Ran ==
    ASSUME NEW c \in Client, Run(c)
    PROVE  /\ pc[c] = "get"
           /\ \E s \in Server : RunConnects(c, s) \/ RunStarts(c, s) \/ RunPasses(c)
           /\ UNCHANGED <<pool, readers, ends, poolLock, pass, tries, connected, code, closed, list, age, killing, control>>
<1>1. PICK s \in Server :
         /\ Looks(c, s)
         /\ \/ /\ ~running[s]
               /\ link' = [link EXCEPT ![s] = TRUE] /\ running' = [running EXCEPT ![s] = TRUE]
               /\ inUse' = [inUse EXCEPT ![s] = FALSE] /\ dead' = [dead EXCEPT ![s] = FALSE]
               /\ Choose(c, s)
               /\ UNCHANGED child
            \/ /\ ~running[s]
               /\ child' = [child EXCEPT ![s] = TRUE] /\ held' = [held EXCEPT ![c] = s]
               /\ pc' = [pc EXCEPT ![c] = "start"]
               /\ UNCHANGED <<link, running, inUse, dead, idx>>
            \/ Pass(c) /\ UNCHANGED <<link, running, inUse, dead, child>>
    BY DEF Run
<1>2. QED
    BY <1>1 DEF Run, RunConnects, RunStarts, RunPasses, Looks, Choose, Pass

LEMMA Bounds == \A m \in Modes : MaxTries[m] \in Nat /\ MaxTries[m] > 0
BY BoundAssumption
-----------------------------------------------------------------------------
LEMMA InitIInv == Init => IInv
<1> SUFFICES ASSUME Init PROVE IInv
    OBVIOUS
<1> USE SetAssumption DEF Init
<1>1. Typed
    <2>1. pc \in [Client -> Where]
        BY DEF Where
    <2>2. held \in [Client -> Server \cup {None}] /\ code \in [Client -> {"ok", "commError", "noService"}]
        OBVIOUS
    <2>3. readers \in [Server -> 0 .. 2]
        OBVIOUS
    <2>4. link \in [Server -> BOOLEAN] /\ running \in [Server -> BOOLEAN] /\ inUse \in [Server -> BOOLEAN]
        OBVIOUS
    <2>5. QED
        BY <2>1, <2>2, <2>3, <2>4 DEF Typed
<1>2. PhaseInv /\ InUseHasUser
    BY DEF PhaseInv, InUseHasUser
<1>3. QuietInv /\ LinkInv /\ OneOwner
    BY DEF QuietInv, LinkInv, OneOwner, Has, Holds
<1>4. Rest
    <2>1. tries \in [Client -> 0 .. MaxTries[mode]]
        BY Bounds
    <2>2. age \in [Client -> 0 .. Limit] /\ ends \in 0 .. MaxEnds
        BY BoundAssumption
    <2>3. QED
        BY <2>1, <2>2, PoolIsFull DEF Rest
<1>5. KillInv /\ DropInv /\ PoolInv
    BY PoolIsFull DEF KillInv, DropInv, PoolInv, InPool
<1>6. TryInv /\ DeniedAfterTries
    BY Bounds DEF TryInv, TriesLeft, NoReplyYet, DeniedAfterTries
<1>7. QED
    BY <1>1, <1>2, <1>3, <1>4, <1>5, <1>6 DEF IInv, SteadyInv

\* The circumstances stay the same.
LEMMA SameMode == [Next]_vars => mode' = mode
BY DEF Next, vars

LEMMA StepTyped == IInv /\ [Next]_vars => Typed'
<1> SUFFICES ASSUME IInv, [Next]_vars PROVE Typed'
    OBVIOUS
<1>0. mode' = mode
    BY SameMode
<1> USE <1>0, SetAssumption DEF IInv, Typed, Where, Goto, servers, search, clients, killing, control
<1>1. ASSUME NEW c \in Client, Accept(c) PROVE Typed'
    BY <1>1 DEF Accept
<1>2. ASSUME NEW c \in Client, ReadFails(c) PROVE Typed'
    BY <1>2 DEF ReadFails
<1>3. ASSUME NEW c \in Client, Read(c) PROVE Typed'
    BY <1>3 DEF Read
<1>4. ASSUME NEW c \in Client, ReadShutDown(c) PROVE Typed'
    BY <1>4 DEF ReadShutDown
<1>5. ASSUME NEW c \in Client, Enter(c) PROVE Typed'
    BY <1>5 DEF Enter, Search, GiveUp
<1>6. ASSUME NEW c \in Client, Test(c) PROVE Typed'
    BY <1>6 DEF Test, SearchOver
<1>7. ASSUME NEW c \in Client, GetThrows(c) PROVE Typed'
    BY <1>7 DEF GetThrows, SearchOver
<1>8. ASSUME NEW c \in Client, ChooseAlive(c) PROVE Typed'
    BY <1>8 DEF ChooseAlive, Looks, Choose, Pass
<1>9. ASSUME NEW c \in Client, Reconnect(c) PROVE Typed'
    <2>1. link' \in [Server -> BOOLEAN] /\ running' \in [Server -> BOOLEAN] /\ inUse' \in [Server -> BOOLEAN]
        BY <1>9 DEF Reconnect
    <2>2. pc' \in [Client -> Where] /\ held' \in [Client -> Server \cup {None}]
        BY <1>9 DEF Reconnect, Looks, Choose, Pass
    <2>3. UNCHANGED <<readers, poolLock, code, killer, main, shuttingDown>>
        BY <1>9 DEF Reconnect
    <2>4. QED
        BY <2>1, <2>2, <2>3
<1>10. ASSUME NEW c \in Client, Run(c) PROVE Typed'
    <2>0. PICK s \in Server : RunConnects(c, s) \/ RunStarts(c, s) \/ RunPasses(c)
        BY <1>10, Ran
    <2>1. link' \in [Server -> BOOLEAN] /\ running' \in [Server -> BOOLEAN] /\ inUse' \in [Server -> BOOLEAN]
        BY <2>0 DEF RunConnects, RunStarts, RunPasses
    <2>2. pc' \in [Client -> Where] /\ held' \in [Client -> Server \cup {None}]
        BY <2>0 DEF RunConnects, RunStarts, RunPasses
    <2>3. UNCHANGED <<readers, poolLock, code, killer, main, shuttingDown>>
        BY <1>10, Ran
    <2>4. QED
        BY <2>1, <2>2, <2>3
<1>11. ASSUME NEW c \in Client, Started(c) PROVE Typed'
    BY <1>11 DEF Started
<1>12. ASSUME NEW c \in Client, StartFails(c) PROVE Typed'
    BY <1>12 DEF StartFails
<1>13. ASSUME NEW c \in Client, Take(c) PROVE Typed'
    BY <1>13 DEF Take, SearchOver
<1>14. ASSUME NEW c \in Client, Attach(c) PROVE Typed'
    BY <1>14 DEF Attach
<1>15. ASSUME NEW c \in Client, Exec(c) PROVE Typed'
    BY <1>15 DEF Exec
<1>16. ASSUME NEW c \in Client, Evaluated(c) PROVE Typed'
    BY <1>16 DEF Evaluated
<1>17. ASSUME NEW c \in Client, Reply(c) PROVE Typed'
    BY <1>17 DEF Reply
<1>18. ASSUME NEW c \in Client, Detach(c) PROVE Typed'
    BY <1>18 DEF Detach
<1>19. ASSUME NEW c \in Client, Release(c) PROVE Typed'
    BY <1>19 DEF Release
<1>20. ASSUME NEW c \in Client, Close(c) PROVE Typed'
    BY <1>20 DEF Close
<1>21. ASSUME NEW s \in Server, ServerEnds(s) PROVE Typed'
    BY <1>21 DEF ServerEnds
<1>22. ASSUME NEW s \in Server, ReaderEnds(s) PROVE Typed'
    BY <1>22 DEF ReaderEnds
<1>23. ASSUME TickEarly PROVE Typed'
    BY <1>23 DEF TickEarly, Again
<1>24. ASSUME Tick PROVE Typed'
    BY <1>24 DEF Tick, Again
<1>25. ASSUME Cut PROVE Typed'
    BY <1>25 DEF Cut
<1>26. ASSUME LowerOut PROVE Typed'
    BY <1>26 DEF LowerOut
<1>27. ASSUME LowerIn PROVE Typed'
    BY <1>27 DEF LowerIn
<1>28. ASSUME Kill PROVE Typed'
    BY <1>28 DEF Kill, Again
<1>29. ASSUME AcceptFails PROVE Typed'
    BY <1>29 DEF AcceptFails
<1>30. ASSUME RemoveAll PROVE Typed'
    BY <1>30 DEF RemoveAll
<1>31. ASSUME KillServer PROVE Typed'
    BY <1>31 DEF KillServer
<1>32. ASSUME DropClient PROVE Typed'
    BY <1>32 DEF DropClient
<1>33. ASSUME Exit PROVE Typed'
    BY <1>33 DEF Exit
<1>34. CASE UNCHANGED vars
    BY <1>34 DEF vars
<1>35. QED
    BY <1>1, <1>2, <1>3, <1>4, <1>5, <1>6, <1>7, <1>8, <1>9, <1>10, <1>11, <1>12, <1>13, <1>14, <1>15, <1>16, <1>17, <1>18, <1>19, <1>20, <1>21, <1>22, <1>23, <1>24, <1>25, <1>26, <1>27, <1>28, <1>29, <1>30, <1>31, <1>32, <1>33, <1>34 DEF Next, Users, ClientThread, KillerThread, MainThread

LEMMA StepPhase == IInv /\ [Next]_vars => PhaseInv'
<1> SUFFICES ASSUME IInv, [Next]_vars PROVE PhaseInv'
    OBVIOUS
<1>0. Typed'
    BY StepTyped
<1> USE <1>0, SetAssumption DEF IInv, Typed, PhaseInv, Goto, servers, search, clients, killing, control
<1>1. ASSUME NEW c \in Client, Accept(c) PROVE PhaseInv'
    BY <1>1 DEF Accept
<1>2. ASSUME NEW c \in Client, ReadFails(c) PROVE PhaseInv'
    BY <1>2 DEF ReadFails
<1>3. ASSUME NEW c \in Client, Read(c) PROVE PhaseInv'
    BY <1>3 DEF Read
<1>4. ASSUME NEW c \in Client, ReadShutDown(c) PROVE PhaseInv'
    BY <1>4 DEF ReadShutDown
<1>5. ASSUME NEW c \in Client, Enter(c) PROVE PhaseInv'
    BY <1>5 DEF Enter, Search, GiveUp
<1>6. ASSUME NEW c \in Client, Test(c) PROVE PhaseInv'
    BY <1>6 DEF Test, SearchOver
<1>7. ASSUME NEW c \in Client, GetThrows(c) PROVE PhaseInv'
    BY <1>7 DEF GetThrows, SearchOver
<1>8. ASSUME NEW c \in Client, ChooseAlive(c) PROVE PhaseInv'
    BY <1>8 DEF ChooseAlive, Looks, Choose, Pass
<1>9. ASSUME NEW c \in Client, Reconnect(c) PROVE PhaseInv'
    BY <1>9 DEF Reconnect, Looks, Choose, Pass
<1>10. ASSUME NEW c \in Client, Run(c) PROVE PhaseInv'
    BY <1>10 DEF Run, Looks, Choose, Pass
<1>11. ASSUME NEW c \in Client, Started(c) PROVE PhaseInv'
    BY <1>11 DEF Started
<1>12. ASSUME NEW c \in Client, StartFails(c) PROVE PhaseInv'
    BY <1>12 DEF StartFails
<1>13. ASSUME NEW c \in Client, Take(c) PROVE PhaseInv'
    BY <1>13 DEF Take, SearchOver
<1>14. ASSUME NEW c \in Client, Attach(c) PROVE PhaseInv'
    BY <1>14 DEF Attach
<1>15. ASSUME NEW c \in Client, Exec(c) PROVE PhaseInv'
    BY <1>15 DEF Exec
<1>16. ASSUME NEW c \in Client, Evaluated(c) PROVE PhaseInv'
    BY <1>16 DEF Evaluated
<1>17. ASSUME NEW c \in Client, Reply(c) PROVE PhaseInv'
    BY <1>17 DEF Reply
<1>18. ASSUME NEW c \in Client, Detach(c) PROVE PhaseInv'
    BY <1>18 DEF Detach
<1>19. ASSUME NEW c \in Client, Release(c) PROVE PhaseInv'
    BY <1>19 DEF Release
<1>20. ASSUME NEW c \in Client, Close(c) PROVE PhaseInv'
    BY <1>20 DEF Close
<1>21. ASSUME NEW s \in Server, ServerEnds(s) PROVE PhaseInv'
    BY <1>21 DEF ServerEnds
<1>22. ASSUME NEW s \in Server, ReaderEnds(s) PROVE PhaseInv'
    BY <1>22 DEF ReaderEnds
<1>23. ASSUME TickEarly PROVE PhaseInv'
    BY <1>23 DEF TickEarly, Again
<1>24. ASSUME Tick PROVE PhaseInv'
    BY <1>24 DEF Tick, Again
<1>25. ASSUME Cut PROVE PhaseInv'
    BY <1>25 DEF Cut
<1>26. ASSUME LowerOut PROVE PhaseInv'
    BY <1>26 DEF LowerOut
<1>27. ASSUME LowerIn PROVE PhaseInv'
    BY <1>27 DEF LowerIn
<1>28. ASSUME Kill PROVE PhaseInv'
    BY <1>28 DEF Kill, Again
<1>29. ASSUME AcceptFails PROVE PhaseInv'
    BY <1>29 DEF AcceptFails
<1>30. ASSUME RemoveAll PROVE PhaseInv'
    BY <1>30 DEF RemoveAll
<1>31. ASSUME KillServer PROVE PhaseInv'
    BY <1>31 DEF KillServer
<1>32. ASSUME DropClient PROVE PhaseInv'
    BY <1>32 DEF DropClient
<1>33. ASSUME Exit PROVE PhaseInv'
    BY <1>33 DEF Exit
<1>34. CASE UNCHANGED vars
    BY <1>34 DEF vars
<1>35. QED
    BY <1>1, <1>2, <1>3, <1>4, <1>5, <1>6, <1>7, <1>8, <1>9, <1>10, <1>11, <1>12, <1>13, <1>14, <1>15, <1>16, <1>17, <1>18, <1>19, <1>20, <1>21, <1>22, <1>23, <1>24, <1>25, <1>26, <1>27, <1>28, <1>29, <1>30, <1>31, <1>32, <1>33, <1>34 DEF Next, Users, ClientThread, KillerThread, MainThread

LEMMA StepUser == IInv /\ [Next]_vars => InUseHasUser'
<1> SUFFICES ASSUME IInv, [Next]_vars PROVE InUseHasUser'
    OBVIOUS
<1>0. Typed'
    BY StepTyped
<1> USE <1>0, SetAssumption DEF IInv, Typed, PhaseInv, InUseHasUser, Holds, Goto, servers, search, clients, killing, control
<1>1. ASSUME NEW c \in Client, Accept(c) PROVE InUseHasUser'
    BY <1>1 DEF Accept
<1>2. ASSUME NEW c \in Client, ReadFails(c) PROVE InUseHasUser'
    BY <1>2 DEF ReadFails
<1>3. ASSUME NEW c \in Client, Read(c) PROVE InUseHasUser'
    BY <1>3 DEF Read
<1>4. ASSUME NEW c \in Client, ReadShutDown(c) PROVE InUseHasUser'
    BY <1>4 DEF ReadShutDown
<1>5. ASSUME NEW c \in Client, Enter(c) PROVE InUseHasUser'
    BY <1>5 DEF Enter, Search, GiveUp
<1>6. ASSUME NEW c \in Client, Test(c) PROVE InUseHasUser'
    BY <1>6 DEF Test, SearchOver
<1>7. ASSUME NEW c \in Client, GetThrows(c) PROVE InUseHasUser'
    BY <1>7 DEF GetThrows, SearchOver
<1>8. ASSUME NEW c \in Client, ChooseAlive(c) PROVE InUseHasUser'
    BY <1>8 DEF ChooseAlive, Looks, Choose, Pass
<1>9. ASSUME NEW c \in Client, Reconnect(c) PROVE InUseHasUser'
    BY <1>9 DEF Reconnect, Looks, Choose, Pass
<1>10. ASSUME NEW c \in Client, Run(c) PROVE InUseHasUser'
    BY <1>10 DEF Run, Looks, Choose, Pass
<1>11. ASSUME NEW c \in Client, Started(c) PROVE InUseHasUser'
    BY <1>11 DEF Started
<1>12. ASSUME NEW c \in Client, StartFails(c) PROVE InUseHasUser'
    BY <1>12 DEF StartFails
<1>13. ASSUME NEW c \in Client, Take(c) PROVE InUseHasUser'
    BY <1>13 DEF Take, SearchOver
<1>14. ASSUME NEW c \in Client, Attach(c) PROVE InUseHasUser'
    BY <1>14 DEF Attach
<1>15. ASSUME NEW c \in Client, Exec(c) PROVE InUseHasUser'
    BY <1>15 DEF Exec
<1>16. ASSUME NEW c \in Client, Evaluated(c) PROVE InUseHasUser'
    BY <1>16 DEF Evaluated
<1>17. ASSUME NEW c \in Client, Reply(c) PROVE InUseHasUser'
    BY <1>17 DEF Reply
<1>18. ASSUME NEW c \in Client, Detach(c) PROVE InUseHasUser'
    BY <1>18 DEF Detach
<1>19. ASSUME NEW c \in Client, Release(c) PROVE InUseHasUser'
    <2> SUFFICES ASSUME NEW s \in Server, inUse'[s] PROVE \E d \in Client : Holds(d, s)'
        OBVIOUS
    <2>1. inUse[s] /\ s # held[c]
        BY <1>19 DEF Release
    <2>2. PICK d \in Client : Holds(d, s)
        BY <2>1
    <2>3. d # c
        BY <2>1, <2>2
    <2>4. held'[d] = held[d] /\ pc'[d] = pc[d]
        BY <1>19, <2>3 DEF Release
    <2>5. QED
        BY <2>2, <2>4
<1>20. ASSUME NEW c \in Client, Close(c) PROVE InUseHasUser'
    BY <1>20 DEF Close
<1>21. ASSUME NEW s \in Server, ServerEnds(s) PROVE InUseHasUser'
    BY <1>21 DEF ServerEnds
<1>22. ASSUME NEW s \in Server, ReaderEnds(s) PROVE InUseHasUser'
    BY <1>22 DEF ReaderEnds
<1>23. ASSUME TickEarly PROVE InUseHasUser'
    BY <1>23 DEF TickEarly, Again
<1>24. ASSUME Tick PROVE InUseHasUser'
    BY <1>24 DEF Tick, Again
<1>25. ASSUME Cut PROVE InUseHasUser'
    BY <1>25 DEF Cut
<1>26. ASSUME LowerOut PROVE InUseHasUser'
    BY <1>26 DEF LowerOut
<1>27. ASSUME LowerIn PROVE InUseHasUser'
    BY <1>27 DEF LowerIn
<1>28. ASSUME Kill PROVE InUseHasUser'
    BY <1>28 DEF Kill, Again
<1>29. ASSUME AcceptFails PROVE InUseHasUser'
    BY <1>29 DEF AcceptFails
<1>30. ASSUME RemoveAll PROVE InUseHasUser'
    BY <1>30 DEF RemoveAll
<1>31. ASSUME KillServer PROVE InUseHasUser'
    BY <1>31 DEF KillServer
<1>32. ASSUME DropClient PROVE InUseHasUser'
    BY <1>32 DEF DropClient
<1>33. ASSUME Exit PROVE InUseHasUser'
    BY <1>33 DEF Exit
<1>34. CASE UNCHANGED vars
    BY <1>34 DEF vars
<1>35. QED
    BY <1>1, <1>2, <1>3, <1>4, <1>5, <1>6, <1>7, <1>8, <1>9, <1>10, <1>11, <1>12, <1>13, <1>14, <1>15, <1>16, <1>17, <1>18, <1>19, <1>20, <1>21, <1>22, <1>23, <1>24, <1>25, <1>26, <1>27, <1>28, <1>29, <1>30, <1>31, <1>32, <1>33, <1>34 DEF Next, Users, ClientThread, KillerThread, MainThread

LEMMA StepSteady == IInv /\ [Next]_vars => SteadyInv'
<1> SUFFICES ASSUME IInv, [Next]_vars PROVE SteadyInv'
    OBVIOUS
<1>0. Typed' /\ PhaseInv' /\ mode' = mode
    BY StepTyped, StepPhase, SameMode
<1> SUFFICES ASSUME mode = "steady" PROVE SteadyInv'
    BY <1>0 DEF SteadyInv
<1> USE <1>0, SetAssumption DEF IInv, Typed, PhaseInv, SteadyInv, QuietInv, LinkInv, OneOwner, Has, Holds, Failing, Closing, Caching, Goto, servers, search, clients, killing, control
<1>1. ASSUME NEW c \in Client, Accept(c) PROVE SteadyInv'
    BY <1>1 DEF Accept
<1>2. ASSUME NEW c \in Client, ReadFails(c) PROVE SteadyInv'
    BY <1>2 DEF ReadFails
<1>3. ASSUME NEW c \in Client, Read(c) PROVE SteadyInv'
    BY <1>3 DEF Read
<1>4. ASSUME NEW c \in Client, ReadShutDown(c) PROVE SteadyInv'
    BY <1>4 DEF ReadShutDown
<1>5. ASSUME NEW c \in Client, Enter(c) PROVE SteadyInv'
    BY <1>5 DEF Enter, Search, GiveUp
<1>6. ASSUME NEW c \in Client, Test(c) PROVE SteadyInv'
    BY <1>6 DEF Test, SearchOver
<1>7. ASSUME NEW c \in Client, GetThrows(c) PROVE SteadyInv'
    BY <1>7 DEF GetThrows, SearchOver
<1>8. ASSUME NEW c \in Client, ChooseAlive(c) PROVE SteadyInv'
    BY <1>8 DEF ChooseAlive, Looks, Choose, Pass
<1>9. ASSUME NEW c \in Client, Reconnect(c) PROVE SteadyInv'
    BY <1>9 DEF Reconnect, Looks, Choose, Pass
<1>10. ASSUME NEW c \in Client, Run(c) PROVE SteadyInv'
    <2>1. PICK s \in Server : RunConnects(c, s) \/ RunStarts(c, s) \/ RunPasses(c)
        BY <1>10, Ran
    <2>2. pc[c] = "get" /\ UNCHANGED <<readers, poolLock, code, killing, control>>
        BY <1>10, Ran
    <2>3. CASE RunConnects(c, s)
        BY <2>2, <2>3 DEF RunConnects
    <2>4. CASE RunStarts(c, s)
        BY <2>2, <2>4 DEF RunStarts
    <2>5. CASE RunPasses(c)
        BY <2>2, <2>5 DEF RunPasses
    <2>6. QED
        BY <2>1, <2>3, <2>4, <2>5
<1>11. ASSUME NEW c \in Client, Started(c) PROVE SteadyInv'
    BY <1>11 DEF Started
<1>12. ASSUME NEW c \in Client, StartFails(c) PROVE SteadyInv'
    BY <1>12 DEF StartFails
<1>13. ASSUME NEW c \in Client, Take(c) PROVE SteadyInv'
    BY <1>13 DEF Take, SearchOver
<1>14. ASSUME NEW c \in Client, Attach(c) PROVE SteadyInv'
    BY <1>14 DEF Attach
<1>15. ASSUME NEW c \in Client, Exec(c) PROVE SteadyInv'
    BY <1>15 DEF Exec
<1>16. ASSUME NEW c \in Client, Evaluated(c) PROVE SteadyInv'
    BY <1>16 DEF Evaluated
<1>17. ASSUME NEW c \in Client, Reply(c) PROVE SteadyInv'
    BY <1>17 DEF Reply
<1>18. ASSUME NEW c \in Client, Detach(c) PROVE SteadyInv'
    BY <1>18 DEF Detach
<1>19. ASSUME NEW c \in Client, Release(c) PROVE SteadyInv'
    BY <1>19 DEF Release
<1>20. ASSUME NEW c \in Client, Close(c) PROVE SteadyInv'
    BY <1>20 DEF Close
<1>21. ASSUME NEW s \in Server, ServerEnds(s) PROVE SteadyInv'
    BY <1>21 DEF ServerEnds
<1>22. ASSUME NEW s \in Server, ReaderEnds(s) PROVE SteadyInv'
    BY <1>22 DEF ReaderEnds
<1>23. ASSUME TickEarly PROVE SteadyInv'
    BY <1>23 DEF TickEarly, Again
<1>24. ASSUME Tick PROVE SteadyInv'
    BY <1>24 DEF Tick, Again
<1>25. ASSUME Cut PROVE SteadyInv'
    BY <1>25 DEF Cut
<1>26. ASSUME LowerOut PROVE SteadyInv'
    BY <1>26 DEF LowerOut
<1>27. ASSUME LowerIn PROVE SteadyInv'
    BY <1>27 DEF LowerIn
<1>28. ASSUME Kill PROVE SteadyInv'
    BY <1>28 DEF Kill, Again
<1>29. ASSUME AcceptFails PROVE SteadyInv'
    BY <1>29 DEF AcceptFails
<1>30. ASSUME RemoveAll PROVE SteadyInv'
    BY <1>30 DEF RemoveAll
<1>31. ASSUME KillServer PROVE SteadyInv'
    BY <1>31 DEF KillServer
<1>32. ASSUME DropClient PROVE SteadyInv'
    BY <1>32 DEF DropClient
<1>33. ASSUME Exit PROVE SteadyInv'
    BY <1>33 DEF Exit
<1>34. CASE UNCHANGED vars
    BY <1>34 DEF vars
<1>35. QED
    BY <1>1, <1>2, <1>3, <1>4, <1>5, <1>6, <1>7, <1>8, <1>9, <1>10, <1>11, <1>12, <1>13, <1>14, <1>15, <1>16, <1>17, <1>18, <1>19, <1>20, <1>21, <1>22, <1>23, <1>24, <1>25, <1>26, <1>27, <1>28, <1>29, <1>30, <1>31, <1>32, <1>33, <1>34 DEF Next, Users, ClientThread, KillerThread, MainThread

\* The client at which a round of the killer stops is the first that has expired.
LEMMA ExpiredFirst ==
    LET stop == IF Expired = {} THEN Len(list) + 1 ELSE CHOOSE i \in Expired : \A j \in Expired : i <= j
    IN  /\ Expired # {} => stop \in Expired
        /\ \A i \in 1 .. Len(list) : i < stop => i \notin Expired
<1>1. CASE Expired = {}
    BY <1>1
<1>2. CASE Expired # {}
    <2>1. Expired \in SUBSET Nat
        BY DEF Expired
    <2>2. \E i \in Expired : \A j \in Expired : i <= j
        BY <1>2, <2>1, Least
    <2> DEFINE stop == CHOOSE i \in Expired : \A j \in Expired : i <= j
    <2>3. stop \in Expired /\ \A j \in Expired : stop <= j
        BY <2>2
    <2> HIDE DEF stop
    <2>4. \A i \in 1 .. Len(list) : i < stop => i \notin Expired
        BY <2>1, <2>3
    <2>5. QED
        BY <1>2, <2>3, <2>4 DEF stop
<1>3. QED
    BY <1>1, <1>2

LEMMA StepRest == IInv /\ [Next]_vars => Rest'
<1> SUFFICES ASSUME IInv, [Next]_vars PROVE Rest'
    OBVIOUS
<1>0. Typed' /\ mode' = mode /\ MaxTries[mode] \in Nat
    BY StepTyped, SameMode, Bounds DEF IInv, Typed
<1> USE <1>0 DEF IInv, Typed, Rest, Goto, servers, search, clients, killing, control
<1>1. ASSUME NEW c \in Client, Accept(c) PROVE Rest'
    BY <1>1, Appended DEF Accept
<1>2. ASSUME NEW c \in Client, ReadFails(c) PROVE Rest'
    BY <1>2 DEF ReadFails
<1>3. ASSUME NEW c \in Client, Read(c) PROVE Rest'
    BY <1>3 DEF Read
<1>4. ASSUME NEW c \in Client, ReadShutDown(c) PROVE Rest'
    <2>1. list' \in Seq(Client)
        BY <1>4, FirstRemoved DEF ReadShutDown, Leave
    <2>2. age' \in [Client -> 0 .. Limit] /\ closed' \subseteq Client
        BY <1>4, BoundAssumption DEF ReadShutDown, Leave
    <2>3. QED
        BY <1>4, <2>1, <2>2 DEF ReadShutDown
<1>5. ASSUME NEW c \in Client, Enter(c) PROVE Rest'
    <2>1. tries'[c] \in 0 .. MaxTries[mode]
        BY <1>5 DEF Enter, TryInv, TriesLeft
    <2>2. tries' \in [Client -> 0 .. MaxTries[mode]]
        BY <1>5, <2>1 DEF Enter
    <2>3. QED
        BY <1>5, <2>2 DEF Enter, Search, GiveUp
<1>6. ASSUME NEW c \in Client, Test(c) PROVE Rest'
    <2>1. idx' = idx \/ \E n \in Nat \ {0} : idx' = [idx EXCEPT ![c] = n]
        BY <1>6 DEF Test, SearchOver
    <2>2. idx' \in [Client -> Nat \ {0}]
        BY <2>1
    <2>a. pass' = pass \/ (pass[c] < 3 /\ pass' = [pass EXCEPT ![c] = pass[c] + 1]) \/ pass' = [pass EXCEPT ![c] = 1]
        BY <1>6 DEF Test, SearchOver
    <2>3. pass' \in [Client -> 1 .. 3]
        <3>1. CASE pass' = pass
            BY <3>1
        <3>2. CASE pass[c] < 3 /\ pass' = [pass EXCEPT ![c] = pass[c] + 1]
            <4>0. pass[c] \in 1 .. 3
                OBVIOUS
            <4>1. pass[c] + 1 \in 1 .. 3
                BY <3>2, <4>0
            <4>2. QED
                BY <3>2, <4>1
        <3>3. CASE pass' = [pass EXCEPT ![c] = 1]
            BY <3>3
        <3>4. QED
            BY <2>a, <3>1, <3>2, <3>3
    <2>4. QED
        BY <1>6, <2>2, <2>3 DEF Test
<1>7. ASSUME NEW c \in Client, GetThrows(c) PROVE Rest'
    BY <1>7 DEF GetThrows, SearchOver
<1>8. ASSUME NEW c \in Client, ChooseAlive(c) PROVE Rest'
    <2>1. idx' = idx \/ \E n \in Nat \ {0} : idx' = [idx EXCEPT ![c] = n]
        BY <1>8 DEF ChooseAlive, Looks, Choose, Pass
    <2>2. idx' \in [Client -> Nat \ {0}]
        BY <2>1
    <2>3. pass' \in [Client -> 1 .. 3]
        BY <1>8 DEF ChooseAlive, Looks, Choose, Pass
    <2>4. QED
        BY <1>8, <2>2, <2>3 DEF ChooseAlive
<1>9. ASSUME NEW c \in Client, Reconnect(c) PROVE Rest'
    <2>1. idx' = idx \/ \E n \in Nat \ {0} : idx' = [idx EXCEPT ![c] = n]
        BY <1>9 DEF Reconnect, Looks, Choose, Pass
    <2>2. idx' \in [Client -> Nat \ {0}]
        BY <2>1
    <2>3. pass' \in [Client -> 1 .. 3]
        BY <1>9 DEF Reconnect, Looks, Choose, Pass
    <2>4. QED
        BY <1>9, <2>2, <2>3 DEF Reconnect
<1>10. ASSUME NEW c \in Client, Run(c) PROVE Rest'
    <2>0. PICK s \in Server : RunConnects(c, s) \/ RunStarts(c, s) \/ RunPasses(c)
        BY <1>10, Ran
    <2>a. idx[c] + 1 \in Nat \ {0}
        OBVIOUS
    <2>b. idx' = idx \/ \E n \in Nat \ {0} : idx' = [idx EXCEPT ![c] = n]
        BY <2>0, <2>a DEF RunConnects, RunStarts, RunPasses
    <2>1. idx' \in [Client -> Nat \ {0}]
        BY <2>b
    <2>2. child' \in [Server -> BOOLEAN] /\ dead' \in [Server -> BOOLEAN]
        BY <2>0 DEF RunConnects, RunStarts, RunPasses
    <2>3. QED
        BY <1>10, <2>1, <2>2, Ran
<1>11. ASSUME NEW c \in Client, Started(c) PROVE Rest'
    BY <1>11 DEF Started
<1>12. ASSUME NEW c \in Client, StartFails(c) PROVE Rest'
    <2>1. idx' = [idx EXCEPT ![c] = idx[c] + 1]
        BY <1>12 DEF StartFails
    <2>2. idx' \in [Client -> Nat \ {0}]
        BY <2>1
    <2>3. pass' \in [Client -> 1 .. 3]
        BY <1>12 DEF StartFails
    <2>4. QED
        BY <1>12, <2>2, <2>3 DEF StartFails
<1>13. ASSUME NEW c \in Client, Take(c) PROVE Rest'
    BY <1>13 DEF Take, SearchOver
<1>14. ASSUME NEW c \in Client, Attach(c) PROVE Rest'
    BY <1>14 DEF Attach
<1>15. ASSUME NEW c \in Client, Exec(c) PROVE Rest'
    BY <1>15 DEF Exec
<1>16. ASSUME NEW c \in Client, Evaluated(c) PROVE Rest'
    BY <1>16 DEF Evaluated
<1>17. ASSUME NEW c \in Client, Reply(c) PROVE Rest'
    BY <1>17 DEF Reply
<1>18. ASSUME NEW c \in Client, Detach(c) PROVE Rest'
    BY <1>18 DEF Detach
<1>19. ASSUME NEW c \in Client, Release(c) PROVE Rest'
    BY <1>19 DEF Release
<1>20. ASSUME NEW c \in Client, Close(c) PROVE Rest'
    <2>1. list' \in Seq(Client)
        BY <1>20, FirstRemoved DEF Close, Leave
    <2>2. age' \in [Client -> 0 .. Limit] /\ closed' \subseteq Client
        BY <1>20, BoundAssumption DEF Close, Leave
    <2>3. QED
        BY <1>20, <2>1, <2>2 DEF Close
<1>21. ASSUME NEW s \in Server, ServerEnds(s) PROVE Rest'
    BY <1>21, BoundAssumption DEF ServerEnds
<1>22. ASSUME NEW s \in Server, ReaderEnds(s) PROVE Rest'
    BY <1>22 DEF ReaderEnds
<1>23. ASSUME TickEarly PROVE Rest'
    BY <1>23 DEF TickEarly, Again
<1>24. ASSUME Tick PROVE Rest'
    <2> DEFINE stop == IF Expired = {} THEN Len(list) + 1 ELSE CHOOSE i \in Expired : \A j \in Expired : i <= j
    <2>1. Expired # {} => stop \in Expired
        BY ExpiredFirst
    <2>2. ASSUME NEW i \in 1 .. Len(list), i < stop PROVE age[list[i]] + 1 \in 0 .. Limit
        <3>1. i \notin Expired
            BY <2>2, ExpiredFirst
        <3>2. age[list[i]] \in 0 .. Limit /\ ~(age[list[i]] >= Limit)
            BY <3>1 DEF Expired
        <3>3. QED
            BY <3>2, BoundAssumption
    <2>3. age' = [d \in Client |-> IF \E i \in 1 .. Len(list) : i < stop /\ list[i] = d THEN age[d] + 1 ELSE age[d]]
        BY <1>24 DEF Tick
    <2>4. age' \in [Client -> 0 .. Limit]
        <3> HIDE DEF stop
        <3>1. QED
            BY <2>2, <2>3
    <2>5. victim' \in Client \cup {None} /\ prey' \in Server \cup {None}
        <3>1. CASE Expired = {}
            BY <1>24, <3>1 DEF Tick, Again
        <3>2. CASE Expired # {}
            <4> HIDE DEF stop
            <4>1. list[stop] \in Client
                <5>1. stop \in 1 .. Len(list)
                    BY <2>1, <3>2 DEF Expired
                <5>2. QED
                    BY <5>1
            <4>2. \/ victim' = list[stop] /\ prey' = connected[list[stop]]
                  \/ victim' = None /\ prey' = None
                BY <1>24, <3>2 DEF Tick, Again, stop
            <4>3. QED
                BY <4>1, <4>2
        <3>3. QED
            BY <3>1, <3>2
    <2>6. QED
        BY <1>24, <2>4, <2>5 DEF Tick
<1>25. ASSUME Cut PROVE Rest'
    BY <1>25 DEF Cut
<1>26. ASSUME LowerOut PROVE Rest'
    BY <1>26, FirstRemoved DEF LowerOut
<1>27. ASSUME LowerIn PROVE Rest'
    BY <1>27, Appended DEF LowerIn, KillInv
<1>28. ASSUME Kill PROVE Rest'
    <2>1. list' \in Seq(Client)
        BY <1>28, FirstRemoved DEF Kill, Leave
    <2>2. age' \in [Client -> 0 .. Limit] /\ closed' \subseteq Client
        BY <1>28, BoundAssumption DEF Kill, Leave, KillInv
    <2>3. QED
        BY <1>28, <2>1, <2>2 DEF Kill, Again
<1>29. ASSUME AcceptFails PROVE Rest'
    BY <1>29 DEF AcceptFails
<1>30. ASSUME RemoveAll PROVE Rest'
    BY <1>30 DEF RemoveAll
<1>31. ASSUME KillServer PROVE Rest'
    BY <1>31 DEF KillServer
<1>32. ASSUME DropClient PROVE Rest'
    <2>1. list' \in Seq(Client)
        BY <1>32, FirstRemoved DEF DropClient, Leave
    <2>2. age' \in [Client -> 0 .. Limit] /\ closed' \subseteq Client
        BY <1>32, BoundAssumption DEF DropClient, Leave, DropInv
    <2>3. drop' \in Nat \ {0}
        BY <1>32 DEF DropClient
    <2>4. QED
        BY <1>32, <2>1, <2>2, <2>3 DEF DropClient
<1>33. ASSUME Exit PROVE Rest'
    BY <1>33 DEF Exit
<1>34. CASE UNCHANGED vars
    BY <1>34 DEF vars
<1>35. QED
    BY <1>1, <1>2, <1>3, <1>4, <1>5, <1>6, <1>7, <1>8, <1>9, <1>10, <1>11, <1>12, <1>13, <1>14, <1>15, <1>16, <1>17, <1>18, <1>19, <1>20, <1>21, <1>22, <1>23, <1>24, <1>25, <1>26, <1>27, <1>28, <1>29, <1>30, <1>31, <1>32, <1>33, <1>34 DEF Next, Users, ClientThread, KillerThread, MainThread

LEMMA StepKill == IInv /\ [Next]_vars => KillInv'
<1> SUFFICES ASSUME IInv, [Next]_vars PROVE KillInv'
    OBVIOUS
<1> USE SetAssumption DEF IInv, Typed, Rest, KillInv, Goto, servers, search, clients, killing, control
<1>1. ASSUME NEW c \in Client, Accept(c) PROVE KillInv'
    BY <1>1 DEF Accept
<1>2. ASSUME NEW c \in Client, ReadFails(c) PROVE KillInv'
    BY <1>2 DEF ReadFails
<1>3. ASSUME NEW c \in Client, Read(c) PROVE KillInv'
    BY <1>3 DEF Read
<1>4. ASSUME NEW c \in Client, ReadShutDown(c) PROVE KillInv'
    BY <1>4 DEF ReadShutDown, Leave
<1>5. ASSUME NEW c \in Client, Enter(c) PROVE KillInv'
    BY <1>5 DEF Enter, Search, GiveUp
<1>6. ASSUME NEW c \in Client, Test(c) PROVE KillInv'
    BY <1>6 DEF Test, SearchOver
<1>7. ASSUME NEW c \in Client, GetThrows(c) PROVE KillInv'
    BY <1>7 DEF GetThrows, SearchOver
<1>8. ASSUME NEW c \in Client, ChooseAlive(c) PROVE KillInv'
    BY <1>8 DEF ChooseAlive, Looks, Choose, Pass
<1>9. ASSUME NEW c \in Client, Reconnect(c) PROVE KillInv'
    BY <1>9 DEF Reconnect, Looks, Choose, Pass
<1>10. ASSUME NEW c \in Client, Run(c) PROVE KillInv'
    BY <1>10 DEF Run, Looks, Choose, Pass
<1>11. ASSUME NEW c \in Client, Started(c) PROVE KillInv'
    BY <1>11 DEF Started
<1>12. ASSUME NEW c \in Client, StartFails(c) PROVE KillInv'
    BY <1>12 DEF StartFails
<1>13. ASSUME NEW c \in Client, Take(c) PROVE KillInv'
    BY <1>13 DEF Take, SearchOver
<1>14. ASSUME NEW c \in Client, Attach(c) PROVE KillInv'
    BY <1>14 DEF Attach
<1>15. ASSUME NEW c \in Client, Exec(c) PROVE KillInv'
    BY <1>15 DEF Exec
<1>16. ASSUME NEW c \in Client, Evaluated(c) PROVE KillInv'
    BY <1>16 DEF Evaluated
<1>17. ASSUME NEW c \in Client, Reply(c) PROVE KillInv'
    BY <1>17 DEF Reply
<1>18. ASSUME NEW c \in Client, Detach(c) PROVE KillInv'
    BY <1>18 DEF Detach
<1>19. ASSUME NEW c \in Client, Release(c) PROVE KillInv'
    BY <1>19 DEF Release
<1>20. ASSUME NEW c \in Client, Close(c) PROVE KillInv'
    BY <1>20 DEF Close, Leave
<1>21. ASSUME NEW s \in Server, ServerEnds(s) PROVE KillInv'
    BY <1>21 DEF ServerEnds
<1>22. ASSUME NEW s \in Server, ReaderEnds(s) PROVE KillInv'
    BY <1>22 DEF ReaderEnds
<1>23. ASSUME TickEarly PROVE KillInv'
    BY <1>23 DEF TickEarly, Again
<1>24. ASSUME Tick PROVE KillInv'
    <2>1. CASE Expired = {}
        BY <1>24, <2>1 DEF Tick, Again
    <2>2. CASE Expired # {}
        <3> DEFINE stop == CHOOSE i \in Expired : \A j \in Expired : i <= j
        <3>1. stop \in Expired
            BY <2>2, ExpiredFirst
        <3>2. list[stop] \in Client
            BY <3>1 DEF Expired
        <3>3. \/ killer' \in {"nap", "over"}
              \/ /\ victim' = list[stop] /\ prey' = connected[list[stop]]
                 /\ killer' = IF prey' = None THEN "close" ELSE "cut"
            BY <1>24, <2>2 DEF Tick, Again
        <3> HIDE DEF stop
        <3>4. QED
            BY <3>2, <3>3
    <2>3. QED
        BY <2>1, <2>2
<1>25. ASSUME Cut PROVE KillInv'
    BY <1>25 DEF Cut
<1>26. ASSUME LowerOut PROVE KillInv'
    BY <1>26 DEF LowerOut
<1>27. ASSUME LowerIn PROVE KillInv'
    BY <1>27 DEF LowerIn
<1>28. ASSUME Kill PROVE KillInv'
    BY <1>28 DEF Kill, Again, Leave
<1>29. ASSUME AcceptFails PROVE KillInv'
    BY <1>29 DEF AcceptFails
<1>30. ASSUME RemoveAll PROVE KillInv'
    BY <1>30 DEF RemoveAll
<1>31. ASSUME KillServer PROVE KillInv'
    BY <1>31 DEF KillServer
<1>32. ASSUME DropClient PROVE KillInv'
    BY <1>32 DEF DropClient, Leave
<1>33. ASSUME Exit PROVE KillInv'
    BY <1>33 DEF Exit
<1>34. CASE UNCHANGED vars
    BY <1>34 DEF vars
<1>35. QED
    BY <1>1, <1>2, <1>3, <1>4, <1>5, <1>6, <1>7, <1>8, <1>9, <1>10, <1>11, <1>12, <1>13, <1>14, <1>15, <1>16, <1>17, <1>18, <1>19, <1>20, <1>21, <1>22, <1>23, <1>24, <1>25, <1>26, <1>27, <1>28, <1>29, <1>30, <1>31, <1>32, <1>33, <1>34 DEF Next, Users, ClientThread, KillerThread, MainThread

LEMMA StepDrop == IInv /\ [Next]_vars => DropInv'
<1> SUFFICES ASSUME IInv, [Next]_vars PROVE DropInv'
    OBVIOUS
<1> USE DEF IInv, Typed, Rest, DropInv, AppFree, ShutDown, Goto, servers, search, clients, killing, control
<1>1. ASSUME NEW c \in Client, Accept(c) PROVE DropInv'
    BY <1>1 DEF Accept
<1>2. ASSUME NEW c \in Client, ReadFails(c) PROVE DropInv'
    BY <1>2 DEF ReadFails
<1>3. ASSUME NEW c \in Client, Read(c) PROVE DropInv'
    BY <1>3 DEF Read
<1>4. ASSUME NEW c \in Client, ReadShutDown(c) PROVE DropInv'
    BY <1>4 DEF ReadShutDown, Leave
<1>5. ASSUME NEW c \in Client, Enter(c) PROVE DropInv'
    BY <1>5 DEF Enter, Search, GiveUp
<1>6. ASSUME NEW c \in Client, Test(c) PROVE DropInv'
    BY <1>6 DEF Test, SearchOver
<1>7. ASSUME NEW c \in Client, GetThrows(c) PROVE DropInv'
    BY <1>7 DEF GetThrows, SearchOver
<1>8. ASSUME NEW c \in Client, ChooseAlive(c) PROVE DropInv'
    BY <1>8 DEF ChooseAlive, Looks, Choose, Pass
<1>9. ASSUME NEW c \in Client, Reconnect(c) PROVE DropInv'
    BY <1>9 DEF Reconnect, Looks, Choose, Pass
<1>10. ASSUME NEW c \in Client, Run(c) PROVE DropInv'
    BY <1>10 DEF Run, Looks, Choose, Pass
<1>11. ASSUME NEW c \in Client, Started(c) PROVE DropInv'
    BY <1>11 DEF Started
<1>12. ASSUME NEW c \in Client, StartFails(c) PROVE DropInv'
    BY <1>12 DEF StartFails
<1>13. ASSUME NEW c \in Client, Take(c) PROVE DropInv'
    BY <1>13 DEF Take, SearchOver
<1>14. ASSUME NEW c \in Client, Attach(c) PROVE DropInv'
    BY <1>14 DEF Attach
<1>15. ASSUME NEW c \in Client, Exec(c) PROVE DropInv'
    BY <1>15 DEF Exec
<1>16. ASSUME NEW c \in Client, Evaluated(c) PROVE DropInv'
    BY <1>16 DEF Evaluated
<1>17. ASSUME NEW c \in Client, Reply(c) PROVE DropInv'
    BY <1>17 DEF Reply
<1>18. ASSUME NEW c \in Client, Detach(c) PROVE DropInv'
    BY <1>18 DEF Detach
<1>19. ASSUME NEW c \in Client, Release(c) PROVE DropInv'
    BY <1>19 DEF Release
<1>20. ASSUME NEW c \in Client, Close(c) PROVE DropInv'
    BY <1>20 DEF Close, Leave
<1>21. ASSUME NEW s \in Server, ServerEnds(s) PROVE DropInv'
    BY <1>21 DEF ServerEnds
<1>22. ASSUME NEW s \in Server, ReaderEnds(s) PROVE DropInv'
    BY <1>22 DEF ReaderEnds
<1>23. ASSUME TickEarly PROVE DropInv'
    BY <1>23 DEF TickEarly, Again
<1>24. ASSUME Tick PROVE DropInv'
    BY <1>24 DEF Tick, Again
<1>25. ASSUME Cut PROVE DropInv'
    BY <1>25 DEF Cut
<1>26. ASSUME LowerOut PROVE DropInv'
    BY <1>26 DEF LowerOut
<1>27. ASSUME LowerIn PROVE DropInv'
    BY <1>27 DEF LowerIn
<1>28. ASSUME Kill PROVE DropInv'
    BY <1>28 DEF Kill, Again, Leave
<1>29. ASSUME AcceptFails PROVE DropInv'
    BY <1>29 DEF AcceptFails
<1>30. ASSUME RemoveAll PROVE DropInv'
    BY <1>30 DEF RemoveAll
<1>31. ASSUME KillServer PROVE DropInv'
    BY <1>31 DEF KillServer
<1>32. ASSUME DropClient PROVE DropInv'
    BY <1>32 DEF DropClient, Leave
<1>33. ASSUME Exit PROVE DropInv'
    BY <1>33 DEF Exit
<1>34. CASE UNCHANGED vars
    BY <1>34 DEF vars
<1>35. QED
    BY <1>1, <1>2, <1>3, <1>4, <1>5, <1>6, <1>7, <1>8, <1>9, <1>10, <1>11, <1>12, <1>13, <1>14, <1>15, <1>16, <1>17, <1>18, <1>19, <1>20, <1>21, <1>22, <1>23, <1>24, <1>25, <1>26, <1>27, <1>28, <1>29, <1>30, <1>31, <1>32, <1>33, <1>34 DEF Next, Users, ClientThread, KillerThread, MainThread

LEMMA StepPool == IInv /\ [Next]_vars => PoolInv'
<1> SUFFICES ASSUME IInv, [Next]_vars PROVE PoolInv'
    OBVIOUS
<1> DEFINE Same == UNCHANGED <<pool, killer, prey>>
<1>0. Same => PoolInv'
    BY DEF IInv, PoolInv, InPool
<1> USE DEF IInv, Typed, Rest, KillInv, Goto, servers, search, clients, killing, control
<1>1. ASSUME NEW c \in Client, Accept(c) PROVE PoolInv'
    BY <1>1, <1>0 DEF Accept
<1>2. ASSUME NEW c \in Client, ReadFails(c) PROVE PoolInv'
    BY <1>2, <1>0 DEF ReadFails
<1>3. ASSUME NEW c \in Client, Read(c) PROVE PoolInv'
    BY <1>3, <1>0 DEF Read
<1>4. ASSUME NEW c \in Client, ReadShutDown(c) PROVE PoolInv'
    BY <1>4 DEF ReadShutDown, PoolInv, InPool
<1>5. ASSUME NEW c \in Client, Enter(c) PROVE PoolInv'
    BY <1>5, <1>0 DEF Enter
<1>6. ASSUME NEW c \in Client, Test(c) PROVE PoolInv'
    BY <1>6, <1>0 DEF Test
<1>7. ASSUME NEW c \in Client, GetThrows(c) PROVE PoolInv'
    BY <1>7, <1>0 DEF GetThrows
<1>8. ASSUME NEW c \in Client, ChooseAlive(c) PROVE PoolInv'
    BY <1>8, <1>0 DEF ChooseAlive
<1>9. ASSUME NEW c \in Client, Reconnect(c) PROVE PoolInv'
    BY <1>9, <1>0 DEF Reconnect
<1>10. ASSUME NEW c \in Client, Run(c) PROVE PoolInv'
    BY <1>10, <1>0 DEF Run
<1>11. ASSUME NEW c \in Client, Started(c) PROVE PoolInv'
    BY <1>11, <1>0 DEF Started
<1>12. ASSUME NEW c \in Client, StartFails(c) PROVE PoolInv'
    BY <1>12, <1>0 DEF StartFails
<1>13. ASSUME NEW c \in Client, Take(c) PROVE PoolInv'
    BY <1>13, <1>0 DEF Take
<1>14. ASSUME NEW c \in Client, Attach(c) PROVE PoolInv'
    BY <1>14, <1>0 DEF Attach
<1>15. ASSUME NEW c \in Client, Exec(c) PROVE PoolInv'
    BY <1>15, <1>0 DEF Exec
<1>16. ASSUME NEW c \in Client, Evaluated(c) PROVE PoolInv'
    BY <1>16, <1>0 DEF Evaluated
<1>17. ASSUME NEW c \in Client, Reply(c) PROVE PoolInv'
    BY <1>17, <1>0 DEF Reply
<1>18. ASSUME NEW c \in Client, Detach(c) PROVE PoolInv'
    BY <1>18, <1>0 DEF Detach
<1>19. ASSUME NEW c \in Client, Release(c) PROVE PoolInv'
    BY <1>19, <1>0 DEF Release
<1>20. ASSUME NEW c \in Client, Close(c) PROVE PoolInv'
    BY <1>20, <1>0 DEF Close
<1>21. ASSUME NEW s \in Server, ServerEnds(s) PROVE PoolInv'
    BY <1>21, <1>0 DEF ServerEnds
<1>22. ASSUME NEW s \in Server, ReaderEnds(s) PROVE PoolInv'
    BY <1>22, <1>0 DEF ReaderEnds
<1>23. ASSUME TickEarly PROVE PoolInv'
    BY <1>23 DEF TickEarly, Again, PoolInv, InPool
<1>24. ASSUME Tick PROVE PoolInv'
    <2>1. pool' = pool /\ killer # "add"
        BY <1>24 DEF Tick
    <2>2. QED
        BY <2>1 DEF PoolInv, InPool
<1>25. ASSUME Cut PROVE PoolInv'
    BY <1>25 DEF Cut, PoolInv, InPool
<1>26. ASSUME LowerOut PROVE PoolInv'
    <2> SUFFICES ASSUME NEW s \in Server, s # prey PROVE InPool(s)'
        BY <1>26 DEF LowerOut, PoolInv
    <2>1. PICK i \in 1 .. Len(pool) : pool[i] = s
        BY <1>26 DEF LowerOut, PoolInv, InPool
    <2>2. pool' = RemoveFirst(pool, prey)
        BY <1>26 DEF LowerOut
    <2> DEFINE q == RemoveFirst(pool, prey)
    <2>a. pool \in Seq(Server)
        BY DEF Rest
    <2>b. \A j \in 1 .. Len(pool) : pool[j] # prey => \E k \in 1 .. Len(q) : q[k] = pool[j]
        <3> USE <2>a DEF q
        <3> HIDE DEF IInv
        <3>1. QED
            BY FirstRemoved
    <2> HIDE DEF q
    <2>3. \E j \in 1 .. Len(q) : q[j] = s
        BY <2>1, <2>b
    <2>4. pool' = q
        BY <2>2 DEF q
    <2>5. QED
        BY <2>3, <2>4 DEF InPool
<1>27. ASSUME LowerIn PROVE PoolInv'
    <2>1. pool' = Append(pool, prey) /\ prey \in Server
        BY <1>27 DEF LowerIn
    <2>2. ASSUME NEW s \in Server PROVE InPool(s)'
        <3>1. InPool(s) \/ prey = s
            BY DEF PoolInv
        <3> DEFINE q == Append(pool, prey)
        <3>2. /\ \A i \in 1 .. Len(pool) : i \in 1 .. Len(q) /\ q[i] = pool[i]
              /\ Len(pool) + 1 \in 1 .. Len(q) /\ q[Len(pool) + 1] = prey
            BY <2>1, Appended
        <3> HIDE DEF q
        <3>3. \E i \in 1 .. Len(q) : q[i] = s
            BY <3>1, <3>2 DEF InPool
        <3>4. pool' = q
            BY <2>1 DEF q
        <3>5. QED
            BY <3>3, <3>4 DEF InPool
    <2>3. QED
        BY <2>2 DEF PoolInv
<1>28. ASSUME Kill PROVE PoolInv'
    BY <1>28 DEF Kill, Again, PoolInv, InPool
<1>29. ASSUME AcceptFails PROVE PoolInv'
    BY <1>29, <1>0 DEF AcceptFails
<1>30. ASSUME RemoveAll PROVE PoolInv'
    BY <1>30, <1>0 DEF RemoveAll
<1>31. ASSUME KillServer PROVE PoolInv'
    BY <1>31, <1>0 DEF KillServer
<1>32. ASSUME DropClient PROVE PoolInv'
    BY <1>32, <1>0 DEF DropClient
<1>33. ASSUME Exit PROVE PoolInv'
    BY <1>33, <1>0 DEF Exit
<1>34. CASE UNCHANGED vars
    BY <1>34, <1>0 DEF vars
<1>35. QED
    BY <1>1, <1>2, <1>3, <1>4, <1>5, <1>6, <1>7, <1>8, <1>9, <1>10, <1>11, <1>12, <1>13, <1>14, <1>15, <1>16, <1>17, <1>18, <1>19, <1>20, <1>21, <1>22, <1>23, <1>24, <1>25, <1>26, <1>27, <1>28, <1>29, <1>30, <1>31, <1>32, <1>33, <1>34 DEF Next, Users, ClientThread, KillerThread, MainThread

LEMMA StepTry == IInv /\ [Next]_vars => TryInv'
<1> SUFFICES ASSUME IInv, [Next]_vars PROVE TryInv'
    OBVIOUS
<1>0. mode' = mode /\ MaxTries[mode] \in Nat
    BY SameMode, Bounds DEF IInv, Typed
<1> USE <1>0 DEF IInv, Typed, Rest, TryInv, TriesLeft, NoReplyYet, Goto, servers, search, clients, killing, control
<1>1. ASSUME NEW c \in Client, Accept(c) PROVE TryInv'
    BY <1>1 DEF Accept
<1>2. ASSUME NEW c \in Client, ReadFails(c) PROVE TryInv'
    BY <1>2 DEF ReadFails
<1>3. ASSUME NEW c \in Client, Read(c) PROVE TryInv'
    BY <1>3 DEF Read
<1>4. ASSUME NEW c \in Client, ReadShutDown(c) PROVE TryInv'
    BY <1>4 DEF ReadShutDown, Leave
<1>5. ASSUME NEW c \in Client, Enter(c) PROVE TryInv'
    BY <1>5 DEF Enter, Search, GiveUp
<1>6. ASSUME NEW c \in Client, Test(c) PROVE TryInv'
    BY <1>6 DEF Test, SearchOver
<1>7. ASSUME NEW c \in Client, GetThrows(c) PROVE TryInv'
    BY <1>7 DEF GetThrows, SearchOver
<1>8. ASSUME NEW c \in Client, ChooseAlive(c) PROVE TryInv'
    BY <1>8 DEF ChooseAlive, Looks, Choose, Pass
<1>9. ASSUME NEW c \in Client, Reconnect(c) PROVE TryInv'
    BY <1>9 DEF Reconnect, Looks, Choose, Pass
<1>10. ASSUME NEW c \in Client, Run(c) PROVE TryInv'
    BY <1>10 DEF Run, Looks, Choose, Pass
<1>11. ASSUME NEW c \in Client, Started(c) PROVE TryInv'
    BY <1>11 DEF Started
<1>12. ASSUME NEW c \in Client, StartFails(c) PROVE TryInv'
    BY <1>12 DEF StartFails
<1>13. ASSUME NEW c \in Client, Take(c) PROVE TryInv'
    BY <1>13 DEF Take, SearchOver
<1>14. ASSUME NEW c \in Client, Attach(c) PROVE TryInv'
    BY <1>14 DEF Attach
<1>15. ASSUME NEW c \in Client, Exec(c) PROVE TryInv'
    BY <1>15 DEF Exec
<1>16. ASSUME NEW c \in Client, Evaluated(c) PROVE TryInv'
    BY <1>16 DEF Evaluated
<1>17. ASSUME NEW c \in Client, Reply(c) PROVE TryInv'
    BY <1>17 DEF Reply
<1>18. ASSUME NEW c \in Client, Detach(c) PROVE TryInv'
    BY <1>18 DEF Detach
<1>19. ASSUME NEW c \in Client, Release(c) PROVE TryInv'
    BY <1>19 DEF Release
<1>20. ASSUME NEW c \in Client, Close(c) PROVE TryInv'
    BY <1>20 DEF Close, Leave
<1>21. ASSUME NEW s \in Server, ServerEnds(s) PROVE TryInv'
    BY <1>21 DEF ServerEnds
<1>22. ASSUME NEW s \in Server, ReaderEnds(s) PROVE TryInv'
    BY <1>22 DEF ReaderEnds
<1>23. ASSUME TickEarly PROVE TryInv'
    BY <1>23 DEF TickEarly, Again
<1>24. ASSUME Tick PROVE TryInv'
    BY <1>24 DEF Tick, Again
<1>25. ASSUME Cut PROVE TryInv'
    BY <1>25 DEF Cut
<1>26. ASSUME LowerOut PROVE TryInv'
    BY <1>26 DEF LowerOut
<1>27. ASSUME LowerIn PROVE TryInv'
    BY <1>27 DEF LowerIn
<1>28. ASSUME Kill PROVE TryInv'
    BY <1>28 DEF Kill, Again, Leave
<1>29. ASSUME AcceptFails PROVE TryInv'
    BY <1>29 DEF AcceptFails
<1>30. ASSUME RemoveAll PROVE TryInv'
    BY <1>30 DEF RemoveAll
<1>31. ASSUME KillServer PROVE TryInv'
    BY <1>31 DEF KillServer
<1>32. ASSUME DropClient PROVE TryInv'
    BY <1>32 DEF DropClient, Leave
<1>33. ASSUME Exit PROVE TryInv'
    BY <1>33 DEF Exit
<1>34. CASE UNCHANGED vars
    BY <1>34 DEF vars
<1>35. QED
    BY <1>1, <1>2, <1>3, <1>4, <1>5, <1>6, <1>7, <1>8, <1>9, <1>10, <1>11, <1>12, <1>13, <1>14, <1>15, <1>16, <1>17, <1>18, <1>19, <1>20, <1>21, <1>22, <1>23, <1>24, <1>25, <1>26, <1>27, <1>28, <1>29, <1>30, <1>31, <1>32, <1>33, <1>34 DEF Next, Users, ClientThread, KillerThread, MainThread

\* A client is denied a connection at the end of its tries, or with an empty
\* pool, from which lowPriority has taken the only connection.
LEMMA StepDenied == IInv /\ [Next]_vars => DeniedAfterTries'
<1> SUFFICES ASSUME IInv, [Next]_vars PROVE DeniedAfterTries'
    OBVIOUS
<1>0. mode' = mode /\ MaxTries[mode] \in Nat
    BY SameMode, Bounds DEF IInv, Typed
<1>a. pool = <<>> => Cardinality(Server) = 1
    <2> SUFFICES ASSUME pool = <<>> PROVE Cardinality(Server) = 1
        OBVIOUS
    <2>1. \A s \in Server : s = prey
        BY DEF IInv, PoolInv, InPool
    <2>2. Server = {prey}
        BY <2>1, SetAssumption
    <2>3. QED
        BY <2>2, FS_Singleton
<1> DEFINE One == Cardinality(Server) = 1
<1>b. DeniedAfterTries => \A c \in Client : code[c] = "noService" => tries[c] = MaxTries[mode] \/ One
    BY DEF DeniedAfterTries
<1>c. (\A c \in Client : code'[c] = "noService" => tries'[c] = MaxTries[mode] \/ One) => DeniedAfterTries'
    BY <1>0 DEF DeniedAfterTries
<1> HIDE DEF One
<1> USE <1>0, <1>b, <1>c DEF IInv, Typed, Rest, Goto, servers, search, clients, killing, control
<1>1. ASSUME NEW c \in Client, Accept(c) PROVE DeniedAfterTries'
    BY <1>1 DEF Accept
<1>2. ASSUME NEW c \in Client, ReadFails(c) PROVE DeniedAfterTries'
    BY <1>2 DEF ReadFails
<1>3. ASSUME NEW c \in Client, Read(c) PROVE DeniedAfterTries'
    BY <1>3 DEF Read
<1>4. ASSUME NEW c \in Client, ReadShutDown(c) PROVE DeniedAfterTries'
    BY <1>4 DEF ReadShutDown, Leave
<1>5. ASSUME NEW c \in Client, Enter(c) PROVE DeniedAfterTries'
    <2>1. TriesLeft(c)
        BY DEF TryInv
    <2>2. code'[c] = "noService" => tries'[c] = MaxTries[mode] \/ One
        <3>1. CASE pool # <<>> /\ tries'[c] < MaxTries[mode]
            <4>1. code' = code
                BY <1>5, <3>1 DEF Enter, Search
            <4>2. code[c] = "ok"
                BY <1>5 DEF Enter, TryInv, NoReplyYet
            <4>3. QED
                BY <4>1, <4>2
        <3>2. CASE pool # <<>> /\ ~(tries'[c] < MaxTries[mode])
            <4>1. tries[c] < MaxTries[mode] /\ tries'[c] \in {tries[c], tries[c] + 1}
                BY <1>5, <2>1 DEF Enter, TriesLeft
            <4>2. tries'[c] = MaxTries[mode]
                BY <3>2, <4>1
            <4>3. QED
                BY <4>2
        <3>3. CASE pool = <<>>
            BY <1>a, <3>3 DEF One
        <3>4. QED
            BY <3>1, <3>2, <3>3
    <2>3. \A d \in Client : d # c => code'[d] = code[d] /\ tries'[d] = tries[d]
        BY <1>5 DEF Enter, Search, GiveUp
    <2>4. QED
        BY <2>2, <2>3
<1>6. ASSUME NEW c \in Client, Test(c) PROVE DeniedAfterTries'
    BY <1>6 DEF Test, SearchOver
<1>7. ASSUME NEW c \in Client, GetThrows(c) PROVE DeniedAfterTries'
    BY <1>7 DEF GetThrows, SearchOver
<1>8. ASSUME NEW c \in Client, ChooseAlive(c) PROVE DeniedAfterTries'
    BY <1>8 DEF ChooseAlive, Looks, Choose, Pass
<1>9. ASSUME NEW c \in Client, Reconnect(c) PROVE DeniedAfterTries'
    BY <1>9 DEF Reconnect, Looks, Choose, Pass
<1>10. ASSUME NEW c \in Client, Run(c) PROVE DeniedAfterTries'
    BY <1>10 DEF Run, Looks, Choose, Pass
<1>11. ASSUME NEW c \in Client, Started(c) PROVE DeniedAfterTries'
    BY <1>11 DEF Started
<1>12. ASSUME NEW c \in Client, StartFails(c) PROVE DeniedAfterTries'
    BY <1>12 DEF StartFails
<1>13. ASSUME NEW c \in Client, Take(c) PROVE DeniedAfterTries'
    BY <1>13 DEF Take, SearchOver
<1>14. ASSUME NEW c \in Client, Attach(c) PROVE DeniedAfterTries'
    BY <1>14 DEF Attach
<1>15. ASSUME NEW c \in Client, Exec(c) PROVE DeniedAfterTries'
    BY <1>15 DEF Exec
<1>16. ASSUME NEW c \in Client, Evaluated(c) PROVE DeniedAfterTries'
    BY <1>16 DEF Evaluated
<1>17. ASSUME NEW c \in Client, Reply(c) PROVE DeniedAfterTries'
    BY <1>17 DEF Reply
<1>18. ASSUME NEW c \in Client, Detach(c) PROVE DeniedAfterTries'
    BY <1>18 DEF Detach
<1>19. ASSUME NEW c \in Client, Release(c) PROVE DeniedAfterTries'
    BY <1>19 DEF Release
<1>20. ASSUME NEW c \in Client, Close(c) PROVE DeniedAfterTries'
    BY <1>20 DEF Close, Leave
<1>21. ASSUME NEW s \in Server, ServerEnds(s) PROVE DeniedAfterTries'
    BY <1>21 DEF ServerEnds
<1>22. ASSUME NEW s \in Server, ReaderEnds(s) PROVE DeniedAfterTries'
    BY <1>22 DEF ReaderEnds
<1>23. ASSUME TickEarly PROVE DeniedAfterTries'
    BY <1>23 DEF TickEarly, Again
<1>24. ASSUME Tick PROVE DeniedAfterTries'
    BY <1>24 DEF Tick, Again
<1>25. ASSUME Cut PROVE DeniedAfterTries'
    BY <1>25 DEF Cut
<1>26. ASSUME LowerOut PROVE DeniedAfterTries'
    BY <1>26 DEF LowerOut
<1>27. ASSUME LowerIn PROVE DeniedAfterTries'
    BY <1>27 DEF LowerIn
<1>28. ASSUME Kill PROVE DeniedAfterTries'
    BY <1>28 DEF Kill, Again, Leave
<1>29. ASSUME AcceptFails PROVE DeniedAfterTries'
    BY <1>29 DEF AcceptFails
<1>30. ASSUME RemoveAll PROVE DeniedAfterTries'
    BY <1>30 DEF RemoveAll
<1>31. ASSUME KillServer PROVE DeniedAfterTries'
    BY <1>31 DEF KillServer
<1>32. ASSUME DropClient PROVE DeniedAfterTries'
    BY <1>32 DEF DropClient, Leave
<1>33. ASSUME Exit PROVE DeniedAfterTries'
    BY <1>33 DEF Exit
<1>34. CASE UNCHANGED vars
    BY <1>34 DEF vars
<1>35. QED
    BY <1>1, <1>2, <1>3, <1>4, <1>5, <1>6, <1>7, <1>8, <1>9, <1>10, <1>11, <1>12, <1>13, <1>14, <1>15, <1>16, <1>17, <1>18, <1>19, <1>20, <1>21, <1>22, <1>23, <1>24, <1>25, <1>26, <1>27, <1>28, <1>29, <1>30, <1>31, <1>32, <1>33, <1>34 DEF Next, Users, ClientThread, KillerThread, MainThread

LEMMA StepIInv == IInv /\ [Next]_vars => IInv'
BY StepTyped, StepPhase, StepUser, StepSteady, StepRest, StepKill, StepDrop, StepPool, StepTry, StepDenied DEF IInv
-----------------------------------------------------------------------------
\* The inductive invariant holds in every reachable state.
THEOREM Invariance == Spec => []IInv
<1>1. IInv /\ UNCHANGED vars => IInv'
    BY StepIInv
<1>2. QED
    BY InitIInv, StepIInv, PTL DEF Spec

\* Types: clients of every thread, servers of every round, and tries within
\* the limit of ModelsCollection.useConnection.
THEOREM HTTPTypes == Spec => []TypeOK
<1>1. IInv => TypeOK
    BY DEF IInv, Typed, Where, Rest, TypeOK
<1>2. QED
    BY <1>1, Invariance, PTL

\* ModelsCollection.useConnection returns null, which the client is told as an
\* unknown service, only after all its rounds, or while the killer moves the
\* only connection of the service.
THEOREM DenialIsLate == Spec => []DeniedAfterTries
<1>1. IInv => DeniedAfterTries
    BY DEF IInv
<1>2. QED
    BY <1>1, Invariance, PTL

\* Whoever marks a connection as in use (ModelsCollection.useConnection) is
\* still there to unmark it, in every circumstance: no connection is lost.
THEOREM NoConnectionLost == Spec => []InUseHasUser
<1>1. IInv => InUseHasUser
    BY DEF IInv
<1>2. QED
    BY <1>1, Invariance, PTL

\* Where no connection is broken while it is in use, useConnection never gives
\* it to a second client.
THEOREM SteadyUse == Spec => []SteadyExclusive
<1>1. IInv => SteadyExclusive
    <2> SUFFICES ASSUME IInv, mode = "steady", NEW s \in Server, NEW c \in Client, NEW d \in Client,
                        Holds(c, s), Holds(d, s)
                 PROVE  c = d
        BY DEF SteadyExclusive, OneUserEach
    <2>1. Has(c, s) /\ Has(d, s)
        BY DEF Has
    <2>2. QED
        BY <2>1 DEF IInv, SteadyInv, OneOwner
<1>2. QED
    BY <1>1, Invariance, PTL

\* In steady circumstances no connection is lost from sight either: one that is
\* connected belongs to a server that is marked as running.
THEOREM ConnectedIsRunning == Spec => [](mode = "steady" => \A s \in Server : link[s] => running[s])
<1>1. IInv => (mode = "steady" => \A s \in Server : link[s] => running[s])
    BY DEF IInv, SteadyInv, LinkInv
<1>2. QED
    BY <1>1, Invariance, PTL

\* A search that looks at a connection holds the monitor of ModelsCollection, so
\* that searches exclude each other, whatever the killer does to the Vector.
THEOREM OneSearch ==
    Spec => [](\A c, d \in Client :
                  pc[c] \in {"test", "get", "start", "take"} /\ pc[d] \in {"test", "get", "start", "take"} => c = d)
<1>1. IInv => \A c, d \in Client :
                  pc[c] \in {"test", "get", "start", "take"} /\ pc[d] \in {"test", "get", "start", "take"} => c = d
    BY DEF IInv, PhaseInv
<1>2. QED
    BY <1>1, Invariance, PTL
=============================================================================
