---------------------------- MODULE Transaction ----------------------------
(***************************************************************************)
(* Nested transactions and errors in the model server.  A transaction      *)
(* (model_server/obj: transaction.cxx, transaction.h) collects the objects *)
(* that obj_dispose is given; the end of the outermost one deletes them.   *)
(* Objects of class transactional live in a pool of memory that the end of *)
(* a nested transaction cuts back.  Errors are long jumps over a stack of  *)
(* buffers (libs/gen: error.cxx, genTry.h): start_transaction and genTry   *)
(* push one each, and neither pushes any when the stack is full.           *)
(*                                                                         *)
(* The model is the one thread that handles the events of the server: the  *)
(* stack of the constructs it is in, which every event begins with a       *)
(* genTry.  What the code in them does is any sequence of calls; an error  *)
(* may be raised at any point of it, by a failed assertion too, the ones   *)
(* of obj_transaction_start and of operator new included.  The hooks that  *)
(* a deletion calls run any code as well.                                  *)
(***************************************************************************)
EXTENDS Integers, SequencesExt

CONSTANTS
    Object,      \* Obj's that may be disposed
    Headed,      \* those with a header, which the end leaves alone
    Parts,       \* the objects that the deletion of an object propagates to
    MaxBuffers,  \* BUFF_SIZE, 20 in the code
    MaxLevel,    \* MAX_TRANSAC_LEVEL, 100 in the code
    ChunkSize,   \* transactional objects in a chunk of memory
    MaxFrames,   \* bound: constructs open at a time
    MaxBlocks,   \* bound: transactional objects at a time
    MaxChunks    \* bound: chunks of the pool

ASSUME TransactionAssumption ==
    /\ Headed \subseteq Object
    /\ Parts \in [Object -> SUBSET Object]
    /\ MaxBuffers \in Nat \ {0} /\ MaxLevel \in Nat \ {0} /\ ChunkSize \in Nat \ {0}
    /\ MaxFrames \in Nat /\ MaxBlocks \in Nat /\ MaxChunks \in Nat

VARIABLES
    frames,     \* the open constructs, the outermost one first
    buffers,    \* buff_arr up to depth: the places in frames to jump to
    level,      \* transac_level
    pending,    \* obj_to_dispose
    id,         \* what obj_id says of an object
    pool,       \* the chunk in use and its objects: last_chunk, transaction_memory_ptr
    saved,      \* memory_arr
    blocks,     \* transactional objects that exist, with the frame that made them
    swallowed,  \* history: a genTry has caught what aborted a transaction around it
    leaked,     \* history: an error has left a level open, and no transaction has been aborted since
    lost        \* the program has written outside memory_arr

vars == <<frames, buffers, level, pending, id, pool, saved, blocks, swallowed, leaked, lost>>
memory == <<pool, saved>>
history == <<swallowed, leaked>>

\* A construct: genTry, start_transaction, or the obj_transaction_start and
\* obj_transaction_end of obj_modify, which install no handler.
Kind == {"try", "transaction", "bare"}
\* It runs its body, deletes at its end or for an error, or passes the error on.
Phase == {"body", "end", "abort", "rethrow"}
Frame == [kind : Kind, pushed : BOOLEAN, phase : Phase, doomed : SUBSET Object]
Pool == [chunk : Nat, used : Nat]

TypeOK ==
    /\ frames \in Seq(Frame)
    /\ buffers \in Seq(Nat)
    /\ level \in Int /\ level <= MaxLevel
    /\ pending \subseteq Object
    /\ id \in [Object -> {"alive", "disposed", "doomed", "deleted"}]
    /\ pool \in Pool
    /\ saved \in [0..MaxLevel - 1 -> Pool]
    /\ blocks \subseteq [owner : Nat, chunk : Nat, place : Nat]
    /\ swallowed \in BOOLEAN /\ leaked \in BOOLEAN /\ lost \in BOOLEAN

EmptyPool == [chunk |-> 1, used |-> 0]

Init ==
    /\ frames = <<>> /\ buffers = <<>>
    /\ level = 0
    /\ pending = {} /\ id = [o \in Object |-> "alive"]
    /\ pool = EmptyPool /\ saved = [l \in 0..MaxLevel - 1 |-> EmptyPool] /\ blocks = {}
    /\ swallowed = FALSE /\ leaked = FALSE /\ lost = FALSE

-----------------------------------------------------------------------------
(* The stack of constructs. *)

Top == Len(frames)
Transactions == {k \in DOMAIN frames : frames[k].kind # "try"}

\* The code of some construct runs: a body, or the hooks of a deletion.
Running == ~lost /\ frames # <<>> /\ frames[Top].phase # "rethrow"
\* The body of the innermost construct has come to its end.
BodyOver(kinds) == Running /\ frames[Top].kind \in kinds /\ frames[Top].phase = "body"
\* The innermost construct deletes, at the end of a transaction or for an error.
Deleting == ~lost /\ frames # <<>> /\ frames[Top].phase \in {"end", "abort"}

HasBuffer == Len(buffers) < MaxBuffers
Opened(k, pushed) == Append(frames, [kind |-> k, pushed |-> pushed, phase |-> "body", doomed |-> {}])
Pushed(pushed) == IF pushed THEN Append(buffers, Top + 1) ELSE buffers
\* Fault: pop_buf is called whether or not a buffer was pushed.
PoppedAlways == Front(buffers)

\* Popped with the construct that pushed it.
Popped == IF frames[Top].pushed THEN Front(buffers) ELSE buffers

\* The objects of class transactional that the first n constructs made.
Kept(n) == {b \in blocks : b.owner <= n}

\* genTry.  Every event handler begins with one.
BeginTry ==
    /\ ~lost /\ (frames = <<>> \/ Running)
    /\ Top < MaxFrames
    /\ frames' = Opened("try", HasBuffer)
    /\ buffers' = Pushed(HasBuffer)
    /\ UNCHANGED <<level, pending, id, memory, blocks, history, lost>>

\* genCatch reached without an error.
EndTry ==
    /\ BodyOver({"try"})
    /\ buffers' = Popped
    /\ frames' = Front(frames)
    /\ blocks' = Kept(Top - 1)
    /\ UNCHANGED <<level, pending, id, memory, history, lost>>

-----------------------------------------------------------------------------
(* Transactions. *)

\* obj_transaction_start, then the buffer of start_transaction; obj_modify
\* has none.  A level below zero is written outside memory_arr, and what the
\* program does after that is not defined.
Start(k) ==
    /\ Running /\ Top < MaxFrames
    /\ level = 0 => pending = {}
    /\ level < MaxLevel
    /\ IF level < 0
       THEN lost' = TRUE /\ UNCHANGED <<frames, buffers, level, memory>>
       ELSE LET pushed == k = "transaction" /\ HasBuffer IN
            /\ frames' = Opened(k, pushed)
            /\ buffers' = Pushed(pushed)
            /\ pool' = IF level = 0 THEN EmptyPool ELSE pool
            /\ saved' = [saved EXCEPT ![level] = pool']
            /\ level' = level + 1
            /\ lost' = lost
    /\ UNCHANGED <<pending, id, blocks, history>>

\* Fault: memory is cut back to where the enclosing transaction began.
EndNestedTooFar ==
    /\ BodyOver({"transaction", "bare"})
    /\ level > 1
    /\ buffers' = Popped
    /\ frames' = Front(frames)
    /\ level' = level - 1
    /\ pool' = saved[level - 2]
    /\ blocks' = Kept(Top - 1)
    /\ UNCHANGED <<pending, id, saved, history, lost>>

\* obj_transaction_end of a nested transaction cuts the memory back.
EndNested ==
    /\ BodyOver({"transaction", "bare"})
    /\ level > 1
    /\ buffers' = Popped
    /\ frames' = Front(frames)
    /\ level' = level - 1
    /\ pool' = saved[level - 1]
    /\ blocks' = Kept(Top - 1)
    /\ UNCHANGED <<pending, id, saved, history, lost>>

\* Fault: one transaction around the one that ends is overlooked.
EndOutermostEarly ==
    /\ BodyOver({"transaction", "bare"})
    /\ level <= 2
    /\ buffers' = Popped
    /\ frames' = [frames EXCEPT ![Top].phase = "end", ![Top].pushed = FALSE]
    /\ UNCHANGED <<level, pending, id, memory, blocks, history, lost>>

\* ... and of the outermost one begins to delete.
EndOutermost ==
    /\ BodyOver({"transaction", "bare"})
    /\ level <= 1
    /\ buffers' = Popped
    /\ frames' = [frames EXCEPT ![Top].phase = "end", ![Top].pushed = FALSE]
    /\ UNCHANGED <<level, pending, id, memory, blocks, history, lost>>

\* obj_dispose, from obj_delete or obj_remove in a transaction of its caller or
\* of its own; obj_delete returns at once for an object that is being deleted.
Dispose(o) ==
    /\ Running /\ id[o] = "alive"
    /\ Transactions # {}
    /\ id' = [id EXCEPT ![o] = "disposed"]
    /\ pending' = pending \cup {o}
    /\ UNCHANGED <<frames, buffers, level, memory, blocks, history, lost>>

\* transactional::operator new: a new chunk when the object does not fit.
Allocate ==
    /\ Running /\ level > 0 /\ Transactions # {}
    /\ Cardinality(blocks) < MaxBlocks
    /\ pool.used < ChunkSize \/ pool.chunk < MaxChunks
    /\ pool' = IF pool.used < ChunkSize THEN [pool EXCEPT !.used = @ + 1]
               ELSE [chunk |-> pool.chunk + 1, used |-> 1]
    /\ blocks' = blocks \cup {[owner |-> Top, chunk |-> pool'.chunk, place |-> pool'.used]}
    /\ UNCHANGED <<frames, buffers, level, pending, id, saved, history, lost>>

-----------------------------------------------------------------------------
(* Deletion, in the loop of obj_transaction_end. *)

\* What is pending, without the objects that have a header, and all that
\* their deletion propagates to and no other deletion has taken.
Condemned ==
    LET roots == pending \ Headed
    IN  {o \in roots \cup UNION {Parts[r] : r \in roots} : id[o] \in {"alive", "disposed"}}

\* disp_arr is filled and obj_real_delete collects what is to be deleted.
Collect ==
    /\ Deleting /\ frames[Top].doomed = {} /\ pending # {}
    /\ frames' = [frames EXCEPT ![Top].doomed = Condemned]
    /\ id' = [o \in Object |-> IF o \in Condemned THEN "doomed" ELSE id[o]]
    /\ pending' = {}
    /\ UNCHANGED <<buffers, level, memory, blocks, history, lost>>

\* The hooks of the object have been called, and it is deleted.
Delete(o) ==
    /\ Deleting /\ o \in frames[Top].doomed
    /\ frames' = [frames EXCEPT ![Top].doomed = @ \ {o}]
    /\ id' = [id EXCEPT ![o] = "deleted"]
    /\ UNCHANGED <<buffers, level, pending, memory, blocks, history, lost>>

\* Fault: what has been disposed since the last deletion is not looked at.
NothingToDeleteOnce == Deleting /\ frames[Top].doomed = {}

NothingToDelete == Deleting /\ frames[Top].doomed = {} /\ pending = {}

\* The loop is over: the transaction has ended.
Finish ==
    /\ NothingToDelete /\ frames[Top].phase = "end"
    /\ level' = level - 1
    /\ frames' = Front(frames)
    /\ blocks' = Kept(Top - 1)
    /\ UNCHANGED <<buffers, pending, id, memory, history, lost>>

\* The handler of start_transaction has ended all transactions at once.
FinishAbort ==
    /\ NothingToDelete /\ frames[Top].phase = "abort"
    /\ level' = level - 1
    /\ frames' = [frames EXCEPT ![Top].phase = "rethrow"]
    /\ UNCHANGED <<buffers, pending, id, memory, blocks, history, lost>>

-----------------------------------------------------------------------------
(* Errors. *)

Target == Last(buffers)
Caught == frames[Target].kind = "try"
\* The error has aborted a transaction inside the genTry, and others are open
\* around it, which were ended with the aborted one.
Swallows ==
    /\ \E k \in Transactions : k < Target
    /\ \E k \in DOMAIN frames : k > Target /\ frames[k].phase \in {"abort", "rethrow"}

\* throw_error: a genTry catches, and the statement is over; the handler of
\* start_transaction calls obj_transaction_abort, which takes the level for the
\* outermost one, unless there is none.
Jump ==
    /\ buffers' = Front(buffers)
    /\ IF Caught
       THEN /\ frames' = SubSeq(frames, 1, Target - 1)
            /\ blocks' = Kept(Target - 1)
            /\ level' = level
       ELSE /\ frames' = [SubSeq(frames, 1, Target) EXCEPT
                ![Target].pushed = FALSE,
                ![Target].phase = IF level = 0 THEN "rethrow" ELSE "abort"]
            /\ blocks' = Kept(Target)
            /\ level' = IF level = 0 THEN 0 ELSE 1
    /\ swallowed' = (swallowed \/ (Caught /\ Swallows))
    /\ UNCHANGED <<pending, id, memory, lost>>

\* An error in whatever code runs.
Throw ==
    /\ Running /\ buffers # <<>>
    /\ Jump
    /\ leaked' = (Caught /\ (leaked \/ \E k \in Transactions : k > Target))

\* The handler of start_transaction passes the error on.
Rethrow ==
    /\ ~lost /\ frames # <<>> /\ frames[Top].phase = "rethrow" /\ buffers # <<>>
    /\ Jump
    /\ leaked' = (Caught /\ leaked)

\* Nothing is known of a program that is lost.
Undefined == lost /\ UNCHANGED vars

Next ==
    \/ BeginTry \/ EndTry
    \/ \E k \in {"transaction", "bare"} : Start(k)
    \/ EndNested \/ EndOutermost \/ Finish
    \/ \E o \in Object : Dispose(o) \/ Delete(o)
    \/ Allocate \/ Collect
    \/ Throw \/ FinishAbort \/ Rethrow
    \/ Undefined

Spec == Init /\ [][Next]_vars

-----------------------------------------------------------------------------
(* Properties. *)

\* An error lands in a construct that is still open, and each construct pops
\* the buffer it pushed: buff_arr lists the constructs that have pushed one, in
\* the order of their nesting, however many there are (error.cxx, push_buf).
HandlersLive ==
    /\ \A i \in DOMAIN buffers : buffers[i] \in DOMAIN frames /\ frames[buffers[i]].pushed
    /\ \A i, j \in DOMAIN buffers : i < j => buffers[i] < buffers[j]
    /\ \A k \in DOMAIN frames : frames[k].pushed => \E i \in DOMAIN buffers : buffers[i] = k

\* "Only the end of all transactions starts deletion" (objPropagate.h.cxx):
\* without an error no object is deleted while a transaction is open around
\* the one that ends, or inside it.  It fails once a genTry has swallowed the
\* error of a transaction inside another.
OnlyOutermostDeletes ==
    [][(\E o \in Object : id[o] # "deleted" /\ id'[o] = "deleted") =>
        swallowed \/ frames[Top].phase = "abort" \/ Transactions = {Top}]_vars

\* When the event has been handled, nothing is left to be deleted but what
\* has a header: errors may lose levels, and only one that no transaction has
\* handled since keeps anything from being deleted.
NothingLeft ==
    frames = <<>> /\ ~leaked /\ ~swallowed =>
        pending = {} /\ \A o \in Object : id[o] = "disposed" => o \in Headed

\* The objects of class transactional that exist have memory of their own, in a
\* chunk that has not been freed, whatever nested transactions have cut back.
BlocksKept ==
    ~swallowed =>
        /\ \A b \in blocks : b.chunk <= pool.chunk /\ (b.chunk = pool.chunk => b.place <= pool.used)
        /\ \A b, c \in blocks : b.chunk = c.chunk /\ b.place = c.place => b = c
=============================================================================
