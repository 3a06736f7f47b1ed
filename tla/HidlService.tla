---------------------------- MODULE HidlService ----------------------------
(***************************************************************************)
(* The service of examples/hidl_service_fmq_example.cpp: a table of        *)
(* sessions, each with two queues and a processing thread that polls them. *)
(* The calls are served one after the other, by a single binder thread:    *)
(* the table has no lock.  stop, close and the destructor wait in join     *)
(* while the processing threads and the clients at the other end of the    *)
(* queues go on.  setParam, queryState and queryStats change nothing.      *)
(*                                                                         *)
(* A queue is the number of units in it: the order of what passes through  *)
(* is the subject of EffectPipeline.                                       *)
(***************************************************************************)
EXTENDS Integers

CONSTANTS Width,          \* number of session ids, 2^32 in the code
          QueueCapacity,  \* 1 MB in the code
          BufferSize      \* framesPerBuffer * bytesPerFrame

ASSUME ServiceAssumption ==
    /\ Width \in Nat \ {0} /\ QueueCapacity \in Nat
    /\ BufferSize \in 1..QueueCapacity

VARIABLES mNextSessionId, mSessions,
          running,             \* per session: the atomic flag
          joinable,            \* per session: processingThread stands for a thread
          tpc,                 \* per session: the processing thread
          inputFmq, outputFmq, \* per session: units in the queues
          handler,             \* the call in progress: what and for which session
          terminated           \* history: a joinable std::thread was lost

sessionVars == <<running, joinable, tpc>>
vars == <<mNextSessionId, mSessions, sessionVars, inputFmq, outputFmq, handler, terminated>>

Id == 0..(Width - 1)
Idle == [op |-> "none", id |-> 0]
Destroying == [op |-> "destroy", id |-> 0]
Destroyed == [op |-> "destroyed", id |-> 0]

Init == /\ mNextSessionId = 1 % Width /\ mSessions = {}
        /\ running = [i \in Id |-> FALSE] /\ joinable = [i \in Id |-> FALSE]
        /\ tpc = [i \in Id |-> "none"]
        /\ inputFmq = [i \in Id |-> 0] /\ outputFmq = [i \in Id |-> 0]
        /\ handler = Idle /\ terminated = FALSE

-----------------------------------------------------------------------------
(* A queue that is not valid makes open return before anything changes.    *)
(* Bound: no session is kept open for 2^32 opens, so its id is not given   *)
(* out again.                                                              *)
open ==
    /\ handler = Idle /\ mNextSessionId \notin mSessions
    /\ mSessions' = mSessions \cup {mNextSessionId}
    /\ mNextSessionId' = (mNextSessionId + 1) % Width
    /\ UNCHANGED <<sessionVars, inputFmq, outputFmq, handler, terminated>>

\* mutant: start of a session that runs is not refused
MutantStart(id) ==
    /\ handler = Idle /\ id \in mSessions
    /\ running' = [running EXCEPT ![id] = TRUE]
    /\ handler' = [op |-> "start", id |-> id]
    /\ UNCHANGED <<mNextSessionId, mSessions, joinable, tpc, inputFmq, outputFmq, terminated>>
(* start of a session that runs is refused.  The flag is set first; the    *)
(* assignment of the new thread ends the process if one is still attached. *)
start(id) ==
    /\ handler = Idle /\ id \in mSessions /\ ~running[id]
    /\ running' = [running EXCEPT ![id] = TRUE]
    /\ handler' = [op |-> "start", id |-> id]
    /\ UNCHANGED <<mNextSessionId, mSessions, joinable, tpc, inputFmq, outputFmq, terminated>>

StartThread(id) ==
    /\ handler = [op |-> "start", id |-> id]
    /\ terminated' = (terminated \/ joinable[id])
    /\ joinable' = [joinable EXCEPT ![id] = TRUE]
    /\ tpc' = [tpc EXCEPT ![id] = "loop"]
    /\ handler' = Idle
    /\ UNCHANGED <<mNextSessionId, mSessions, running, inputFmq, outputFmq>>

(* stop of a session that does not run is refused. *)
stop(id) ==
    /\ handler = Idle /\ id \in mSessions /\ running[id]
    /\ running' = [running EXCEPT ![id] = FALSE]
    /\ handler' = [op |-> "stop", id |-> id]
    /\ UNCHANGED <<mNextSessionId, mSessions, joinable, tpc, inputFmq, outputFmq, terminated>>

(* close, up to the join of closeSession, which joins only if running.     *)
close(id) ==
    /\ handler = Idle /\ id \in mSessions
    /\ running' = [running EXCEPT ![id] = FALSE]
    /\ handler' = [op |-> IF running[id] THEN "close" ELSE "erase", id |-> id]
    /\ UNCHANGED <<mNextSessionId, mSessions, joinable, tpc, inputFmq, outputFmq, terminated>>

AfterJoin(op, id) == CASE op = "stop" -> Idle
                       [] op = "close" -> [op |-> "erase", id |-> id]
                       [] op = "closeNext" -> Destroying

\* mutant: the call returns without waiting for the thread
MutantJoin(id) ==
    /\ handler.op \in {"stop", "close", "closeNext"} /\ handler.id = id
    /\ handler' = AfterJoin(handler.op, id)
    /\ UNCHANGED <<mNextSessionId, mSessions, running, joinable, tpc,
                   inputFmq, outputFmq, terminated>>
(* processingThread.join() *)
Join(id) ==
    /\ handler.op \in {"stop", "close", "closeNext"} /\ handler.id = id
    /\ tpc[id] = "exited"
    /\ joinable' = [joinable EXCEPT ![id] = FALSE]
    /\ tpc' = [tpc EXCEPT ![id] = "none"]
    /\ handler' = AfterJoin(handler.op, id)
    /\ UNCHANGED <<mNextSessionId, mSessions, running, inputFmq, outputFmq, terminated>>

(* mSessions.erase destroys the session, its queues and its std::thread,   *)
(* which ends the process if it is still joinable.                         *)
Erase(id) ==
    /\ handler = [op |-> "erase", id |-> id]
    /\ mSessions' = mSessions \ {id}
    /\ terminated' = (terminated \/ joinable[id])
    /\ inputFmq' = [inputFmq EXCEPT ![id] = 0] /\ outputFmq' = [outputFmq EXCEPT ![id] = 0]
    /\ handler' = Idle
    /\ UNCHANGED <<mNextSessionId, sessionVars>>

(* ~EffectService: closeSession of every session, of which those that do   *)
(* not run need nothing, then the table is destroyed.                      *)
DestroyService ==
    /\ handler = Idle
    /\ handler' = Destroying
    /\ UNCHANGED <<mNextSessionId, mSessions, sessionVars, inputFmq, outputFmq, terminated>>

CloseNext(id) ==
    /\ handler = Destroying /\ id \in mSessions /\ running[id]
    /\ running' = [running EXCEPT ![id] = FALSE]
    /\ handler' = [op |-> "closeNext", id |-> id]
    /\ UNCHANGED <<mNextSessionId, mSessions, joinable, tpc, inputFmq, outputFmq, terminated>>

DestroyTable ==
    /\ handler = Destroying /\ \A id \in mSessions : ~running[id]
    /\ mSessions' = {}
    /\ terminated' = (terminated \/ \E id \in mSessions : joinable[id])
    /\ handler' = Destroyed
    /\ UNCHANGED <<mNextSessionId, sessionVars, inputFmq, outputFmq>>

-----------------------------------------------------------------------------
(* processingLoop.  What it finds available is used one step later. *)
Thread(id, from, to) ==
    /\ tpc[id] = from
    /\ tpc' = [tpc EXCEPT ![id] = to]
    /\ UNCHANGED <<mNextSessionId, mSessions, running, joinable, handler, terminated>>

\* mutant: the loop does not look at the flag
MutantLoop(id) == Thread(id, "loop", "check") /\ UNCHANGED <<inputFmq, outputFmq>>
LoopTest(id) ==
    /\ Thread(id, "loop", IF running[id] THEN "check" ELSE "exited")
    /\ UNCHANGED <<inputFmq, outputFmq>>

\* mutant: the thread leaves the loop when there is nothing to read
MutantAvailable(id) ==
    /\ Thread(id, "check", IF inputFmq[id] < BufferSize THEN "exited" ELSE "read")
    /\ UNCHANGED <<inputFmq, outputFmq>>
\* mutant: any data is taken for a buffer
MutantAvailableAny(id) ==
    /\ Thread(id, "check", IF inputFmq[id] = 0 THEN "loop" ELSE "read")
    /\ UNCHANGED <<inputFmq, outputFmq>>
(* availableToRead; with too little data sleep 5 ms and start over *)
AvailableToRead(id) ==
    /\ Thread(id, "check", IF inputFmq[id] < BufferSize THEN "loop" ELSE "read")
    /\ UNCHANGED <<inputFmq, outputFmq>>

(* A read that fails takes nothing and starts over. *)
Read(id) ==
    /\ Thread(id, "read", IF inputFmq[id] < BufferSize THEN "loop" ELSE "space")
    /\ inputFmq' = [inputFmq EXCEPT ![id] = IF @ < BufferSize THEN @ ELSE @ - BufferSize]
    /\ UNCHANGED outputFmq

(* The effect, a copy, then availableToWrite; without room the buffer is   *)
(* dropped.                                                                *)
AvailableToWrite(id) ==
    /\ Thread(id, "space", IF QueueCapacity - outputFmq[id] < BufferSize THEN "loop" ELSE "write")
    /\ UNCHANGED <<inputFmq, outputFmq>>

(* The result of write is ignored. *)
Write(id) ==
    /\ Thread(id, "write", "loop")
    /\ outputFmq' = [outputFmq EXCEPT
                         ![id] = IF @ + BufferSize <= QueueCapacity THEN @ + BufferSize ELSE @]
    /\ UNCHANGED inputFmq

ThreadStep(id) == \/ LoopTest(id) \/ AvailableToRead(id) \/ Read(id)
                  \/ AvailableToWrite(id) \/ Write(id)

(* External: the client at the other end of the queues, unit by unit. *)
ClientPuts(id) ==
    /\ id \in mSessions /\ inputFmq[id] < QueueCapacity
    /\ inputFmq' = [inputFmq EXCEPT ![id] = @ + 1]
    /\ UNCHANGED <<mNextSessionId, mSessions, sessionVars, outputFmq, handler, terminated>>

ClientTakes(id) ==
    /\ id \in mSessions /\ outputFmq[id] > 0
    /\ outputFmq' = [outputFmq EXCEPT ![id] = @ - 1]
    /\ UNCHANGED <<mNextSessionId, mSessions, sessionVars, inputFmq, handler, terminated>>

HandlerStep == \/ \E id \in Id : StartThread(id) \/ Join(id) \/ Erase(id) \/ CloseNext(id)
               \/ DestroyTable

Next == \/ open \/ DestroyService \/ HandlerStep
        \/ \E id \in Id : \/ start(id) \/ stop(id) \/ close(id)
                          \/ ThreadStep(id) \/ ClientPuts(id) \/ ClientTakes(id)

Spec == Init /\ [][Next]_vars

(* The scheduler runs the binder thread and every processing thread. *)
FairSpec == Spec /\ WF_vars(HandlerStep) /\ \A id \in Id : WF_vars(ThreadStep(id))

-----------------------------------------------------------------------------
ThreadPc == {"none", "loop", "check", "read", "space", "write", "exited"}

TypeOK ==
    /\ mNextSessionId \in Id /\ mSessions \subseteq Id
    /\ running \in [Id -> BOOLEAN] /\ joinable \in [Id -> BOOLEAN]
    /\ tpc \in [Id -> ThreadPc]
    /\ inputFmq \in [Id -> 0..QueueCapacity] /\ outputFmq \in [Id -> 0..QueueCapacity]
    /\ handler \in [op : {"none", "start", "stop", "close", "erase", "destroy",
                          "closeNext", "destroyed"}, id : Id]
    /\ terminated \in BOOLEAN

(* A processing thread never outlives its session: the session and its     *)
(* queues are destroyed only after the thread was joined.                  *)
ThreadsOwned == \A id \in Id : tpc[id] # "none" => id \in mSessions

(* No std::thread that still stands for a thread is assigned to or         *)
(* destroyed, although start, stop and close each look at running and not  *)
(* at the thread.                                                          *)
NoTerminate == ~terminated

(* Between calls queryState tells the truth: STARTED, that is running,     *)
(* exactly when a thread serves the session.                               *)
StateIsTruthful ==
    handler = Idle =>
        \A id \in mSessions : running[id] <=> tpc[id] \notin {"none", "exited"}

(* What availableToRead and availableToWrite reported still holds when the *)
(* thread reads and writes, although the client uses the queues meanwhile: *)
(* the read never fails and the write whose result is ignored never loses  *)
(* a buffer.                                                               *)
TransfersSucceed ==
    \A id \in Id : /\ tpc[id] = "read" => inputFmq[id] >= BufferSize
                   /\ tpc[id] = "write" => outputFmq[id] + BufferSize <= QueueCapacity

(* Every call of the service returns, the destructor too: join waits for   *)
(* one round of the loop at most.                                          *)
CallsReturn == handler # Idle ~> handler \in {Idle, Destroyed}
=============================================================================
