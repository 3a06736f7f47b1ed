------------------------- MODULE HidlServiceProofs -------------------------
(***************************************************************************)
(* The threads of the HIDL service proved to be owned by their sessions,   *)
(* for any number of sessions and any size of queue and buffer.            *)
(***************************************************************************)
EXTENDS HidlService, TLAPS

Busy(id) == handler.op \in {"start", "stop", "close", "erase", "closeNext"} /\ handler.id = id

(* What holds of one session, whatever the handler does.  The code looks   *)
(* at running only; it is right because running says whether the session   *)
(* has a thread except while a call for that very session is in progress.  *)
Own(id) ==
    /\ tpc[id] # "none" => id \in mSessions
    /\ joinable[id] <=> tpc[id] # "none"
    /\ running[id] => tpc[id] # "exited"
    /\ ~Busy(id) => (running[id] <=> tpc[id] # "none")
    /\ Busy(id) =>
         /\ id \in mSessions
         /\ running[id] <=> handler.op = "start"
         /\ tpc[id] = "none" <=> handler.op \in {"start", "erase"}

Grants(id) == /\ tpc[id] = "read" => inputFmq[id] >= BufferSize
              /\ tpc[id] = "write" => outputFmq[id] + BufferSize <= QueueCapacity

ServiceInv == TypeOK /\ NoTerminate /\ \A id \in Id : Own(id) /\ Grants(id)

(* A service without sessions has no threads. *)
LEMMA ServiceStarts == Init => ServiceInv
  <1> SUFFICES ASSUME Init PROVE ServiceInv
    OBVIOUS
  <1>1. 0 \in Id /\ 1 % Width \in Id /\ 0 \in 0..QueueCapacity
    BY ServiceAssumption DEF Id
  <1>2. TypeOK
    BY <1>1 DEF Init, TypeOK, Idle, ThreadPc
  <1> QED BY <1>2 DEF Init, ServiceInv, NoTerminate, Own, Grants, Busy, Idle

(* A step that touches only the session id, and the handler only for it,   *)
(* leaves the other sessions as they are.                                  *)
LEMMA OthersKeep ==
    ASSUME ServiceInv, NEW id \in Id,
           \A i \in Id \ {id} : /\ tpc'[i] = tpc[i] /\ joinable'[i] = joinable[i]
                                /\ running'[i] = running[i]
                                /\ inputFmq'[i] = inputFmq[i] /\ outputFmq'[i] = outputFmq[i]
                                /\ i \in mSessions => i \in mSessions'
                                /\ ~Busy(i) /\ ~Busy(i)'
    PROVE  \A i \in Id \ {id} : Own(i)' /\ Grants(i)'
  BY DEF ServiceInv, Own, Grants

(* Every handler and every step of a thread keeps the invariant. *)
LEMMA ServiceKeeps == ServiceInv /\ [Next]_vars => ServiceInv'
  <1> SUFFICES ASSUME ServiceInv, [Next]_vars PROVE ServiceInv'
    OBVIOUS
  <1>0. /\ TypeOK /\ NoTerminate /\ \A i \in Id : Own(i) /\ Grants(i)
        /\ 0 \in Id
    BY ServiceAssumption DEF ServiceInv, Id
  <1>1. CASE UNCHANGED vars
    BY <1>1, <1>0 DEF vars, sessionVars, ServiceInv, TypeOK, NoTerminate, Own, Grants, Busy
  <1>2. CASE open
    <2>1. (mNextSessionId + 1) % Width \in Id
      BY <1>0, ServiceAssumption DEF TypeOK, Id
    <2>2. TypeOK'
      BY <1>0, <1>2, <2>1 DEF open, TypeOK, sessionVars
    <2> QED BY <1>0, <1>2, <2>2 DEF open, ServiceInv, NoTerminate, Own, Grants, Busy, sessionVars
  <1>3. CASE DestroyService
    <2>1. TypeOK'
      BY <1>0, <1>3 DEF DestroyService, TypeOK, sessionVars, Destroying
    <2> QED BY <1>0, <1>3, <2>1 DEF DestroyService, ServiceInv, NoTerminate, Own, Grants,
            Busy, sessionVars, Idle, Destroying
  <1>4. CASE DestroyTable
    <2>1. TypeOK'
      BY <1>0, <1>4 DEF DestroyTable, TypeOK, sessionVars, Destroyed
    <2>2. \A i \in Id : tpc[i] = "none" /\ ~joinable[i] /\ ~running[i]
      BY <1>0, <1>4 DEF DestroyTable, Own, Busy, Destroying
    <2>3. NoTerminate'
      BY <1>0, <1>4, <2>2 DEF DestroyTable, NoTerminate, TypeOK
    <2>4. \A i \in Id : Own(i)' /\ Grants(i)'
      BY <1>4, <2>2 DEF DestroyTable, Own, Grants, Busy, sessionVars, Destroyed
    <2> QED BY <2>1, <2>3, <2>4 DEF ServiceInv
  <1>5. ASSUME NEW id \in Id, start(id) PROVE ServiceInv'
    <2>1. TypeOK' /\ NoTerminate'
      BY <1>0, <1>5 DEF start, TypeOK, NoTerminate
    <2>2. Own(id)' /\ Grants(id)'
      BY <1>0, <1>5 DEF start, TypeOK, Own, Grants, Busy, Idle
    <2>3. \A i \in Id \ {id} : Own(i)' /\ Grants(i)'
      BY <1>0, <1>5, OthersKeep DEF start, TypeOK, Busy, Idle
    <2> QED BY <2>1, <2>2, <2>3 DEF ServiceInv
  <1>6. ASSUME NEW id \in Id, StartThread(id) PROVE ServiceInv'
    <2>0. id \in mSessions /\ running[id] /\ tpc[id] = "none" /\ ~joinable[id] /\ Busy(id)
      BY <1>0, <1>6 DEF StartThread, Own, Busy
    <2>1. TypeOK' /\ NoTerminate'
      BY <1>0, <1>6, <2>0 DEF StartThread, TypeOK, NoTerminate, Idle, ThreadPc
    <2>2. Own(id)' /\ Grants(id)'
      BY <1>0, <1>6, <2>0 DEF StartThread, TypeOK, Own, Grants, Busy, Idle
    <2>3. \A i \in Id \ {id} : Own(i)' /\ Grants(i)'
      BY <1>0, <1>6, OthersKeep DEF StartThread, TypeOK, Busy, Idle
    <2> QED BY <2>1, <2>2, <2>3 DEF ServiceInv
  <1>7. ASSUME NEW id \in Id, stop(id) PROVE ServiceInv'
    <2>1. TypeOK' /\ NoTerminate'
      BY <1>0, <1>7 DEF stop, TypeOK, NoTerminate
    <2>2. Own(id)' /\ Grants(id)'
      BY <1>0, <1>7 DEF stop, TypeOK, Own, Grants, Busy, Idle
    <2>3. \A i \in Id \ {id} : Own(i)' /\ Grants(i)'
      BY <1>0, <1>7, OthersKeep DEF stop, TypeOK, Busy, Idle
    <2> QED BY <2>1, <2>2, <2>3 DEF ServiceInv
  <1>8. ASSUME NEW id \in Id, close(id) PROVE ServiceInv'
    <2>1. TypeOK' /\ NoTerminate'
      BY <1>0, <1>8 DEF close, TypeOK, NoTerminate
    <2>2. Own(id)' /\ Grants(id)'
      BY <1>0, <1>8 DEF close, TypeOK, Own, Grants, Busy, Idle
    <2>3. \A i \in Id \ {id} : Own(i)' /\ Grants(i)'
      BY <1>0, <1>8, OthersKeep DEF close, TypeOK, Busy, Idle
    <2> QED BY <2>1, <2>2, <2>3 DEF ServiceInv
  <1>9. ASSUME NEW id \in Id, CloseNext(id) PROVE ServiceInv'
    <2>1. TypeOK' /\ NoTerminate'
      BY <1>0, <1>9 DEF CloseNext, TypeOK, NoTerminate
    <2>2. Own(id)' /\ Grants(id)'
      BY <1>0, <1>9 DEF CloseNext, TypeOK, Own, Grants, Busy, Destroying
    <2>3. \A i \in Id \ {id} : Own(i)' /\ Grants(i)'
      BY <1>0, <1>9, OthersKeep DEF CloseNext, TypeOK, Busy, Destroying
    <2> QED BY <2>1, <2>2, <2>3 DEF ServiceInv
  <1>10. ASSUME NEW id \in Id, Join(id) PROVE ServiceInv'
    <2>0. /\ Busy(id) /\ id \in mSessions /\ ~running[id]
          /\ handler' \in {Idle, Destroying, [op |-> "erase", id |-> id]}
      BY <1>0, <1>10 DEF Join, Own, Busy, AfterJoin
    <2>1. TypeOK' /\ NoTerminate'
      BY <1>0, <1>10, <2>0 DEF Join, TypeOK, NoTerminate, Idle, Destroying, ThreadPc
    <2>2. Own(id)' /\ Grants(id)'
      BY <1>0, <1>10, <2>0 DEF Join, TypeOK, Own, Grants, Busy, Idle, Destroying
    <2>3. \A i \in Id \ {id} : Own(i)' /\ Grants(i)'
      <3>1. \A i \in Id \ {id} : ~Busy(i) /\ ~Busy(i)'
        BY <2>0 DEF Busy, Idle, Destroying
      <3>2. \A i \in Id \ {id} : tpc'[i] = tpc[i] /\ joinable'[i] = joinable[i]
        BY <1>0, <1>10 DEF Join, TypeOK
      <3>3. UNCHANGED <<mSessions, running, inputFmq, outputFmq>>
        BY <1>10 DEF Join
      <3> QED BY <3>1, <3>2, <3>3, OthersKeep
    <2> QED BY <2>1, <2>2, <2>3 DEF ServiceInv
  <1>11. ASSUME NEW id \in Id, Erase(id) PROVE ServiceInv'
    <2>0. Busy(id) /\ ~running[id] /\ tpc[id] = "none" /\ ~joinable[id]
      BY <1>0, <1>11 DEF Erase, Own, Busy
    <2>1. TypeOK' /\ NoTerminate'
      BY <1>0, <1>11, <2>0, ServiceAssumption DEF Erase, TypeOK, NoTerminate, Idle, sessionVars
    <2>2. Own(id)' /\ Grants(id)'
      BY <1>0, <1>11, <2>0 DEF Erase, Own, Grants, Busy, Idle, sessionVars
    <2>3. \A i \in Id \ {id} : Own(i)' /\ Grants(i)'
      BY <1>0, <1>11, OthersKeep DEF Erase, TypeOK, Busy, Idle, sessionVars
    <2> QED BY <2>1, <2>2, <2>3 DEF ServiceInv
  <1>12. ASSUME NEW id \in Id, ThreadStep(id) PROVE ServiceInv'
    <2>1. PICK from \in ThreadPc \ {"none"}, to \in ThreadPc \ {"none"} :
              Thread(id, from, to) /\ (to = "exited" => ~running[id])
      BY <1>12 DEF ThreadStep, LoopTest, AvailableToRead, Read, AvailableToWrite, Write, ThreadPc
    <2>2. /\ inputFmq' \in [Id -> 0..QueueCapacity] /\ outputFmq' \in [Id -> 0..QueueCapacity]
          /\ \A i \in Id \ {id} : inputFmq'[i] = inputFmq[i] /\ outputFmq'[i] = outputFmq[i]
      BY <1>0, <1>12, ServiceAssumption
         DEF ThreadStep, LoopTest, AvailableToRead, Read, AvailableToWrite, Write, TypeOK
    <2>3. Grants(id)'
      BY <1>0, <1>12, ServiceAssumption
         DEF ThreadStep, LoopTest, AvailableToRead, Read, AvailableToWrite, Write, TypeOK,
             Thread, Grants
    <2>4. TypeOK' /\ NoTerminate'
      BY <1>0, <2>1, <2>2 DEF Thread, TypeOK, NoTerminate
    <2>5. Own(id)'
      BY <1>0, <2>1 DEF Thread, TypeOK, Own, Busy
    <2>6. ASSUME NEW i \in Id \ {id} PROVE Own(i)' /\ Grants(i)'
      BY <1>0, <2>1, <2>2 DEF Thread, TypeOK, Own, Grants, Busy
    <2> QED BY <2>3, <2>4, <2>5, <2>6 DEF ServiceInv
  <1>13. ASSUME NEW id \in Id, ClientPuts(id) \/ ClientTakes(id) PROVE ServiceInv'
    <2>1. TypeOK' /\ NoTerminate'
      BY <1>0, <1>13, ServiceAssumption
         DEF ClientPuts, ClientTakes, TypeOK, NoTerminate, sessionVars
    <2>2. \A i \in Id : inputFmq'[i] >= inputFmq[i] /\ outputFmq'[i] <= outputFmq[i]
      BY <1>0, <1>13, ServiceAssumption DEF ClientPuts, ClientTakes, TypeOK
    <2>3. ASSUME NEW i \in Id PROVE Own(i)'
      BY <1>0, <1>13 DEF ClientPuts, ClientTakes, Own, Busy, sessionVars
    <2>4. ASSUME NEW i \in Id PROVE Grants(i)'
      BY <1>0, <1>13, <2>1, <2>2, ServiceAssumption
         DEF ClientPuts, ClientTakes, Grants, TypeOK, sessionVars
    <2> QED BY <2>1, <2>3, <2>4 DEF ServiceInv
  <1> QED BY <1>1, <1>2, <1>3, <1>4, <1>5, <1>6, <1>7, <1>8, <1>9, <1>10, <1>11, <1>12, <1>13
          DEF Next, HandlerStep

(* The invariant holds in every reachable state. *)
LEMMA ServiceAlways == Spec => []ServiceInv
  BY ServiceStarts, ServiceKeeps, PTL DEF Spec

(* No processing thread of the service outlives its session, whatever      *)
(* start, stop, close and the destructor do and wherever the thread is.    *)
THEOREM ThreadsNeverOutlive == Spec => []ThreadsOwned
  <1>1. ServiceInv => ThreadsOwned
    BY DEF ServiceInv, Own, ThreadsOwned
  <1> QED BY <1>1, ServiceAlways, PTL

(* The service never assigns to or destroys a joinable std::thread. *)
THEOREM NeverTerminates == Spec => []NoTerminate
  <1>1. ServiceInv => NoTerminate
    BY DEF ServiceInv
  <1> QED BY <1>1, ServiceAlways, PTL

(* Between calls queryState reports STARTED exactly for the sessions that  *)
(* a thread serves.                                                        *)
THEOREM StateQueriesTruthful == Spec => []StateIsTruthful
  <1>1. ServiceInv => StateIsTruthful
    BY DEF ServiceInv, TypeOK, Own, Busy, Idle, StateIsTruthful
  <1> QED BY <1>1, ServiceAlways, PTL

(* A read or write of the processing loop that was found possible succeeds *)
(* although the client uses the queues in between.                         *)
THEOREM TransfersNeverFail == Spec => []TransfersSucceed
  <1>1. ServiceInv => TransfersSucceed
    BY DEF ServiceInv, Grants, TransfersSucceed
  <1> QED BY <1>1, ServiceAlways, PTL
=============================================================================
