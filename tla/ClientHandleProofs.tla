------------------------- MODULE ClientHandleProofs -------------------------
(***************************************************************************)
(* No failure of EffectClient_Open leaks or releases twice, for any number *)
(* of processes and in all three builds.                                   *)
(***************************************************************************)
EXTENDS ClientHandle, TLAPS

FmqParts == {"inCtx", "inQueue", "outCtx", "outQueue"}
ShmSteps == {"memfd", "shm_open", "shm_unlink", "ftruncate", "mmap"}

(* What a process holds before each step of EffectClient_Open, apart from  *)
(* the eventfds.                                                           *)
Needs(step) ==
    CASE step = "none" -> {}
      [] step \in {"memfd", "shm_open", "inCtx"} -> {"session"}
      [] step \in {"shm_unlink", "ftruncate", "mmap"} -> {"session", "shmFd"}
      [] step = "inQueue" -> {"session", "inCtx"}
      [] step = "outCtx" -> {"session", "inCtx", "inQueue"}
      [] step = "outQueue" -> {"session", "inCtx", "inQueue", "outCtx"}
      [] OTHER -> {"session"} \cup Data

(* A process is at a step of its build and holds exactly what the steps    *)
(* before it acquire; only the eventfds may be missing.                    *)
Exact(p) ==
    /\ at[p] \in FmqParts => build # "shm"
    /\ at[p] \in ShmSteps => build = "shm"
    /\ at[p] # "aborted" => held[p] \ EventFds = Needs(at[p])
    /\ at[p] \notin {"eventFdOut", "check", "open", "aborted"} => held[p] \cap EventFds = {}
    /\ at[p] = "eventFdOut" => "eventFdOut" \notin held[p]
    /\ at[p] = "open" => EventFds \subseteq held[p]

HandleInv == TypeOK /\ NoDoubleFree /\ \A p \in Process : Exact(p)

(* What a step of p does not touch stays exact. *)
LEMMA OthersExact ==
    ASSUME HandleInv, UNCHANGED build, NEW p \in Process,
           NEW x, NEW S, at' = [at EXCEPT ![p] = x], held' = [held EXCEPT ![p] = S]
    PROVE  /\ \A q \in Process \ {p} : Exact(q)'
           /\ at'[p] = x /\ held'[p] = S
  <1>1. at'[p] = x /\ held'[p] = S
    BY DEF HandleInv, TypeOK
  <1>2. ASSUME NEW q \in Process \ {p} PROVE Exact(q)'
    <2>1. at'[q] = at[q] /\ held'[q] = held[q] /\ Exact(q)
      BY DEF HandleInv, TypeOK
    <2> QED BY <2>1 DEF Exact, Needs, Data
  <1> QED BY <1>1, <1>2

(* A step that acquires r and goes on keeps the invariant if it leaves p   *)
(* exact.                                                                  *)
LEMMA AcquireKeeps ==
    ASSUME HandleInv, NEW p \in Process, NEW r \in Resource, NEW next \in Step,
           Acquire(p, r, next), UNCHANGED build,
           shmName' \in BOOLEAN, orphaned' \in BOOLEAN,
           at'[p] = next /\ held'[p] = held[p] \cup {r} => Exact(p)'
    PROVE  HandleInv'
  <1>1. /\ at' = [at EXCEPT ![p] = next] /\ held' = [held EXCEPT ![p] = held[p] \cup {r}]
        /\ doubleFree' = doubleFree
    BY DEF Acquire, Goto
  <1>2. TypeOK' /\ NoDoubleFree'
    BY <1>1 DEF HandleInv, TypeOK, NoDoubleFree
  <1>3. /\ \A q \in Process \ {p} : Exact(q)'
        /\ at'[p] = next /\ held'[p] = held[p] \cup {r}
    BY <1>1, OthersExact
  <1> QED BY <1>2, <1>3 DEF HandleInv

(* A step that only moves p to another step keeps the invariant if it      *)
(* leaves p exact.                                                         *)
LEMMA GotoKeeps ==
    ASSUME HandleInv, NEW p \in Process, NEW next \in Step,
           Goto(p, next), UNCHANGED <<build, held, doubleFree>>,
           shmName' \in BOOLEAN, orphaned' \in BOOLEAN,
           at'[p] = next /\ held'[p] = held[p] => Exact(p)'
    PROVE  HandleInv'
  <1>1. at' = [at EXCEPT ![p] = next] /\ held' = [held EXCEPT ![p] = held[p]]
    BY DEF Goto, HandleInv, TypeOK
  <1>2. TypeOK' /\ NoDoubleFree'
    BY <1>1 DEF HandleInv, TypeOK, NoDoubleFree
  <1>3. /\ \A q \in Process \ {p} : Exact(q)'
        /\ at'[p] = next /\ held'[p] = held[p]
    BY <1>1, OthersExact
  <1> QED BY <1>2, <1>3 DEF HandleInv

(* Releasing exactly what is held ends the call with nothing. *)
LEMMA FreeKeeps ==
    ASSUME HandleInv, NEW p \in Process, NEW S, S = held[p], Free(p, S), UNCHANGED build,
           shmName' \in BOOLEAN, orphaned' \in BOOLEAN
    PROVE  HandleInv'
  <1>1. /\ at' = [at EXCEPT ![p] = "none"] /\ held' = [held EXCEPT ![p] = {}]
        /\ doubleFree' = FALSE
    BY DEF Free, Goto, HandleInv, TypeOK, NoDoubleFree
  <1>2. TypeOK' /\ NoDoubleFree'
    BY <1>1 DEF HandleInv, TypeOK, NoDoubleFree, Step
  <1>3. /\ \A q \in Process \ {p} : Exact(q)'
        /\ at'[p] = "none" /\ held'[p] = {}
    BY <1>1, OthersExact
  <1>4. Exact(p)'
    BY <1>3 DEF Exact, Needs, FmqParts, ShmSteps, EventFds
  <1> QED BY <1>2, <1>3, <1>4 DEF HandleInv

-----------------------------------------------------------------------------
(* What Open releases when the acquisition of a step fails is what it      *)
(* holds before that step.                                                 *)
LEMMA ReleasedIsHeld ==
    ASSUME HandleInv, NEW p \in Process,
           at[p] \in FmqParts \cup {"shm_open", "ftruncate", "mmap"}
    PROVE  Released(at[p]) = held[p]
  <1>1. held[p] \ EventFds = Needs(at[p]) /\ held[p] \cap EventFds = {}
    BY DEF HandleInv, Exact, FmqParts
  <1>2. Released(at[p]) = Needs(at[p])
    BY DEF Released, Needs, Fmq, FmqParts
  <1> QED BY <1>1, <1>2

(* The two calls of effect_fmq_create make up the parts of both queues. *)
LEMMA NewSteps == Fmq("in") \cup Fmq("out") = FmqParts
  BY DEF Fmq, FmqParts

(* What carries the audio in each build. *)
LEMMA DataParts == Data = IF build = "shm" THEN {"shmAddr", "shmFd"} ELSE FmqParts
  BY NewSteps DEF Data

(* The handle starts with nothing acquired. *)
LEMMA InitExact == Init => HandleInv
  BY DEF Init, HandleInv, TypeOK, NoDoubleFree, Exact, Needs, FmqParts, ShmSteps,
         EventFds, Step

(* Every acquisition, failure, release and death keeps what is held exact. *)
LEMMA StepExact == HandleInv /\ [Next]_vars => HandleInv'
  <1> SUFFICES ASSUME HandleInv, [Next]_vars PROVE HandleInv'
    OBVIOUS
  <1>0. TypeOK /\ \A q \in Process : Exact(q)
    BY DEF HandleInv
  <1> DEFINE Same == UNCHANGED <<build, shmName, orphaned>>
  <1>t. Same => /\ UNCHANGED build /\ shmName' \in BOOLEAN
                /\ orphaned' \in BOOLEAN
    BY <1>0 DEF TypeOK
  <1>2. CASE UNCHANGED vars
    BY <1>2 DEF vars, HandleInv, TypeOK, NoDoubleFree, Exact, Needs, Data
  <1>3. ASSUME NEW p \in Process, OpenSession(p) PROVE HandleInv'
    <2> DEFINE next == IF build = "shm" THEN "memfd" ELSE "inCtx"
    <2>1. at[p] = "none" /\ Acquire(p, "session", next) /\ Same
      BY <1>3 DEF OpenSession
    <2>2. at'[p] = next /\ held'[p] = held[p] \cup {"session"} => Exact(p)'
      BY <1>0, <2>1 DEF Exact, Needs, FmqParts, ShmSteps, EventFds
    <2>3. "session" \in Resource /\ next \in Step
      BY DEF Resource, Step, Fmq
    <2> QED BY <2>1, <2>2, <2>3, <1>t, AcquireKeeps
  <1>4. ASSUME NEW p \in Process, New(p) PROVE HandleInv'
    <2>1. at[p] \in FmqParts /\ Acquire(p, at[p], After(at[p])) /\ Same
      BY <1>4, NewSteps DEF New
    <2>2. at'[p] = After(at[p]) /\ held'[p] = held[p] \cup {at[p]} => Exact(p)'
      <3> SUFFICES ASSUME at'[p] = After(at[p]), held'[p] = held[p] \cup {at[p]}
                   PROVE  Exact(p)'
        OBVIOUS
      <3>1. /\ build # "shm" /\ build' = build /\ held[p] \cap EventFds = {}
            /\ held[p] \ EventFds = Needs(at[p])
        BY <1>0, <2>1 DEF Exact, FmqParts
      <3>2. CASE at[p] = "inCtx"
        BY <3>1, <3>2 DEF Exact, Needs, After, FmqParts, ShmSteps, EventFds
      <3>3. CASE at[p] = "inQueue"
        BY <3>1, <3>3 DEF Exact, Needs, After, FmqParts, ShmSteps, EventFds
      <3>4. CASE at[p] = "outCtx"
        BY <3>1, <3>4 DEF Exact, Needs, After, FmqParts, ShmSteps, EventFds
      <3>5. CASE at[p] = "outQueue"
        <4>1. at'[p] = "eventFdIn" /\ Data' = FmqParts
          BY <3>1, <3>5, NewSteps DEF After, Data
        <4>2. held'[p] = {"session"} \cup FmqParts /\ held'[p] \cap EventFds = {}
          BY <3>1, <3>5 DEF Needs, FmqParts, EventFds
        <4> QED BY <4>1, <4>2, <3>1 DEF Exact, Needs, FmqParts, ShmSteps, EventFds
      <3> QED BY <2>1, <3>2, <3>3, <3>4, <3>5 DEF FmqParts
    <2>3. at[p] \in Resource /\ After(at[p]) \in Step
      BY <2>1, NewSteps DEF Resource, Step, FmqParts, After, EventFds
    <2> QED BY <2>1, <2>2, <2>3, <1>t, AcquireKeeps
  <1>5. ASSUME NEW p \in Process, NewFails(p) PROVE HandleInv'
    <2>1. at[p] \in FmqParts /\ Same
      BY <1>5, NewSteps DEF NewFails
    <2>2. CASE build = "android"
      BY <1>5, <2>1, <2>2, <1>t, ReleasedIsHeld, FreeKeeps DEF NewFails
    <2>3. CASE build # "android"
      <3>1. Goto(p, "aborted") /\ UNCHANGED <<held, doubleFree>>
        BY <1>5, <2>3 DEF NewFails
      <3>2. at'[p] = "aborted" => Exact(p)'
        BY DEF Exact, FmqParts, ShmSteps
      <3>3. "aborted" \in Step
        BY DEF Step
      <3> QED BY <2>1, <3>1, <3>2, <3>3, <1>t, GotoKeeps
    <2> QED BY <2>2, <2>3
  <1>6. ASSUME NEW p \in Process, MemfdCreate(p) PROVE HandleInv'
    <2>1. at[p] = "memfd" /\ Acquire(p, "shmFd", "ftruncate") /\ Same
      BY <1>6 DEF MemfdCreate
    <2>2. at'[p] = "ftruncate" /\ held'[p] = held[p] \cup {"shmFd"} => Exact(p)'
      BY <1>0, <2>1 DEF Exact, Needs, FmqParts, ShmSteps, EventFds
    <2>3. "shmFd" \in Resource /\ "ftruncate" \in Step
      BY DEF Resource, Step
    <2> QED BY <2>1, <2>2, <2>3, <1>t, AcquireKeeps
  <1>7. ASSUME NEW p \in Process, MemfdFails(p) PROVE HandleInv'
    <2>1. at[p] = "memfd" /\ Goto(p, "shm_open") /\ Same /\ UNCHANGED <<held, doubleFree>>
      BY <1>7 DEF MemfdFails
    <2>2. at'[p] = "shm_open" /\ held'[p] = held[p] => Exact(p)'
      BY <1>0, <2>1 DEF Exact, Needs, FmqParts, ShmSteps, EventFds
    <2>3. "shm_open" \in Step
      BY DEF Step
    <2> QED BY <2>1, <2>2, <2>3, <1>t, GotoKeeps
  <1>8. ASSUME NEW p \in Process, ShmOpen(p) PROVE HandleInv'
    <2>1. /\ at[p] = "shm_open" /\ Acquire(p, "shmFd", "shm_unlink") /\ UNCHANGED build
          /\ shmName' \in BOOLEAN /\ orphaned' \in BOOLEAN
      BY <1>0, <1>8 DEF ShmOpen, TypeOK
    <2>2. at'[p] = "shm_unlink" /\ held'[p] = held[p] \cup {"shmFd"} => Exact(p)'
      BY <1>0, <2>1 DEF Exact, Needs, FmqParts, ShmSteps, EventFds
    <2>3. "shmFd" \in Resource /\ "shm_unlink" \in Step
      BY DEF Resource, Step
    <2> QED BY <2>1, <2>2, <2>3, AcquireKeeps
  <1>9. ASSUME NEW p \in Process, ShmOpenFails(p) PROVE HandleInv'
    <2>1. /\ at[p] = "shm_open" /\ Free(p, Released("shm_open")) /\ UNCHANGED build
          /\ shmName' \in BOOLEAN /\ orphaned' \in BOOLEAN
      BY <1>0, <1>9 DEF ShmOpenFails, TypeOK
    <2>2. Released("shm_open") = held[p]
      BY <2>1, ReleasedIsHeld
    <2> QED BY <2>1, <2>2, FreeKeeps
  <1>10. ASSUME NEW p \in Process, ShmUnlink(p) PROVE HandleInv'
    <2>1. /\ at[p] = "shm_unlink" /\ Goto(p, "ftruncate")
          /\ UNCHANGED <<build, held, doubleFree>>
          /\ shmName' \in BOOLEAN /\ orphaned' \in BOOLEAN
      BY <1>0, <1>10 DEF ShmUnlink, TypeOK
    <2>2. at'[p] = "ftruncate" /\ held'[p] = held[p] => Exact(p)'
      BY <1>0, <2>1 DEF Exact, Needs, FmqParts, ShmSteps, EventFds
    <2>3. "ftruncate" \in Step
      BY DEF Step
    <2> QED BY <2>1, <2>2, <2>3, GotoKeeps
  <1>11. ASSUME NEW p \in Process, Ftruncate(p) PROVE HandleInv'
    <2>1. at[p] = "ftruncate" /\ Same
      BY <1>11 DEF Ftruncate
    <2>2. CASE Free(p, Released("ftruncate"))
      BY <2>1, <2>2, <1>t, ReleasedIsHeld, FreeKeeps
    <2>3. CASE Goto(p, "mmap") /\ UNCHANGED <<held, doubleFree>>
      <3>1. at'[p] = "mmap" /\ held'[p] = held[p] => Exact(p)'
        BY <1>0, <2>1 DEF Exact, Needs, FmqParts, ShmSteps, EventFds
      <3>2. "mmap" \in Step
        BY DEF Step
      <3> QED BY <2>1, <2>3, <3>1, <3>2, <1>t, GotoKeeps
    <2> QED BY <1>11, <2>2, <2>3 DEF Ftruncate
  <1>12. ASSUME NEW p \in Process, Mmap(p) PROVE HandleInv'
    <2>1. at[p] = "mmap" /\ Same
      BY <1>12 DEF Mmap
    <2>2. CASE Free(p, Released("mmap"))
      BY <2>1, <2>2, <1>t, ReleasedIsHeld, FreeKeeps
    <2>3. CASE Acquire(p, "shmAddr", "eventFdIn")
      <3>1. ASSUME at'[p] = "eventFdIn", held'[p] = held[p] \cup {"shmAddr"}
            PROVE  Exact(p)'
        <4>1. /\ build = "shm" /\ build' = build /\ held[p] \cap EventFds = {}
              /\ held[p] \ EventFds = {"session", "shmFd"}
          BY <1>0, <2>1 DEF Exact, Needs, ShmSteps
        <4>2. held'[p] = {"session"} \cup {"shmAddr", "shmFd"} /\ held'[p] \cap EventFds = {}
          BY <3>1, <4>1 DEF EventFds
        <4>3. Data' = {"shmAddr", "shmFd"}
          BY <4>1 DEF Data
        <4> QED BY <3>1, <4>1, <4>2, <4>3 DEF Exact, Needs, FmqParts, ShmSteps, EventFds
      <3>2. "shmAddr" \in Resource /\ "eventFdIn" \in Step
        BY DEF Resource, Step, EventFds
      <3> QED BY <2>1, <2>3, <3>1, <3>2, <1>t, AcquireKeeps
    <2> QED BY <1>12, <2>2, <2>3 DEF Mmap
  <1>13. ASSUME NEW p \in Process, EventfdCreate(p) PROVE HandleInv'
    <2> DEFINE next == IF at[p] = "eventFdIn" THEN "eventFdOut" ELSE "check"
    <2>1. at[p] \in EventFds /\ Same
      BY <1>13 DEF EventfdCreate
    <2>2. at[p] \in Resource /\ next \in Step
      BY <2>1 DEF Resource, Step, EventFds
    <2>3. /\ held[p] \ EventFds = {"session"} \cup Data /\ Data' = Data
          /\ at[p] = "eventFdIn" => held[p] \cap EventFds = {}
      BY <1>0, <2>1 DEF Exact, Needs, EventFds, Data
    <2>4. ASSUME at'[p] = next, held'[p] \in {held[p], held[p] \cup {at[p]}}
          PROVE  Exact(p)'
      <3>1. held'[p] \ EventFds = {"session"} \cup Data'
        BY <2>1, <2>3, <2>4 DEF EventFds
      <3>2. at'[p] = "eventFdOut" => "eventFdOut" \notin held'[p]
        BY <2>1, <2>3, <2>4 DEF EventFds
      <3> QED BY <2>4, <3>1, <3>2 DEF Exact, Needs, FmqParts, ShmSteps
    <2>5. CASE Acquire(p, at[p], next)
      BY <2>1, <2>2, <2>4, <2>5, <1>t, AcquireKeeps
    <2>6. CASE Goto(p, next) /\ UNCHANGED <<held, doubleFree>>
      BY <2>1, <2>2, <2>4, <2>6, <1>t, GotoKeeps
    <2> QED BY <1>13, <2>5, <2>6 DEF EventfdCreate
  <1>14. ASSUME NEW p \in Process, OpenChecks(p) PROVE HandleInv'
    <2>1. /\ at[p] = "check" /\ Same
          /\ held[p] \ EventFds = {"session"} \cup Data
      BY <1>0, <1>14 DEF OpenChecks, Exact, Needs
    <2>2. CASE EventFds \subseteq held[p]
      <3>1. Goto(p, "open") /\ UNCHANGED <<held, doubleFree>>
        BY <1>14, <2>2 DEF OpenChecks
      <3>2. at'[p] = "open" /\ held'[p] = held[p] => Exact(p)'
        BY <2>1, <2>2 DEF Exact, Needs, FmqParts, ShmSteps, Data
      <3>3. "open" \in Step
        BY DEF Step
      <3> QED BY <2>1, <3>1, <3>2, <3>3, <1>t, GotoKeeps
    <2>3. CASE ~(EventFds \subseteq held[p])
      <3>1. Free(p, (EventFds \cap held[p]) \cup Data \cup {"session"})
        BY <1>14, <2>3 DEF OpenChecks
      <3>2. (EventFds \cap held[p]) \cup Data \cup {"session"} = held[p]
        BY <2>1
      <3> QED BY <2>1, <3>1, <3>2, <1>t, FreeKeeps
    <2> QED BY <2>2, <2>3
  <1>15. ASSUME NEW p \in Process, EffectClient_Close(p) PROVE HandleInv'
    <2>1. at[p] = "open" /\ Same /\ Free(p, EventFds \cup Data \cup {"session"})
      BY <1>15 DEF EffectClient_Close
    <2>2. held[p] \ EventFds = {"session"} \cup Data /\ EventFds \subseteq held[p]
      BY <1>0, <2>1 DEF Exact, Needs
    <2>3. EventFds \cup Data \cup {"session"} = held[p]
      BY <2>2
    <2> QED BY <2>1, <2>3, <1>t, FreeKeeps
  <1>16. ASSUME NEW p \in Process, Die(p) PROVE HandleInv'
    <2>1. /\ at' = [at EXCEPT ![p] = "none"] /\ held' = [held EXCEPT ![p] = {}]
          /\ orphaned' = (orphaned \/ at[p] = "shm_unlink")
          /\ UNCHANGED <<build, shmName, doubleFree>>
      BY <1>16 DEF Die, Goto
    <2>2. TypeOK' /\ NoDoubleFree'
      BY <2>1 DEF HandleInv, TypeOK, NoDoubleFree, Step
    <2>3. \A q \in Process \ {p} : Exact(q)' /\ at'[p] = "none" /\ held'[p] = {}
      BY <2>1, OthersExact
    <2>4. at'[p] = "none" /\ held'[p] = {}
      BY <2>1, <1>0 DEF TypeOK
    <2>5. Exact(p)'
      BY <2>4 DEF Exact, Needs, FmqParts, ShmSteps, EventFds
    <2> QED BY <2>2, <2>3, <2>5 DEF HandleInv
  <1> QED BY <1>2, <1>3, <1>4, <1>5, <1>6, <1>7, <1>8, <1>9, <1>10, <1>11, <1>12,
             <1>13, <1>14, <1>15, <1>16 DEF Next

(* In every reachable state a process holds what its step says. *)
LEMMA AlwaysExact == Spec => []HandleInv
  BY InitExact, StepExact, PTL DEF Spec

(* EffectClient_Open gives everything back on every path that fails, and   *)
(* EffectClient_Close gives back everything Open acquired, for any number  *)
(* of processes and in every build.                                        *)
THEOREM NothingLeaks == Spec => []NoLeak
  <1>1. HandleInv => NoLeak
    BY DEF HandleInv, Exact, Needs, NoLeak, EventFds
  <1> QED BY <1>1, AlwaysExact, PTL

(* No path of EffectClient_Open or _Close releases something twice. *)
THEOREM NothingFreedTwice == Spec => []NoDoubleFree
  <1>1. HandleInv => NoDoubleFree
    BY DEF HandleInv
  <1> QED BY <1>1, AlwaysExact, PTL

-----------------------------------------------------------------------------
(* A step that neither enters nor leaves the window between shm_open and   *)
(* shm_unlink leaves the name alone.                                       *)
LEMMA OutsideWindow ==
    ASSUME TypeOK, NameOwned, NEW p \in Process, at[p] # "shm_unlink",
           NEW next \in Step \ {"shm_unlink"}, Goto(p, next), UNCHANGED <<shmName, orphaned>>
    PROVE  NameOwned'
  <1>1. \A q \in Process : at'[q] = "shm_unlink" <=> at[q] = "shm_unlink"
    BY DEF Goto, TypeOK
  <1> QED BY <1>1 DEF NameOwned

(* The owner of the name changes hands one process at a time. *)
LEMMA NameStep == HandleInv /\ NameOwned /\ [Next]_vars => NameOwned'
  <1> SUFFICES ASSUME HandleInv, NameOwned, [Next]_vars PROVE NameOwned'
    OBVIOUS
  <1>0. TypeOK
    BY DEF HandleInv
  <1>1. CASE UNCHANGED vars
    BY <1>1 DEF vars, NameOwned
  <1>2. ASSUME NEW p \in Process, ShmOpen(p) PROVE NameOwned'
    <2>1. /\ ~shmName /\ shmName' /\ orphaned' = orphaned
          /\ at' = [at EXCEPT ![p] = "shm_unlink"]
      BY <1>2 DEF ShmOpen, Acquire, Goto
    <2>2. ~orphaned /\ \A q \in Process : at[q] # "shm_unlink"
      BY <2>1 DEF NameOwned
    <2>3. \A q \in Process : at'[q] = "shm_unlink" <=> q = p
      BY <1>0, <2>1, <2>2 DEF TypeOK
    <2> QED BY <2>1, <2>2, <2>3 DEF NameOwned
  <1>3. ASSUME NEW p \in Process, ShmUnlink(p) PROVE NameOwned'
    <2>1. /\ at[p] = "shm_unlink" /\ shmName' = FALSE /\ orphaned' = orphaned
          /\ at' = [at EXCEPT ![p] = "ftruncate"]
      BY <1>3 DEF ShmUnlink, Goto
    <2>2. ~orphaned /\ \A q \in Process : at[q] = "shm_unlink" => q = p
      BY <2>1 DEF NameOwned
    <2>3. \A q \in Process : at'[q] # "shm_unlink"
      BY <1>0, <2>1, <2>2 DEF TypeOK
    <2> QED BY <2>1, <2>2, <2>3 DEF NameOwned
  <1>4. ASSUME NEW p \in Process, Die(p) PROVE NameOwned'
    <2>1. /\ orphaned' = (orphaned \/ at[p] = "shm_unlink") /\ shmName' = shmName
          /\ Goto(p, "none") /\ at' = [at EXCEPT ![p] = "none"]
      BY <1>4 DEF Die, Goto
    <2>2. CASE at[p] = "shm_unlink"
      <3>1. shmName /\ \A q \in Process : at[q] = "shm_unlink" => q = p
        BY <2>2 DEF NameOwned
      <3>2. \A q \in Process : at'[q] # "shm_unlink"
        BY <1>0, <2>1, <3>1 DEF TypeOK
      <3> QED BY <2>1, <2>2, <3>1, <3>2 DEF NameOwned
    <2>3. CASE at[p] # "shm_unlink"
      <3>1. UNCHANGED <<shmName, orphaned>>
        BY <2>1, <2>3, <1>0 DEF TypeOK
      <3>2. "none" \in Step \ {"shm_unlink"}
        BY DEF Step
      <3> QED BY <1>0, <2>1, <2>3, <3>1, <3>2, OutsideWindow
    <2> QED BY <2>2, <2>3
  <1>5. ASSUME NEW p \in Process,
               \/ OpenSession(p) \/ New(p) \/ NewFails(p) \/ MemfdCreate(p)
               \/ MemfdFails(p) \/ ShmOpenFails(p) \/ Ftruncate(p) \/ Mmap(p)
               \/ EventfdCreate(p) \/ OpenChecks(p) \/ EffectClient_Close(p)
        PROVE  NameOwned'
    <2>1. at[p] # "shm_unlink" /\ UNCHANGED <<shmName, orphaned>>
      BY <1>5, NewSteps DEF FmqParts, EventFds, OpenSession, New, NewFails, MemfdCreate,
         MemfdFails, ShmOpenFails, Ftruncate, Mmap, EventfdCreate, OpenChecks,
         EffectClient_Close
    <2>2. PICK next \in Step \ {"shm_unlink"} : Goto(p, next)
      <3> DEFINE Away == {"none", "memfd", "inCtx", "inQueue", "outCtx", "outQueue",
                          "eventFdIn", "eventFdOut", "shm_open", "ftruncate", "mmap",
                          "check", "open", "aborted"}
      <3>1. Away \subseteq Step \ {"shm_unlink"}
        BY NewSteps DEF Step, FmqParts, EventFds
      <3>2. \E next \in Away : Goto(p, next)
        <4>1. CASE OpenSession(p) \/ MemfdCreate(p) \/ MemfdFails(p)
          BY <4>1 DEF OpenSession, MemfdCreate, MemfdFails, Acquire
        <4>2. CASE New(p) \/ NewFails(p)
          <5>1. After(at[p]) \in Away
            BY <4>2, NewSteps DEF New, NewFails, After, FmqParts
          <5> QED BY <4>2, <5>1 DEF New, NewFails, Acquire, Free
        <4>3. CASE ShmOpenFails(p) \/ Ftruncate(p) \/ Mmap(p)
          BY <4>3 DEF ShmOpenFails, Ftruncate, Mmap, Acquire, Free
        <4>4. CASE EventfdCreate(p) \/ OpenChecks(p) \/ EffectClient_Close(p)
          BY <4>4 DEF EventfdCreate, OpenChecks, EffectClient_Close, Acquire, Free
        <4> QED BY <1>5, <4>1, <4>2, <4>3, <4>4
      <3> QED BY <3>1, <3>2
    <2> QED BY <1>0, <2>1, <2>2, OutsideWindow
  <1> QED BY <1>1, <1>2, <1>3, <1>4, <1>5 DEF Next

(* However many processes open handles at once, and wherever they die, one *)
(* process at a time owns the name, unlinks only its own, and only a death *)
(* between shm_open and shm_unlink leaves it behind.                       *)
THEOREM NameHasOneOwner == Spec => []NameOwned
  <1>1. Init => NameOwned
    BY DEF Init, NameOwned
  <1> QED BY <1>1, NameStep, AlwaysExact, PTL DEF Spec
=============================================================================
