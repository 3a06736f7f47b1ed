---------------------------- MODULE ClientHandle ----------------------------
(***************************************************************************)
(* The resources of a client handle: EffectClient_Open and _Close of       *)
(* client/src/effect_client.c, with effect_fmq_create and _destroy         *)
(* (common/src/effect_fmq.cpp) and effect_shared_memory_create, _map and   *)
(* effect_eventfd_create (common/src/effect_shared_memory.c).  Any         *)
(* acquisition may fail.  Several processes open handles at the same time; *)
(* all they share is the namespace of shm_open.                            *)
(*                                                                         *)
(* The statistics mutex lies inside the session and needs no release of    *)
(* its own on Linux; the paths that fail do not destroy it.                *)
(***************************************************************************)
CONSTANT Process

VARIABLES build,       \* which of the three builds runs
          at,          \* per process: the next acquisition, or "none", "open", "aborted"
          held,        \* per process: the resources it holds
          shmName,     \* the name "effect_shm" exists
          doubleFree,  \* history: something was released that was not held
          orphaned     \* history: a process died while the name it created existed

vars == <<build, at, held, shmName, doubleFree, orphaned>>

Init == /\ build \in {"android", "fallback", "shm"}
        /\ at = [p \in Process |-> "none"]
        /\ held = [p \in Process |-> {}]
        /\ shmName = FALSE /\ doubleFree = FALSE /\ orphaned = FALSE

Goto(p, step) == at' = [at EXCEPT ![p] = step]

Acquire(p, r, next) ==
    /\ held' = [held EXCEPT ![p] = @ \cup {r}]
    /\ Goto(p, next)
    /\ UNCHANGED doubleFree

(* Release S, in any order, and end the call. *)
Free(p, S) ==
    /\ held' = [held EXCEPT ![p] = @ \ S]
    /\ doubleFree' = (doubleFree \/ ~(S \subseteq held[p]))
    /\ Goto(p, "none")

-----------------------------------------------------------------------------
(* A queue is a context and the MessageQueue, or byte array, inside it.    *)
Fmq(q) == CASE q = "in" -> {"inCtx", "inQueue"} [] q = "out" -> {"outCtx", "outQueue"}

Data == IF build = "shm" THEN {"shmAddr", "shmFd"} ELSE Fmq("in") \cup Fmq("out")
EventFds == {"eventFdIn", "eventFdOut"}

(* What has been released when EffectClient_Open returns because the       *)
(* acquisition of step failed, the clean-up inside effect_fmq_create and   *)
(* effect_shared_memory_create included.                                   *)
\* mutant: the file descriptor is forgotten when it cannot be mapped
MutantReleased(step) ==
    CASE step \in {"inCtx", "shm_open"} -> {"session"}
      [] step = "inQueue" -> {"inCtx", "session"}
      [] step = "outCtx" -> Fmq("in") \cup {"session"}
      [] step = "outQueue" -> {"outCtx", "session"} \cup Fmq("in")
      [] step = "ftruncate" -> {"shmFd", "session"}
      [] step = "mmap" -> {"session"}
\* mutant: Open destroys both queues when the second could not be created
MutantReleasedTwice(step) ==
    CASE step \in {"inCtx", "shm_open"} -> {"session"}
      [] step = "inQueue" -> {"inCtx", "session"}
      [] step \in {"outCtx", "outQueue"} -> Fmq("in") \cup Fmq("out") \cup {"session"}
      [] step \in {"ftruncate", "mmap"} -> {"shmFd", "session"}
Released(step) ==
    CASE step \in {"inCtx", "shm_open"} -> {"session"}
      [] step = "inQueue" -> {"inCtx", "session"}
      [] step = "outCtx" -> Fmq("in") \cup {"session"}
      [] step = "outQueue" -> {"outCtx", "session"} \cup Fmq("in")
      [] step \in {"ftruncate", "mmap"} -> {"shmFd", "session"}

(* calloc; when it fails nothing has happened *)
OpenSession(p) ==
    /\ at[p] = "none"
    /\ Acquire(p, "session", IF build = "shm" THEN "memfd" ELSE "inCtx")
    /\ UNCHANGED <<build, shmName, orphaned>>

(* effect_fmq_create: new of the context, then of the queue *)
After(step) == CASE step = "inCtx" -> "inQueue" [] step = "inQueue" -> "outCtx"
                 [] step = "outCtx" -> "outQueue" [] step = "outQueue" -> "eventFdIn"

New(p) ==
    /\ at[p] \in Fmq("in") \cup Fmq("out")
    /\ Acquire(p, at[p], After(at[p]))
    /\ UNCHANGED <<build, shmName, orphaned>>

(* new(std::nothrow) returns null on Android; elsewhere new throws, and    *)
(* nobody between it and the HAL catches.                                  *)
NewFails(p) ==
    /\ at[p] \in Fmq("in") \cup Fmq("out")
    /\ IF build = "android" THEN Free(p, Released(at[p]))
       ELSE Goto(p, "aborted") /\ UNCHANGED <<held, doubleFree>>
    /\ UNCHANGED <<build, shmName, orphaned>>

-----------------------------------------------------------------------------
(* effect_shared_memory_create.  Without a memfd it creates the name,      *)
(* which all clients use, exclusively, and then removes it.                *)
MemfdCreate(p) ==
    /\ at[p] = "memfd"
    /\ Acquire(p, "shmFd", "ftruncate")
    /\ UNCHANGED <<build, shmName, orphaned>>

MemfdFails(p) ==
    /\ at[p] = "memfd"
    /\ Goto(p, "shm_open")
    /\ UNCHANGED <<build, held, shmName, doubleFree, orphaned>>

\* mutant: shm_open without O_EXCL
MutantShmOpen(p) ==
    /\ at[p] = "shm_open"
    /\ shmName' = TRUE
    /\ Acquire(p, "shmFd", "shm_unlink")
    /\ UNCHANGED <<build, orphaned>>

ShmOpen(p) ==
    /\ at[p] = "shm_open" /\ ~shmName
    /\ shmName' = TRUE
    /\ Acquire(p, "shmFd", "shm_unlink")
    /\ UNCHANGED <<build, orphaned>>

ShmOpenFails(p) ==
    /\ at[p] = "shm_open"
    /\ Free(p, Released("shm_open"))
    /\ UNCHANGED <<build, shmName, orphaned>>

ShmUnlink(p) ==
    /\ at[p] = "shm_unlink"
    /\ shmName' = FALSE
    /\ Goto(p, "ftruncate")
    /\ UNCHANGED <<build, held, doubleFree, orphaned>>

Ftruncate(p) ==
    /\ at[p] = "ftruncate"
    /\ \/ Goto(p, "mmap") /\ UNCHANGED <<held, doubleFree>>
       \/ Free(p, Released("ftruncate"))
    /\ UNCHANGED <<build, shmName, orphaned>>

(* effect_shared_memory_map *)
Mmap(p) ==
    /\ at[p] = "mmap"
    /\ \/ Acquire(p, "shmAddr", "eventFdIn")
       \/ Free(p, Released("mmap"))
    /\ UNCHANGED <<build, shmName, orphaned>>

-----------------------------------------------------------------------------
(* Both eventfds are created before either is looked at. *)
EventfdCreate(p) ==
    /\ at[p] \in EventFds
    /\ LET next == IF at[p] = "eventFdIn" THEN "eventFdOut" ELSE "check"
       IN  \/ Acquire(p, at[p], next)
           \/ Goto(p, next) /\ UNCHANGED <<held, doubleFree>>
    /\ UNCHANGED <<build, shmName, orphaned>>

OpenChecks(p) ==
    /\ at[p] = "check"
    /\ IF EventFds \subseteq held[p]
       THEN Goto(p, "open") /\ UNCHANGED <<held, doubleFree>>
       ELSE Free(p, (EventFds \cap held[p]) \cup Data \cup {"session"})
    /\ UNCHANGED <<build, shmName, orphaned>>

EffectClient_Close(p) ==
    /\ at[p] = "open"
    /\ Free(p, EventFds \cup Data \cup {"session"})
    /\ UNCHANGED <<build, shmName, orphaned>>

(* External: the process ends, the kernel takes back what it held, and a   *)
(* new process may take its place.                                         *)
Die(p) ==
    /\ at[p] # "none"
    /\ Goto(p, "none") /\ held' = [held EXCEPT ![p] = {}]
    /\ orphaned' = (orphaned \/ at[p] = "shm_unlink")
    /\ UNCHANGED <<build, shmName, doubleFree>>

Next == \E p \in Process :
            \/ OpenSession(p) \/ New(p) \/ NewFails(p)
            \/ MemfdCreate(p) \/ MemfdFails(p) \/ ShmOpen(p) \/ ShmOpenFails(p)
            \/ ShmUnlink(p) \/ Ftruncate(p) \/ Mmap(p)
            \/ EventfdCreate(p) \/ OpenChecks(p)
            \/ EffectClient_Close(p) \/ Die(p)

Spec == Init /\ [][Next]_vars

-----------------------------------------------------------------------------
Resource == {"session", "shmFd", "shmAddr"} \cup Fmq("in") \cup Fmq("out") \cup EventFds
Step == {"none", "memfd", "shm_open", "shm_unlink", "ftruncate", "mmap", "check",
         "open", "aborted"} \cup Fmq("in") \cup Fmq("out") \cup EventFds

TypeOK ==
    /\ build \in {"android", "fallback", "shm"}
    /\ at \in [Process -> Step] /\ held \in [Process -> SUBSET Resource]
    /\ shmName \in BOOLEAN /\ doubleFree \in BOOLEAN
    /\ orphaned \in BOOLEAN

(* Whichever acquisition failed, EffectClient_Open gives everything back,  *)
(* and so does EffectClient_Close; an open handle has everything.          *)
NoLeak ==
    \A p \in Process :
        /\ at[p] = "none" => held[p] = {}
        /\ at[p] = "open" => held[p] = {"session"} \cup Data \cup EventFds

(* No path releases what was not acquired or was released already.         *)
NoDoubleFree == ~doubleFree

(* The name is the business of one process at a time: while it exists,     *)
(* exactly one process is about to unlink it, and what that process        *)
(* unlinks is its own; only a process that died in between leaves the name *)
(* behind, and then nobody ever gets that far again.                       *)
NameOwned ==
    /\ shmName <=> orphaned \/ \E p \in Process : at[p] = "shm_unlink"
    /\ \A p, q \in Process : at[p] = "shm_unlink" /\ at[q] = "shm_unlink" => p = q
    /\ orphaned => \A p \in Process : at[p] # "shm_unlink"
=============================================================================
