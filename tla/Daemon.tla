------------------------------- MODULE Daemon -------------------------------
(***************************************************************************)
(* The effectd process: main and the signal handling of                    *)
(* effectd/src/main.c, and what init does with it as effectd.rc says.      *)
(*                                                                         *)
(* Main and signal_handler both call syslog, which in the C library holds  *)
(* a lock that is not recursive (and which POSIX does not allow in a       *)
(* handler).  There is one thread, so the holder of the lock is code that  *)
(* a handler interrupted, and it cannot go on before that handler returns. *)
(***************************************************************************)
VARIABLES pc,            \* main: "down", "setup", "ready", "loop", "sleep", "closing", "bye"
          keep_running,
          handled,       \* the signals whose default action was replaced
          pending,       \* signals sent and not delivered
          active,        \* signals whose handler has entered syslog and not returned
          cause          \* history: what ended the last process

vars == <<pc, keep_running, handled, pending, active, cause>>

Requests == {"TERM", "INT"}
Signals == Requests \cup {"PIPE"}

Init == /\ pc = "down" /\ keep_running = TRUE /\ handled = {} /\ pending = {}
        /\ active = {} /\ cause = "none"

(* Main is inside syslog or closelog. *)
MainLogs == pc \in {"ready", "closing"}

(* A handler waits for the lock that the code it interrupted holds: main,  *)
(* or the handler of the other signal.  Nothing but the end of the process *)
(* ends that.                                                              *)
Stuck == active # {} /\ (MainLogs \/ active = Requests)

-----------------------------------------------------------------------------
\* mutant: SIGPIPE keeps its default action
MutantSetup ==
    /\ pc = "setup" /\ active = {}
    /\ handled' = Requests /\ pc' = "ready"
    /\ UNCHANGED <<keep_running, pending, active, cause>>
(* setup_signal_handlers: TERM, then INT, then PIPE; then main logs that   *)
(* it is ready.                                                            *)
setup_signal_handlers ==
    /\ pc = "setup" /\ active = {}
    /\ handled' = CASE handled = {} -> {"TERM"}
                    [] handled = {"TERM"} -> Requests
                    [] OTHER -> Signals
    /\ pc' = IF handled' = Signals THEN "ready" ELSE "setup"
    /\ UNCHANGED <<keep_running, pending, active, cause>>

\* mutant: the flag is not looked at
MutantLoop ==
    /\ pc = "loop" /\ active = {}
    /\ pc' = "sleep"
    /\ UNCHANGED <<keep_running, handled, pending, active, cause>>
(* while (keep_running); after the loop main logs again *)
LoopTest ==
    /\ pc = "loop" /\ active = {}
    /\ pc' = IF keep_running THEN "sleep" ELSE "closing"
    /\ UNCHANGED <<keep_running, handled, pending, active, cause>>

(* sleep(1) ends after a second; a signal handler ends it sooner. *)
SleepEnds ==
    /\ pc = "sleep" /\ active = {}
    /\ pc' = "loop"
    /\ UNCHANGED <<keep_running, handled, pending, active, cause>>

(* Main's syslog (and closelog) return. *)
Logged ==
    /\ MainLogs /\ active = {}
    /\ pc' = IF pc = "ready" THEN "loop" ELSE "bye"
    /\ UNCHANGED <<keep_running, handled, pending, active, cause>>

(* The process ends, for whatever reason. *)
Ends(why) ==
    /\ pc' = "down" /\ cause' = why
    /\ keep_running' = TRUE /\ handled' = {} /\ pending' = {} /\ active' = {}

Return == pc = "bye" /\ active = {} /\ Ends("return")

(* A signal is delivered: it ends the process if nobody handles it, is     *)
(* ignored if it is SIGPIPE, and otherwise interrupts whatever runs and    *)
(* enters signal_handler.  While its own handler runs it is blocked, as    *)
(* signal() has it; the other one is not.                                  *)
Deliver(s) ==
    /\ pc # "down" /\ s \in pending \ active
    /\ \/ s \notin handled /\ Ends(s)
       \/ /\ s \in handled
          /\ pending' = pending \ {s}
          /\ active' = active \cup ({s} \cap Requests)
          /\ UNCHANGED <<pc, keep_running, handled, cause>>

(* Once it has logged, signal_handler clears the flag and returns, and a   *)
(* sleep it interrupted ends.                                              *)
signal_handler(s) ==
    /\ s \in active /\ ~Stuck
    /\ keep_running' = FALSE
    /\ active' = active \ {s}
    /\ pc' = IF pc = "sleep" THEN "loop" ELSE pc
    /\ UNCHANGED <<handled, pending, cause>>

-----------------------------------------------------------------------------
(* External: somebody sends a signal; the effect library crashes. *)
Send(s) ==
    /\ pc # "down"
    /\ pending' = pending \cup {s}
    /\ UNCHANGED <<pc, keep_running, handled, active, cause>>

Crash == pc # "down" /\ Ends("crash")

(* External: init starts the service again, whatever ended it. *)
InitStarts ==
    /\ pc = "down" /\ pc' = "setup"
    /\ UNCHANGED <<keep_running, handled, pending, active, cause>>

MainStep == setup_signal_handlers \/ LoopTest \/ SleepEnds \/ Logged \/ Return

Next == \/ MainStep \/ Crash \/ InitStarts
        \/ \E s \in Signals : Deliver(s) \/ signal_handler(s) \/ Send(s)

Spec == Init /\ [][Next]_vars

(* The thread runs, the kernel delivers what is pending, and signals do    *)
(* not come so fast that main never gets on between two of them; nobody is *)
(* obliged to send one.                                                    *)
FairSpec == /\ Spec /\ SF_vars(MainStep)
            /\ \A s \in Signals : WF_vars(Deliver(s)) /\ WF_vars(signal_handler(s))

-----------------------------------------------------------------------------
(* A request to stop ends effectd, whenever it comes: during the set-up,   *)
(* or between the test of keep_running and sleep, where it interrupts      *)
(* nothing.  There is one exception, the handler that waits for the lock   *)
(* of a syslog it interrupted (main.c 11 against 11, 35, 44 and 45).       *)
ShutsDown == \A s \in Requests : s \in pending ~> (pc = "down" \/ Stuck)

(* Once main has installed the handlers no signal of the three ends the    *)
(* process directly: a write to a closed pipe does not stop it, and a      *)
(* request to stop makes main return.                                      *)
NoSignalKills ==
    [][(pc \notin {"down", "setup"} /\ pc' = "down") => cause' \notin Signals]_vars
=============================================================================
