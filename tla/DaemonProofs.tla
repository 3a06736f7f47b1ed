---------------------------- MODULE DaemonProofs ----------------------------
(***************************************************************************)
(* effectd and its signals: past the set-up none of the three has its      *)
(* default action, in the first process or in one that init started.       *)
(***************************************************************************)
EXTENDS Daemon, TLAPS

(* Whoever ends the process takes the handlers with it, so each process    *)
(* starts with none; main leaves the set-up when it has installed all.     *)
HandledInv ==
    /\ pc \notin {"down", "setup"} => handled = Signals
    /\ pc = "down" => handled = {}

(* Every step keeps the handlers in place once the set-up is over.         *)
LEMMA HandledStep ==
    ASSUME HandledInv, [Next]_vars
    PROVE  HandledInv'
  <1>1. CASE setup_signal_handlers
    BY <1>1 DEF setup_signal_handlers, HandledInv
  <1>2. CASE LoopTest \/ SleepEnds \/ Logged
    BY <1>2 DEF LoopTest, SleepEnds, Logged, MainLogs, HandledInv
  <1>3. CASE Return \/ Crash
    BY <1>3 DEF Return, Crash, Ends, HandledInv
  <1>4. CASE InitStarts
    BY <1>4 DEF InitStarts, HandledInv
  <1>5. ASSUME NEW s \in Signals, Deliver(s) PROVE HandledInv'
    BY <1>5 DEF Deliver, Ends, HandledInv
  <1>6. ASSUME NEW s \in Signals, Send(s) PROVE HandledInv'
    BY <1>6 DEF Send, HandledInv
  <1>7. ASSUME NEW s \in Signals, signal_handler(s) PROVE HandledInv'
    BY <1>7 DEF signal_handler, HandledInv
  <1>8. CASE UNCHANGED vars
    BY <1>8 DEF vars, HandledInv
  <1> QED BY <1>1, <1>2, <1>3, <1>4, <1>5, <1>6, <1>7, <1>8 DEF Next, MainStep

(* Only the return of main and a crash end a process past its set-up:      *)
(* a signal is handled there, after any number of restarts.                *)
LEMMA LoopEnds ==
    ASSUME HandledInv, Next, pc \notin {"down", "setup"}, pc' = "down"
    PROVE  cause' \in {"return", "crash"}
  <1>1. CASE MainStep
    BY <1>1 DEF MainStep, setup_signal_handlers, LoopTest, SleepEnds, Logged, Return, Ends
  <1>2. CASE Crash
    BY <1>2 DEF Crash, Ends
  <1>3. CASE InitStarts
    BY <1>3 DEF InitStarts
  <1>4. ASSUME NEW s \in Signals, Deliver(s) PROVE FALSE
    BY <1>4 DEF Deliver, HandledInv
  <1>5. ASSUME NEW s \in Signals, Send(s) PROVE FALSE
    BY <1>5 DEF Send
  <1>6. ASSUME NEW s \in Signals, signal_handler(s) PROVE FALSE
    BY <1>6 DEF signal_handler
  <1> QED BY <1>1, <1>2, <1>3, <1>4, <1>5, <1>6 DEF Next

(* Once main of effectd has set its handlers no TERM, INT or PIPE ends the *)
(* process directly, whenever the signal comes and however often effectd   *)
(* was restarted.                                                          *)
THEOREM SignalsNeverKill == Spec => NoSignalKills
  <1>1. Init => HandledInv
    BY DEF Init, HandledInv
  <1>2. HandledInv /\ [Next]_vars => HandledInv'
    BY HandledStep
  <1>3. HandledInv /\ [Next]_vars =>
          [(pc \notin {"down", "setup"} /\ pc' = "down") => cause' \notin Signals]_vars
    BY LoopEnds DEF Signals, Requests
  <1> QED BY <1>1, <1>2, <1>3, PTL DEF Spec, NoSignalKills
=============================================================================
