------------------------------ MODULE WriteLock ------------------------------
(***************************************************************************)
(* What PRISM's enforcement and the simulated PLC promise together, without *)
(* sockets, queues and clients: docs/theory.md:139 and the two handlers     *)
(* that carry it (enforcer.cpp:18-43, server.cpp:54-70).  SafetyLock        *)
(* implements it.                                                           *)
(***************************************************************************)
CONSTANT Signals    \* the engage signals PRISM may send

VARIABLES
  threat,     \* is the escalation on
  signalled,  \* does the running PRISM consider the lock engaged
  pending,    \* signals sent that have not taken effect
  lock        \* does the PLC refuse writes

vars == <<threat, signalled, pending, lock>>

Init ==
  /\ threat = FALSE
  /\ signalled = FALSE
  /\ pending = {}
  /\ lock = FALSE

\* The hysteresis of the risk model, whose scores are not looked at here.
Evaluate ==
  /\ threat' \in BOOLEAN
  /\ UNCHANGED <<signalled, pending, lock>>

\* Only an escalation is signalled, and by one signal.  It may get lost on the
\* way to a PLC that has died.
Signal(s) ==
  /\ threat
  /\ ~signalled
  /\ s \notin pending
  /\ signalled' = TRUE
  /\ pending' \in {pending, pending \cup {s}}
  /\ UNCHANGED <<threat, lock>>

\* The only way the lock engages: a signal takes effect, once.
Engage(s) ==
  /\ s \in pending
  /\ pending' = pending \ {s}
  /\ lock' = TRUE
  /\ UNCHANGED <<threat, signalled>>

\* The operator's release leaves what is under way alone.
Release ==
  /\ lock' = FALSE
  /\ UNCHANGED <<threat, signalled, pending>>

\* PRISM is started again; its signals are still under way.
MonitorRestarts ==
  /\ threat' = FALSE
  /\ signalled' = FALSE
  /\ UNCHANGED <<pending, lock>>

\* The PLC forgets its lock and what it has not read.
PlantDies ==
  /\ pending' = {}
  /\ lock' = FALSE
  /\ UNCHANGED <<threat, signalled>>

Next ==
  \/ Evaluate
  \/ \E s \in Signals : Signal(s) \/ Engage(s)
  \/ Release
  \/ MonitorRestarts
  \/ PlantDies

Spec == Init /\ [][Next]_vars
=============================================================================
