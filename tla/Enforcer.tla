------------------------------- MODULE Enforcer -------------------------------
(***************************************************************************)
(* prism::enforcement::EnforcementEngine (src/PRISM/src/enforcement/       *)
(* enforcer.cpp): apply and sendSafetyCoil.  apply runs in PRISM's packet  *)
(* loop, which waits for it: connect and write are the points where the    *)
(* rest of the world moves on, and so are steps of their own.              *)
(***************************************************************************)
VARIABLES
  locked,   \* locked_
  at,       \* where the loop is: outside apply, or before connect or write
  report    \* what the last call of apply returned

Places == {"outside", "connect", "write"}

Reports == {"none", "Monitoring only", "Alert operators",
            "Escalation without restriction", "Write-lock ENGAGED",
            "Write-lock FAILED", "Write-lock active (already engaged)"}

EnforcerTypeOK ==
  /\ locked \in BOOLEAN
  /\ at \in Places
  /\ report \in Reports

\* A fresh process: also what a restart of PRISM comes back to.
EnforcerInit ==
  /\ locked = FALSE
  /\ at = "outside"
  /\ report = "none"

\* Mutant: the signal is sent at every HIGH evaluation.
NeedsSignal_EachTime(d) == d.level = "High" /\ d.restrictWrites

\* Mutant: a failed signal is not tried again, it counts as engaged.
NeedsSignal_Once(d) ==
  /\ d.level = "High" /\ d.restrictWrites /\ ~locked
  /\ report \notin {"Write-lock FAILED", "Write-lock active (already engaged)"}

\* HIGH with restriction, and not locked yet.
NeedsSignal(d) == d.level = "High" /\ d.restrictWrites /\ ~locked

\* Mutant: the Medium case is missing and falls to the last return.
ReportFor_NoMedium(d) ==
  CASE d.level = "Low"    -> "Monitoring only"
    [] d.level = "Medium" -> ""
    [] d.level = "High"   -> "Write-lock active (already engaged)"

\* The strings apply returns without sending the signal.
ReportFor(d) ==
  CASE d.level = "Low"    -> "Monitoring only"
    [] d.level = "Medium" -> "Alert operators"
    [] d.level = "High"   -> IF d.restrictWrites
                             THEN "Write-lock active (already engaged)"
                             ELSE "Escalation without restriction"

\* apply returns at once.
ApplyReports(d) ==
  /\ at = "outside"
  /\ ~NeedsSignal(d)
  /\ report' = ReportFor(d)
  /\ UNCHANGED <<locked, at>>

\* apply calls sendSafetyCoil(0xFF00), which opens a socket.
ApplySignals(d) ==
  /\ at = "outside"
  /\ NeedsSignal(d)
  /\ at' = "connect"
  /\ UNCHANGED <<locked, report>>

ConnectSucceeds ==
  /\ at = "connect"
  /\ at' = "write"
  /\ UNCHANGED <<locked, report>>

\* write took all twelve bytes: apply returns without reading the answer.
WriteSucceeds ==
  /\ at = "write"
  /\ locked' = TRUE
  /\ report' = "Write-lock ENGAGED"
  /\ at' = "outside"

\* Mutant: the result of sendSafetyCoil is ignored.
SignalFails_Ignored(where) ==
  /\ at = where
  /\ report' = "Write-lock FAILED"
  /\ at' = "outside"
  /\ locked' = TRUE

\* sendSafetyCoil returns false from where the loop is.
SignalFails(where) ==
  /\ at = where
  /\ report' = "Write-lock FAILED"
  /\ at' = "outside"
  /\ UNCHANGED locked
=============================================================================
