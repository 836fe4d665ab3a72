----------------------------- MODULE MCSafetyLock -----------------------------
(***************************************************************************)
(* TLC instance of SafetyLock: which requests the HMI's clients send and   *)
(* which probabilities the detectors' scores come to.                      *)
(***************************************************************************)
EXTENDS SafetyLock, TLC

Frame(fn, addr, val) == [function |-> fn, address |-> addr, value |-> val]

Write   == Frame(5, 10, 65280)
Release == Frame(5, 65535, 0)

\* A read, a write, the operator's release, a safety coil with a value that
\* means nothing, and a register write at the safety coil's address.
AllRequests ==
  {Frame(3, 10, 1), Write, Release, Frame(5, 65535, 1), Frame(6, 65535, 65280)}

\* A write and the release: the requests that meet the lock.
LockRequests == {Write, Release}

\* Below tauMedium, on tauOff, between the thresholds and on tauOn.
AllProbabilities == {30, 50, 60, 70}

\* Calm and attack.
TwoProbabilities == {30, 90}

ClientSymmetry == Permutations(Clients)
=============================================================================
