------------------------------- MODULE MCHmiApi -------------------------------
(***************************************************************************)
(* TLC instance of HmiApi.                                                 *)
(***************************************************************************)
EXTENDS HmiApi

\* The connections the kernel queues for listen(fd, 1); the deeper queues of the
\* other two servers are cut to what two requests can fill.
ShortQueues == [s \in Servers |-> 1]
=============================================================================
