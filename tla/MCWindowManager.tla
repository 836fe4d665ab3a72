--------------------------- MODULE MCWindowManager ---------------------------
(***************************************************************************)
(* TLC instance of WindowManager.  One tick is 500 ms, so that a record    *)
(* can fall between two window ends: the window of 5000 ms is 10 ticks and *)
(* the step of 1000 ms is 2.                                               *)
(***************************************************************************)
EXTENDS WindowManager

CONSTANTS
  MaxTime,      \* bound: the last instant a record can carry
  MaxRecords    \* bound: number of records accepted in a behaviour

MCTimestamps == 0..MaxTime

MCArrivals == 1..MaxRecords
=============================================================================
