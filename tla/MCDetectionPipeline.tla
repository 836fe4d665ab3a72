-------------------------- MODULE MCDetectionPipeline --------------------------
(***************************************************************************)
(* TLC instance of DetectionPipeline: the scripts of the traffic and the   *)
(* logarithms.                                                             *)
(***************************************************************************)
EXTENDS DetectionPipeline

\* v * log2(v) in thousandths of a bit, up to the 102 records that a window of
\* 5 s holds when requests are 0.1 s apart.
Logarithms ==
  <<0, 2000, 4755, 8000, 11610, 15510, 19651, 24000, 28529, 33219, 38054,
    43020, 48106, 53303, 58603, 64000, 69487, 75059, 80711, 86439, 92239,
    98107, 104042, 110039, 116096, 122211, 128382, 134606, 140881, 147207,
    153580, 160000, 166465, 172974, 179525, 186117, 192750, 199421, 206131,
    212877, 219660, 226477, 233329, 240215, 247133, 254084, 261066, 268078,
    275121, 282193, 289294, 296423, 303580, 310764, 317975, 325212, 332475,
    339763, 347076, 354413, 361775, 369160, 376569, 384000, 391454, 398930,
    406428, 413947, 421488, 429050, 436632, 444235, 451857, 459500, 467161,
    474842, 482543, 490261, 497999, 505754, 513528, 521319, 529128, 536955,
    544798, 552659, 560536, 568430, 576340, 584267, 592209, 600168, 608142,
    616131, 624136, 632156, 640192, 648242, 656306, 664386, 672479, 680587>>

Modbus(fn) == [protocol |-> "Modbus", fn |-> fn, addr |-> 10, val |-> 1]

IEC104(type) == [protocol |-> "IEC104", fn |-> type, addr |-> 0, val |-> 0]

Phase(cmd, count, delays, pauses) ==
  [cmd |-> cmd, count |-> count, delays |-> delays, pauses |-> pauses]

\* The release of the safety coil, as the scripts send it.
Release == [protocol |-> "Modbus", fn |-> 5, addr |-> 65535, val |-> 0]

\* exec_demo.sh: the release and scenarios 1 to 3 with their counts and delays,
\* and one prompt that the reader of the logs answers after a minute.
DemoWithPause ==
  <<Phase(Release, 1, {0}, {0}), Phase(Modbus(3), 5, {10}, {0}),
    Phase(Modbus(8), 5, {5}, {0}), Phase(Modbus(5), 20, {1}, {600})>>

\* The same with every prompt answered at once: after the release the script
\* sleeps for a second, and each request is as late or early as the API's jitter.
DemoFromReset ==
  <<Phase(Release, 1, {0}, {0}), Phase(Modbus(3), 5, {9, 10, 11}, {0}),
    Phase(Modbus(8), 5, {5}, {5}), Phase(Modbus(5), 20, {1}, {29})>>

\* Scenarios 1 to 3 without the release, with the script's own sleeps and the
\* jitter of the API on the reads; the last prompt is answered at once or after
\* 35 s.  Then someone writes on, whom the lock may stop, the operator reads,
\* more slowly, and in the end once more after a silence.
DemoInTime ==
  <<Phase(Modbus(3), 3, {10}, {0}), Phase(Modbus(3), 2, {9, 11}, {0}),
    Phase(Modbus(8), 5, {5}, {5}), Phase(Modbus(5), 20, {1}, {29, 379}),
    Phase(Modbus(6), 3, {5}, {4}),
    Phase(Modbus(3), 4, {10, 14, 17}, {0, 8}), Phase(Modbus(3), 5, {1}, {70})>>

\* What the theorems of DetectionPipelineProofs ask of a script: those about the
\* flood of DemoInTime, the one about catching up of DemoFromReset.
ASSUME DemoAssumption ==
  /\ Script = DemoInTime =>
       /\ FitsTable(1)
       /\ KeepsUp(Len(Script), FALSE)
       /\ \A p \in 1..Len(Script) : p # Flood => Brisk(p, TRUE)
       /\ NeverEngages(Flood)
       /\ DenseFlood(4, 1, 1, 10, 10)
       /\ WarmsUp(<<0, 3, 5, 10>>, 4, 1)
  /\ Script = DemoFromReset => KeepsUp(Len(Script), TRUE)

\* PRISM/docs/testing.md, scenario A.
SlowPolling == <<Phase(IEC104(1), 5, {20}, {0})>>
=============================================================================
