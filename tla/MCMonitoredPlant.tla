--------------------------- MODULE MCMonitoredPlant ---------------------------
(***************************************************************************)
(* TLC instance of MonitoredPlant: the commands of the demo and of the     *)
(* test scripts, and one of each kind at the edges.                        *)
(***************************************************************************)
EXTENDS MonitoredPlant, TLC

Modbus(fn, addr, val) ==
  [protocol |-> "Modbus", fn |-> fn, addr |-> addr, val |-> val]
Other(p, fn) == [protocol |-> p, fn |-> fn, addr |-> 0, val |-> 0]

\* Diagnostics, function 261, which narrows to a coil write, register write at an
\* address of two bytes, engage, release (with an address and a value that are
\* narrowed too), IEC104 command and one whose type narrows to 0, DNP3 unsolicited
\* response.
DemoCommands ==
  {Modbus(8, 10, 1), Modbus(261, 20, 1), Modbus(16, 300, 1),
   Modbus(5, 65535, 65280), Modbus(5, -1, 65536),
   Other("IEC104", 45), Other("IEC104", 256), Other("DNP3", 130)}

DNP3Commands == {Other("DNP3", 130)}

ClientSymmetry == Permutations(Clients)
=============================================================================
