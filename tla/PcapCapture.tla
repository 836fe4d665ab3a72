----------------------------- MODULE PcapCapture -----------------------------
(***************************************************************************)
(* prism::capture::PcapCapture (src/PRISM/src/capture/pcap.cpp): a libpcap *)
(* handle shared by the packet loop and the signal watcher.  The mutex     *)
(* covers the fields only; every libpcap call is made outside it, on a     *)
(* copy of the handle taken inside.  Each block under handle_mtx_ is one   *)
(* step, each libpcap call another.                                        *)
(*                                                                         *)
(* libpcap is external: packets wait in its ring, pcap_breakloop sets a    *)
(* flag that ends one pcap_next_ex, the running one or the next one.       *)
(***************************************************************************)
EXTENDS Integers

CONSTANT RingSize   \* bound: packets that wait in libpcap's ring

VARIABLES
  handle,     \* is handle_ set (the constructor sets it)
  active,     \* active_
  closed,     \* has pcap_close been called on the handle
  breakFlag,  \* libpcap: the flag pcap_breakloop sets
  ring        \* libpcap: packets captured and not yet read

CaptureTypeOK ==
  /\ handle \in BOOLEAN
  /\ active \in BOOLEAN
  /\ closed \in BOOLEAN
  /\ breakFlag \in BOOLEAN
  /\ ring \in 0..RingSize

\* The constructor has opened the device.
CaptureInit ==
  /\ handle = TRUE
  /\ active = TRUE
  /\ closed = FALSE
  /\ breakFlag = FALSE
  /\ ring = 0

-----------------------------------------------------------------------------
\* Blocks under the mutex

\* Mutant: active_ is not tested.
Usable_HandleOnly == handle

\* nextPacket and stop test the same two fields.
Usable == handle /\ active

\* stop, first half: copy the handle, clear active_.
StopDeactivates ==
  /\ Usable
  /\ active' = FALSE
  /\ UNCHANGED <<handle, closed, breakFlag, ring>>

\* ~PcapCapture, first half: take the handle away.
DestructorTakesHandle ==
  /\ handle' = FALSE
  /\ active' = FALSE
  /\ UNCHANGED <<closed, breakFlag, ring>>

-----------------------------------------------------------------------------
\* libpcap, on a copied handle

\* Mutant: the flag is not set.
Breakloop_Missing ==
  UNCHANGED <<handle, active, closed, breakFlag, ring>>

Breakloop ==
  /\ breakFlag' = TRUE
  /\ UNCHANGED <<handle, active, closed, ring>>

\* pcap_next_ex returns a packet; it may overlook the flag when one is there.
ReadPacket ==
  /\ ring > 0
  /\ ring' = ring - 1
  /\ UNCHANGED <<handle, active, closed, breakFlag>>

\* pcap_next_ex returns PCAP_ERROR_BREAK and clears the flag.
ReadBroken ==
  /\ breakFlag
  /\ breakFlag' = FALSE
  /\ UNCHANGED <<handle, active, closed, ring>>

\* pcap_next_ex returns 0: the read timeout, which libpcap does not guarantee.
ReadTimesOut ==
  /\ ring = 0
  /\ ~breakFlag
  /\ UNCHANGED <<handle, active, closed, breakFlag, ring>>

CloseHandle ==
  /\ closed' = TRUE
  /\ UNCHANGED <<handle, active, breakFlag, ring>>

\* A packet arrives on the interface.
Arrive ==
  /\ ring < RingSize
  /\ ring' = ring + 1
  /\ UNCHANGED <<handle, active, closed, breakFlag>>
=============================================================================
