----------------------------- MODULE ModbusServer -----------------------------
(***************************************************************************)
(* The simulated PLC: start_server of src/PRISM_simulator/proto/modbus/    *)
(* server.cpp.  One thread accepts a connection, reads ONE request from    *)
(* it, answers, closes it and only then accepts the next; write_locked     *)
(* (see ModbusLock) is its whole state and lives as long as the process.   *)
(*                                                                         *)
(* The sockets are the operating system's and are modelled as the code     *)
(* uses them: a queue of established connections in front of accept (the   *)
(* backlog of listen), and at most one unread request per connection,      *)
(* since every peer in the repository writes one 12-byte request.          *)
(* A module that instantiates this one adds the peers' steps.              *)
(***************************************************************************)
EXTENDS ModbusLock, Sequences

CONSTANTS
  Conns,     \* the connections peers may open
  None,      \* no connection, no request, no reply
  Backlog    \* how many connections the kernel queues for listen(fd, 1)

VARIABLES
  up,            \* is the server process running
  backlog,       \* established connections accept has not returned yet
  serving,       \* cfd: the accepted connection, or None
  unread,        \* for each connection, the request written and not yet read
  closed,        \* the connections whose peer has closed its end
  reply          \* for each connection, what the server wrote back

Echo(f) == [kind |-> "echo", frame |-> f]

Exception(f) == [kind |-> "exception", frame |-> f]

Replies == [kind : {"echo", "exception"}, frame : Frames]

PlcTypeOK ==
  /\ up \in BOOLEAN
  /\ writeLocked \in BOOLEAN
  /\ backlog \in Seq(Conns)
  /\ serving \in Conns \cup {None}
  /\ unread \in [Conns -> Frames \cup {None}]
  /\ closed \in SUBSET Conns
  /\ reply \in [Conns -> Replies \cup {None}]

PlcInit ==
  /\ up = TRUE
  /\ writeLocked = FALSE
  /\ backlog = <<>>
  /\ serving = None
  /\ unread = [c \in Conns |-> None]
  /\ closed = {}
  /\ reply = [c \in Conns |-> None]

-----------------------------------------------------------------------------
\* The server's thread

\* accept returns the connection that has waited longest.
Accept ==
  /\ serving = None
  /\ backlog # <<>>
  /\ serving' = Head(backlog)
  /\ backlog' = Tail(backlog)
  /\ UNCHANGED <<up, writeLocked, unread, closed, reply>>

\* read returns the request of the accepted connection: answer and close.
Answer(response) ==
  /\ reply' = [reply EXCEPT ![serving] = response]
  /\ unread' = [unread EXCEPT ![serving] = None]
  /\ serving' = None
  /\ UNCHANGED <<up, backlog, closed>>

\* The coil engages or releases the lock, any other value changes nothing;
\* each is echoed.
ServeSafetyCoil ==
  /\ serving # None
  /\ unread[serving] # None
  /\ LET f == unread[serving]
     IN  /\ IsSafetyCoil(f)
         /\ writeLocked' = LockAfter(f)
         /\ Answer(Echo(f))

\* A write-class request under the lock is answered by an exception.
ServeBlocked ==
  /\ serving # None
  /\ unread[serving] # None
  /\ IsBlocked(unread[serving])
  /\ Answer(Exception(unread[serving]))
  /\ UNCHANGED writeLocked

\* Every other request is echoed.
ServeNormal ==
  /\ serving # None
  /\ unread[serving] # None
  /\ ~IsSafetyCoil(unread[serving])
  /\ ~IsBlocked(unread[serving])
  /\ Answer(Echo(unread[serving]))
  /\ UNCHANGED writeLocked

\* Mutant: cfd is closed only after an answer.
DropClosed_Leaks ==
  /\ serving # None
  /\ unread[serving] = None
  /\ serving \in closed
  /\ UNCHANGED <<up, writeLocked, backlog, serving, unread, closed, reply>>

\* read returns 0, the peer closed without writing: close.
DropClosed ==
  /\ serving # None
  /\ unread[serving] = None
  /\ serving \in closed
  /\ serving' = None
  /\ UNCHANGED <<up, writeLocked, backlog, unread, closed, reply>>

\* The process ends: its lock is lost, its connections are reset.
Crash ==
  /\ up
  /\ up' = FALSE
  /\ writeLocked' = FALSE
  /\ backlog' = <<>>
  /\ serving' = None
  /\ unread' = [c \in Conns |-> None]
  /\ UNCHANGED <<closed, reply>>

\* start_server again: socket, bind, listen.
Restart ==
  /\ ~up
  /\ up' = TRUE
  /\ UNCHANGED <<writeLocked, backlog, serving, unread, closed, reply>>

-----------------------------------------------------------------------------
\* The sockets, as peers use them

Connected(c) == c = serving \/ \E i \in DOMAIN backlog : backlog[i] = c

\* connect completes when the kernel queues the connection; a full backlog
\* makes it wait.
Connect(c) ==
  /\ up
  /\ Len(backlog) < Backlog
  /\ backlog' = Append(backlog, c)
  /\ UNCHANGED <<up, writeLocked, serving, unread, closed, reply>>

\* write of one request on an established connection.
Write(c, f) ==
  /\ Connected(c)
  /\ unread' = [unread EXCEPT ![c] = f]
  /\ UNCHANGED <<up, writeLocked, backlog, serving, closed, reply>>

\* write and close, without a read in between.
WriteAndClose(c, f) ==
  /\ Connected(c)
  /\ unread' = [unread EXCEPT ![c] = f]
  /\ closed' = closed \cup {c}
  /\ UNCHANGED <<up, writeLocked, backlog, serving, reply>>

\* close, with nothing written.
Close(c) ==
  /\ closed' = closed \cup {c}
  /\ UNCHANGED <<up, writeLocked, backlog, serving, unread, reply>>

\* A peer forgets its connection: c may be used for a new one.
Forget(c) ==
  /\ ~Connected(c)
  /\ reply' = [reply EXCEPT ![c] = None]
  /\ UNCHANGED <<up, writeLocked, backlog, serving, unread, closed>>
=============================================================================
