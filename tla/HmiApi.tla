------------------------------- MODULE HmiApi -------------------------------
(***************************************************************************)
(* The two containers that run src/PRISM_simulator/api/main.go.  The       *)
(* plant's (ROLE=simulator) starts one process per protocol server, once,  *)
(* then serves its API.  The HMI's answers a request at once and leaves a  *)
(* goroutine behind, its job, that starts a client process per command at  *)
(* jittered intervals and waits for none of them.  Processes connect to    *)
(* the servers' queues; either container, and each server, may die.        *)
(***************************************************************************)
EXTENDS Integers, Sequences, FiniteSets

CONSTANTS
  Jobs,           \* requests to the HMI's API
  Counts,         \* count of a request body, 0 or less when it is missing
  Delays,         \* delay of a request body in ticks, 0 or less when missing
  DefaultDelay,   \* 1.0 s in ticks
  Jitter,         \* 100 ms in ticks
  GeneratePause,  \* 500 ms in ticks
  Latency,        \* ticks in which a process has connected, if it can
  Backlog,        \* for each server, connections its kernel queues
  PidLimit,       \* processes the HMI's container can hold
  MaxFaults,      \* bound: failures of servers and containers together
  None            \* a request not made yet

\* The servers of the plant, in the order main starts them.
StartOrder == <<"Modbus", "DNP3", "IEC104">>
Servers == {StartOrder[i] : i \in DOMAIN StartOrder}

\* What a handler leaves behind.
Goroutines == [cmds : Seq(Servers), delay : Int, jitter : Int,
               next : Nat \ {0}, sleep : Nat]

VARIABLES
  plant,    \* the plant's container: down, starting its servers, serving
  toStart,  \* the servers startScadaServer has still to start
  server,   \* for each server, its process
  queue,    \* for each server, the connections it has not served
  hmi,      \* is the HMI's container up
  job,      \* for each request, what its goroutine is doing
  process,  \* for each command of each job, how far its process has come
  age,      \* ticks a process has been running before it connected
  faults    \* failures so far

plantVars == <<plant, toStart, server, queue>>
hmiVars == <<hmi, job, process, age>>
vars == <<plantVars, hmiVars, faults>>

ASSUME TimesAssumption ==
  /\ DefaultDelay \in Nat /\ GeneratePause \in Nat /\ Latency \in Nat
  /\ Jitter \in 0..DefaultDelay
  /\ Counts \subseteq Int /\ Delays \subseteq Int
  /\ \E n \in Counts : \A k \in Counts : k <= n
ASSUME LimitsAssumption ==
  /\ Backlog \in [Servers -> Nat] /\ PidLimit \in Nat /\ MaxFaults \in Nat
  /\ None \notin Jobs \cup Goroutines

-----------------------------------------------------------------------------
\* What the three handlers leave to their goroutine: the server each command
\* goes to, the pause between two commands and its jitter.

Goroutine(cmds, delay, jitter) ==
  [cmds |-> cmds, delay |-> delay, jitter |-> jitter, next |-> 1, sleep |-> 0]

RequestHandler(protocol, count, delay) ==
  Goroutine([i \in 1..(IF count <= 0 THEN 1 ELSE count) |-> protocol],
            IF delay <= 0 THEN DefaultDelay ELSE delay, Jitter)

GenerateHandler ==
  Goroutine(<<"Modbus", "Modbus", "Modbus", "DNP3">>, GeneratePause, 0)

Handled ==
  {RequestHandler(p, n, d) : p \in {"Modbus", "DNP3"}, n \in Counts,
                             d \in Delays} \cup {GenerateHandler}

\* A process is named by its job and the command's place in it.
Lengths == {Len(g.cmds) : g \in Handled}
Processes == Jobs \X (1..(CHOOSE n \in Lengths : \A k \in Lengths : k <= n))

Target(p) == job[p[1]].cmds[p[2]]

\* Mutant: the jitter is a share of the delay.
Pauses_Scaled(g) ==
  {IF n < 0 THEN 0 ELSE n :
     n \in (g.delay - g.jitter * g.delay)..(g.delay + g.jitter * g.delay)}

\* Sleep of a negative duration returns at once.
Pauses(g) ==
  {IF n < 0 THEN 0 ELSE n : n \in (g.delay - g.jitter)..(g.delay + g.jitter)}

Stages == {"none", "failed", "running", "queued", "served", "refused", "lost"}

TypeOK ==
  /\ plant \in {"down", "starting", "serving"}
  /\ toStart \in {StartOrder, <<"DNP3", "IEC104">>, <<"IEC104">>, <<>>}
  /\ server \in [Servers -> {"absent", "started", "listening", "dead"}]
  /\ queue \in [Servers -> Seq(Processes)]
  /\ \A s \in Servers : /\ Len(queue[s]) <= Backlog[s]
                        /\ queue[s] # <<>> => server[s] = "listening"
  /\ hmi \in BOOLEAN
  /\ job \in [Jobs -> Goroutines \cup {None}]
  /\ \A j \in Jobs : job[j] # None => job[j].next <= Len(job[j].cmds) + 1
  /\ process \in [Processes -> Stages]
  /\ age \in [Processes -> 0..(Latency + 1)]
  /\ faults \in 0..MaxFaults

Init ==
  /\ plant = "starting"
  /\ toStart = StartOrder
  /\ server = [s \in Servers |-> "absent"]
  /\ queue = [s \in Servers |-> <<>>]
  /\ hmi = TRUE
  /\ job = [j \in Jobs |-> None]
  /\ process = [p \in Processes |-> "none"]
  /\ age = [p \in Processes |-> 0]
  /\ faults = 0

-----------------------------------------------------------------------------
\* The plant

Fault == faults < MaxFaults /\ faults' = faults + 1

\* The clients whose connections are reset: read returns -1 and they exit.
Reset(S) ==
  process' = [p \in Processes |->
    IF /\ process[p] = "queued"
       /\ \E s \in S : \E i \in DOMAIN queue[s] : queue[s][i] = p
    THEN "lost" ELSE process[p]]

\* Mutant: a server that has died is started again.
StartServer_Supervised ==
  /\ \/ /\ plant = "starting"
        /\ toStart # <<>>
        /\ toStart' = Tail(toStart)
        /\ server' = [server EXCEPT ![Head(toStart)] = "started"]
     \/ \E s \in Servers :
          /\ server[s] = "dead"
          /\ server' = [server EXCEPT ![s] = "started"]
          /\ UNCHANGED toStart
  /\ UNCHANGED <<plant, queue, hmiVars, faults>>

\* cmd.Start, for the servers in order.  Nobody will wait for the process.
StartServer ==
  /\ plant = "starting"
  /\ toStart # <<>>
  /\ toStart' = Tail(toStart)
  /\ server' = [server EXCEPT ![Head(toStart)] = "started"]
  /\ UNCHANGED <<plant, queue, hmiVars, faults>>

\* cmd.Start fails: it is logged, and the next server started.
StartServerFails ==
  /\ plant = "starting"
  /\ toStart # <<>>
  /\ Fault
  /\ toStart' = Tail(toStart)
  /\ UNCHANGED <<plant, server, queue, hmiVars>>

\* Mutant: the API is served first, and ListenAndServe does not return.
ListenAndServe_First ==
  /\ plant = "starting"
  /\ plant' = "serving"
  /\ UNCHANGED <<toStart, server, queue, hmiVars, faults>>

\* From here on /health answers, whatever has become of the servers.
ListenAndServe ==
  /\ plant = "starting"
  /\ toStart = <<>>
  /\ plant' = "serving"
  /\ UNCHANGED <<toStart, server, queue, hmiVars, faults>>

\* start_server of the protocol: socket, bind, listen.
ServerListens(s) ==
  /\ server[s] = "started"
  /\ server' = [server EXCEPT ![s] = "listening"]
  /\ UNCHANGED <<plant, toStart, queue, hmiVars, faults>>

\* Mutant: the clients of a server that dies keep their place.
ServerEnds_KeepsQueue(s) ==
  /\ server[s] \in {"started", "listening"}
  /\ Fault
  /\ server' = [server EXCEPT ![s] = "dead"]
  /\ UNCHANGED <<plant, toStart, queue, hmiVars>>

\* bind fails and start_server returns, or the process dies later.
ServerEnds(s) ==
  /\ server[s] \in {"started", "listening"}
  /\ Fault
  /\ server' = [server EXCEPT ![s] = "dead"]
  /\ queue' = [queue EXCEPT ![s] = <<>>]
  /\ Reset({s})
  /\ UNCHANGED <<plant, toStart, hmi, job, age>>

\* accept, read, answer, close, one connection at a time; the connection of a
\* client that has died is dropped.
Serve(s) ==
  /\ queue[s] # <<>>
  /\ queue' = [queue EXCEPT ![s] = Tail(@)]
  /\ process' = [process EXCEPT ![Head(queue[s])] =
                   IF @ = "queued" THEN "served" ELSE @]
  /\ UNCHANGED <<plant, toStart, server, hmi, job, age, faults>>

\* The API is the container's first process: the servers die with it.
PlantDies ==
  /\ plant # "down"
  /\ Fault
  /\ plant' = "down"
  /\ toStart' = <<>>
  /\ server' = [s \in Servers |-> "absent"]
  /\ queue' = [s \in Servers |-> <<>>]
  /\ Reset(Servers)
  /\ UNCHANGED <<hmi, job, age>>

\* restart: unless-stopped.
PlantRestarts ==
  /\ plant = "down"
  /\ plant' = "starting"
  /\ toStart' = StartOrder
  /\ UNCHANGED <<server, queue, hmiVars, faults>>

-----------------------------------------------------------------------------
\* The HMI

\* A handler starts its goroutine and answers 202.
HandleRequest(j) ==
  /\ hmi
  /\ job[j] = None
  /\ \E g \in Handled : job' = [job EXCEPT ![j] = g]
  /\ UNCHANGED <<plantVars, hmi, process, age, faults>>

\* Mutant: only the processes that still run take a place.
InTable_Reaped == {p \in Processes : process[p] \in {"running", "queued"}}

\* Nobody calls Wait: a process that has ended keeps its place as a zombie.
InTable == {p \in Processes : process[p] \notin {"none", "failed"}}

\* Mutant: the error of runCmd ends the goroutine.
RunCommand_Returns(j, stage) ==
  /\ hmi
  /\ job[j] # None
  /\ job[j].next <= Len(job[j].cmds)
  /\ job[j].sleep = 0
  /\ process' = [process EXCEPT ![<<j, job[j].next>>] = stage]
  /\ \E n \in Pauses(job[j]) :
       job' = [job EXCEPT ![j].sleep = n, ![j].next =
                 IF stage = "failed" THEN Len(job[j].cmds) + 1 ELSE @ + 1]
  /\ UNCHANGED <<plantVars, hmi, age, faults>>

\* The goroutine's loop: runCmd, with what became of the command, and Sleep.
RunCommand(j, stage) ==
  /\ hmi
  /\ job[j] # None
  /\ job[j].next <= Len(job[j].cmds)
  /\ job[j].sleep = 0
  /\ process' = [process EXCEPT ![<<j, job[j].next>>] = stage]
  /\ \E n \in Pauses(job[j]) :
       job' = [job EXCEPT ![j].next = @ + 1, ![j].sleep = n]
  /\ UNCHANGED <<plantVars, hmi, age, faults>>

StartProcess(j) ==
  /\ Cardinality(InTable) < PidLimit
  /\ RunCommand(j, "running")

\* c.Start fails: it is logged, the goroutine goes on, the caller has its 202.
StartProcessFails(j) ==
  /\ Cardinality(InTable) >= PidLimit
  /\ RunCommand(j, "failed")

Full(s) == Len(queue[s]) >= Backlog[s]

\* run_client: connect is queued, then the request written, the answer awaited.
Connects(p) ==
  /\ process[p] = "running"
  /\ server[Target(p)] = "listening"
  /\ ~Full(Target(p))
  /\ process' = [process EXCEPT ![p] = "queued"]
  /\ queue' = [queue EXCEPT ![Target(p)] = Append(@, p)]
  /\ UNCHANGED <<plant, toStart, server, hmi, job, age, faults>>

\* connect fails: nobody listens, or the queue has been full for too long.
ConnectFails(p) ==
  /\ process[p] = "running"
  /\ \/ server[Target(p)] # "listening"
     \/ Full(Target(p)) /\ age[p] > Latency
  /\ process' = [process EXCEPT ![p] = "refused"]
  /\ UNCHANGED <<plantVars, hmi, job, age, faults>>

\* restart: "no".
HmiDies ==
  /\ hmi
  /\ Fault
  /\ hmi' = FALSE
  /\ process' = [p \in Processes |->
       IF process[p] \in {"running", "queued"} THEN "lost" ELSE process[p]]
  /\ UNCHANGED <<plantVars, job, age>>

\* Time passes for the goroutines and for the processes that have not connected;
\* one that could connect has done so within Latency.
Tick ==
  /\ \A p \in Processes :
       process[p] = "running" /\ age[p] = Latency => Full(Target(p))
  /\ age' = [p \in Processes |->
       IF process[p] = "running" /\ age[p] <= Latency THEN age[p] + 1
       ELSE age[p]]
  /\ job' = [j \in Jobs |->
       IF job[j] # None /\ job[j].sleep > 0
       THEN [job[j] EXCEPT !.sleep = @ - 1] ELSE job[j]]
  /\ UNCHANGED <<plantVars, hmi, process, faults>>

-----------------------------------------------------------------------------

PlantStep ==
  \/ StartServer
  \/ ListenAndServe
  \/ PlantRestarts

Goes(j) == StartProcess(j) \/ StartProcessFails(j)

ProcessStep(p) == Connects(p) \/ ConnectFails(p)

Next ==
  \/ PlantStep
  \/ StartServerFails
  \/ PlantDies
  \/ \E s \in Servers : ServerListens(s) \/ ServerEnds(s) \/ Serve(s)
  \/ \E j \in Jobs : HandleRequest(j) \/ Goes(j)
  \/ \E p \in Processes : ProcessStep(p)
  \/ HmiDies
  \/ Tick

\* Docker restarts the plant; goroutines, processes and time go on.  No fault
\* and no request is owed.
Fairness ==
  /\ WF_vars(PlantStep)
  /\ \A s \in Servers : WF_vars(ServerListens(s)) /\ WF_vars(Serve(s))
  /\ \A j \in Jobs : WF_vars(Goes(j))
  /\ \A p \in Processes : WF_vars(ProcessStep(p))
  /\ WF_vars(Tick)

Spec == Init /\ [][Next]_vars

FairSpec == Spec /\ Fairness

-----------------------------------------------------------------------------
(***************************************************************************)
(* Properties                                                              *)
(***************************************************************************)

\* runCmd does not wait for its process (main.go:71), so commands of one job
\* overtake each other, except when the pause, less the jitter (main.go:89), is
\* longer than a process takes to connect: then a server has done with every
\* earlier command before it serves a later one, unless its queue was full.
InOrderWhenPaced ==
  \A j \in Jobs :
    (job[j] # None /\ job[j].delay - job[j].jitter > Latency) =>
      \A k \in DOMAIN job[j].cmds : \A i \in 1..(k - 1) :
        (/\ process[<<j, k>>] = "served"
         /\ Target(<<j, i>>) = Target(<<j, k>>)
         /\ age[<<j, i>>] <= Latency)
        => process[<<j, i>>] \notin {"running", "queued"}

\* Zombies are never reaped (main.go:71-73): once a command has failed to start,
\* every later one fails too, of any request, though each is answered 202.
NoProcessAfterFailure ==
  [][(\E p \in Processes : process[p] = "failed") =>
       \A q \in Processes :
         process[q] = "none" => process'[q] \in {"none", "failed"}]_vars

\* A server that could not be started, could not bind or has died stays away
\* while the plant's API reports health (main.go:141, 172), until the container is
\* started again.
DownUntilRestart ==
  [][\A s \in Servers :
       plant = "serving" /\ server[s] \in {"absent", "dead"} =>
         server'[s] = server[s] \/ plant' = "down"]_vars

\* Every command of an accepted request comes to an end, whatever servers and
\* containers die meanwhile, as long as the HMI lives (main.go:86-92): the
\* goroutine outlives a failed start, no process waits for ever.
EveryCommandEnds ==
  \A j \in Jobs :
    job[j] # None ~>
      \/ ~hmi
      \/ /\ job[j] # None
         /\ \A i \in DOMAIN job[j].cmds :
              process[<<j, i>>] \in {"failed", "served", "refused", "lost"}

\* The restart of the container brings all servers back, unless there is another
\* fault (docker-compose.yml:29, main.go:166-167 before the API is served).
RestartHeals ==
  \A n \in 0..MaxFaults :
    (plant = "down" /\ faults = n) ~>
      \/ faults > n
      \/ \A s \in Servers : server[s] = "listening"
=============================================================================
