------------------------- MODULE SimulationsProofs --------------------------
(***************************************************************************)
(* Theorems about Simulations, for any number of servers, runners, jobs    *)
(* and simulations, wherever servers and runners end.                      *)
(***************************************************************************)
EXTENDS Simulations, TLAPS, FiniteSetTheorems, WellFoundedInduction

\* First is the least element of a set of numbers.
LEMMA FirstIsIn ==
  ASSUME NEW S \in SUBSET Nat, S # {}
  PROVE  First(S) \in S /\ \A y \in S : First(S) <= y
<1>1. PICK x \in S : \A y \in S : ~ (<<y, x>> \in OpToRel(<, Nat))
  BY NatLessThanWellFounded, WFMin, Zenon
<1>2. ASSUME NEW y \in S, y < x
      PROVE  <<y, x>> \in OpToRel(<, Nat)
  <2>1. <<y, x>> \in Nat \X Nat /\ <<y, x>>[1] < <<y, x>>[2]
    BY <1>2
  <2> QED BY <2>1, Zenon DEF OpToRel
<1>3. \A y \in S : ~ (y < x)
  BY <1>1, <1>2, Zenon
<1>4. x \in S /\ \A y \in S : x <= y
  BY <1>3
<1> QED BY <1>4 DEF First

-----------------------------------------------------------------------------
(* Types *)

\* The rows of the tables, and what runners, processes and the request
\* hold.
JobType == [state : {"none", "pending", "running", "finished", "archived",
                     "deleted"},
            tag : Output \cup {"none"}, text : Nat]
RunnerType == [pc : {"none", "register", "morgue", "loop", "jobs", "busy",
                     "collect"},
               ppid : Server \cup {None}, job : Job \cup {None},
               process : Process \cup {None}, killed : BOOLEAN]
ProcessType == [pc : {"none", "starting", "running"}, job : Job \cup {None},
                tag : Output \cup {"none"}, own : Nat, text : Nat]
SimulationType == [state : {"none", "there", "deleted"},
                   output : Output \cup {"none"}]
\* The steps of del_sim, and those of a launch.
Deleting == {"archive", "job1", "job2", "simulation", "directory"}
Launching == {"write", "mkdir", "record", "submit", "tickle"}
RequestType == [pc : {"idle"} \cup Deleting \cup Launching,
                output : Output \cup {"none"}, text : Nat,
                id : Simulation \cup {None},
                job1 : Job \cup {None}, job2 : Job \cup {None}]

\* Every variable has its type; a launch has an output.
Types ==
    /\ job \in [Job -> JobType]
    /\ config \in [Server -> Runner \cup {None}]
    /\ servers \subseteq Server
    /\ server \in servers \cup {None}
    /\ background \subseteq servers
    /\ runner \in [Runner -> RunnerType]
    /\ process \in [Process -> ProcessType]
    /\ crashes \in Nat
    /\ simulation \in [Simulation -> SimulationType]
    /\ results \subseteq Output
    /\ temp2 \in Nat
    /\ request \in RequestType
    /\ request.pc \in Launching => request.output \in Output
    /\ launches \in Nat

\* A runner that is there is the child of a server, the only one of that
\* server, and is busy with a process that no other runner waits for.
RunnerInv ==
    /\ \A r \in Runner :
          /\ runner[r].process # None <=> runner[r].pc = "busy"
          /\ runner[r].pc = "none" <=> runner[r].ppid = None
          /\ runner[r].ppid # None => runner[r].ppid \in servers
          /\ runner[r].pc = "busy" =>
                process[runner[r].process].pc # "none"
    /\ \A r, q \in Runner :
          /\ runner[r].ppid = runner[q].ppid /\ runner[r].ppid # None => r = q
          /\ runner[r].process = runner[q].process /\ runner[r].pc = "busy"
                => r = q

\* The processes that run without a runner that waits for them.  Only the
\* crash of a runner makes one.
Live == {p \in Process : process[p].pc # "none"}
\* The processes that a runner waits for.
Waited == {p \in Process : \E r \in Runner : runner[r].pc = "busy" /\
                                              runner[r].process = p}
Orphan == Live \ Waited
\* There is at most one process without a runner for each death.
OrphanInv ==
    /\ IsFiniteSet(servers)
    /\ IsFiniteSet(Orphan)
    /\ Cardinality(Orphan) <= crashes

\* The script on disk is never older than that of a job or of a process; a
\* request that has not written it yet carries the latest one.
ScriptInv ==
    /\ launches <= MaxLaunches
    /\ temp2 <= launches
    /\ request.pc \in Deleting =>
          request.output = "none" \/ request.text = launches
    /\ request.pc = "write" => request.text = launches
    /\ request.pc \in {"mkdir", "record", "submit"} => request.text <= temp2
    /\ \A j \in Job : job[j].text <= temp2
    /\ \A p \in Process : /\ process[p].own <= temp2
                          /\ process[p].pc = "running" =>
                                process[p].own <= process[p].text

\* The output is a key of simulations, which have their directories.
SimulationKey ==
    /\ \A i \in Simulation : There(i) => simulation[i].output \in results
    /\ \A i, k \in Simulation :
          There(i) /\ There(k) /\ simulation[i].output = simulation[k].output
             => i = k
\* Every job of the table has a simulation with its tag, and no other job
\* of the table has that tag.
JobKey ==
    /\ \A j \in Job : InTable(j) =>
          \E i \in Simulation : There(i) /\ simulation[i].output = job[j].tag
    /\ \A j, k \in Job :
          InTable(j) /\ InTable(k) /\ job[j].tag = job[k].tag => j = k
\* No simulation, and no job of the table, has this output.
NoSimulationOf(o) == \A i \in Simulation : There(i) => simulation[i].output # o
NoJobOf(o) == \A j \in Job : InTable(j) => job[j].tag # o
\* A deletion deletes what was asked for.  The job that it has found is the
\* only one in the table, which it clears before it deletes the simulation
\* and then the directory.
DeletionKey ==
    /\ request.pc \in Deleting =>
          request.id \in Simulation /\ MayDelete(request.id)
    /\ request.pc \in Deleting \ {"directory"} => There(request.id)
    /\ request.pc \in {"archive", "job1"} =>
          /\ request.job1 # None => job[request.job1].tag = Directory
          /\ \A j \in Job : InTable(j) /\ job[j].tag = Directory =>
                               j = request.job1
    /\ request.pc \in {"job1", "job2"} /\ request.job2 # None =>
          job[request.job2].tag = Directory /\ ~InTable(request.job2)
    /\ request.pc \in {"job2", "simulation"} => NoJobOf(Directory)
    /\ request.pc = "directory" => NoSimulationOf(Directory)
\* A launch that will insert a row has made sure that no simulation has its
\* output; one that will submit a job has its simulation and no job yet.
LaunchKey ==
    /\ request.pc \in {"write", "mkdir", "record"} =>
          NoSimulationOf(request.output)
    /\ request.pc \in {"record", "submit"} => request.output \in results
    /\ request.pc = "submit" =>
          /\ \E i \in Simulation : There(i) /\
                                    simulation[i].output = request.output
          /\ NoJobOf(request.output)
\* The invariant behind TableIsForeignKey.
KeyInv == SimulationKey /\ JobKey /\ DeletionKey /\ LaunchKey

\* The records of runners and processes of which several fields change.
LEMMA BusyRunner ==
  ASSUME runner \in [Runner -> RunnerType], NEW r \in Runner,
         NEW j \in Job, NEW p \in Process,
         runner' = [runner EXCEPT ![r].pc = "busy", ![r].job = j,
                                  ![r].process = p]
  PROVE  /\ runner' \in [Runner -> RunnerType]
         /\ \A q \in Runner : q # r => runner'[q] = runner[q]
         /\ runner'[r].pc = "busy" /\ runner'[r].process = p
         /\ runner'[r].ppid = runner[r].ppid
<1>1. /\ runner' = [runner EXCEPT ![r] = runner'[r]]
      /\ runner'[r] = [runner[r] EXCEPT !.pc = "busy", !.job = j, !.process = p]
  OBVIOUS
<1>2. runner[r] \in RunnerType
  OBVIOUS
<1>3. /\ runner'[r] \in RunnerType /\ runner'[r].pc = "busy"
      /\ runner'[r].process = p /\ runner'[r].ppid = runner[r].ppid
  BY <1>1, <1>2 DEF RunnerType
<1> QED BY <1>1, <1>3

\* A runner has dealt with its job.
LEMMA FreedRunner ==
  ASSUME runner \in [Runner -> RunnerType], NEW r \in Runner,
         runner' = [runner EXCEPT ![r].pc = "jobs", ![r].job = None]
  PROVE  /\ runner' \in [Runner -> RunnerType]
         /\ \A q \in Runner : q # r => runner'[q] = runner[q]
         /\ runner'[r].pc = "jobs" /\ runner'[r].process = runner[r].process
         /\ runner'[r].ppid = runner[r].ppid
<1>1. /\ runner' = [runner EXCEPT ![r] = runner'[r]]
      /\ runner'[r] = [runner[r] EXCEPT !.pc = "jobs", !.job = None]
  OBVIOUS
<1>2. runner[r] \in RunnerType
  OBVIOUS
<1>3. /\ runner'[r] \in RunnerType /\ runner'[r].pc = "jobs"
      /\ runner'[r].process = runner[r].process
      /\ runner'[r].ppid = runner[r].ppid
  BY <1>1, <1>2 DEF RunnerType
<1> QED BY <1>1, <1>3

\* A runner goes on without a job.
LEMMA MovedRunner ==
  ASSUME runner \in [Runner -> RunnerType], RunnerInv, NEW r \in Runner,
         runner[r].pc \notin {"none", "busy"}, NEW c \in {"loop", "jobs"},
         runner' = [runner EXCEPT ![r].pc = c], UNCHANGED <<servers, process>>
  PROVE  runner' \in [Runner -> RunnerType] /\ RunnerInv'
<1>1. runner' \in [Runner -> RunnerType]
  BY DEF RunnerType
<1>2. /\ \A q \in Runner : /\ runner'[q].process = runner[q].process
                          /\ runner'[q].ppid = runner[q].ppid
                          /\ q # r => runner'[q].pc = runner[q].pc
      /\ runner'[r].pc = c
  BY DEF RunnerType
<1> QED BY <1>1, <1>2 DEF RunnerInv

\* The process of a runner has ended.
LEMMA CollectingRunner ==
  ASSUME NEW x \in RunnerType, NEW y,
         y = [x EXCEPT !.pc = "collect", !.process = None]
  PROVE  /\ y \in RunnerType
         /\ y.pc = "collect" /\ y.process = None /\ y.ppid = x.ppid
BY DEF RunnerType

\* A process has read the script.
LEMMA RunningProcess ==
  ASSUME process \in [Process -> ProcessType], NEW p \in Process,
         temp2 \in Nat,
         process' = [process EXCEPT ![p].pc = "running", ![p].text = temp2]
  PROVE  /\ process' \in [Process -> ProcessType]
         /\ \A q \in Process : q # p => process'[q] = process[q]
         /\ process'[p].pc = "running" /\ process'[p].text = temp2
         /\ process'[p].own = process[p].own
BY ZenonT(40) DEF ProcessType

USE BjAssumption, SimulationsAssumption
USE DEF None

\* The initial records have their types.
LEMMA NoTypes ==
  /\ NoJob \in JobType
  /\ NoRunner \in RunnerType
  /\ NoProcess \in ProcessType
  /\ NoSimulation \in SimulationType
  /\ NoRequest \in RequestType
BY DEF NoJob, JobType, NoRunner, RunnerType, NoProcess, ProcessType,
       NoSimulation, SimulationType, NoRequest, RequestType

\* Types and runners at first: one server without a runner.
LEMMA InitTypes == Init => Types /\ RunnerInv
<1> SUFFICES ASSUME Init PROVE Types /\ RunnerInv
  OBVIOUS
<1>1. job \in [Job -> JobType]
  BY NoTypes DEF Init, BjInit, JobType
<1>2. simulation \in [Simulation -> SimulationType]
  BY NoTypes DEF Init, SimulationType
<1>3. Types
  BY <1>1, <1>2, NoTypes DEF Init, BjInit, Types, NoRequest, Launching
<1>4. RunnerInv
  BY DEF Init, BjInit, RunnerInv, NoRunner
<1> QED BY <1>3, <1>4

\* A new runner is the only one of its server.
LEMMA SpawnedRunner ==
  ASSUME Types, RunnerInv, server # None, SpawnRunner(server),
         runner' = Spawned(server),
         UNCHANGED <<servers, process>>
  PROVE  runner' \in [Runner -> RunnerType] /\ RunnerInv'
<1> DEFINE new == First(FreeRunner)
<1>1. new \in Runner /\ runner[new].pc = "none"
  BY FirstIsIn DEF SpawnRunner, FreeRunner, Alive
<1>2. runner' = [runner EXCEPT ![new] =
                    [pc |-> "register", ppid |-> server, job |-> None,
                     process |-> None, killed |-> FALSE]]
  BY DEF Spawned
<1>3. runner' \in [Runner -> RunnerType]
  BY <1>1, <1>2 DEF Types, RunnerType
<1>4. RunnerInv'
  BY <1>1, <1>2 DEF Types, RunnerType, RunnerInv, SpawnRunner
<1> QED BY <1>3, <1>4

\* Runners that end, or none.
LEMMA EndedRunners ==
  ASSUME Types, RunnerInv, NEW S \in SUBSET Runner,
         runner' = [r \in Runner |-> IF r \in S THEN NoRunner ELSE runner[r]],
         UNCHANGED <<servers, process>>
  PROVE  runner' \in [Runner -> RunnerType] /\ RunnerInv'
BY NoTypes DEF Types, RunnerInv, NoRunner, RunnerType

\* FirstOf finds one if there is one.
LEMMA FirstOfIs ==
  ASSUME NEW S \in SUBSET Nat
  PROVE  (S = {} /\ FirstOf(S) = None) \/ FirstOf(S) \in S
BY FirstIsIn DEF FirstOf

\* del_sim has found the simulation and its job.
LEMMA BegunDeletion ==
  ASSUME Types, NEW id \in Simulation, NEW o \in Output \cup {"none"},
         NEW text \in Nat, del_sim(id, o, text)
  PROVE  /\ request' \in RequestType
         /\ request'.pc = "archive" /\ request'.id = id
         /\ request'.output = o /\ request'.text = text
         /\ request'.job2 = None
         /\ request'.job1 # None => job[request'.job1].tag = simulation[id].output
         /\ \/ request'.job1 \in Job
            \/ \A j \in Job : ~(InTable(j) /\ job[j].tag = simulation[id].output)
<1> DEFINE table == {j \in Job : InTable(j) /\ job[j].tag = simulation[id].output}
           first == FirstOf(table)
<1>1. (table = {} /\ first = None) \/ first \in table
  BY FirstOfIs
<1>2. request' = [pc |-> "archive", output |-> o, text |-> text, id |-> id,
                  job1 |-> first, job2 |-> None]
  BY DEF del_sim
<1>3. first \in Job \cup {None} /\ (first # None => job[first].tag = simulation[id].output)
      /\ (first \in Job \/ table = {})
  BY <1>1
<1> HIDE DEF first
<1> QED BY <1>2, <1>3 DEF RequestType, Deleting

\* A request goes on with its next step.
LEMMA NextStep ==
  ASSUME request \in RequestType, NEW c \in Deleting \cup Launching,
         request' = [request EXCEPT !.pc = c]
  PROVE  /\ request' \in RequestType /\ request'.pc = c
         /\ request'.output = request.output /\ request'.text = request.text
         /\ request'.id = request.id
         /\ request'.job1 = request.job1 /\ request'.job2 = request.job2
BY DEF RequestType

\* A launch that has passed the checks, or has overwritten.
LEMMA WritingRequest ==
  ASSUME NEW o \in Output, NEW text \in Nat,
         request' = [NoRequest EXCEPT !.pc = "write", !.output = o, !.text = text]
  PROVE  /\ request' \in RequestType /\ request'.pc = "write"
         /\ request'.output = o /\ request'.text = text
BY DEF NoRequest, RequestType, Launching

\* Every step keeps the types and the relation of runners and processes.
LEMMA TypesNext ==
  ASSUME Types, RunnerInv, [Next]_vars
  PROVE  Types' /\ RunnerInv'
<1>1. ASSUME NEW o \in Output, NEW overwrite \in BOOLEAN, Launch(o, overwrite)
      PROVE  Types' /\ RunnerInv'
  <2>1. launches' \in Nat /\ UNCHANGED <<bjVars, simulation, results, temp2>>
    BY <1>1 DEF Launch, Types
  <2>2. CASE request' = [NoRequest EXCEPT !.pc = "write", !.output = o,
                                          !.text = launches']
    <3>1. request' \in RequestType /\ request'.output \in Output
      BY <2>1, <2>2, WritingRequest
    <3> QED BY <2>1, <3>1 DEF bjVars, Types, RunnerInv
  <2>3. CASE There(find_by_output(o)) /\ del_sim(find_by_output(o), o, launches')
    <3>1. request' \in RequestType /\ request'.pc = "archive"
      BY <2>1, <2>3, BegunDeletion DEF There
    <3> QED BY <2>1, <3>1 DEF bjVars, Types, RunnerInv, Launching
  <2> QED BY <1>1, <2>2, <2>3 DEF Launch
<1>2. ASSUME NEW i \in Simulation, delete_simulation(i)
      PROVE  Types' /\ RunnerInv'
  <2>1. request' \in RequestType /\ request'.pc = "archive"
    BY <1>2, BegunDeletion DEF delete_simulation
  <2> QED BY <1>2, <2>1 DEF delete_simulation, bjVars, Types, RunnerInv, Launching
<1>3. ASSUME FindArchived PROVE Types' /\ RunnerInv'
  <2> DEFINE archive == {j \in Job : job[j].state = "archived" /\
                                     job[j].tag = Directory}
             first == FirstOf(archive)
  <2>1. first \in Job \cup {None}
    BY FirstOfIs
  <2>2. request' = [request EXCEPT !.pc = "job1", !.job2 = first]
    BY <1>3 DEF FindArchived
  <2> HIDE DEF first
  <2>3. request' \in RequestType /\ request'.pc = "job1"
    BY <2>1, <2>2 DEF Types, RequestType, Deleting
  <2> QED BY <1>3, <2>3 DEF FindArchived, bjVars, Types, RunnerInv, Launching
<1>22. ASSUME DeleteJob \/ DeleteArchived PROVE Types' /\ RunnerInv'
  <2>1. /\ \/ request' = [request EXCEPT !.pc = "job2"]
           \/ request' = [request EXCEPT !.pc = "simulation"]
        /\ \/ job' = job
           \/ job' = [job EXCEPT ![request.job1].state = "deleted"]
           \/ job' = [job EXCEPT ![request.job2].state = "deleted"]
        /\ UNCHANGED <<config, server, servers, background, runner, process,
                       crashes, simulation, results, temp2, launches>>
    BY <1>22 DEF DeleteJob, DeleteArchived
  <2>2. job' \in [Job -> JobType]
    BY <2>1 DEF Types, JobType
  <2>3. request' \in RequestType /\ request'.pc \notin Launching
    BY <2>1, NextStep DEF Types, Deleting, Launching
  <2> QED BY <2>1, <2>2, <2>3 DEF Types, RunnerInv
<1>23. ASSUME DeleteSimulation PROVE Types' /\ RunnerInv'
  <2>1. simulation' \in [Simulation -> SimulationType]
    BY <1>23 DEF DeleteSimulation, Types, SimulationType
  <2>2. request' \in RequestType /\ request'.pc \notin Launching
    BY <1>23, NextStep DEF DeleteSimulation, Types, Deleting, Launching
  <2> QED BY <1>23, <2>1, <2>2 DEF DeleteSimulation, bjVars, Types, RunnerInv
<1>24. ASSUME RemoveDirectory PROVE Types' /\ RunnerInv'
  <2>1. /\ request' \in RequestType
        /\ request'.pc \in Launching => request'.output \in Output
    <3>1. CASE request' = NoRequest
      BY <3>1, NoTypes DEF NoRequest, Launching
    <3>2. CASE /\ request.output # "none"
               /\ request' = [NoRequest EXCEPT !.pc = "write",
                                               !.output = request.output,
                                               !.text = request.text]
      <4>1. request.output \in Output /\ request.text \in Nat
        BY <3>2 DEF Types, RequestType
      <4> QED BY <3>2, <4>1, WritingRequest
    <3> QED BY <1>24, <3>1, <3>2 DEF RemoveDirectory
  <2> QED BY <1>24, <2>1 DEF RemoveDirectory, bjVars, Types, RunnerInv
<1>25. ASSUME WriteScript PROVE Types' /\ RunnerInv'
  <2>1. /\ request' \in RequestType /\ request'.output \in Output
        /\ request.text \in Nat
    BY <1>25, NextStep DEF WriteScript, Types, RequestType, Launching
  <2> QED BY <1>25, <2>1 DEF WriteScript, bjVars, Types, RunnerInv
<1>26. ASSUME MakeDirectory PROVE Types' /\ RunnerInv'
  <2>1. /\ request' \in RequestType /\ request.output \in Output
        /\ request'.pc \in Launching => request'.output \in Output
    BY <1>26, NextStep, NoTypes DEF MakeDirectory, Types, NoRequest, Launching
  <2> QED BY <1>26, <2>1 DEF MakeDirectory, bjVars, Types, RunnerInv
<1>4. ASSUME new_simulation PROVE Types' /\ RunnerInv'
  <2> DEFINE new == {i \in Simulation : simulation[i].state = "none"}
  <2>1. First(new) \in new
    BY <1>4, FirstIsIn DEF new_simulation
  <2>2. simulation' \in [Simulation -> SimulationType]
    BY <1>4, <2>1 DEF new_simulation, Types, SimulationType, RequestType
  <2>3. request' \in RequestType /\ request'.output \in Output
    BY <1>4, NextStep DEF new_simulation, Types, Launching
  <2> QED BY <1>4, <2>2, <2>3 DEF new_simulation, bjVars, Types, RunnerInv
<1>5. ASSUME SubmitJob PROVE Types' /\ RunnerInv'
  <2> DEFINE new == {j \in Job : job[j].state = "none"}
  <2>1. First(new) \in new
    BY <1>5, FirstIsIn DEF SubmitJob, Submit
  <2>2. job' \in [Job -> JobType]
    BY <1>5, <2>1 DEF SubmitJob, Submit, Types, JobType, RequestType
  <2>3. request' \in RequestType /\ request'.output \in Output
    BY <1>5, NextStep DEF SubmitJob, Types, Launching
  <2> QED BY <1>5, <2>2, <2>3 DEF SubmitJob, Submit, Types, RunnerInv
<1>27. ASSUME TickleRunner PROVE Types' /\ RunnerInv'
  <2>1. Tickle /\ server \in servers /\ request' = NoRequest
        /\ UNCHANGED <<simulation, results, temp2, launches>>
    BY <1>27 DEF TickleRunner, Types
  <2>2. UNCHANGED <<job, server, servers, process, crashes>>
    BY <2>1 DEF Tickle
  <2>3. runner' \in [Runner -> RunnerType] /\ RunnerInv'
    <3>1. CASE UNCHANGED runner
      BY <3>1, <2>2 DEF Types, RunnerInv
    <3>2. CASE \E r \in Runner : runner' = [runner EXCEPT ![r] = NoRunner]
      <4> PICK r \in Runner : runner' = [runner EXCEPT ![r] = NoRunner]
        BY <3>2
      <4> runner' = [q \in Runner |-> IF q \in {r} THEN NoRunner ELSE runner[q]]
        BY DEF Types
      <4> QED BY <2>2, EndedRunners
    <3>3. CASE SpawnRunner(server) /\ runner' = Spawned(server)
      BY <3>3, <2>1, <2>2, SpawnedRunner DEF Types
    <3> QED BY <2>1, <3>1, <3>2, <3>3 DEF Tickle, Types, Alive
  <2>4. config' \in [Server -> Runner \cup {None}] /\ background' \subseteq servers
    BY <2>1 DEF Tickle, Types
  <2> QED BY <2>1, <2>2, <2>3, <2>4, NoTypes DEF Types, NoRequest, Launching
<1>6. ASSUME Respawn, UNCHANGED webVars PROVE Types' /\ RunnerInv'
  <2>1. runner' \in [Runner -> RunnerType] /\ RunnerInv'
    BY <1>6, SpawnedRunner DEF Respawn, Types
  <2> QED BY <1>6, <2>1 DEF Respawn, webVars, Types
<1>7. ASSUME NEW r \in Runner, Exit(r),
             runner[r].pc # "none",
             UNCHANGED <<server, servers, background, process, crashes>>,
             UNCHANGED job, UNCHANGED webVars
      PROVE  Types' /\ RunnerInv'
  <2>1. runner' = [q \in Runner |-> IF q \in {r} THEN NoRunner ELSE runner[q]]
    BY <1>7 DEF Exit, Types
  <2>2. runner' \in [Runner -> RunnerType] /\ RunnerInv'
    BY <1>7, <2>1, EndedRunners, ZenonT(40)
  <2>3. config' \in [Server -> Runner \cup {None}]
    BY <1>7 DEF Exit, Types
  <2> QED BY <1>7, <2>2, <2>3 DEF webVars, Types
<1>8. ASSUME NEW r \in Runner, Register(r), UNCHANGED webVars
      PROVE  Types' /\ RunnerInv'
  <2>1. CASE runner' = [runner EXCEPT ![r] = NoRunner] /\ UNCHANGED config
    <3>1. runner' = [q \in Runner |-> IF q \in {r} THEN NoRunner ELSE runner[q]]
      BY <2>1 DEF Types
    <3>2. runner' \in [Runner -> RunnerType] /\ RunnerInv'
      BY <1>8, <3>1, EndedRunners, ZenonT(40) DEF Register
    <3> QED BY <1>8, <2>1, <3>2 DEF Register, webVars, Types
  <2>2. CASE /\ config' = [config EXCEPT ![runner[r].ppid] = r]
             /\ runner' = [runner EXCEPT ![r].pc = "morgue"]
    <3>1. runner[r].pc = "register" /\ UNCHANGED <<servers, process>>
      BY <1>8 DEF Register
    <3>2. runner' \in [Runner -> RunnerType] /\ RunnerInv'
      BY <2>2, <3>1 DEF Types, RunnerInv, RunnerType
    <3>3. config' \in [Server -> Runner \cup {None}]
      BY <2>2 DEF Types
    <3> QED BY <1>8, <3>2, <3>3 DEF Register, webVars, Types
  <2> QED BY <1>8, <2>1, <2>2 DEF Register
<1>9. ASSUME NEW r \in Runner, FillMorgue(r), UNCHANGED webVars
      PROVE  Types' /\ RunnerInv'
  <2>1. job' \in [Job -> JobType]
    BY <1>9, SMTT(40) DEF FillMorgue, Types, JobType
  <2>2. runner' \in [Runner -> RunnerType] /\ RunnerInv'
    BY <1>9, MovedRunner DEF FillMorgue, Types
  <2> QED BY <1>9, <2>1, <2>2 DEF FillMorgue, webVars, Types
<1>10. ASSUME NEW r \in Runner, Loop(r), UNCHANGED webVars
       PROVE  Types' /\ RunnerInv'
  <2>1. CASE runner[r].ppid = server
    <3>1. job' \in [Job -> JobType]
      <4>1. job \in [Job -> JobType]
        BY <1>10 DEF Types
      <4>2. ASSUME NEW j \in Job
            PROVE  [job[j] EXCEPT !.state = "archived"] \in JobType
        BY <4>1 DEF JobType
      <4> QED BY <1>10, <2>1, <4>1, <4>2 DEF Loop
    <3>2. runner' \in [Runner -> RunnerType] /\ RunnerInv'
      BY <1>10, <2>1, MovedRunner DEF Loop, Types
    <3> QED BY <1>10, <2>1, <3>1, <3>2 DEF Loop, webVars, Types
  <2> QED BY <1>7, <1>10, <2>1 DEF Loop
<1>11. ASSUME NEW r \in Runner, StartJob(r), UNCHANGED webVars
       PROVE  Types' /\ RunnerInv'
  <2> DEFINE j == First(Pending)
             p == First(FreeProcess)
  <2>1. j \in Job /\ p \in Process /\ process[p].pc = "none"
    BY <1>11, FirstIsIn DEF StartJob, Pending, FreeProcess
  <2>2. job' \in [Job -> JobType]
    BY <1>11, <2>1 DEF StartJob, Types, JobType
  <2>3. process' = [process EXCEPT ![p] =
                       [pc |-> "starting", job |-> j, tag |-> job[j].tag,
                        own |-> job[j].text, text |-> 0]]
    BY <1>11 DEF StartJob
  <2>4. process' \in [Process -> ProcessType]
    BY <2>1, <2>3 DEF Types, JobType, ProcessType
  <2>5. runner' = [runner EXCEPT ![r].pc = "busy", ![r].job = j,
                                 ![r].process = p]
    BY <1>11 DEF StartJob
  <2>6. /\ runner' \in [Runner -> RunnerType]
        /\ \A q \in Runner : q # r => runner'[q] = runner[q]
        /\ runner'[r].pc = "busy" /\ runner'[r].process = p
        /\ runner'[r].ppid = runner[r].ppid
    BY <2>1, <2>5, BusyRunner DEF Types
  <2>7. RunnerInv'
    <3> HIDE DEF j, p
    <3>1. /\ \A q \in Process : q # p => process'[q] = process[q]
          /\ process'[p].pc = "starting"
      BY <2>1, <2>3 DEF Types
    <3>2. p # None /\ UNCHANGED servers /\ runner[r].pc = "jobs"
      BY <1>11, <2>1 DEF StartJob
    <3>3. \A q \in Runner : q # r /\ runner[q].pc = "busy" =>
             runner[q].process # p
      BY <2>1 DEF RunnerInv
    <3>4. ASSUME NEW q \in Runner
          PROVE  /\ runner'[q].process # None <=> runner'[q].pc = "busy"
                 /\ runner'[q].pc = "none" <=> runner'[q].ppid = None
                 /\ runner'[q].ppid # None => runner'[q].ppid \in servers
                 /\ runner'[q].pc = "busy" =>
                       process'[runner'[q].process].pc # "none"
      <4>1. CASE q = r
        BY <2>6, <3>1, <3>2, <4>1 DEF RunnerInv
      <4>2. CASE q # r
        <5>1. runner'[q] = runner[q] /\ runner[q] \in RunnerType
          BY <2>6, <4>2 DEF Types
        <5>2. runner[q].pc = "busy" => runner[q].process \in Process
          BY <5>1 DEF RunnerInv, RunnerType
        <5> QED BY <3>1, <3>3, <4>2, <5>1, <5>2 DEF RunnerInv
      <4> QED BY <4>1, <4>2
    <3>5. ASSUME NEW q \in Runner, NEW x \in Runner
          PROVE  /\ runner'[q].ppid = runner'[x].ppid /\ runner'[q].ppid # None
                       => q = x
                 /\ runner'[q].process = runner'[x].process
                       /\ runner'[q].pc = "busy" => q = x
      <4>1. runner'[q].ppid = runner[q].ppid /\ runner'[x].ppid = runner[x].ppid
        BY <2>6
      <4>2. CASE q # r /\ x # r
        BY <2>6, <4>2 DEF RunnerInv
      <4>3. CASE q = r \/ x = r
        BY <2>6, <3>2, <3>3, <4>1, <4>3 DEF RunnerInv
      <4> QED BY <4>2, <4>3
    <3> QED BY <3>2, <3>4, <3>5 DEF RunnerInv
  <2> QED BY <1>11, <2>2, <2>4, <2>6, <2>7 DEF StartJob, webVars, Types
<1>12. ASSUME NEW r \in Runner, NoJobs(r), UNCHANGED webVars
       PROVE  Types' /\ RunnerInv'
  <2>1. CASE ~runner[r].killed
    <3>1. runner' \in [Runner -> RunnerType] /\ RunnerInv'
      BY <1>12, <2>1, MovedRunner DEF NoJobs, Types
    <3> QED BY <1>12, <2>1, <3>1 DEF NoJobs, webVars, Types
  <2> QED BY <1>7, <1>12, <2>1 DEF NoJobs
<1>13. ASSUME NEW r \in Runner, Collect(r), UNCHANGED webVars
       PROVE  Types' /\ RunnerInv'
  <2>1. CASE InTable(runner[r].job)
    <3>1. job' \in [Job -> JobType]
      BY <1>13, <2>1 DEF Collect, Types, JobType
    <3>2. /\ runner[r].pc = "collect" /\ UNCHANGED <<servers, process>>
          /\ runner' = [runner EXCEPT ![r].pc = "jobs", ![r].job = None]
      BY <1>13, <2>1 DEF Collect
    <3>3. /\ runner' \in [Runner -> RunnerType]
          /\ \A q \in Runner : q # r => runner'[q] = runner[q]
          /\ runner'[r].pc = "jobs" /\ runner'[r].process = runner[r].process
          /\ runner'[r].ppid = runner[r].ppid
      BY <3>2, FreedRunner DEF Types
    <3>4. RunnerInv'
      BY <3>2, <3>3
      DEF RunnerInv
    <3> QED BY <1>13, <2>1, <3>1, <3>3, <3>4 DEF Collect, webVars, Types
  <2> QED BY <1>7, <1>13, <2>1 DEF Collect
<1>14. ASSUME NEW p \in Process, ReadScript(p) PROVE Types' /\ RunnerInv'
  <2>1. /\ process' \in [Process -> ProcessType]
        /\ process'[p].pc = "running"
        /\ \A q \in Process : q # p => process'[q] = process[q]
    BY <1>14, RunningProcess DEF ReadScript, Types
  <2>2. RunnerInv'
    BY <1>14, <2>1 DEF ReadScript, Types, RunnerInv, RunnerType
  <2> QED BY <1>14, <2>1, <2>2 DEF ReadScript, webVars, Types
<1>15. ASSUME NEW p \in Process, ProcessEnds(p), UNCHANGED webVars
       PROVE  Types' /\ RunnerInv'
  <2>1. process' \in [Process -> ProcessType]
    BY <1>15, NoTypes DEF ProcessEnds, Types
  <2>2. ASSUME NEW r \in Runner
        PROVE  /\ runner'[r] \in RunnerType
               /\ runner'[r].ppid = runner[r].ppid
               /\ IF runner[r].process = p
                  THEN runner'[r].pc = "collect" /\ runner'[r].process = None
                  ELSE runner'[r] = runner[r]
    <3>1. CASE runner[r].process = p
      <4>1. Alive(r)
        BY <3>1 DEF RunnerInv, Alive
      <4>2. runner'[r] = [runner[r] EXCEPT !.pc = "collect", !.process = None]
        BY <1>15, <3>1, <4>1 DEF ProcessEnds
      <4> QED BY <3>1, <4>2, CollectingRunner DEF Types
    <3>2. CASE runner[r].process # p
      BY <1>15, <3>2 DEF ProcessEnds, Types
    <3> QED BY <3>1, <3>2
  <2>3. runner' \in [Runner -> RunnerType]
    BY <1>15, <2>2 DEF ProcessEnds
  <2>4. /\ UNCHANGED servers
        /\ \A q \in Process : q # p => process'[q] = process[q]
    BY <1>15 DEF ProcessEnds, Types
  <2>5. p # None
    OBVIOUS
  <2>6. RunnerInv'
    <3>1. ASSUME NEW r \in Runner
          PROVE  /\ runner'[r].process # None <=> runner'[r].pc = "busy"
                 /\ runner'[r].pc = "none" <=> runner'[r].ppid = None
                 /\ runner'[r].ppid # None => runner'[r].ppid \in servers'
                 /\ runner'[r].pc = "busy" =>
                       process'[runner'[r].process].pc # "none"
      BY <2>2, <2>4, <2>5 DEF Types, RunnerInv, RunnerType
    <3>2. ASSUME NEW r \in Runner, NEW q \in Runner
          PROVE  /\ runner'[r].ppid = runner'[q].ppid
                       /\ runner'[r].ppid # None => r = q
                 /\ runner'[r].process = runner'[q].process
                       /\ runner'[r].pc = "busy" => r = q
      BY <2>2 DEF RunnerInv
    <3> QED BY <3>1, <3>2 DEF RunnerInv
  <2> QED BY <1>15, <2>1, <2>3, <2>6 DEF ProcessEnds, webVars, Types
<1>16. ASSUME NEW r \in Runner, RunnerCrash(r), UNCHANGED webVars
       PROVE  Types' /\ RunnerInv'
  <2>1. runner' = [q \in Runner |-> IF q \in {r} THEN NoRunner ELSE runner[q]]
    BY <1>16 DEF RunnerCrash, Types
  <2>2. runner' \in [Runner -> RunnerType] /\ RunnerInv'
    BY <1>16, <2>1, EndedRunners DEF RunnerCrash
  <2> QED BY <1>16, <2>2 DEF RunnerCrash, webVars, Types
<1>17. ASSUME stop_simulation PROVE Types' /\ RunnerInv'
  <2>1. /\ server' = None /\ UNCHANGED webVars
        /\ UNCHANGED <<job, config, servers, background, runner, process, crashes>>
    BY <1>17 DEF stop_simulation, ServerGone
  <2>2. RunnerInv'
    BY <2>1 DEF RunnerInv
  <2>3. Types'
    BY <2>1 DEF Types, webVars
  <2> QED BY <2>2, <2>3
<1>18. ASSUME ServerCrash PROVE Types' /\ RunnerInv'
  <2>1. /\ server' = None /\ request' = NoRequest
        /\ UNCHANGED <<simulation, results, temp2, launches>>
        /\ UNCHANGED <<job, config, servers, background, runner, process, crashes>>
    BY <1>18 DEF ServerCrash, ServerGone
  <2>2. RunnerInv'
    BY <2>1 DEF RunnerInv
  <2>3. Types'
    BY <2>1, NoTypes DEF Types, NoRequest, Launching
  <2> QED BY <2>2, <2>3
<1>19. ASSUME ServerStop PROVE Types' /\ RunnerInv'
  <2>1. runner' \in [Runner -> RunnerType]
    <3>1. runner \in [Runner -> RunnerType] /\ NoRunner \in RunnerType
      BY <1>19, NoTypes DEF Types
    <3>2. ASSUME NEW q \in Runner
          PROVE  [runner[q] EXCEPT !.killed = TRUE] \in RunnerType
      BY <3>1 DEF RunnerType
    <3> QED BY <1>19, <3>1, <3>2 DEF ServerStop, ServerExits
  <2>2. config' \in [Server -> Runner \cup {None}]
    BY <1>19 DEF ServerStop, ServerExits, Types
  <2>3. RunnerInv'
    BY <1>19 DEF ServerStop, ServerExits, Types, RunnerInv, RunnerType,
                 NoRunner, Alive
  <2> QED BY <1>19, <2>1, <2>2, <2>3
          DEF ServerStop, ServerExits, webVars, Types
<1>20. ASSUME ServerStarts, UNCHANGED webVars PROVE Types' /\ RunnerInv'
  <2>1. server' \in Server \ servers
    BY <1>20, FirstIsIn DEF ServerStarts, Types
  <2> QED BY <1>20, <2>1 DEF ServerStarts, webVars, Types, RunnerInv
<1>21. ASSUME UNCHANGED vars PROVE Types' /\ RunnerInv'
  BY <1>21 DEF vars, bjVars, webVars, Types, RunnerInv
<1> QED
  BY <1>1, <1>2, <1>3, <1>4, <1>5, <1>6, <1>8, <1>9, <1>10, <1>11, <1>12,
     <1>13, <1>14, <1>15, <1>16, <1>17, <1>18, <1>19, <1>20, <1>21, <1>22,
     <1>23, <1>24, <1>25, <1>26, <1>27
  DEF Next, Handler, Background, Faults, RunnerStep

-----------------------------------------------------------------------------
(* The script *)

\* There are no scripts at first.
LEMMA InitScript == Init => ScriptInv
BY DEF Init, BjInit, ScriptInv, NoRequest, NoJob, NoProcess, Deleting

\* What a step leaves of the texts.
LEMMA SameTexts ==
  ASSUME Types, ScriptInv, UNCHANGED <<launches, temp2, request>>,
         \A j \in Job : job'[j].text = job[j].text,
         \A p \in Process : /\ process'[p].own = process[p].own
                            /\ process'[p].text = process[p].text
                            /\ process'[p].pc = process[p].pc
  PROVE  ScriptInv'
BY DEF ScriptInv

\* Jobs keep tag and text when runners work on them, and none enters the
\* table.
SameJobs ==
    \A j \in Job : /\ job'[j].tag = job[j].tag
                   /\ job'[j].text = job[j].text
                   /\ InTable(j)' => InTable(j)

\* A runner changes the state of jobs, and takes some out of the table.
LEMMA RunnerStepJobs ==
  ASSUME Types, NEW r \in Runner, RunnerStep(r)
  PROVE  SameJobs
<1>1. ASSUME Register(r) \/ NoJobs(r) PROVE SameJobs
  BY <1>1 DEF Register, NoJobs, SameJobs, InTable
<1>2. ASSUME FillMorgue(r) PROVE SameJobs
  BY <1>2 DEF FillMorgue, SameJobs, InTable, Types, JobType
<1>3. ASSUME Loop(r) PROVE SameJobs
  BY <1>3 DEF Loop, SameJobs, InTable, Types, JobType
<1>4. ASSUME StartJob(r) PROVE SameJobs
  <2> DEFINE j == First(Pending)
  <2>1. j \in Job /\ job[j].state = "pending"
    BY <1>4, FirstIsIn DEF StartJob, Pending
  <2>2. job' = [job EXCEPT ![j].state = "running"]
    BY <1>4 DEF StartJob
  <2> HIDE DEF j
  <2> QED BY <2>1, <2>2 DEF SameJobs, InTable, Types, JobType
<1>5. ASSUME Collect(r) PROVE SameJobs
  BY <1>5 DEF Collect, SameJobs, InTable, Types, JobType
<1> QED BY <1>1, <1>2, <1>3, <1>4, <1>5 DEF RunnerStep

\* A step of a runner changes processes only by starting one.
LEMMA RunnerStepProcess ==
  ASSUME Types, NEW r \in Runner, RunnerStep(r)
  PROVE  \/ UNCHANGED process
         \/ \E p \in Process, j \in Job :
               process' = [process EXCEPT ![p] =
                              [pc |-> "starting", job |-> j, tag |-> job[j].tag,
                               own |-> job[j].text, text |-> 0]]
<1>1. ASSUME StartJob(r)
      PROVE  \E p \in Process, j \in Job :
               process' = [process EXCEPT ![p] =
                              [pc |-> "starting", job |-> j, tag |-> job[j].tag,
                               own |-> job[j].text, text |-> 0]]
  <2>1. First(Pending) \in Job /\ First(FreeProcess) \in Process
    BY <1>1, FirstIsIn DEF StartJob, Pending, FreeProcess
  <2> QED BY <1>1, <2>1 DEF StartJob
<1> QED BY <1>1 DEF RunnerStep, Register, FillMorgue, Loop, NoJobs, Collect

\* Every step keeps the order of scripts.
LEMMA ScriptNext ==
  ASSUME Types, ScriptInv, [Next]_vars
  PROVE  ScriptInv'
<1>1. ASSUME NEW o \in Output, NEW overwrite \in BOOLEAN, Launch(o, overwrite)
      PROVE  ScriptInv'
  <2>1. /\ launches' = launches + 1 /\ launches' <= MaxLaunches
        /\ launches' \in Nat
        /\ UNCHANGED <<job, temp2, process>>
    BY <1>1 DEF Launch, Types, bjVars
  <2>2. request'.pc \in {"write", "archive"} /\ request'.text = launches'
    <3>1. CASE request' = [NoRequest EXCEPT !.pc = "write", !.output = o,
                                            !.text = launches']
      BY <2>1, <3>1, WritingRequest
    <3>2. CASE There(find_by_output(o)) /\ del_sim(find_by_output(o), o, launches')
      BY <2>1, <3>2, BegunDeletion DEF There
    <3> QED BY <1>1, <3>1, <3>2 DEF Launch
  <2> QED BY <2>1, <2>2 DEF Types, ScriptInv
<1>2. ASSUME NEW i \in Simulation, delete_simulation(i) PROVE ScriptInv'
  <2>1. request'.pc = "archive" /\ request'.output = "none"
    BY <1>2, BegunDeletion DEF delete_simulation
  <2>2. UNCHANGED <<job, process, temp2, launches>>
    BY <1>2 DEF delete_simulation, bjVars
  <2> QED BY <2>1, <2>2 DEF ScriptInv
<1>12. ASSUME FindArchived PROVE ScriptInv'
  <2>1. /\ request.pc = "archive" /\ request'.pc = "job1"
        /\ request'.output = request.output /\ request'.text = request.text
        /\ UNCHANGED <<job, process, temp2, launches>>
    BY <1>12 DEF FindArchived, bjVars, Types, RequestType
  <2> QED BY <2>1 DEF ScriptInv, Deleting
<1>13. ASSUME DeleteJob \/ DeleteArchived PROVE ScriptInv'
  <2>1. /\ request.pc \in Deleting /\ request'.pc \in Deleting
        /\ request'.output = request.output /\ request'.text = request.text
    BY <1>13, NextStep DEF DeleteJob, DeleteArchived, Types, Deleting
  <2>2. \A j \in Job : job'[j].text = job[j].text
    BY <1>13 DEF DeleteJob, DeleteArchived, Types, JobType
  <2>3. UNCHANGED <<process, temp2, launches>>
    BY <1>13 DEF DeleteJob, DeleteArchived
  <2> QED BY <2>1, <2>2, <2>3 DEF ScriptInv, Deleting
<1>14. ASSUME DeleteSimulation PROVE ScriptInv'
  <2>1. /\ request.pc \in Deleting /\ request'.pc \in Deleting
        /\ request'.output = request.output /\ request'.text = request.text
    BY <1>14, NextStep DEF DeleteSimulation, Types, Deleting
  <2>2. UNCHANGED <<job, process, temp2, launches>>
    BY <1>14 DEF DeleteSimulation, bjVars
  <2> QED BY <2>1, <2>2 DEF ScriptInv, Deleting
<1>15. ASSUME RemoveDirectory PROVE ScriptInv'
  <2>1. \/ request'.pc = "idle"
        \/ request'.pc = "write" /\ request'.text = launches
    <3>1. CASE request' = NoRequest
      BY <3>1 DEF NoRequest
    <3>2. CASE /\ request.output # "none"
               /\ request' = [NoRequest EXCEPT !.pc = "write",
                                               !.output = request.output,
                                               !.text = request.text]
      <4>1. request.output \in Output /\ request.text \in Nat
        BY <3>2 DEF Types, RequestType
      <4>2. request.text = launches
        BY <1>15, <3>2 DEF RemoveDirectory, ScriptInv, Deleting
      <4> QED BY <3>2, <4>1, <4>2, WritingRequest
    <3> QED BY <1>15, <3>1, <3>2 DEF RemoveDirectory
  <2>2. UNCHANGED <<job, process, temp2, launches>>
    BY <1>15 DEF RemoveDirectory, bjVars
  <2> QED BY <2>1, <2>2 DEF ScriptInv, Deleting
<1>3. ASSUME WriteScript PROVE ScriptInv'
  <2>1. /\ temp2' = launches /\ request.text = launches
        /\ UNCHANGED <<job, process, launches>>
    BY <1>3 DEF WriteScript, bjVars, ScriptInv
  <2>2. request'.pc = "mkdir" /\ request'.text = launches
    BY <1>3, <2>1, NextStep DEF WriteScript, Types, Launching
  <2> QED BY <2>1, <2>2 DEF Types, ScriptInv, JobType, ProcessType, Deleting
<1>16. ASSUME MakeDirectory PROVE ScriptInv'
  <2>1. /\ request.text <= temp2
        /\ UNCHANGED <<job, process, temp2, launches>>
    BY <1>16 DEF MakeDirectory, bjVars, ScriptInv
  <2>2. \/ request'.pc = "idle"
        \/ request'.pc = "record" /\ request'.text = request.text
    BY <1>16, NextStep DEF MakeDirectory, Types, Launching, NoRequest
  <2> QED BY <2>1, <2>2 DEF ScriptInv, Deleting
<1>4. ASSUME new_simulation PROVE ScriptInv'
  <2>1. /\ request.pc = "record" /\ request'.pc = "submit"
        /\ request'.text = request.text
        /\ UNCHANGED <<job, process, temp2, launches>>
    BY <1>4, NextStep DEF new_simulation, bjVars, Types, Launching
  <2> QED BY <2>1 DEF ScriptInv, Deleting
<1>5. ASSUME SubmitJob PROVE ScriptInv'
  <2> DEFINE new == {j \in Job : job[j].state = "none"}
  <2>1. First(new) \in Job
    BY <1>5, FirstIsIn DEF SubmitJob, Submit
  <2>2. job' = [job EXCEPT ![First(new)] = [state |-> "pending",
                   tag |-> request.output, text |-> request.text]]
    BY <1>5 DEF SubmitJob, Submit
  <2>3. request.text <= temp2 /\ request'.pc = "tickle"
        /\ UNCHANGED <<process, temp2, launches>>
    BY <1>5, NextStep DEF SubmitJob, Submit, ScriptInv, Types, Launching
  <2>4. \A j \in Job : job'[j].text <= temp2
    BY <2>1, <2>2, <2>3 DEF Types, ScriptInv
  <2> QED BY <2>3, <2>4 DEF ScriptInv, Deleting
<1>17. ASSUME TickleRunner PROVE ScriptInv'
  BY <1>17 DEF TickleRunner, Tickle, ScriptInv, NoRequest, Deleting
<1>6. ASSUME NEW r \in Runner, RunnerStep(r), UNCHANGED webVars
      PROVE  ScriptInv'
  <2>1. \A j \in Job : job'[j].text = job[j].text
    BY <1>6, RunnerStepJobs DEF SameJobs
  <2>2. UNCHANGED <<launches, temp2, request>>
    BY <1>6 DEF webVars
  <2>3. CASE UNCHANGED process
    BY <2>1, <2>2, <2>3, SameTexts
  <2>4. ASSUME NEW p \in Process, NEW j \in Job,
               process' = [process EXCEPT ![p] =
                              [pc |-> "starting", job |-> j, tag |-> job[j].tag,
                               own |-> job[j].text, text |-> 0]]
        PROVE  ScriptInv'
    BY <2>1, <2>2, <2>4 DEF Types, ScriptInv
  <2> QED BY <1>6, <2>3, <2>4, RunnerStepProcess
<1>7. ASSUME NEW p \in Process, ReadScript(p) PROVE ScriptInv'
  <2>1. /\ \A q \in Process : q # p => process'[q] = process[q]
        /\ process'[p].text = temp2 /\ process'[p].own = process[p].own
    BY <1>7, RunningProcess DEF ReadScript, Types
  <2>2. UNCHANGED <<job, launches, temp2, request>>
    BY <1>7 DEF ReadScript, webVars
  <2> QED BY <2>1, <2>2 DEF Types, ScriptInv, ProcessType
<1>8. ASSUME NEW p \in Process, ProcessEnds(p), UNCHANGED webVars
      PROVE  ScriptInv'
  <2>1. /\ \A q \in Process : q # p => process'[q] = process[q]
        /\ process'[p].pc = "none" /\ process'[p].own = 0
    BY <1>8 DEF ProcessEnds, Types, NoProcess
  <2>2. UNCHANGED <<job, launches, temp2, request>>
    BY <1>8 DEF ProcessEnds, webVars
  <2> QED BY <2>1, <2>2 DEF Types, ScriptInv
<1>9. ASSUME UNCHANGED <<job, process, webVars>> PROVE ScriptInv'
  BY <1>9 DEF webVars, ScriptInv
<1>10. ASSUME ServerCrash PROVE ScriptInv'
  BY <1>10 DEF ServerCrash, ServerGone, ScriptInv, NoRequest, Deleting
<1>11. ASSUME \/ Respawn /\ UNCHANGED webVars
              \/ \E r \in Runner : RunnerCrash(r) /\ UNCHANGED webVars
              \/ stop_simulation
              \/ ServerStop
              \/ ServerStarts /\ UNCHANGED webVars
              \/ UNCHANGED vars
       PROVE  ScriptInv'
  BY <1>9, <1>11 DEF Respawn, RunnerCrash, stop_simulation, ServerGone,
                     ServerStop, ServerExits, ServerStarts, vars, bjVars
<1> QED
  BY <1>1, <1>2, <1>3, <1>4, <1>5, <1>6, <1>7, <1>8, <1>10, <1>11, <1>12,
     <1>13, <1>14, <1>15, <1>16, <1>17
  DEF Next, Handler, Background, Faults

-----------------------------------------------------------------------------
(* Processes without a runner *)

\* No process runs at first.
LEMMA InitOrphan == Init => OrphanInv
<1> SUFFICES ASSUME Init PROVE OrphanInv
  OBVIOUS
<1>1. Orphan = {}
  BY DEF Init, BjInit, Orphan, Live, NoProcess
<1>2. servers = {server} /\ crashes = 0
  BY DEF Init, BjInit
<1>3. IsFiniteSet(servers)
  BY <1>2, FS_Singleton
<1>4. IsFiniteSet(Orphan) /\ Cardinality(Orphan) = 0
  BY <1>1, FS_EmptySet
<1> QED BY <1>2, <1>3, <1>4 DEF OrphanInv

\* A step that makes no orphan.
LEMMA NoOrphan ==
  ASSUME Types, OrphanInv, Orphan' \subseteq Orphan,
         UNCHANGED <<servers, crashes>>
  PROVE  OrphanInv'
<1>1. IsFiniteSet(Orphan') /\ Cardinality(Orphan') <= Cardinality(Orphan)
  BY FS_Subset DEF OrphanInv
<1>2. Cardinality(Orphan) \in Nat /\ Cardinality(Orphan') \in Nat
  BY <1>1, FS_CardinalityType DEF OrphanInv
<1>3. Cardinality(Orphan') <= crashes
  BY <1>1, <1>2 DEF OrphanInv, Types
<1> QED BY <1>1, <1>3 DEF OrphanInv

\* A busy runner stays busy with its process.
LEMMA BusyStays ==
  ASSUME UNCHANGED process,
         \A r \in Runner : runner[r].pc = "busy" => runner'[r] = runner[r]
  PROVE  Orphan' \subseteq Orphan
BY DEF Orphan, Live, Waited

\* Every step keeps the number of orphans within that of crashes.
LEMMA OrphanNext ==
  ASSUME Types, RunnerInv, OrphanInv, [Next]_vars
  PROVE  OrphanInv'
<1>1. ASSUME UNCHANGED <<servers, crashes, process, runner>> PROVE OrphanInv'
  BY <1>1, BusyStays, NoOrphan
<1>2. ASSUME TickleRunner PROVE OrphanInv'
  <2>1. UNCHANGED <<servers, crashes, process>>
    BY <1>2 DEF TickleRunner, Tickle
  <2>2. ASSUME NEW r \in Runner, NEW new, runner[r].pc # "busy",
               runner' = [runner EXCEPT ![r] = new]
        PROVE  OrphanInv'
    <3>1. \A q \in Runner : runner[q].pc = "busy" => runner'[q] = runner[q]
      BY <2>2 DEF Types
    <3> QED BY <2>1, <3>1, BusyStays, NoOrphan
  <2>3. CASE SpawnRunner(server) /\ runner' = Spawned(server)
    <3>1. First(FreeRunner) \in Runner /\ runner[First(FreeRunner)].pc # "busy"
      BY <2>3, FirstIsIn DEF SpawnRunner, FreeRunner, Alive
    <3> QED BY <2>2, <2>3, <3>1 DEF Spawned
  <2>4. CASE UNCHANGED runner
    BY <1>1, <2>1, <2>4
  <2>5. config[server] \in Runner \cup {None}
    BY <1>2 DEF TickleRunner, Types
  <2> QED BY <1>2, <2>2, <2>3, <2>4, <2>5 DEF TickleRunner, Tickle, Alive
<1>3. ASSUME Respawn PROVE OrphanInv'
  <2>1. First(FreeRunner) \in Runner /\ runner[First(FreeRunner)].pc # "busy"
    BY <1>3, FirstIsIn DEF Respawn, SpawnRunner, FreeRunner, Alive
  <2>2. \A q \in Runner : runner[q].pc = "busy" => runner'[q] = runner[q]
    BY <1>3, <2>1 DEF Respawn, Spawned, Types
  <2> QED BY <1>3, <2>2, BusyStays, NoOrphan DEF Respawn
<1>4. ASSUME NEW r \in Runner,
             Register(r) \/ FillMorgue(r) \/ Loop(r) \/ NoJobs(r) \/ Collect(r)
      PROVE  OrphanInv'
  <2>1. /\ runner[r].pc # "busy"
        /\ \A q \in Runner : q # r => runner'[q] = runner[q]
        /\ UNCHANGED <<servers, crashes, process>>
    BY <1>4 DEF Register, FillMorgue, Loop, NoJobs, Collect, Exit, Types
  <2> QED BY <2>1, BusyStays, NoOrphan
<1>5. ASSUME NEW r \in Runner, StartJob(r) PROVE OrphanInv'
  <2> DEFINE j == First(Pending)
             p == First(FreeProcess)
  <2>1. j \in Job /\ p \in Process
    BY <1>5, FirstIsIn DEF StartJob, Pending, FreeProcess
  <2>2. /\ runner' = [runner EXCEPT ![r].pc = "busy", ![r].job = j,
                                    ![r].process = p]
        /\ runner[r].pc = "jobs"
        /\ UNCHANGED <<servers, crashes>>
    BY <1>5 DEF StartJob
  <2>3. /\ \A q \in Runner : q # r => runner'[q] = runner[q]
        /\ runner'[r].pc = "busy" /\ runner'[r].process = p
    BY <2>1, <2>2, BusyRunner DEF Types
  <2>4. \A q \in Process : q # p => process'[q] = process[q]
    BY <1>5 DEF StartJob, Types
  <2>5. Orphan' \subseteq Orphan
    <3> HIDE DEF j, p
    <3> QED BY <2>1, <2>2, <2>3, <2>4 DEF Orphan, Live, Waited
  <2> QED BY <2>2, <2>5, NoOrphan
<1>6. ASSUME NEW p \in Process, ReadScript(p) PROVE OrphanInv'
  <2>1. UNCHANGED <<servers, crashes, runner>> /\ process[p].pc = "starting"
    BY <1>6 DEF ReadScript
  <2>2. \A q \in Process : q # p => process'[q] = process[q]
    BY <1>6, RunningProcess DEF ReadScript, Types
  <2>3. Orphan' \subseteq Orphan
    BY <2>1, <2>2 DEF Orphan, Live, Waited
  <2> QED BY <2>1, <2>3, NoOrphan
<1>7. ASSUME NEW p \in Process, ProcessEnds(p) PROVE OrphanInv'
  <2>1. /\ \A q \in Process : q # p => process'[q] = process[q]
        /\ process'[p].pc = "none"
        /\ UNCHANGED <<servers, crashes>>
    BY <1>7 DEF ProcessEnds, Types, NoProcess
  <2>2. \A r \in Runner : runner[r].process # p => runner'[r] = runner[r]
    BY <1>7 DEF ProcessEnds
  <2>3. Orphan' \subseteq Orphan
    BY <2>1, <2>2 DEF Orphan, Live, Waited
  <2> QED BY <2>1, <2>3, NoOrphan
<1>8. ASSUME NEW r \in Runner, RunnerCrash(r) PROVE OrphanInv'
  <2> DEFINE S == Orphan \cup {runner[r].process}
  <2>1. /\ \A q \in Runner : q # r => runner'[q] = runner[q]
        /\ UNCHANGED <<process, servers>> /\ crashes' = crashes + 1
    BY <1>8 DEF RunnerCrash, Types
  <2>2. Orphan' \in SUBSET S
    BY <2>1 DEF Orphan, Live, Waited
  <2>3. IsFiniteSet(S) /\ Cardinality(S) <= Cardinality(Orphan) + 1
        /\ Cardinality(Orphan) \in Nat
    <3>1. IsFiniteSet(Orphan)
      BY DEF OrphanInv
    <3>2. Cardinality(Orphan) \in Nat
      BY <3>1, FS_CardinalityType
    <3>3. IsFiniteSet(S) /\ Cardinality(S) =
             IF runner[r].process \in Orphan THEN Cardinality(Orphan)
             ELSE Cardinality(Orphan) + 1
      BY <3>1, FS_AddElement
    <3> QED BY <3>2, <3>3
  <2>4. IsFiniteSet(Orphan') /\ Cardinality(Orphan') <= Cardinality(S)
    BY <2>2, <2>3, FS_Subset
  <2>5. Cardinality(Orphan') \in Nat /\ Cardinality(S) \in Nat
    BY <2>3, <2>4, FS_CardinalityType
  <2>6. Cardinality(Orphan') <= crashes'
    BY <2>1, <2>3, <2>4, <2>5 DEF OrphanInv, Types
  <2> QED BY <2>1, <2>4, <2>6 DEF OrphanInv
<1>9. ASSUME ServerStop PROVE OrphanInv'
  <2>1. UNCHANGED <<servers, crashes, process>> /\ server # None
    BY <1>9 DEF ServerStop, ServerExits, Ready
  <2>2. \A r \in Runner :
           runner[r].pc = "busy" =>
              /\ runner'[r].pc = "busy"
              /\ runner'[r].process = runner[r].process
    BY <1>9 DEF ServerStop, ServerExits, Types, RunnerType
  <2>3. Orphan' \subseteq Orphan
    BY <2>1, <2>2 DEF Orphan, Live, Waited
  <2> QED BY <2>1, <2>3, NoOrphan
<1>10. ASSUME ServerStarts PROVE OrphanInv'
  <2>1. UNCHANGED <<crashes, process, runner>>
        /\ servers' = servers \cup {server'}
    BY <1>10 DEF ServerStarts
  <2>2. IsFiniteSet(servers')
    BY <2>1, FS_AddElement DEF OrphanInv
  <2>3. Orphan' = Orphan
    BY <2>1 DEF Orphan, Live, Waited
  <2> QED BY <2>1, <2>2, <2>3 DEF OrphanInv
<1>11. ASSUME \/ \E o \in Output, overwrite \in BOOLEAN : Launch(o, overwrite)
              \/ \E i \in Simulation : delete_simulation(i)
              \/ FindArchived \/ DeleteJob \/ DeleteArchived
              \/ DeleteSimulation \/ RemoveDirectory
              \/ WriteScript \/ MakeDirectory
              \/ new_simulation \/ SubmitJob
              \/ stop_simulation
              \/ ServerCrash
              \/ UNCHANGED vars
       PROVE  OrphanInv'
  BY <1>1, <1>11 DEF Launch, delete_simulation, FindArchived, DeleteJob,
                     DeleteArchived, DeleteSimulation, RemoveDirectory,
                     WriteScript, MakeDirectory, new_simulation, SubmitJob,
                     Submit, stop_simulation, ServerCrash, ServerGone, vars,
                     bjVars
<1> QED
  BY <1>2, <1>3, <1>4, <1>5, <1>6, <1>7, <1>8, <1>9, <1>10, <1>11
  DEF Next, Handler, Background, RunnerStep, Faults

\* Each process is an orphan or has a runner, whose server has no other.
LEMMA AtMostOrphans ==
  ASSUME Types, RunnerInv, OrphanInv
  PROVE  OneAtATime
<1> DEFINE R(p) == CHOOSE r \in Runner : runner[r].pc = "busy" /\
                                         runner[r].process = p
           f == [p \in Waited |-> runner[R(p)].ppid]
<1>1. ASSUME NEW p \in Waited
      PROVE  /\ R(p) \in Runner /\ runner[R(p)].pc = "busy"
             /\ runner[R(p)].process = p
  BY DEF Waited
<1>2. ASSUME NEW p \in Waited
      PROVE  runner[R(p)].ppid \in servers /\ runner[R(p)].ppid # None
  <2> HIDE DEF R
  <2> QED BY <1>1 DEF RunnerInv
<1>3. ASSUME NEW p \in Waited, NEW q \in Waited,
             runner[R(p)].ppid = runner[R(q)].ppid
      PROVE  p = q
  <2> HIDE DEF R
  <2>1. R(p) = R(q)
    BY <1>1, <1>2, <1>3 DEF RunnerInv
  <2> QED BY <1>1, <2>1
<1>4. f \in Injection(Waited, servers)
  <2> HIDE DEF R
  <2> QED BY <1>2, <1>3 DEF Injection, IsInjective
<1>5. IsFiniteSet(Waited) /\ Cardinality(Waited) <= Cardinality(servers)
  BY <1>4, FS_Injection DEF OrphanInv
<1>6. IsFiniteSet(Orphan \cup Waited)
      /\ Cardinality(Orphan \cup Waited) =
            Cardinality(Orphan) + Cardinality(Waited)
               - Cardinality(Orphan \cap Waited)
  BY <1>5, FS_Union DEF OrphanInv
<1>7. Orphan \cap Waited = {}
  BY DEF Orphan
<1>8. Cardinality(Orphan \cap Waited) = 0
  BY <1>7, FS_EmptySet
<1>9. IsFiniteSet(Live) /\ Cardinality(Live) <= Cardinality(Orphan \cup Waited)
  BY <1>6, FS_Subset DEF Orphan
<1>10. \A S \in {Live, Orphan, Waited, servers, Orphan \cup Waited} :
          Cardinality(S) \in Nat
  BY <1>5, <1>6, <1>9, FS_CardinalityType DEF OrphanInv
<1>11. Cardinality(Live) <= crashes + Cardinality(servers)
  BY <1>5, <1>6, <1>8, <1>9, <1>10 DEF OrphanInv, Types
<1> QED BY <1>10, <1>11 DEF OneAtATime, Deaths, Live, Types

-----------------------------------------------------------------------------
(* The output as a key *)

\* The only simulation at first is the earlier one.
LEMMA InitKey == Init => KeyInv
<1> SUFFICES ASSUME Init PROVE KeyInv
  OBVIOUS
<1>1. First(Simulation) \in Simulation
  BY FirstIsIn
<1>2. \A i \in Simulation : There(i) => i = First(Simulation)
  BY DEF Init, There, NoSimulation
<1>3. There(First(Simulation)) /\ simulation[First(Simulation)].output = Earlier
  BY <1>1 DEF Init, There
<1>4. SimulationKey
  BY <1>2, <1>3 DEF SimulationKey, Init
<1>5. \A j \in Job : ~InTable(j)
  BY DEF Init, BjInit, InTable, NoJob
<1>6. JobKey
  BY <1>5 DEF JobKey
<1>7. DeletionKey /\ LaunchKey
  BY DEF DeletionKey, LaunchKey, Init, NoRequest, Deleting
<1> QED BY <1>4, <1>6, <1>7 DEF KeyInv

\* A step of others keeps the keys: of the jobs it may take some out of the
\* table.
LEMMA SameKeys ==
  ASSUME SameJobs, KeyInv, Types, UNCHANGED <<simulation, results>>,
         UNCHANGED request \/ request' = NoRequest
  PROVE  KeyInv'
<1>1. \A i : There(i)' <=> There(i)
  BY DEF There
<1>2. SimulationKey'
  BY <1>1 DEF KeyInv, SimulationKey
<1>3. JobKey'
  BY <1>1 DEF KeyInv, JobKey, SameJobs
<1>4. CASE request' = NoRequest
  <2>1. request'.pc = "idle"
    BY <1>4 DEF NoRequest
  <2>2. DeletionKey' /\ LaunchKey'
    BY <2>1 DEF DeletionKey, LaunchKey, Deleting
  <2> QED BY <1>2, <1>3, <2>2 DEF KeyInv
<1>5. CASE UNCHANGED request
  <2>1. \A o : NoSimulationOf(o)' <=> NoSimulationOf(o)
    BY <1>1 DEF NoSimulationOf
  <2>2. \A o : NoJobOf(o) => NoJobOf(o)'
    BY DEF NoJobOf, SameJobs
  <2>3. Directory' = Directory
    BY <1>5 DEF Directory
  <2>4. request.id \in Simulation /\ MayDelete(request.id) => MayDelete(request.id)'
    BY <1>1, <1>5 DEF MayDelete
  <2>5. request.job1 \in Job \cup {None} /\ request.job2 \in Job \cup {None}
    BY DEF Types, RequestType
  <2>6. DeletionKey'
    <3>1. /\ request' = request
          /\ request.pc \in Deleting =>
                request.id \in Simulation /\ MayDelete(request.id)'
          /\ request.pc \in Deleting \ {"directory"} => There(request.id)'
      BY <1>1, <1>5, <2>4 DEF KeyInv, DeletionKey
    <3>2. request.pc \in {"archive", "job1"} =>
             /\ request.job1 # None => job'[request.job1].tag = Directory
             /\ \A j \in Job : InTable(j)' /\ job'[j].tag = Directory =>
                                  j = request.job1
      BY <2>5 DEF KeyInv, DeletionKey, SameJobs
    <3>3. request.pc \in {"job1", "job2"} /\ request.job2 # None =>
             job'[request.job2].tag = Directory /\ ~InTable(request.job2)'
      BY <1>5, <2>5 DEF KeyInv, DeletionKey, SameJobs, InTable
    <3>4. /\ request.pc \in {"job2", "simulation"} => NoJobOf(Directory)'
          /\ request.pc = "directory" => NoSimulationOf(Directory)'
      <4>1. NoJobOf(Directory) => NoJobOf(Directory)'
        <5> DEFINE d == Directory
        <5>1. d' = d
          BY <2>3
        <5> HIDE DEF d
        <5>2. (\A j \in Job : InTable(j) => job[j].tag # d) =>
                 \A j \in Job : InTable(j)' => job'[j].tag # d'
          BY <5>1 DEF SameJobs
        <5> QED BY <5>2 DEF d, NoJobOf
      <4>2. NoSimulationOf(Directory) => NoSimulationOf(Directory)'
        BY <1>1, <2>3 DEF NoSimulationOf
      <4> QED BY <4>1, <4>2 DEF KeyInv, DeletionKey
    <3> QED BY <2>3, <3>1, <3>2, <3>3, <3>4 DEF DeletionKey
  <2>7. LaunchKey'
    BY <1>1, <1>5, <2>1, <2>2 DEF KeyInv, LaunchKey
  <2> QED BY <1>2, <1>3, <2>6, <2>7 DEF KeyInv
<1> QED BY <1>4, <1>5

\* find_by_output finds a simulation with the output, unless there is none.
LEMMA Found ==
  ASSUME NEW o
  PROVE  \/ /\ There(find_by_output(o))
            /\ simulation[find_by_output(o)].output = o
         \/ /\ find_by_output(o) = NilId
            /\ \A i \in Simulation : There(i) => simulation[i].output # o
<1> DEFINE found == {i \in Simulation : There(i) /\ simulation[i].output = o}
<1>1. CASE found = {}
  BY <1>1 DEF find_by_output
<1>2. CASE found # {}
  <2>1. First(found) \in found
    BY <1>2, FirstIsIn
  <2> QED BY <1>2, <2>1 DEF find_by_output
<1> QED BY <1>1, <1>2

\* A deletion finds its jobs, and one request follows another: the tables
\* stay as they are.
LEMMA FindKeeps ==
  ASSUME Types, KeyInv, UNCHANGED <<job, simulation, results>>
  PROVE  /\ SimulationKey' /\ JobKey'
         /\ \A o : (NoSimulationOf(o)' <=> NoSimulationOf(o)) /\
                   (NoJobOf(o)' <=> NoJobOf(o))
         /\ \A i : There(i)' <=> There(i)
         /\ \A j : InTable(j)' <=> InTable(j)
<1>1. /\ \A i : There(i)' <=> There(i)
      /\ \A j : InTable(j)' <=> InTable(j)
  BY DEF There, InTable
<1>2. SimulationKey'
  BY <1>1 DEF KeyInv, SimulationKey
<1>3. JobKey'
  BY <1>1 DEF KeyInv, JobKey
<1>4. \A o : (NoSimulationOf(o)' <=> NoSimulationOf(o)) /\ (NoJobOf(o)' <=> NoJobOf(o))
  BY <1>1 DEF NoSimulationOf, NoJobOf
<1> QED BY <1>1, <1>2, <1>3, <1>4

\* A deletion begins: it has found the only job of the simulation.
LEMMA BeginKeeps ==
  ASSUME Types, KeyInv, NEW id \in Simulation, There(id),
         NEW o \in Output \cup {"none"}, NEW text \in Nat,
         del_sim(id, o, text), UNCHANGED <<job, simulation, results>>,
         \/ o = "none"
         \/ simulation[id].output = o
         \/ (id = NilId /\ NoSimulationOf(o))
  PROVE  KeyInv'
<1>1. /\ SimulationKey' /\ JobKey'
      /\ \A i : There(i)' <=> There(i)
      /\ \A j : InTable(j)' <=> InTable(j)
  BY FindKeeps
<1>2. /\ request'.pc = "archive" /\ request'.id = id
      /\ request'.output = o /\ request'.job2 = None
      /\ request'.job1 # None => job[request'.job1].tag = simulation[id].output
      /\ \/ request'.job1 \in Job
         \/ \A j \in Job : ~(InTable(j) /\ job[j].tag = simulation[id].output)
  BY BegunDeletion
<1>3. Directory' = simulation[id].output
  BY <1>2 DEF Directory
<1>4. \A j \in Job : InTable(j) /\ job[j].tag = simulation[id].output =>
                        j = request'.job1
  <2> SUFFICES ASSUME NEW j \in Job, InTable(j), job[j].tag = simulation[id].output
               PROVE  j = request'.job1
    OBVIOUS
  <2> DEFINE table == {k \in Job : InTable(k) /\ job[k].tag = simulation[id].output}
  <2>1. request'.job1 = FirstOf(table)
    BY DEF del_sim
  <2>2. FirstOf(table) \in table
    BY FirstOfIs
  <2> QED BY <2>1, <2>2 DEF KeyInv, JobKey
<1>5. MayDelete(request.id)'
  BY <1>1, <1>2 DEF MayDelete, NoSimulationOf
<1>6. DeletionKey'
  BY <1>1, <1>2, <1>3, <1>4, <1>5 DEF DeletionKey
<1>7. LaunchKey'
  BY <1>2 DEF LaunchKey
<1> QED BY <1>1, <1>6, <1>7 DEF KeyInv

\* A launch that writes its files next.
LEMMA WriteKeeps ==
  ASSUME SimulationKey', JobKey', request'.pc = "write",
         NoSimulationOf(request.output)'
  PROVE  KeyInv'
<1>1. DeletionKey'
  BY DEF DeletionKey, Deleting
<1>2. LaunchKey'
  BY DEF LaunchKey
<1> QED BY <1>1, <1>2 DEF KeyInv

\* The steps of del_sim keep the keys.
LEMMA FindArchivedKeeps ==
  ASSUME Types, KeyInv, FindArchived
  PROVE  KeyInv'
<1> DEFINE archive == {j \in Job : job[j].state = "archived" /\
                                  job[j].tag = Directory}
           first == FirstOf(archive)
<1>1. first = None \/ first \in archive
  BY FirstOfIs
<1>2. /\ request.pc = "archive"
      /\ request' = [request EXCEPT !.pc = "job1", !.job2 = first]
      /\ UNCHANGED <<job, simulation, results>>
  BY DEF FindArchived, bjVars
<1>3. first # None => job[first].tag = Directory /\ ~InTable(first)
  BY <1>1 DEF InTable
<1> HIDE DEF first
<1>4. /\ request'.pc = "job1" /\ request'.id = request.id
      /\ request'.output = request.output
      /\ request'.job1 = request.job1 /\ request'.job2 = first
  BY <1>2 DEF Types, RequestType
<1>5. /\ SimulationKey' /\ JobKey'
      /\ \A i : There(i)' <=> There(i)
      /\ \A j : InTable(j)' <=> InTable(j)
  BY <1>2, FindKeeps
<1>6. Directory' = Directory
  BY <1>2, <1>4 DEF Directory
<1>7. request.id \in Simulation /\ MayDelete(request.id)' /\ There(request.id)'
  BY <1>2, <1>4, <1>5 DEF KeyInv, DeletionKey, Deleting, MayDelete
<1>8. DeletionKey'
  BY <1>2, <1>3, <1>4, <1>5, <1>6, <1>7 DEF KeyInv, DeletionKey
<1>9. LaunchKey'
  BY <1>4 DEF LaunchKey
<1> QED BY <1>5, <1>8, <1>9 DEF KeyInv

LEMMA DeleteJobKeeps ==
  ASSUME Types, KeyInv, DeleteJob \/ DeleteArchived
  PROVE  KeyInv'
<1>1. /\ UNCHANGED <<simulation, results>>
      /\ \/ job' = job
         \/ /\ request.job1 \in Job
            /\ job' = [job EXCEPT ![request.job1].state = "deleted"]
         \/ /\ request.job2 \in Job
            /\ job' = [job EXCEPT ![request.job2].state = "deleted"]
  BY DEF DeleteJob, DeleteArchived, Types, RequestType
<1>2. \A j \in Job : /\ job'[j].tag = job[j].tag
                     /\ InTable(j)' => InTable(j)
  BY <1>1 DEF Types, JobType, InTable
<1>3. \A i : There(i)' <=> There(i)
  BY <1>1 DEF There
<1>4. SimulationKey' /\ JobKey'
  BY <1>1, <1>2, <1>3 DEF KeyInv, SimulationKey, JobKey
<1>5. /\ request.pc \in {"job1", "job2"} /\ request'.pc \in {"job2", "simulation"}
      /\ request'.id = request.id /\ request'.output = request.output
      /\ request'.job2 = request.job2
      /\ request'.pc = "job2" => request.pc = "job1"
  BY NextStep DEF DeleteJob, DeleteArchived, Types, Deleting
<1>6. Directory' = Directory
  BY <1>1, <1>5 DEF Directory
<1>7. request.id \in Simulation /\ MayDelete(request.id)' /\ There(request.id)'
  BY <1>1, <1>3, <1>5 DEF KeyInv, DeletionKey, Deleting, MayDelete
<1>8. NoJobOf(Directory)'
  <2>1. CASE request.pc = "job2"
    BY <1>2, <1>6, <2>1 DEF KeyInv, DeletionKey, NoJobOf
  <2>2. CASE request.pc = "job1"
    <3> SUFFICES ASSUME NEW j \in Job, InTable(j)', job'[j].tag = Directory
                 PROVE  FALSE
      BY <1>6 DEF NoJobOf
    <3>1. j = request.job1 /\ InTable(j)
      BY <1>2, <2>2 DEF KeyInv, DeletionKey
    <3>2. job' = [job EXCEPT ![j].state = "deleted"]
      BY <2>2, <3>1 DEF DeleteJob, DeleteArchived
    <3>3. job'[j].state = "deleted"
      BY <3>2 DEF Types, JobType
    <3> QED BY <3>3 DEF InTable
  <2> QED BY <1>5, <2>1, <2>2
<1>9. request.job2 # None => job'[request.job2].tag = Directory
                             /\ ~InTable(request.job2)'
  <2>1. request.job2 \in Job \cup {None}
    BY DEF Types, RequestType
  <2> QED BY <1>2, <1>5, <2>1 DEF KeyInv, DeletionKey
<1>10. DeletionKey'
  BY <1>5, <1>6, <1>7, <1>8, <1>9 DEF DeletionKey
<1>11. LaunchKey'
  BY <1>5 DEF LaunchKey
<1> QED BY <1>4, <1>10, <1>11 DEF KeyInv

LEMMA DeleteSimulationKeeps ==
  ASSUME Types, KeyInv, DeleteSimulation
  PROVE  KeyInv'
<1> DEFINE id == request.id
<1>1. /\ request.pc = "simulation" /\ id \in Simulation /\ MayDelete(id)
      /\ NoJobOf(Directory)
  BY DEF DeleteSimulation, KeyInv, DeletionKey, Deleting
<1>2. /\ simulation' = [simulation EXCEPT ![id].state = "deleted"]
      /\ UNCHANGED <<job, results>>
  BY DEF DeleteSimulation, bjVars
<1>3. \A i \in Simulation : /\ There(i)' => There(i) /\ i # id
                            /\ There(i) /\ i # id => There(i)'
                            /\ simulation'[i].output = simulation[i].output
  BY <1>1, <1>2 DEF There, Types, SimulationType
<1>4. request'.pc = "directory" /\ request'.id = id
      /\ request'.output = request.output
  BY NextStep DEF DeleteSimulation, Types, Deleting
<1>5. Directory' = Directory
  BY <1>1, <1>3, <1>4 DEF Directory
<1>6. SimulationKey'
  BY <1>2, <1>3 DEF KeyInv, SimulationKey
<1>7. JobKey'
  <2>1. \A j \in Job : job'[j] = job[j] /\ (InTable(j)' <=> InTable(j))
    BY <1>2 DEF InTable
  <2>2. ASSUME NEW j \in Job, InTable(j)
        PROVE  \E i \in Simulation : There(i)' /\ simulation'[i].output = job[j].tag
    <3>1. PICK i \in Simulation : There(i) /\ simulation[i].output = job[j].tag
      BY <2>2 DEF KeyInv, JobKey
    <3>2. i # id
      BY <1>1, <2>2, <3>1 DEF NoJobOf, Directory
    <3> QED BY <1>3, <3>1, <3>2
  <2> QED BY <2>1, <2>2 DEF KeyInv, JobKey
<1>8. NoSimulationOf(Directory)'
  <2> SUFFICES ASSUME NEW i \in Simulation, There(i)', simulation'[i].output = Directory
               PROVE  FALSE
    BY <1>5 DEF NoSimulationOf
  <2>1. There(i) /\ i # id /\ simulation[i].output = simulation[id].output
    BY <1>3 DEF Directory
  <2>2. There(id)
    BY <1>1 DEF KeyInv, DeletionKey, Deleting
  <2> QED BY <1>1, <2>1, <2>2 DEF KeyInv, SimulationKey
<1>9. MayDelete(id)'
  BY <1>1, <1>3, <1>4 DEF MayDelete
<1>10. DeletionKey'
  BY <1>1, <1>4, <1>8, <1>9 DEF DeletionKey
<1>11. LaunchKey'
  BY <1>4 DEF LaunchKey
<1> QED BY <1>6, <1>7, <1>10, <1>11 DEF KeyInv

LEMMA RemoveDirectoryKeeps ==
  ASSUME Types, KeyInv, RemoveDirectory
  PROVE  KeyInv'
<1>1. /\ request.pc = "directory" /\ request.id \in Simulation
      /\ MayDelete(request.id) /\ NoSimulationOf(Directory)
  BY DEF RemoveDirectory, KeyInv, DeletionKey, Deleting
<1>2. /\ results' = results \ {Directory}
      /\ UNCHANGED <<job, simulation>>
  BY DEF RemoveDirectory, bjVars
<1>3. /\ \A i : There(i)' <=> There(i)
      /\ \A j : InTable(j)' <=> InTable(j)
  BY <1>2 DEF There, InTable
<1>4. SimulationKey'
  BY <1>1, <1>2, <1>3 DEF KeyInv, SimulationKey, NoSimulationOf
<1>5. JobKey'
  BY <1>2, <1>3 DEF KeyInv, JobKey
<1>6. CASE request' = NoRequest
  <2>1. request'.pc = "idle"
    BY <1>6 DEF NoRequest
  <2> QED BY <1>4, <1>5, <2>1 DEF KeyInv, DeletionKey, LaunchKey, Deleting
<1>7. CASE /\ request.output # "none"
           /\ request' = [NoRequest EXCEPT !.pc = "write",
                                           !.output = request.output,
                                           !.text = request.text]
  <2>1. request.output \in Output /\ request.text \in Nat
    BY <1>7 DEF Types, RequestType
  <2>2. request'.pc = "write" /\ request'.output = request.output
    BY <1>7, <2>1, WritingRequest
  <2>3. NoSimulationOf(request.output)
    BY <1>1, <1>7 DEF MayDelete, NoSimulationOf, Directory
  <2>4. NoSimulationOf(request.output)'
    BY <1>2, <1>3, <2>2, <2>3 DEF NoSimulationOf
  <2> QED BY <1>4, <1>5, <2>2, <2>4, WriteKeeps
<1> QED BY <1>6, <1>7 DEF RemoveDirectory

\* Every step keeps the keys.
LEMMA KeyNext ==
  ASSUME Types, KeyInv, [Next]_vars
  PROVE  KeyInv'
<1>1. ASSUME SameJobs, UNCHANGED <<simulation, results>>,
             UNCHANGED request \/ request' = NoRequest
      PROVE  KeyInv'
  BY <1>1, SameKeys
<1>2. ASSUME UNCHANGED <<job, simulation, results>>,
             UNCHANGED request \/ request' = NoRequest
      PROVE  KeyInv'
  BY <1>1, <1>2 DEF SameJobs, InTable
<1>3. ASSUME NEW o \in Output, NEW overwrite \in BOOLEAN, Launch(o, overwrite)
      PROVE  KeyInv'
  <2> DEFINE id == find_by_output(o)
  <2>1. launches' \in Nat /\ UNCHANGED <<job, simulation, results>>
    BY <1>3 DEF Launch, Types, bjVars
  <2>2. CASE o \notin results /\ request' = [NoRequest EXCEPT !.pc = "write",
                                    !.output = o, !.text = launches']
    <3>1. request'.pc = "write" /\ request'.output = o
      BY <2>1, <2>2, WritingRequest
    <3>2. NoSimulationOf(o)
      BY <2>2 DEF KeyInv, SimulationKey, NoSimulationOf
    <3>3. SimulationKey' /\ JobKey' /\ NoSimulationOf(o)'
      BY <2>1, <3>2, FindKeeps
    <3>4. NoSimulationOf(request.output)'
      BY <3>1, <3>3 DEF NoSimulationOf
    <3> QED BY <3>1, <3>3, <3>4, WriteKeeps
  <2>3. CASE There(id) /\ del_sim(id, o, launches')
    <3>1. id \in Simulation
      BY <2>3 DEF There
    <3>2. simulation[id].output = o \/ (id = NilId /\ NoSimulationOf(o))
      BY Found DEF NoSimulationOf
    <3> HIDE DEF id
    <3> QED BY <2>1, <2>3, <3>1, <3>2, BeginKeeps
  <2> QED BY <1>3, <2>2, <2>3 DEF Launch
<1>4. ASSUME NEW i \in Simulation, delete_simulation(i) PROVE KeyInv'
  <2>1. UNCHANGED <<job, simulation, results>>
    BY <1>4 DEF delete_simulation, bjVars
  <2> QED BY <1>4, <2>1, BeginKeeps DEF delete_simulation
<1>5. ASSUME WriteScript PROVE KeyInv'
  <2>1. /\ request.pc = "write" /\ request'.pc = "mkdir"
        /\ request'.output = request.output
        /\ UNCHANGED <<job, simulation, results>>
    BY <1>5, NextStep DEF WriteScript, bjVars, Types, Launching
  <2>2. SimulationKey' /\ JobKey' /\ NoSimulationOf(request.output)'
    BY <2>1, FindKeeps DEF KeyInv, LaunchKey, NoSimulationOf
  <2>3. DeletionKey' /\ LaunchKey'
    BY <2>1, <2>2 DEF DeletionKey, LaunchKey, Deleting
  <2> QED BY <2>2, <2>3 DEF KeyInv
<1>10. ASSUME MakeDirectory PROVE KeyInv'
  <2>1. /\ request.pc = "mkdir" /\ results' = results \cup {request.output}
        /\ UNCHANGED <<job, simulation>>
        /\ \/ request' = NoRequest
           \/ request' = [request EXCEPT !.pc = "record"]
    BY <1>10 DEF MakeDirectory, bjVars
  <2>2. SimulationKey' /\ JobKey'
    BY <2>1 DEF KeyInv, SimulationKey, JobKey, There, InTable
  <2>3. \/ request'.pc = "idle"
        \/ request'.pc = "record" /\ request'.output = request.output
    BY <2>1, NextStep, SMTT(40) DEF NoRequest, Types, Launching
  <2>4. NoSimulationOf(request.output)
    BY <2>1 DEF KeyInv, LaunchKey
  <2>5. request'.pc = "record" => NoSimulationOf(request.output)'
    BY <2>1, <2>3, <2>4 DEF NoSimulationOf, There
  <2>6. DeletionKey' /\ LaunchKey'
    BY <2>1, <2>3, <2>5 DEF DeletionKey, LaunchKey, Deleting
  <2> QED BY <2>2, <2>6 DEF KeyInv
<1>6. ASSUME new_simulation PROVE KeyInv'
  <2> DEFINE new == {i \in Simulation : simulation[i].state = "none"}
  <2>1. First(new) \in new
    BY <1>6, FirstIsIn DEF new_simulation
  <2>2. PICK n \in new :
          /\ request.pc = "record"
          /\ simulation' = [simulation EXCEPT ![n] =
                               [state |-> "there", output |-> request.output]]
          /\ request' = [request EXCEPT !.pc = "submit"]
          /\ UNCHANGED <<job, results>>
    BY <1>6, <2>1 DEF new_simulation, bjVars
  <2>3. /\ There(n)' /\ ~There(n) /\ simulation'[n].output = request.output
        /\ \A i \in Simulation \ {n} : /\ simulation'[i] = simulation[i]
                                       /\ There(i)' <=> There(i)
    <3>1. /\ simulation'[n] = [state |-> "there", output |-> request.output]
          /\ \A i \in Simulation \ {n} : simulation'[i] = simulation[i]
      BY <2>2 DEF Types
    <3>2. \A i \in Simulation \ {n} : There(i)' <=> There(i)
      BY <3>1 DEF There
    <3>3. simulation'[n].state = "there" /\ simulation'[n].output = request.output
      BY <3>1
    <3>4. There(n)' /\ ~There(n)
      BY <2>1, <3>3 DEF There
    <3> QED BY <3>1, <3>2, <3>3, <3>4
  <2>4. request'.pc = "submit" /\ request'.output = request.output
    BY <2>2, NextStep DEF Types, Launching
  <2>5. /\ request.output \in results
        /\ \A i \in Simulation : There(i) => simulation[i].output # request.output
    BY <2>2 DEF KeyInv, LaunchKey, NoSimulationOf
  <2>6. SimulationKey'
    BY <2>2, <2>3, <2>5 DEF KeyInv, SimulationKey
  <2>7. \A j \in Job : /\ InTable(j)' <=> InTable(j)
                       /\ job'[j].tag = job[j].tag
    BY <2>2 DEF InTable
  <2>8. ASSUME NEW j \in Job, InTable(j)
        PROVE  /\ \E i \in Simulation : There(i)' /\ simulation'[i].output = job[j].tag
               /\ job[j].tag # request.output
    <3>1. PICK i \in Simulation : There(i) /\ simulation[i].output = job[j].tag
      BY <2>8 DEF KeyInv, JobKey
    <3> QED BY <2>3, <2>5, <3>1
  <2>9. JobKey'
    BY <2>7, <2>8 DEF KeyInv, JobKey
  <2>10. LaunchKey'
    <3>1. \E i \in Simulation : There(i)' /\ simulation'[i].output = request'.output
      BY <2>3, <2>4
    <3>2. NoJobOf(request.output)'
      BY <2>4, <2>7, <2>8 DEF NoJobOf
    <3> QED BY <2>2, <2>4, <2>5, <3>1, <3>2 DEF LaunchKey
  <2>11. DeletionKey'
    BY <2>4 DEF DeletionKey, Deleting
  <2> QED BY <2>6, <2>9, <2>10, <2>11 DEF KeyInv
<1>7. ASSUME SubmitJob PROVE KeyInv'
  <2> DEFINE n == First({j \in Job : job[j].state = "none"})
  <2>1. n \in Job
    BY <1>7, FirstIsIn DEF SubmitJob, Submit
  <2>2. /\ request.pc = "submit" /\ request'.pc = "tickle"
        /\ job' = [job EXCEPT ![n] = [state |-> "pending",
                      tag |-> request.output, text |-> request.text]]
        /\ UNCHANGED <<simulation, results>>
    BY <1>7, NextStep DEF SubmitJob, Submit, Types, Launching
  <2> HIDE DEF n
  <2>3. /\ job'[n].tag = request.output
        /\ \A j \in Job \ {n} : /\ job'[j].tag = job[j].tag
                                /\ InTable(j)' <=> InTable(j)
    BY <2>1, <2>2 DEF InTable, Types
  <2>4. \A i \in Simulation : There(i)' <=> There(i)
    BY <2>2 DEF There
  <2>5. SimulationKey'
    BY <2>2, <2>4 DEF KeyInv, SimulationKey
  <2>6. /\ \E i \in Simulation : There(i) /\ simulation[i].output = request.output
        /\ \A j \in Job : InTable(j) => job[j].tag # request.output
    BY <2>2 DEF KeyInv, LaunchKey, NoJobOf
  <2>7. JobKey'
    BY <2>1, <2>2, <2>3, <2>4, <2>6, ZenonT(40) DEF KeyInv, JobKey
  <2>8. DeletionKey' /\ LaunchKey'
    BY <2>2 DEF DeletionKey, LaunchKey, Deleting
  <2> QED BY <2>5, <2>7, <2>8 DEF KeyInv
<1>8. ASSUME NEW r \in Runner, RunnerStep(r), UNCHANGED webVars PROVE KeyInv'
  BY <1>1, <1>8, RunnerStepJobs DEF webVars
<1>9. ASSUME \/ Respawn /\ UNCHANGED webVars
             \/ TickleRunner
             \/ \E p \in Process : ReadScript(p) \/ (ProcessEnds(p) /\ UNCHANGED webVars)
             \/ \E r \in Runner : RunnerCrash(r) /\ UNCHANGED webVars
             \/ stop_simulation
             \/ ServerCrash
             \/ ServerStop
             \/ ServerStarts /\ UNCHANGED webVars
             \/ UNCHANGED vars
      PROVE  KeyInv'
  BY <1>2, <1>9 DEF Respawn, TickleRunner, Tickle, ReadScript, ProcessEnds,
                    RunnerCrash, stop_simulation, ServerCrash, ServerGone,
                    ServerStop, ServerExits, ServerStarts, webVars, vars, bjVars
<1> QED
  BY <1>3, <1>4, <1>5, <1>6, <1>7, <1>8, <1>9, <1>10, FindArchivedKeeps,
     DeleteJobKeeps, DeleteSimulationKeeps, RemoveDirectoryKeeps
  DEF Next, Handler, Background, Faults

-----------------------------------------------------------------------------
(* Theorems *)

\* The inductive invariant: its parts are proved one after the other.
IInv == Types /\ RunnerInv /\ OrphanInv /\ ScriptInv /\ KeyInv

\* The invariant holds in every reachable state, whatever requests,
\* runners, processes and crashes do in between.
THEOREM Inductive == Spec => []IInv
<1>1. Init => IInv
  BY InitTypes, InitOrphan, InitScript, InitKey DEF IInv
<1>2. IInv /\ [Next]_vars => IInv'
  BY TypesNext, OrphanNext, ScriptNext, KeyNext DEF IInv
<1> QED BY <1>1, <1>2, PTL DEF Spec

\* Type correctness: rows, runners and processes refer to what exists, a
\* runner is busy exactly if it has a process, and no bound is exceeded.
THEOREM TypeCorrect == Spec => []TypeOK
<1>1. IInv => TypeOK
  BY DEF IInv, Types, RunnerInv, ScriptInv, TypeOK, JobType, RunnerType,
         ProcessType, SimulationType
<1> QED BY <1>1, Inductive, PTL

\* The output directory is a key of simulations and of the jobs in the table,
\* every job in the table has its simulation, and every simulation its
\* directory: for every interleaving of the steps of launches, deletions and
\* runners and of the ends of servers.
THEOREM ForeignKey == Spec => []TableIsForeignKey
<1>1. KeyInv => TableIsForeignKey
  BY DEF KeyInv, SimulationKey, JobKey, TableIsForeignKey
<1> QED BY <1>1, Inductive, PTL DEF IInv

\* Simulations run one after the other, but for one more for each server or
\* runner that has died: the number of processes is bounded by the deaths.
THEOREM BoundedOverlap == Spec => []OneAtATime
<1> QED BY AtMostOrphans, Inductive, PTL DEF IInv

\* stress never runs a script older than the one it was launched with.
THEOREM ScriptIsCurrent == Spec => []NotAnOlderScript
<1>1. Types /\ ScriptInv => NotAnOlderScript
  BY DEF Types, ProcessType, ScriptInv, NotAnOlderScript
<1> QED BY <1>1, Inductive, PTL DEF IInv

\* No step but those of del_sim deletes a job.
LEMMA OnlyDeletions ==
  ASSUME Types, [Next]_vars, NEW j \in Job, job[j].state # "deleted",
         job'[j].state = "deleted"
  PROVE  DeleteJob \/ DeleteArchived
<1>1. job' # job
  OBVIOUS
<1>2. ASSUME NEW r \in Runner, RunnerStep(r) PROVE FALSE
  <2>1. job \in [Job -> JobType]
    BY DEF Types
  <2>2. CASE FillMorgue(r)
    BY <2>1, <2>2 DEF FillMorgue, JobType
  <2>3. CASE Loop(r)
    BY <2>1, <2>3 DEF Loop, JobType
  <2>4. CASE StartJob(r) \/ Collect(r)
    BY <2>1, <2>4 DEF StartJob, Collect, JobType
  <2> QED BY <1>1, <1>2, <2>2, <2>3, <2>4 DEF RunnerStep, Register, NoJobs
<1>3. ASSUME SubmitJob PROVE FALSE
  BY <1>3 DEF SubmitJob, Submit, Types, JobType
<1> QED
  BY <1>1, <1>2, <1>3
  DEF Next, Launch, delete_simulation, Handler, FindArchived, DeleteSimulation,
      RemoveDirectory, WriteScript, MakeDirectory, new_simulation,
      TickleRunner, Tickle, Background, Respawn, ReadScript, ProcessEnds,
      Faults, RunnerCrash, stop_simulation, ServerCrash, ServerGone, ServerStop,
      ServerExits, ServerStarts, vars, bjVars

\* No step but that of del_sim deletes a simulation, and no other a directory.
LEMMA OnlyDeletesOne ==
  ASSUME Types, [Next]_vars
  PROVE  /\ \A i \in Simulation : There(i) /\ ~There(i)' =>
               DeleteSimulation /\ i = request.id
         /\ results \ results' # {} => RemoveDirectory
<1>1. ASSUME ~DeleteSimulation
      PROVE  \A i \in Simulation : There(i) => There(i)'
  <2>1. CASE new_simulation
    <3> DEFINE n == First({i \in Simulation : simulation[i].state = "none"})
    <3>1. simulation' = [simulation EXCEPT ![n] =
                            [state |-> "there", output |-> request.output]]
      BY <2>1 DEF new_simulation
    <3> HIDE DEF n
    <3> QED BY <3>1 DEF There, Types
  <2>2. CASE UNCHANGED simulation
    BY <2>2 DEF There
  <2> QED
    BY <1>1, <2>1, <2>2
    DEF Next, Launch, delete_simulation, Handler, FindArchived, DeleteJob,
        DeleteArchived, RemoveDirectory, WriteScript, MakeDirectory, SubmitJob,
        TickleRunner, Background, ReadScript, Faults, stop_simulation,
        ServerCrash, ServerStop, webVars, vars
<1>2. ASSUME DeleteSimulation, NEW i \in Simulation, i # request.id
      PROVE  There(i) => There(i)'
  BY <1>2 DEF DeleteSimulation, There, Types
<1>3. ASSUME ~RemoveDirectory PROVE results \subseteq results'
  BY <1>3
  DEF Next, Launch, delete_simulation, Handler, FindArchived, DeleteJob,
      DeleteArchived, DeleteSimulation, WriteScript, MakeDirectory,
      new_simulation, SubmitJob, TickleRunner, Background, ReadScript, Faults,
      stop_simulation, ServerCrash, ServerStop, webVars, vars
<1> QED BY <1>1, <1>2, <1>3

\* No step of a request, be it a launch or a deletion, removes the simulation,
\* a job or the directory of another simulation than the one asked for, or
\* the one numbered nil.id if what is to be overwritten does not exist.
THEOREM RequestsSpareOthers == Spec => OthersStay
<1> DEFINE deletable == {i \in Simulation : MayDelete(i)}
           outputs == {simulation[i].output : i \in deletable}
           Spared ==
             /\ \A i \in Simulation : There(i) /\ ~There(i)' => i \in deletable
             /\ \A j \in Job : job[j].state # "deleted" /\ job'[j].state = "deleted"
                   => job[j].tag \in outputs
             /\ results \ results' \subseteq outputs
<1>1. ASSUME IInv, [Next]_vars PROVE Spared
  <2>1. Types /\ KeyInv
    BY <1>1 DEF IInv
  <2>2. request.pc \in Deleting => request.id \in deletable /\ Directory \in outputs
    BY <2>1 DEF KeyInv, DeletionKey, Directory
  <2>3. \A i \in Simulation : There(i) /\ ~There(i)' => i \in deletable
    BY <1>1, <2>1, <2>2, OnlyDeletesOne DEF DeleteSimulation, Deleting
  <2>4. ASSUME NEW j \in Job, job[j].state # "deleted", job'[j].state = "deleted"
        PROVE  job[j].tag \in outputs
    <3>1. DeleteJob \/ DeleteArchived
      BY <1>1, <2>1, <2>4, OnlyDeletions
    <3>2. CASE DeleteJob
      <4>1. j = request.job1 /\ request.job1 # None /\ request.pc = "job1"
        BY <2>1, <2>4, <3>2 DEF DeleteJob, Types, JobType
      <4> QED BY <2>1, <2>2, <4>1 DEF KeyInv, DeletionKey, Deleting
    <3>3. CASE DeleteArchived
      <4>1. j = request.job2 /\ request.job2 # None /\ request.pc = "job2"
        BY <2>1, <2>4, <3>3 DEF DeleteArchived, Types, JobType
      <4> QED BY <2>1, <2>2, <4>1 DEF KeyInv, DeletionKey, Deleting
    <3> QED BY <3>1, <3>2, <3>3
  <2>5. results \ results' \subseteq outputs
    <3>1. CASE results \ results' = {}
      BY <3>1
    <3>2. CASE RemoveDirectory
      BY <2>2, <3>2 DEF RemoveDirectory, Deleting
    <3> QED BY <1>1, <2>1, <3>1, <3>2, OnlyDeletesOne
  <2> QED BY <2>3, <2>4, <2>5
<1> QED BY <1>1, Inductive, PTL DEF Spec, OthersStay

-----------------------------------------------------------------------------
(* Jobs of dead runners *)

\* The runner waits for the process of the job, or is about to collect it.
Holds(r, j) == runner[r].pc \in {"busy", "collect"} /\ runner[r].job = j

\* The runner has not yet looked for the jobs of dead runners.
Fresh(r) == runner[r].pc \in {"none", "register", "morgue"}

Restarted == \E s, t \in servers : s # t

\* A job is "running" because a runner holds it; or a runner died, and either
\* the next one is still to look for such jobs or there was another server.
JobsHeld ==
    \A j \in Job : job[j].state = "running" =>
        \/ \E r \in Runner : Holds(r, j)
        \/ crashes > 0 /\ (Restarted \/ \A r \in Runner : Fresh(r))

LEMMA InitHeld == Init => JobsHeld
BY DEF Init, BjInit, NoJob, JobsHeld

\* Steps that set no job to "running", take none from its runner and take no
\* runner past its morgue.
LEMMA KeepHeld ==
  ASSUME JobsHeld, crashes' = crashes, servers \subseteq servers',
         \A j \in Job : job'[j].state = "running" => job[j].state = "running",
         \A r \in Runner : \A j \in Job :
            Holds(r, j) /\ job'[j].state = "running" => Holds(r, j)',
         \A r \in Runner : Fresh(r) => Fresh(r)'
  PROVE  JobsHeld'
<1> SUFFICES ASSUME NEW j \in Job, job'[j].state = "running"
             PROVE  \/ \E r \in Runner : Holds(r, j)'
                    \/ crashes' > 0 /\ (Restarted' \/ \A r \in Runner : Fresh(r)')
  BY DEF JobsHeld
<1>1. CASE \E r \in Runner : Holds(r, j)
  BY <1>1
<1>2. CASE crashes > 0 /\ (Restarted \/ \A r \in Runner : Fresh(r))
  BY <1>2 DEF Restarted
<1> QED BY <1>1, <1>2 DEF JobsHeld

\* Steps that leave the jobs alone, and the runners but those that end
\* without a job.
LEMMA EndHeld ==
  ASSUME JobsHeld, crashes' = crashes, servers \subseteq servers', job' = job,
         \A r \in Runner :
            \/ runner'[r].pc = runner[r].pc /\ runner'[r].job = runner[r].job
            \/ runner'[r].pc = "none" /\ runner[r].pc \notin {"busy", "collect"}
            \/ runner'[r].pc = "register" /\ runner[r].pc = "none"
  PROVE  JobsHeld'
<1>1. \A r \in Runner : \A j \in Job : Holds(r, j) => Holds(r, j)'
  BY DEF Holds
<1>2. \A r \in Runner : Fresh(r) => Fresh(r)'
  BY DEF Fresh
<1> QED BY <1>1, <1>2, KeepHeld

\* A new runner takes the place of one that is not there.
LEMMA SpawnedAt ==
  ASSUME Types, SpawnRunner(server), runner' = Spawned(server)
  PROVE  \A r \in Runner :
            \/ runner'[r] = runner[r]
            \/ runner'[r].pc = "register" /\ runner[r].pc = "none"
<1>1. First(FreeRunner) \in FreeRunner
  BY FirstIsIn, BjAssumption DEF SpawnRunner, FreeRunner
<1>2. First(FreeRunner) \in Runner /\ runner[First(FreeRunner)].pc = "none"
  BY <1>1, BjAssumption DEF FreeRunner, Alive
<1> HIDE DEF FreeRunner
<1> QED BY <1>2 DEF Spawned, Types

LEMMA HeldNext == Types /\ RunnerInv /\ JobsHeld /\ [Next]_vars => JobsHeld'
<1> SUFFICES ASSUME Types, RunnerInv, JobsHeld, [Next]_vars
             PROVE  JobsHeld'
  OBVIOUS
<1>0. runner \in [Runner -> RunnerType] /\ job \in [Job -> JobType]
  BY DEF Types
<1>1. CASE DeleteJob \/ DeleteArchived
  <2>1. UNCHANGED <<runner, crashes, servers>>
    BY <1>1 DEF DeleteJob, DeleteArchived
  <2>2. \A j \in Job : job'[j].state = "running" => job[j].state = "running"
    BY <1>0, <1>1 DEF DeleteJob, DeleteArchived, JobType
  <2>3. /\ \A r \in Runner : \A j \in Job : Holds(r, j) => Holds(r, j)'
        /\ \A r \in Runner : Fresh(r) => Fresh(r)'
    BY <2>1 DEF Holds, Fresh
  <2> QED BY <2>1, <2>2, <2>3, KeepHeld
<1>2. CASE \/ \E i \in Simulation : delete_simulation(i)
           \/ \E o \in Output, overwrite \in BOOLEAN : Launch(o, overwrite)
           \/ FindArchived \/ DeleteSimulation \/ RemoveDirectory
           \/ WriteScript \/ MakeDirectory \/ new_simulation
           \/ \E p \in Process : ReadScript(p)
           \/ stop_simulation \/ ServerCrash
           \/ ServerStarts /\ UNCHANGED webVars
           \/ UNCHANGED vars
  <2>1. job' = job /\ runner' = runner /\ crashes' = crashes
        /\ servers \subseteq servers'
    BY <1>2 DEF delete_simulation, Launch, FindArchived, DeleteSimulation,
                RemoveDirectory, WriteScript, MakeDirectory, new_simulation,
                ReadScript, stop_simulation, ServerCrash, ServerGone,
                ServerStarts, vars, bjVars
  <2> QED BY <2>1, EndHeld
<1>3. CASE SubmitJob
  <2>1. UNCHANGED <<runner, crashes, servers>>
    BY <1>3 DEF SubmitJob, Submit
  <2>2. \A j \in Job : job'[j].state = "running" => job[j].state = "running"
    BY <1>0, <1>3 DEF SubmitJob, Submit
  <2>3. /\ \A r \in Runner : \A j \in Job : Holds(r, j) => Holds(r, j)'
        /\ \A r \in Runner : Fresh(r) => Fresh(r)'
    BY <2>1 DEF Holds, Fresh
  <2> QED BY <2>1, <2>2, <2>3, KeepHeld
<1>13. CASE TickleRunner
  <2>1. Tickle /\ job' = job /\ crashes' = crashes /\ servers' = servers
    BY <1>13 DEF TickleRunner, Tickle
  <2>2. \A r \in Runner :
            \/ runner'[r] = runner[r]
            \/ runner'[r].pc = "none" /\ runner[r].pc = "morgue"
            \/ runner'[r].pc = "register" /\ runner[r].pc = "none"
    <3>1. CASE UNCHANGED runner
      BY <3>1
    <3>2. CASE \E q \in Runner : runner[q].pc = "morgue"
                  /\ runner' = [runner EXCEPT ![q] = NoRunner]
      BY <1>0, <3>2 DEF NoRunner
    <3>3. CASE SpawnRunner(server) /\ runner' = Spawned(server)
      BY <3>3, SpawnedAt
    <3>4. Alive(config[server]) => config[server] \in Runner
      BY <1>13 DEF TickleRunner, Alive, Types
    <3> QED BY <2>1, <3>1, <3>2, <3>3, <3>4 DEF Tickle
  <2> QED BY <2>1, <2>2, EndHeld
<1>4. CASE Respawn /\ UNCHANGED webVars
  <2>1. /\ job' = job /\ crashes' = crashes /\ servers' = servers
        /\ SpawnRunner(server) /\ runner' = Spawned(server)
    BY <1>4 DEF Respawn
  <2>2. \A r \in Runner :
            \/ runner'[r] = runner[r]
            \/ runner'[r].pc = "register" /\ runner[r].pc = "none"
    BY <2>1, SpawnedAt
  <2> QED BY <2>1, <2>2, EndHeld
<1>5. ASSUME NEW r \in Runner, Register(r) PROVE JobsHeld'
  <2>1. /\ job' = job /\ crashes' = crashes /\ servers' = servers
        /\ runner[r].pc = "register"
    BY <1>5 DEF Register
  <2>2. /\ \A q \in Runner : q # r => runner'[q] = runner[q]
        /\ runner'[r].pc \in {"none", "morgue"}
    BY <1>0, <1>5 DEF Register, NoRunner, RunnerType
  <2>3. /\ \A q \in Runner : \A j \in Job : Holds(q, j) => Holds(q, j)'
        /\ \A q \in Runner : Fresh(q) => Fresh(q)'
    BY <2>1, <2>2 DEF Holds, Fresh
  <2> QED BY <2>1, <2>3, KeepHeld
<1>6. ASSUME NEW r \in Runner, FillMorgue(r) PROVE JobsHeld'
  <2>1. \A j \in Job : job'[j].state # "running"
    BY <1>0, <1>6 DEF FillMorgue, JobType
  <2> QED BY <2>1 DEF JobsHeld
<1>7. ASSUME NEW r \in Runner, Loop(r) \/ NoJobs(r) PROVE JobsHeld'
  <2>1. /\ crashes' = crashes /\ servers' = servers
        /\ runner[r].pc \in {"loop", "jobs"}
    BY <1>7 DEF Loop, NoJobs
  <2>2. \A j \in Job : job'[j].state = "running" => job[j].state = "running"
    BY <1>0, <1>7 DEF Loop, NoJobs, JobType
  <2>3. \A q \in Runner : q # r => runner'[q] = runner[q]
    BY <1>0, <1>7 DEF Loop, NoJobs, Exit
  <2>4. /\ \A q \in Runner : \A j \in Job : Holds(q, j) => Holds(q, j)'
        /\ \A q \in Runner : Fresh(q) => Fresh(q)'
    BY <2>1, <2>3 DEF Holds, Fresh
  <2> QED BY <2>1, <2>2, <2>4, KeepHeld
<1>8. ASSUME NEW r \in Runner, StartJob(r) PROVE JobsHeld'
  <2> DEFINE k == First(Pending)
             p == First(FreeProcess)
  <2>1. k \in Job /\ p \in Process
    BY <1>8, FirstIsIn, BjAssumption DEF StartJob, Pending, FreeProcess
  <2>2. /\ crashes' = crashes /\ servers' = servers /\ runner[r].pc = "jobs"
        /\ job' = [job EXCEPT ![k].state = "running"]
        /\ runner' = [runner EXCEPT ![r].pc = "busy", ![r].job = k,
                                    ![r].process = p]
    BY <1>8 DEF StartJob
  <2> HIDE DEF k, p
  <2>3. /\ runner'[r].pc = "busy" /\ runner'[r].job = k
        /\ \A q \in Runner : q # r => runner'[q] = runner[q]
        /\ \A j \in Job : j # k => job'[j] = job[j]
    BY <1>0, <2>1, <2>2 DEF RunnerType
  <2>4. ASSUME NEW j \in Job, job'[j].state = "running", j # k
        PROVE  \/ \E q \in Runner : Holds(q, j)'
               \/ crashes' > 0 /\ Restarted'
    <3>1. CASE \E q \in Runner : Holds(q, j)
      <4>1. PICK q \in Runner : Holds(q, j)
        BY <3>1
      <4>2. q # r
        BY <2>2, <4>1 DEF Holds
      <4>3. Holds(q, j)'
        BY <2>3, <4>1, <4>2 DEF Holds
      <4> QED BY <4>3
    <3>2. CASE crashes > 0 /\ Restarted
      BY <2>2, <3>2 DEF Restarted
    <3>3. ~ Fresh(r)
      BY <2>2 DEF Fresh
    <3> QED BY <2>3, <2>4, <3>1, <3>2, <3>3 DEF JobsHeld
  <2>5. \E q \in Runner : runner'[q].pc \in {"busy", "collect"} /\ runner'[q].job = k
    BY <2>3
  <2> QED BY <2>4, <2>5 DEF JobsHeld, Holds
<1>9. ASSUME NEW r \in Runner, Collect(r) PROVE JobsHeld'
  <2>1. /\ crashes' = crashes /\ servers' = servers /\ runner[r].pc = "collect"
        /\ \A q \in Runner : q # r => runner'[q] = runner[q]
    BY <1>0, <1>9 DEF Collect, Exit
  <2>2. \A j \in Job : job'[j].state = "running" =>
                          job[j].state = "running" /\ j # runner[r].job
    BY <1>0, <1>9 DEF Collect, InTable, JobType
  <2>3. /\ \A q \in Runner : \A j \in Job :
              Holds(q, j) /\ job'[j].state = "running" => Holds(q, j)'
        /\ \A q \in Runner : Fresh(q) => Fresh(q)'
    BY <2>1, <2>2 DEF Holds, Fresh
  <2> QED BY <2>1, <2>2, <2>3, KeepHeld
<1>10. ASSUME NEW p \in Process, ProcessEnds(p) PROVE JobsHeld'
  <2>1. crashes' = crashes /\ servers' = servers /\ job' = job
    BY <1>10 DEF ProcessEnds
  <2>2. \A r \in Runner :
           \/ runner'[r] = runner[r]
           \/ /\ runner[r].pc = "busy" /\ runner'[r].pc = "collect"
              /\ runner'[r].job = runner[r].job
    <3>1. \A r \in Runner : Alive(r) /\ runner[r].process = p => runner[r].pc = "busy"
      BY BjAssumption DEF RunnerInv, Types
    <3> QED BY <1>0, <1>10, <3>1, ZenonT(40) DEF ProcessEnds, RunnerType
  <2>3. /\ \A q \in Runner : \A j \in Job : Holds(q, j) => Holds(q, j)'
        /\ \A q \in Runner : Fresh(q) => Fresh(q)'
    BY <2>2 DEF Holds, Fresh
  <2> QED BY <2>1, <2>3, KeepHeld
<1>11. ASSUME NEW r \in Runner, RunnerCrash(r) PROVE JobsHeld'
  <2>1. /\ job' = job /\ servers' = servers /\ crashes' = crashes + 1
        /\ runner' = [runner EXCEPT ![r] = NoRunner]
        /\ runner[r].pc # "none"
    BY <1>11 DEF RunnerCrash, Alive
  <2>2. crashes' > 0
    BY <2>1 DEF Types
  <2>3. Restarted' \/ \A q \in Runner : Fresh(q)'
    <3> SUFFICES ASSUME ~ Restarted', NEW q \in Runner, q # r
                 PROVE  Fresh(q)'
      BY <1>0, <2>1 DEF Fresh, NoRunner
    <3>1. runner'[q] = runner[q]
      BY <1>0, <2>1
    <3>2. runner[q].pc = "none"
      <4> SUFFICES ASSUME runner[q].pc # "none" PROVE FALSE
        OBVIOUS
      <4>1. /\ runner[q].ppid \in servers /\ runner[r].ppid \in servers
            /\ runner[q].ppid # runner[r].ppid
        BY <2>1 DEF RunnerInv
      <4> QED BY <2>1, <4>1 DEF Restarted
    <3> QED BY <3>1, <3>2 DEF Fresh
  <2> QED BY <2>2, <2>3 DEF JobsHeld
<1>12. CASE ServerStop
  <2>1. crashes' = crashes /\ servers' = servers /\ job' = job
    BY <1>12 DEF ServerStop, ServerExits
  <2>2. \A r \in Runner :
            \/ runner'[r].pc = runner[r].pc /\ runner'[r].job = runner[r].job
            \/ runner'[r].pc = "none" /\ runner[r].pc \in {"register", "morgue"}
    BY <1>0, <1>12 DEF ServerStop, ServerExits, NoRunner, RunnerType
  <2> QED BY <2>1, <2>2, EndHeld
<1> QED BY <1>1, <1>2, <1>3, <1>4, <1>5, <1>6, <1>7, <1>8, <1>9, <1>10, <1>11,
           <1>12, <1>13
        DEF Next, Handler, Background, Faults, RunnerStep

\* No job is left "running" that nobody runs, and that the next runner of the
\* server will not set back, unless a runner was killed and the server was
\* replaced as well.
THEOREM NoJobIsLost == Spec => []JobsHeld
<1>1. Init => JobsHeld
  BY InitHeld
<1>2. IInv /\ JobsHeld /\ [Next]_vars => JobsHeld'
  BY HeldNext DEF IInv
<1> QED BY <1>1, <1>2, Inductive, PTL DEF Spec
=============================================================================
