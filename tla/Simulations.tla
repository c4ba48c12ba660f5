----------------------------- MODULE Simulations ----------------------------
(***************************************************************************)
(* SimulationsController: simulations are launched, overwritten, deleted   *)
(* and "stopped" by requests, which the server handles one at a time, and  *)
(* run by Bj as processes of their own.  A launch and a deletion are       *)
(* sequences of steps (statements on the tables, files), none of which is  *)
(* in a transaction with another: runners go on between them, and the      *)
(* server may end.                                                         *)
(*                                                                         *)
(* Launches are numbered; the number stands for the ABNF text, which is    *)
(* written to script/temp2, the same file for every simulation, and read   *)
(* by stress when it has been started.                                     *)
(***************************************************************************)
EXTENDS Bj

CONSTANTS
    Output,         \* names of output directories
    Earlier,        \* the output of a simulation of long ago
    Simulation,     \* ids of simulations, in the order of creation
    NilId,          \* nil.id: 4 in Ruby 1.8; not an id if nil is whiny
    MaxLaunches,    \* bound: how many launches pass the checks
    MaxDeleted      \* bound: deletions are requested only while
                    \* fewer simulations than this are deleted

ASSUME SimulationsAssumption ==
    /\ Simulation \subseteq Nat \ {None}
    /\ Simulation # {}
    /\ Earlier \in Output
    /\ "none" \notin Output
    /\ NilId \in Nat
    /\ {MaxLaunches, MaxDeleted} \subseteq Nat

VARIABLES
    simulation,     \* the rows: [output, there]
    results,        \* the directories under results/
    temp2,          \* script/temp2
    request,        \* the request that is handled
    launches

webVars == <<simulation, results, temp2, request, launches>>
vars == <<bjVars, webVars>>

NoSimulation == [state |-> "none", output |-> "none"]
\* What a launch was asked for (its output; "none" for a deletion), and the
\* locals of del_sim: the simulation, its job and its archived job.
NoRequest == [pc |-> "idle", output |-> "none", text |-> 0,
              id |-> None, job1 |-> None, job2 |-> None]

\* One simulation is there already, its job is in the archive.
Init ==
    /\ BjInit(Earlier)
    /\ simulation = [i \in Simulation |->
                        IF i = First(Simulation)
                        THEN [state |-> "there", output |-> Earlier]
                        ELSE NoSimulation]
    /\ results = {Earlier}
    /\ temp2 = 0
    /\ request = NoRequest
    /\ launches = 0

There(i) == i \in Simulation /\ simulation[i].state = "there"

\* Mutant: the first simulation of all is found.
find_first(o) ==
    LET found == {i \in Simulation : There(i)}
    IN IF found = {} THEN NilId ELSE First(found)

\* Simulation.find_by_output(output).id; nil.id if there is none.
find_by_output(o) ==
    LET found == {i \in Simulation : There(i) /\ simulation[i].output = o}
    IN IF found = {} THEN NilId ELSE First(found)

\* The server is there and handles no other request.
Ready == server # None /\ request = NoRequest

-----------------------------------------------------------------------------
(* Deleting *)

FirstOf(S) == IF S = {} THEN None ELSE First(S)

\* del_sim begins: the simulation, which is there, and its job are found.
del_sim(id, o, text) ==
    LET table == {j \in Job : InTable(j) /\ job[j].tag = simulation[id].output}
    IN request' = [pc |-> "archive", output |-> o, text |-> text, id |-> id,
                   job1 |-> FirstOf(table), job2 |-> None]

delete_simulation(id) ==
    /\ Ready
    /\ Cardinality({i \in Simulation : simulation[i].state = "deleted"}) < MaxDeleted
    /\ There(id)
    /\ del_sim(id, "none", 0)
    /\ UNCHANGED <<bjVars, simulation, results, temp2, launches>>

\* The output of the simulation that is deleted.
Directory == simulation[request.id].output

\* The job in the archive is found.
FindArchived ==
    LET archive == {j \in Job : job[j].state = "archived" /\
                                job[j].tag = Directory}
    IN /\ server # None /\ request.pc = "archive"
       /\ request' = [request EXCEPT !.pc = "job1", !.job2 = FirstOf(archive)]
       /\ UNCHANGED <<bjVars, simulation, results, temp2, launches>>

\* Mutant: the job is deleted only if none was found in the archive.
DeleteJobElse ==
    /\ server # None /\ request.pc = "job1"
    /\ job' = IF request.job1 # None /\ InTable(request.job1) /\ request.job2 = None
              THEN [job EXCEPT ![request.job1].state = "deleted"] ELSE job
    /\ request' = [request EXCEPT !.pc = "job2"]
    /\ UNCHANGED <<config, server, servers, background, runner, process,
                   crashes, simulation, results, temp2, launches>>

\* job1[0].delete: nothing is left to delete if a runner has archived the
\* job since it was found.
DeleteJob ==
    /\ server # None /\ request.pc = "job1"
    /\ job' = IF request.job1 # None /\ InTable(request.job1)
              THEN [job EXCEPT ![request.job1].state = "deleted"] ELSE job
    /\ request' = [request EXCEPT !.pc = "job2"]
    /\ UNCHANGED <<config, server, servers, background, runner, process,
                   crashes, simulation, results, temp2, launches>>

\* job2[0].delete.
DeleteArchived ==
    /\ server # None /\ request.pc = "job2"
    /\ job' = IF request.job2 # None
              THEN [job EXCEPT ![request.job2].state = "deleted"] ELSE job
    /\ request' = [request EXCEPT !.pc = "simulation"]
    /\ UNCHANGED <<config, server, servers, background, runner, process,
                   crashes, simulation, results, temp2, launches>>

DeleteSimulation ==
    /\ server # None /\ request.pc = "simulation"
    /\ simulation' = [simulation EXCEPT ![request.id].state = "deleted"]
    /\ request' = [request EXCEPT !.pc = "directory"]
    /\ UNCHANGED <<bjVars, results, temp2, launches>>

\* rm_rf, the end of del_sim: a launch goes on.
RemoveDirectory ==
    /\ server # None /\ request.pc = "directory"
    /\ results' = results \ {Directory}
    /\ request' = IF request.output = "none" THEN NoRequest
                  ELSE [NoRequest EXCEPT !.pc = "write",
                                         !.output = request.output,
                                         !.text = request.text]
    /\ UNCHANGED <<bjVars, simulation, temp2, launches>>

-----------------------------------------------------------------------------
(* Launching *)

\* The checks at the start of launch_simulation, and the start of the
\* overwriting.  A launch ends there, and has changed nothing, if the
\* directory exists and is not to be overwritten, or if there is nothing to
\* overwrite and nil.id is no id.
Launch(o, overwrite) ==
    /\ Ready
    /\ launches < MaxLaunches
    /\ launches' = launches + 1
    /\ \/ /\ ~overwrite /\ o \notin results
          /\ request' = [NoRequest EXCEPT !.pc = "write", !.output = o,
                                          !.text = launches']
       \/ /\ overwrite /\ There(find_by_output(o))
          /\ del_sim(find_by_output(o), o, launches')
    /\ UNCHANGED <<bjVars, simulation, results, temp2>>

\* Mutant: a script that is there is kept.
WriteScriptOnce ==
    /\ server # None /\ request.pc = "write"
    /\ temp2' = IF temp2 = 0 THEN request.text ELSE temp2
    /\ request' = [request EXCEPT !.pc = "mkdir"]
    /\ UNCHANGED <<bjVars, simulation, results, launches>>

\* script/temp2.
WriteScript ==
    /\ server # None /\ request.pc = "write"
    /\ temp2' = request.text
    /\ request' = [request EXCEPT !.pc = "mkdir"]
    /\ UNCHANGED <<bjVars, simulation, results, launches>>

\* mkdir, which raises if the directory is there.
MakeDirectory ==
    /\ server # None /\ request.pc = "mkdir"
    /\ results' = results \cup {request.output}
    /\ request' = IF request.output \in results THEN NoRequest
                  ELSE [request EXCEPT !.pc = "record"]
    /\ UNCHANGED <<bjVars, simulation, temp2, launches>>

\* Simulation.new_simulation.
new_simulation ==
    LET new == {i \in Simulation : simulation[i].state = "none"}
    IN /\ server # None /\ request.pc = "record"
       /\ new # {}
       /\ simulation' = [simulation EXCEPT ![First(new)] =
                            [state |-> "there", output |-> request.output]]
       /\ request' = [request EXCEPT !.pc = "submit"]
       /\ UNCHANGED <<bjVars, results, temp2, launches>>

\* Bj.submit with the output as tag: the row,
SubmitJob ==
    /\ server # None /\ request.pc = "submit"
    /\ Submit(request.output, request.text)
    /\ request' = [request EXCEPT !.pc = "tickle"]
    /\ UNCHANGED <<simulation, results, temp2, launches>>

\* and tickle.
TickleRunner ==
    /\ server # None /\ request.pc = "tickle"
    /\ Tickle
    /\ request' = NoRequest
    /\ UNCHANGED <<simulation, results, temp2, launches>>

-----------------------------------------------------------------------------
(* The end of the server *)

\* stop_simulation: exec replaces the server by "kill", which has no pid to
\* signal since pids are never stored.
stop_simulation ==
    /\ Ready
    /\ \E i \in Simulation : There(i)
    /\ ServerGone
    /\ UNCHANGED webVars

\* The server crashes, maybe in the middle of a request,
ServerCrash ==
    /\ server # None
    /\ ServerGone
    /\ request' = NoRequest
    /\ UNCHANGED <<simulation, results, temp2, launches>>

\* or is stopped between requests.
ServerStop ==
    /\ Ready
    /\ ServerExits
    /\ UNCHANGED webVars

-----------------------------------------------------------------------------
(* stress, as a job *)

\* It reads the script when it has been started.
ReadScript(p) ==
    /\ process[p].pc = "starting"
    /\ process' = [process EXCEPT ![p].pc = "running", ![p].text = temp2]
    /\ UNCHANGED <<job, config, server, servers, background, runner, crashes,
                   webVars>>

-----------------------------------------------------------------------------
Handler ==
    \/ FindArchived \/ DeleteJob \/ DeleteArchived
    \/ DeleteSimulation \/ RemoveDirectory
    \/ WriteScript \/ MakeDirectory
    \/ new_simulation \/ SubmitJob \/ TickleRunner

Background ==
    \/ Respawn /\ UNCHANGED webVars
    \/ \E r \in Runner : RunnerStep(r) /\ UNCHANGED webVars
    \/ \E p \in Process : ReadScript(p) \/ (ProcessEnds(p) /\ UNCHANGED webVars)

Faults ==
    \/ \E r \in Runner : RunnerCrash(r) /\ UNCHANGED webVars
    \/ stop_simulation
    \/ ServerCrash
    \/ ServerStop

Next ==
    \/ \E o \in Output, overwrite \in BOOLEAN : Launch(o, overwrite)
    \/ \E i \in Simulation : delete_simulation(i)
    \/ Handler
    \/ Background
    \/ Faults
    \/ ServerStarts /\ UNCHANGED webVars

\* Processes go on unless they are killed, and simulations end.
Spec ==
    /\ Init /\ [][Next]_vars
    /\ WF_vars(Handler)
    /\ WF_vars(Respawn /\ UNCHANGED webVars)
    /\ \A r \in Runner : WF_vars(RunnerStep(r) /\ UNCHANGED webVars)
    /\ \A p \in Process : WF_vars(ReadScript(p) \/
                                  (ProcessEnds(p) /\ UNCHANGED webVars))

-----------------------------------------------------------------------------
(* Properties *)

\* Type invariant.
TypeOK ==
    /\ \A j \in Job : job[j].tag \in Output \cup {"none"}
    /\ config \in [Server -> Runner \cup {None}]
    /\ server \in Server \cup {None}
    /\ \A r \in Runner : /\ runner[r].job \in Job \cup {None}
                         /\ runner[r].process # None <=> runner[r].pc = "busy"
    /\ \A p \in Process : process[p].job \in Job \cup {None}
    /\ \A i \in Simulation : simulation[i].output \in Output \cup {"none"}
    /\ results \subseteq Output
    /\ {temp2, launches} \subseteq 0 .. MaxLaunches

\* The output is a key of simulations and of the jobs in the table, every
\* simulation has its directory, and every job in the table, pending, running
\* or finished, has its simulation, however the steps of launches and
\* deletions, runners, and the ends of servers and runners interleave.
TableIsForeignKey ==
    LET jobs == {j \in Job : InTable(j)}
        sims == {i \in Simulation : There(i)}
    IN /\ \A j \in jobs : \E i \in sims : simulation[i].output = job[j].tag
       /\ \A j, k \in jobs : job[j].tag = job[k].tag => j = k
       /\ \A i, k \in sims : simulation[i].output = simulation[k].output
                                => i = k
       /\ \A i \in sims : simulation[i].output \in results

\* Simulations run one after the other; another one may run at the same time
\* only for each server or runner that has died.
Deaths == crashes + Cardinality(servers) - 1
OneAtATime ==
    Cardinality({p \in Process : process[p].pc # "none"}) <= 1 + Deaths

\* stress never runs a script older than the one it was launched with: all
\* simulations share one file, and it may have been rewritten meanwhile.
NotAnOlderScript ==
    \A p \in Process :
        process[p].pc = "running" => process[p].text >= process[p].own

\* What the request may delete: the simulation with the number that a
\* deletion names, or with the output that a launch overwrites.  Overwriting
\* an output that no simulation has deletes the one numbered nil.id.
MayDelete(i) ==
    IF request.output = "none"
    THEN i = request.id
    ELSE \/ simulation[i].output = request.output
         \/ /\ i = NilId
            /\ \A k \in Simulation :
                  There(k) => simulation[k].output # request.output

\* A request, be it a deletion or a launch, removes no simulation, no job and
\* no directory of another simulation, in none of its steps.
OthersStay ==
    [][LET deletable == {i \in Simulation : MayDelete(i)}
           outputs == {simulation[i].output : i \in deletable}
       IN /\ \A i \in Simulation : There(i) /\ ~There(i)' => i \in deletable
          /\ \A j \in Job : job[j].state # "deleted" /\ job'[j].state = "deleted"
                => job[j].tag \in outputs
          /\ results \ results' \subseteq outputs]_vars

\* Once a server that lasts has submitted a job, no job waits for ever, not
\* even one that an earlier server or a dead runner left.  A job may be left
\* "running" for ever, though, if the runner of an earlier server took it
\* and was killed after the new runner looked for dead jobs.
Drained ==
    server \in background =>
        /\ \A j \in Job : job[j].state # "pending"
        /\ crashes = 0 \/ Cardinality(servers) = 1 =>
              \A j \in Job : job[j].state # "running"
Drains == <>[]Drained

\* "Bj ensures that only one background process is running for your
\* application" (vendor/plugins/bj/bin/bj).
OneRunner ==
    Cardinality({r \in Runner : runner[r].pc \in {"loop", "jobs", "busy",
                                                   "collect"}}) <= 1

\* "TAG FIELD CONTAINS THE OUTPUT DIRECTORY, IT'S THE FOREIGN KEY TO
\* SIMULATIONS TABLE" (simulations_controller.rb), of archived jobs too.
TagIsForeignKey ==
    \A j \in Job : InTable(j) \/ job[j].state = "archived" =>
        \E i \in Simulation : There(i) /\ simulation[i].output = job[j].tag
=============================================================================
