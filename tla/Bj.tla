--------------------------------- MODULE Bj ---------------------------------
(***************************************************************************)
(* The background jobs of the web interface (vendor/plugins/bj): the table *)
(* of jobs, which outlives every process, the runner processes that the    *)
(* server starts, and the server processes themselves, of which one is     *)
(* alive at a time.                                                        *)
(*                                                                         *)
(* A runner registers under a key made of the pid of its parent, so the    *)
(* runner of an earlier server does not keep a new one from starting.      *)
(* Bj.transaction makes each access to the table one step.  The sleeps     *)
(* (42 seconds, cut short by a HUP) only take time and are left out.       *)
(***************************************************************************)
EXTENDS Naturals, FiniteSets

CONSTANTS
    Server,     \* pids of server processes, in the order of their starts;
                \* bound: the last one lasts
    Runner,     \* pids of runner processes
    Job,        \* job ids, in the order of submission
    Process,    \* slots for processes that run a job
    MaxCrashes  \* bound: how many runners die of anything but their own code

None == 0

ASSUME BjAssumption ==
    /\ \A S \in {Server, Runner, Job, Process} : S \subseteq Nat \ {None}
    /\ MaxCrashes \in Nat

VARIABLES
    job,        \* the rows of bj_job and bj_job_archive
    config,     \* the pid in Bj.config[key(ppid)]
    server,     \* the server process that is alive
    servers,    \* the server processes there were
    background, \* those whose Runner.background has a thread
    runner,     \* the runner processes
    process,    \* the processes of jobs
    crashes

bjVars == <<job, config, server, servers, background, runner, process, crashes>>

NoJob == [state |-> "none", tag |-> "none", text |-> 0]
NoRunner == [pc |-> "none", ppid |-> None, job |-> None, process |-> None,
             killed |-> FALSE]
NoProcess == [pc |-> "none", job |-> None, tag |-> "none", own |-> 0,
              text |-> 0]

First(S) == CHOOSE x \in S : \A y \in S : x <= y

\* One job was run long ago.
BjInit(tag) ==
    /\ job = [j \in Job |-> IF j = First(Job)
                            THEN [state |-> "archived", tag |-> tag, text |-> 0]
                            ELSE NoJob]
    /\ config = [s \in Server |-> None]
    /\ server \in Server /\ \A s \in Server : server <= s
    /\ servers = {server}
    /\ background = {}
    /\ runner = [r \in Runner |-> NoRunner]
    /\ process = [p \in Process |-> NoProcess]
    /\ crashes = 0

\* Util.alive?
Alive(r) == r # None /\ runner[r].pc # "none"

\* The rows of the table bj_job; the others are in the archive, or not yet
\* or no longer there.
InTable(j) == job[j].state \in {"pending", "running", "finished"}

-----------------------------------------------------------------------------
(* Submitting *)

\* A process that is not there; a pid that is still registered is not reused.
FreeRunner == {r \in Runner : ~Alive(r) /\ \A s \in Server : config[s] # r}

\* The background thread starts a runner only if its last one is over.
SpawnRunner(s) ==
    /\ FreeRunner # {}
    /\ \A r \in Runner : runner[r].ppid # s

\* IO.popen of Runner.command.
Spawned(s) ==
    [runner EXCEPT ![First(FreeRunner)] =
        [pc |-> "register", ppid |-> s, job |-> None, process |-> None,
         killed |-> FALSE]]

\* Bj.submit is a pending row, and then tickle.
Submit(tag, text) ==
    LET new == {j \in Job : job[j].state = "none"}
    IN /\ new # {}
       /\ job' = [job EXCEPT ![First(new)] =
                     [state |-> "pending", tag |-> tag, text |-> text]]
       /\ UNCHANGED <<config, server, servers, background, runner, process,
                      crashes>>

\* Runner.tickle: a registered runner gets a HUP, for which it has a handler
\* only once it is past fill_morgue; before that the signal ends it.  If
\* there is none the background thread is started, unless it exists.
Tickle ==
    /\ LET r == config[server]
       IN IF Alive(r)
          THEN /\ runner' = IF runner[r].pc = "morgue"
                            THEN [runner EXCEPT ![r] = NoRunner] ELSE runner
               /\ config' = IF runner[r].pc = "morgue"
                            THEN [config EXCEPT ![server] = None] ELSE config
               /\ UNCHANGED background
          ELSE /\ background' = background \cup {server}
               /\ runner' = IF server \notin background /\ SpawnRunner(server)
                            THEN Spawned(server) ELSE runner
               /\ UNCHANGED config
    /\ UNCHANGED <<job, server, servers, process, crashes>>

\* The loop of the background thread: a runner that has ended is followed by
\* another one after a sleep.
Respawn ==
    /\ server \in background
    /\ SpawnRunner(server)
    /\ runner' = Spawned(server)
    /\ UNCHANGED <<job, config, server, servers, background, process, crashes>>

-----------------------------------------------------------------------------
(* The runner *)

\* The end of a runner that runs its at_exit handlers: unregister.
Exit(r) ==
    /\ runner' = [runner EXCEPT ![r] = NoRunner]
    /\ config' = [config EXCEPT ![runner[r].ppid] = None]

\* register: refused while the registered pid is alive (exit!, no handlers).
Register(r) ==
    /\ runner[r].pc = "register"
    /\ LET ppid == runner[r].ppid
       IN IF Alive(config[ppid])
          THEN /\ runner' = [runner EXCEPT ![r] = NoRunner]
               /\ UNCHANGED config
          ELSE /\ config' = [config EXCEPT ![ppid] = r]
               /\ runner' = [runner EXCEPT ![r].pc = "morgue"]
    /\ UNCHANGED <<job, server, servers, background, process, crashes>>

\* Mutant: what a dead runner left behind stays as it is.
FillMorgueNot(r) ==
    /\ runner[r].pc = "morgue"
    /\ runner' = [runner EXCEPT ![r].pc = "loop"]
    /\ UNCHANGED <<job, config, server, servers, background, process, crashes>>

\* fill_morgue: every job that is running on this host is taken to be dead;
\* jobs are restartable, so it is pending again.  Then the signal handlers.
FillMorgue(r) ==
    /\ runner[r].pc = "morgue"
    /\ job' = [j \in Job |-> IF job[j].state = "running"
                             THEN [job[j] EXCEPT !.state = "pending"]
                             ELSE job[j]]
    /\ runner' = [runner EXCEPT ![r].pc = "loop"]
    /\ UNCHANGED <<config, server, servers, background, process, crashes>>

\* The head of the loop: ping_parent ends a runner whose server is gone;
\* archive_jobs moves the jobs that were submitted long enough ago.
Loop(r) ==
    /\ runner[r].pc = "loop"
    /\ IF runner[r].ppid = server
       THEN /\ \E old \in {None} \cup {j \in Job : job[j].state = "finished"} :
                  job' = [j \in Job |->
                             IF j <= old /\ job[j].state = "finished"
                             THEN [job[j] EXCEPT !.state = "archived"]
                             ELSE job[j]]
            /\ runner' = [runner EXCEPT ![r].pc = "jobs"]
            /\ UNCHANGED config
       ELSE /\ Exit(r)
            /\ UNCHANGED job
    /\ UNCHANGED <<server, servers, background, process, crashes>>

Pending == {j \in Job : job[j].state = "pending"}
FreeProcess == {p \in Process : process[p].pc = "none"}

\* Mutant: the runner does not wait for the thread of the job.
StartJobNoWait(r) ==
    /\ runner[r].pc = "jobs"
    /\ Pending # {}
    /\ FreeProcess # {}
    /\ LET j == First(Pending)
           p == First(FreeProcess)
       IN /\ job' = [job EXCEPT ![j].state = "running"]
          /\ process' = [process EXCEPT ![p] =
                            [pc |-> "starting", job |-> j, tag |-> job[j].tag,
                             own |-> job[j].text, text |-> 0]]
    /\ UNCHANGED <<config, server, servers, background, runner, crashes>>

\* The oldest pending job is started; the runner waits for its process.
StartJob(r) ==
    /\ runner[r].pc = "jobs"
    /\ Pending # {}
    /\ FreeProcess # {}
    /\ LET j == First(Pending)
           p == First(FreeProcess)
       IN /\ job' = [job EXCEPT ![j].state = "running"]
          /\ process' = [process EXCEPT ![p] =
                            [pc |-> "starting", job |-> j, tag |-> job[j].tag,
                             own |-> job[j].text, text |-> 0]]
          /\ runner' = [runner EXCEPT ![r].pc = "busy", ![r].job = j,
                                      ![r].process = p]
    /\ UNCHANGED <<config, server, servers, background, crashes>>

\* throw :no_jobs, then the wait: a runner that was signalled ends.
NoJobs(r) ==
    /\ runner[r].pc = "jobs"
    /\ Pending = {}
    /\ IF runner[r].killed
       THEN Exit(r)
       ELSE /\ runner' = [runner EXCEPT ![r].pc = "loop"]
            /\ UNCHANGED config
    /\ UNCHANGED <<job, server, servers, background, process, crashes>>

\* After thread.value: the job is finished, whatever its state is by now.  If
\* its row was deleted or archived, find raises and the runner ends.
Collect(r) ==
    /\ runner[r].pc = "collect"
    /\ IF InTable(runner[r].job)
       THEN /\ job' = [job EXCEPT ![runner[r].job].state = "finished"]
            /\ runner' = [runner EXCEPT ![r].pc = "jobs", ![r].job = None]
            /\ UNCHANGED config
       ELSE /\ Exit(r)
            /\ UNCHANGED job
    /\ UNCHANGED <<server, servers, background, process, crashes>>

\* Mutant: the runner does not forget the process.
ProcessEndsKept(p) ==
    /\ process[p].pc = "running"
    /\ process' = [process EXCEPT ![p] = NoProcess]
    /\ runner' = [r \in Runner |->
                     IF Alive(r) /\ runner[r].process = p
                     THEN [runner[r] EXCEPT !.pc = "collect"] ELSE runner[r]]
    /\ UNCHANGED <<job, config, server, servers, background, crashes>>

\* The process of a job ends; a runner that waits for it goes on.
ProcessEnds(p) ==
    /\ process[p].pc = "running"
    /\ process' = [process EXCEPT ![p] = NoProcess]
    /\ runner' = [r \in Runner |->
                     IF Alive(r) /\ runner[r].process = p
                     THEN [runner[r] EXCEPT !.pc = "collect", !.process = None]
                     ELSE runner[r]]
    /\ UNCHANGED <<job, config, server, servers, background, crashes>>

\* A runner is killed; the process of its job is not.
RunnerCrash(r) ==
    /\ Alive(r)
    /\ crashes < MaxCrashes
    /\ crashes' = crashes + 1
    /\ runner' = [runner EXCEPT ![r] = NoRunner]
    /\ UNCHANGED <<job, config, server, servers, background, process>>

-----------------------------------------------------------------------------
(* The server *)

\* The server process is gone without a word to its runner.  (If popen put a
\* shell between them, the TERM of at_exit ends that shell and comes to this.)
ServerGone ==
    /\ servers # Server
    /\ server' = None
    /\ UNCHANGED <<job, config, servers, background, runner, process, crashes>>

\* The server ends and its at_exit handler sends a TERM: a runner notes it,
\* or ends if it has no handler yet.
ServerExits ==
    /\ servers # Server
    /\ server' = None
    /\ LET child == {r \in Runner : Alive(r) /\ runner[r].ppid = server}
           early == {r \in child : runner[r].pc \in {"register", "morgue"}}
       IN /\ runner' = [r \in Runner |->
                           IF r \in early THEN NoRunner
                           ELSE IF r \in child
                                THEN [runner[r] EXCEPT !.killed = TRUE]
                                ELSE runner[r]]
          /\ config' = IF \E r \in early : config[server] = r
                       THEN [config EXCEPT ![server] = None] ELSE config
    /\ UNCHANGED <<job, servers, background, process, crashes>>

ServerStarts ==
    /\ server = None
    /\ servers # Server
    /\ server' = First(Server \ servers)
    /\ servers' = servers \cup {server'}
    /\ UNCHANGED <<job, config, background, runner, process, crashes>>

RunnerStep(r) ==
    \/ Register(r)
    \/ FillMorgue(r)
    \/ Loop(r)
    \/ StartJob(r)
    \/ NoJobs(r)
    \/ Collect(r)
=============================================================================
