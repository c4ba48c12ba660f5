# TLA+ models of S.T.R.E.S.S.

stress is a protocol fuzzer. It reads a protocol model in an extended ABNF,
builds a tree of composites from it, and runs the tree again and again against
a device: once as it stands (the baseline test) and then once for every
combination of anomalies. The anomalies are the further alternatives of the
`or` nodes of the model. They are written by hand or put there by the
AnomalyInjector. Each run of the tree is one *test*; all of them together are
the *campaign*.

A campaign takes hours and nobody reads the tests it did not make. So the
question that matters is whether it makes the tests it should, each of them
once and independent of the ones before. Most of this project is about that;
the rest follows a protocol model from the web page on which it is written, over
the job that runs it, to the tree that is tested.

## Inventory

| component | state | operations | interacts with |
|---|---|---|---|
| main loop (`src/src/main.cc`) | `u64`, `i`, `number_injector` | one EXEC per subset of faults, one run per combination | everything below |
| generators (`src/lib/ts-generator.*`) | `next_injection_id` (in ActionFactory) | hand out ids, `enable` | getRun, main |
| TestCaseManager (`src/lib/test-case-manager.*`) | `observer`, `test_case_state`, `variables`, monitors, last frame | register, `setSonsNumber`, `getRun`, `updateInjector`, `prepareNextTestCase`, notifications | main, InjectAction, commands |
| ActionFactory, InjectAction (`src/lib/actions`) | ids, one command per name | create actions for nodes, select an alternative | TestCaseManager, SocketFactory |
| composite tree (`src/lib/composite.cc`, ...) | sons, strategy | `getAction`, `runTest` | actions |
| SocketFactory, sockets (`src/lib/*socket*.cc`) | a count and a pointer per kind; descriptors | get, release, reconnect, send, read, check | send/read actions, SanityCheckMonitor, main |
| monitors (`r-t-t-monitor.cc`, `sanity-check-monitor.cc`) | `send_time`, `rtts`, `socket` | start, finish, packet sent/read, report | TestCaseManager, SocketFactory |
| send, read and variable commands | last frame, variables | run on their sons, fail | sockets, TestCaseManager |
| value commands, State values | none | base64, length, addition, checks, conversions | tree walk |
| ABNF parser, tree builder (`src/src/ABNFParser.cc`, `driver.cc`) | rule table | add a rule or an alternative, build the tree | composites |
| AnomalyInjector (`src/src/AnomalyInjector.cc`, performers) | the tree | replace leaves below a send by `or` nodes | composites |
| log and output | files | one file per test | main |
| monitor client and daemon (`src/lib/monitor.cc`, `src/monitors/ruby`) | a TCP connection, collected statistics | start, stop, report | not loaded by this version of TestCaseManager |
| web pages (`src/tools/webui`: `application.js`, the views, jQuery) | requests, animation queues, timers, what is shown | edit, validate, save, libraries, launch | the controllers, one request each |
| simulations (`simulations_controller.rb`) | simulations, result directories, one script file | launch, overwrite, delete, stop | Bj |
| background jobs (`vendor/plugins/bj`) | jobs, archive, registered runners | submit, start, collect, resubmit, archive | runs stress as a process |
| other controllers (files, libraries, users, WSDL, output analyzer) | the database | one access per request | pages |
| post-processing, dissector (`src/tools`) | none | convert logs and captures | off line |

What is hard here, although stress is one thread:

* **What is learnt late.** The number of alternatives of an `or` is known only
  after it ran, some `or` nodes exist only after a test reached them, and
  the number of EXECs is known only after EXEC 0. A read can fail anywhere, so
  any of that may not have been learnt.
* **The odometer.** The combinations are enumerated by counters with carries,
  spread over getRun, increaseState and updateInjectorState.
* **Widths.** Ids are 64-bit powers of two, converted to `int`; the number of
  combinations is an `int` product.
* **State across tests.** Variables, send times, references, connections: each
  must not leak from one test into the next.
* **Ownership.** Sockets are counted by hand, states are deleted by hand.
* **The peer.** It is the device under attack: it disconnects, is silent, or
  does not come back.
* **Web pages.** Answers come in any order, or not at all, while animations of
  earlier ones are running and the user goes on.
* **Simulations.** A launch and a deletion touch a file, a directory and
  three tables in separate statements; the server may end in between and a
  runner may archive the job meanwhile. Runners outlive servers and processes
  outlive runners.

The `hazards` of PROJECT.json place each of these at its line.

## Modules

| module | models | kind |
|---|---|---|
| TSGenerator | both generators | operators |
| TestCaseState | InjectState and the functions of TestCaseManager on `observer` and `test_case_state` | operators |
| Campaign | main, TestCaseManager, ActionFactory, InjectAction over any protocol model | state machine, uses both of the above |
| SocketFactory | the counted sockets | operators |
| TestSession | sockets, commands, both monitors around a test | state machine, uses SocketFactory |
| ReadFrames | the read loop, the State objects of a test, variables and the last frame | state machine |
| TestPlan | what a campaign promises | abstract specification, implemented by Campaign |
| Injection | main from the end of the file on: the injection of anomalies into a tree | state machine, implemented by Grammar |
| Grammar | the rules of a file and the tree built from them, with Injection | state machine, extends Injection |
| JQuery | animation queues, timers and requests of jQuery | actions, used by WebPage |
| WebPage | the scripts of the pages | state machine, uses JQuery |
| Bj | jobs, runners, processes, servers | actions, used by Simulations |
| Simulations | SimulationsController and the script file | state machine, uses Bj |
| Descent | when a tuple of counters is below another | definitions for the proofs of descents |
| CampaignProofs | the sets of faults the generators enable; the odometer; Campaign: types, bounds, ids, order of the tests, descent | theorems, lemmas on bits and powers of two |
| CampaignPlanProofs | Campaign: exhaustive EXECs, complete campaigns, the refinement of TestPlan | theorems, use CampaignProofs |
| TestSessionProofs, ReadFramesProofs, InjectionProofs, WebPageProofs, SimulationsProofs | | theorems of the module they are named after |
| WebPageRestProofs | WebPage: what the page looks like when the browser has nothing left to do | theorems, use WebPageProofs |
| MCCampaign, MCTestSession, MCReadFrames, MCGrammar, MCWebPage, MCSimulations | small instances | for TLC |

### Campaign

The tree is not rebuilt in the model. What one `tree->runTest()` does to the
state of these components is a constant, `Walk`: the sequence of the events
`getAction`, `inject`, `read` and `variable` in the order of the tree walk. A
`read` carries the position where the walk goes on if it fails (the end of the
enclosing ReturnActions, whose loops break). InjectAction runs all alternatives
of its node and then selects one result, so the events of the alternatives come
before the `inject` of the node. `Eager` are the `or` nodes that
main's `tree->getAction()` creates; the others register themselves on the first
walk that reaches them (`CreateLateAction`), which is why `getRun` may meet an
injector whose width (`num_sons`) is still -1. Theorems quantify over
all walks and trees.

The state variables keep the names of the C++ members. main's two loops are
`StartExec`, `VisitObserver` (one iteration of getRun), `EnterRuns`,
`StartTestCase`, the walk, `FinishTestCase`, `EndExec`, `EndMain`. Three
variables are history: `log` (the test files written, with the alternatives the
test was to take), `baseline` (the nodes that ran in EXEC 0) and `blind` (the
active injectors whose width was unknown when getRun multiplied).

An EXEC with a blind injector is out of the exhaustiveness properties: getRun
multiplies by -2, so the EXEC makes no test at all or, with two of them, an
arbitrary number. This happens when a read of the baseline test failed. Bounds
and termination are checked in those EXECs too.

TestPlan says the same without any of this machinery: there is a set of
selections to test, each test takes one of them away, and the campaign ends when
none is left. Campaign's `Abstract` maps the log to the selections that are
still open, and `ImplementsPlan` is the refinement. The plan is void from the
moment the baseline test turns out not to have reached every `or` node
(`LoseTrack`): the code then does not know what there is to test.

### Grammar and Injection

A file is a sequence of rules, each already parsed: an alternation is a sequence
of concatenations of elements. `DefineRule` and `AddAlternative` are the two
semantic actions for a rule, `Build` is the end of `ParserDriver::parse`,
and `Run` is main's decision to exit or to go
on. While the tree is built a node is a value that contains its sons, since the
code clones the sons of a rule at every reference.

Injection begins with any tree and has the three steps of main for `-j`:
`FindSendComposite` collects the composites that send, `Inject` is one iteration
of the loop over them, with the whole recursion of `AnomalyInjector::inject`
(`DataLeaves` are the leaves it comes to), and `EndInjection` leaves the loop. A
tree is a function from the positions of its nodes to their labels, so that
nothing here is recursive and the properties of the injection can be proved. A
node that the code deleted and left in the tree has `live = FALSE`. Grammar
extends the module with the variables of the parser, and `ImplementsInjection`
says that what the parser does is no more than what Injection allows: it hands
main a proper tree once, or none.

 What the code does and one might not expect:

* addTreeLink links every element of a concatenation to the `or` node of its
  alternation: `"a" "b" / "c"` has three alternatives. `BuildsLanguage` is
  therefore about files in which such alternatives are written as groups.
* `=/` puts the new alternative in front of an `or` node that is there, behind
  anything else. The alternative that the baseline test takes may change.
* An option is made like a group; it is never left out.
* `inject` has no return value, and main's loop over the sending composites
  tests it: it may stop after any of them.
* An empty string has no anomalies. It is returned itself, deleted, and stays
  in the tree.
* `or` and repeat nodes below a send have actions but their sons do not when
  the injection looks for data: leaves below them are left alone.
* An empty file, or `=/` for a name without a rule, leaves main without a tree,
  which it uses.

### JQuery and WebPage

A page is one thread. `stack` holds what is left of the script that is running,
and timers, answers and the user wait until it is empty. jQuery's functions call
callbacks, which call jQuery again; keeping the rest of each function on the
stack gives these nestings their real order. A queue is an array that lives on
in the function that read it, so arrays have identities: at the end of
`dequeue` the code looks at its own array and removes the entry that is there by
now, possibly that of a newer one. `NoStall` says that no animation is lost
by it.

The layouts load jquery.js, jquery-ui.js and jrails.js (`:defaults`), in this
order. Fades, and `show("slow")` and `hide("slow")` of the accordion, are
animations of jQuery (jquery-ui.js:84 hands speeds on to it): what is already as
it should be is complete at once. The `slideDown` and `slideUp` of the message
are not: jrails.js:1 redefines them as jQuery UI's effect "slide"
(jquery-ui.js:205), a function in the same queue that always shows the element,
moves it within a wrapper in an animation of its own (`queue: false`), hides it
at the end if it was to be hidden, and then takes the next of the queue
itself. `Slide` is such an item, and `Animate` never completes it at once: a
second `slideUp` of a hidden message shows it before it hides it.

WebPage has one action per thing a user does and one per callback. A text, a list
or a report is the number of the request it answers. Callbacks may throw: after a
validation, `countlines` looks for a line of the text that was sent in the text
that is there now. Then the report is not shown and jQuery's count of active
requests stays too high for ever, which is what `ActiveCount` says. Two things
are in the model because the code does them, without a property against them:
each new editor binds Alt+x once more, and as every handler calls every trigger,
n editors later one key press validates n*n times; and answers for two choices
of a library may arrive in the other order, so that the list of files does
not belong to the library that is selected.

### Bj and Simulations

Requests are handled one at a time; each is a sequence of steps, one per
statement or file operation, between which runners go on and the server may
crash. A launch writes the script (`WriteScript`), makes the directory
(`MakeDirectory`), inserts the row of the simulation (`new_simulation`) and that
of the job (`SubmitJob`), and wakes a runner (`TickleRunner`). A deletion finds
the simulation and its job (`del_sim`), finds the job in the archive
(`FindArchived`), deletes the two it found (`DeleteJob`, `DeleteArchived`) and
the simulation, and removes the directory (`RemoveDirectory`); what it found is
in `request`, as `job1` and `job2`, and `DeleteJob` has nothing to delete if a
runner has archived the job since. A launch that overwrites begins with a
deletion; one that fails its checks changes nothing and is not a step.
`Launch` with `overwrite` for an output that does not exist calls `nil.id`,
which is the number 4 in Ruby 1.8 (`NilId`). stop_simulation replaces the server
by `kill` without a pid, because pids are never stored: it ends the server and
no simulation.

Bj keeps its tables in the database, so they survive every process. What is in
one `Bj.transaction` is one step; statements of different transactions are not.
(That a transaction is isolated is an assumption about the database.) A runner
registers under the pid of its server, resubmits what it finds marked as
running, and then takes jobs one by one. It ends when it finds its server gone,
which it looks for only between jobs. A HUP or TERM before its handlers are
installed ends it at once. Sleeps are left out. The process of a job reads
`script/temp2` some time after it has been started, and a process outlives the
runner that started it.

The properties say what is left of order in all this. Outputs are a key for
simulations and for the table of jobs, each job in the table has its simulation,
and each simulation its directory (`TableIsForeignKey`). Archived jobs are not
in it: the code leaves some without a simulation (finding 5). A deletion, or a launch,
removes no other simulation and no job or directory of one, except that
overwriting an output that no simulation has takes the one numbered `nil.id`
(`OthersStay`); for each death of a server or runner
one more simulation may run at a time (`OneAtATime`); stress may run a newer
script than its own but no older one (`NotAnOlderScript`); and no job is pending
for ever (`Drains`). A job may stay marked as running for ever, if the runner of an earlier
server took it and was killed after the new runner had looked for dead jobs.

### TestSession

A command is a send or read action. `CloneCommand` is its creation, before the
tests or in one of them; `StartTest`, `ReconnectSocket`, `RunTest`,
`TestReturns`, `FinishMonitors` follow main's inner loop. Objects are numbered
in order of creation, so a pointer to a deleted socket is different from every
valid one. Time is abstracted to the number of the test, which is all that
`RttOfThisTest` needs. Which commands a test runs, in what order, what connect
returns and what arrives is open. `check` of a UDP socket is undefined
behaviour in the code (recvmsg with an uninitialised header); in the model it
returns or waits.

### ReadFrames

Every action returns a State; a State owns the States that were attached to it
with `<<`, and main deletes the State of the whole test. In between,
ReadAction deletes frames that its checks rejected and InjectAction deletes the
alternatives it did not select, while TestCaseManager keeps bare pointers: the
last frame and the variables. The module has one object per result and a
`parent` for each (who will delete it). `StartCommand`, `ReadPacket` or
`ReadNothing` (read() of the socket, then everything up to runSonsAction), one
action per kind of son, `ReadAgain` or `EndRead` follow ReadAction::runAction;
`EndSend` is SendAction, `EndTest` what main does after runTest. The script of a
protocol model is a constant. Packets are values with the number of the test in
which the peer sent them; a check is the set of packets it accepts. A read
past the end of an empty frame gives an arbitrary answer. A use of
a deleted object, or of a null pointer, ends the program (`abort`) or, for a
deleted one, goes on.

The variables that a model binds in a checked read or in an alternative of an
`or` are `Exposed`: the code may delete their objects while they are bound.
`VariablesLive` says that those are the only ones, which is also a rule for
authors of models.

What the peer sends in answer to one test may arrive in a later one (`SendToUs`,
`Reaches`). TCP and Bluetooth sockets have a new connection by then and drop it; a
raw socket sees it. A UDP socket is never connected, and `UdpSocket::reconnect`
binds it to `rand()%60000+1024` after `srand(time(NULL))`, so that a test that
begins in the same second as an earlier one has the port of that one and takes
what was meant for it: `Bound` lets every test have any port. `FrameOfThisPort` says
that this is the only way, besides a raw socket, for a frame to be one of an
earlier test.

`Accepts` leaves out the freshness of a Bluetooth frame and `ReadsEnd` a closed
Bluetooth channel: there, and for two tests with one port, the code does not
have the property, and no document claims it.

## Runs

| run | checks | shows |
|---|---|---|
| campaign_exp | TypeOK, IndexInBounds, NoRepeatedTest, ExecExhaustive, CampaignComplete, VariablesOfThisTest, Terminates, ImplementsPlan | exponential generator, four `or` nodes, one created late, a read that fails in any test or not |
| campaign_seq | SingleFault, ImplementsPlan | the same with the sequential generator |
| campaign_faults | EveryFaultEnabled (violated) | finding 1 |
| campaign_delay | DelayBeforeAndAfter (violated) | finding 2 |
| session | TypeOK, RefCounts, Ownership, NoDangling, NoStaleSession, RttOfThisTest, Ends | three tests, commands of all four kinds |
| frames | TypeOK, NoDoubleDelete, Reclaimed, VariablesLive, FrameOfThisPort, Accepts, ReadsEnd | two tests of a dialogue of two sends and two reads over each kind of socket |
| grammar | BuildsLanguage, Diagnosed, InjectionKeeps, DanglingOnlyEmpty, OperandsKept, ImplementsInjection | every file of up to two rules out of sixty, with -j0, -j1 and -j2 (-j3 and -j4 do as -j2 does: a null pointer as soon as something is sent, which `Diagnosed` allows) |
| grammar_self | SelfDefinitionRejected (violated) | finding 4 |
| page | TypeOK, NoStall, ActiveCount, Settles | any two things a user does, overlapping in any way |
| simulations | TypeOK, TableIsForeignKey, OneAtATime, NotAnOlderScript, OthersStay, Drains | two launches and two deletions, step by step, two servers, one killed runner |
| simulations_runner | OneRunner (violated) | finding 3 |
| simulations_key | TagIsForeignKey (violated) | finding 5 |

Bounds.

* `MaxId` stands for 2^63 and `IntBits` for 32. The passing campaign runs have
  ids up to 32, far from MaxId = 1024 and 8-bit ints, as a real
  campaign is from the real widths. campaign_faults scales both (MaxId = 2^5,
  3-bit ints) so that six `or` nodes stand for the documented 64. The last of
  them, MaxId itself, is the one that the generator repeats.
* Four `or` nodes of widths 3, 3, 2, 2 make an EXEC with four wheels, with a
  carry through wheels of both sizes; one is nested in an alternative, two are
  behind the read.
* Three tests: every stale-state hazard concerns a test and the one before; the
  third is for what a monitor leaves behind after a test in which a socket was
  created late. Two commands share a kind so that counts exceed 1.
* Four packets, each accepted or not (or empty, over UDP), in two tests: a read
  may reject two packets and accept a third, with one left over for
  the next test, and one more may come late. Two ports are enough for a test to
  have the port of the one before, or not. ReadFrames assumes that what a peer sends is finite: a read whose checks
  reject everything does not end while packets keep coming, since its timeout
  counts only the waiting.
* Rules for two names, with ten alternations that have every kind of element in
  each other: a definition and a reference, a definition and its further
  alternative, two definitions of one name, references in a circle.
* `MaxCalls = 2`: two scripts overlap, each of which may start a second request,
  an animation in two parts and a timer. `Request` and `Array` are large enough
  never to run out.
* Two servers, three runners and one killed runner: a runner of an
  earlier server beside one of the present server, with one more after the crash.
  The last server lasts, so that something must happen in the end. `MaxLaunches`
  bounds the launches that pass the checks, `MaxDeleted` the deletions that are
  requested (a deletion that overwrites is part of a launch): with two of each
  a simulation is made, overwritten or deleted, and made again. Three jobs run
  at most at a time, which OneAtATime needs to reach its limit.
  Simulations are numbered from 3, so that the first one launched gets the
  number of `nil.id`. The simulations run may stop (no deadlock check): when all
  launches are made, nobody has to delete anything or to end a server.

Fairness. main is one thread and a read ends by its timeout, so Campaign has
`WF_vars(Step)`, and so has ReadFrames, without any assumption on when its peer
acts; Grammar is fair once the file ends. TestSession assumes weak fairness of
`Proceed`, the steps of main that wait for nobody. It assumes nothing of a peer:
accept(), the Bluetooth reconnect loop and the UDP check may wait for ever, and
`Ends` says that nothing else does. WebPage is fair to the browser (scripts,
intervals, timeouts, and every request is answered or fails, by the browser's own
timeout if need be) and not to the user. Simulations is fair to the handler of a
request, the background thread of the server, each runner and each process, as
an operating system is; crashes, deletions and further servers need not happen.

## Findings

1. *"Exponential Testcase generator (Max number of faults 64)"*
   (`src/lib/configurator.cc:50`). `enable(int, int)` truncates the ids, so only
   the first 32 `or` nodes are ever active; the 64th id is handed out to
   every later node.
2. *"Delay n (msec) before AND after a test case"*
   (`src/lib/configurator.cc:46`). Without `-M` main waits after the test only.
3. *"Bj ensures that only one background process is running for your
   application"* (`vendor/plugins/bj/bin/bj:75`). Runners exclude each other only
   if they have the same parent: after stop_simulation or a restart the runner
   of the old server works on beside that of the new one, which also runs the
   old one's job a second time.
4. *"invalid rule: a symbol can't be defined by itself"* (`src/src/parser.yy:137`).
   The comparison behind this error is commented out (`symbol.cc:87`): such a
   rule is accepted and buildTree does not end.
5. *"TAG FIELD CONTAINS THE OUTPUT DIRECTORY, IT'S THE FOREIGN KEY TO SIMULATIONS
   TABLE"* (`app/controllers/simulations_controller.rb:83`). del_sim looks for the
   job of a simulation in the table and in the archive before it deletes either.
   If a runner archives the job after the archive was searched (:118) and before
   it is deleted (:120), it stays in the archive without its simulation, and when
   the output is used again that archived job has the tag of the new one. In the
   table of jobs the tag is a foreign key: `TableIsForeignKey`.

## Proofs

For all values of the constants TLAPS proves the refinement of TestPlan and
every safety property of the passing runs, with the exception of three of Grammar
(`BuildsLanguage`, `Diagnosed`, `ImplementsInjection`). For what must eventually
happen it proves the part that is safety: measures that every step of the
program decreases, what cannot be lost before it happens, and what holds when
nothing is left to do.

### Campaign

For every protocol model (any number of nodes, any widths, any walk), both
generators and every sequence of failures:

* **TypeCorrect**, **NeverOutOfBounds**: the alternative selected exists. The
  counter of an injector is below its width as soon as the width is known.
  That is not inductive alone: an entry of `observer` may belong to two nodes (the
  id at the limit is handed out again), so the invariant says that ids below the
  limit are the id of at most one node, that ids are fresh, and that the shared
  id, which is not representable as an int, is never enabled (`IdInv`,
  `CountInv`). No assumption on the product of getRun is made: it may overflow.
* **OneFaultPerTest**: with the sequential generator a single id is enabled and
  it belongs to one node, as long as ids fit an int (`FaultInv`).
* **VariablesAreLocal** (`VariableInv`).
* **EnumeratesWithoutRepetition**: an EXEC that was not blind goes through the
  combinations in lexicographic order. `InOrder` says that every combination
  before the current one has been tried in this EXEC and none after it; the
  lemmas on the odometer show that `UpdateInjectorState` computes the successor in that order, and that it
  wraps only from the last combination.
* **ExecsAreExhaustive**: such an EXEC tries all combinations, in as many tests.
  `ProductInv` says that after each iteration of getRun `num_run` is the number
  of combinations of the wheels seen so far (one more wheel is a bijection with
  a product), and `CountedInv` that `i` is the number of combinations tried. The
  theorem carries the hypothesis `ProductFits` in the state in question: fewer
  combinations than half the values of an int. Beyond it the code's product
  wraps around and the property is false.
* **EachFaultSetOnce**: with k injectors, `k <= MaxFaults`,
  the EXECs 0, 1, ... up to the next id enable each subset of the injectors
  (exponential) or each single one and none (sequential) exactly once. The proof
  is about binary representation: a number below 2^k is determined by its k low
  bits, and each choice of bits is such a number. `MaxFaults` is 32 for the exponential
  generator; finding 1 is what happens beyond it.
* **CampaignIsComplete**: a campaign whose EXEC 0 ran every node has tested, when
  main ends, exactly the wanted selections, each once. **CampaignImplementsPlan**:
  every step of the campaign is a step of TestPlan or leaves it alone. Both
  assume `SmallModel`: finitely many nodes, at most `MaxFaults`, and fewer
  wanted selections than half the values of an int. The constants of
  both campaign runs satisfy it. The invariant, `CampaignInv`, adds to the above
  that the ids of EXEC 0 are the first ones of the generator and that main
  takes their number from the next one (`KnownInv`), that EXEC 0 activates nothing and makes
  one test (`ZeroInv`), that no two files are of one test (`HistoryInv`), that an EXEC
  activates what the generator says (`ActiveInv`), and which plans are in the log
  (`PlansInv`). Most of this is claimed only of EXEC 0 and of a campaign that
  is `Informed`: otherwise nodes may be created in any test and the number of
  EXECs means nothing. Plans and selections correspond one to one
  (`ChoiceIsWanted`, `ChoiceIsInjective`, `ChoiceCovers`), and creating a node
  later does not change what an earlier plan selected (`SelectionsStay`),
  which is why the refinement also holds of a campaign that is not informed.

* **MainDescends**: every step of main brings its end nearer. The measure is a
  tuple of seven counters, compared in the order of dictionaries: whether EXEC 0
  is over, EXECs left, the phase of the EXEC, what is left of it (tests, or
  entries of `observer` that getRun has not seen), the phase of the test, `or`
  nodes not created yet, events of the walk left. EXEC 0 comes first because it
  may create nodes, and with them EXECs.
  **DescentEnds** is the fact behind it, for tuples of any length: every
  property of tuples that some tuple has is had by one with none below it
  that has it. So main, if it goes on, ends. That it does go on is
  the fairness that `Terminates` assumes; together they are that property.

### TestSession

**SessionTypes**, **SocketsAreCounted** (reference counts equal the numbers of
holders), with **FactoryOwnsSockets** and **NoSocketDangles** from the same
invariant, **SessionsAreFresh**, **RttsAreLocal**. `FactoryInv` ties counts,
pointers and live objects together, and `HoldInv` says a holder has the pointer
the factory has. **SessionDescends**: each step of main has a measure of three
counters below the one before (tests left, the phase of the test, sockets to
reconnect), or it is a command of the test, which changes none of them. How
many commands a test runs is the business of Campaign and ReadFrames.

### ReadFrames

**TypeCorrect**, **DeletedOnce**, **NothingLeaks**, **OnlyExposedDangle**,
**LateFramesHaveThePort** and the action property **ReadsAccept**, for every script, kind
of socket and peer. The heart of the invariant is `HeapInv`: every object is a
root (a result that main holds, the frame of the read, a result of a son) or is
owned by one, no root is pointed at twice, and there is a last frame only
while a read runs. Then a deletion never meets an object that is gone. `VariableInv` follows the object of a variable that is
not exposed from the son that made it to the result of its command; `CheckInv` and `FrameInv`
remember what the checks saw and where the packet came from. After an abort
nothing is said but what held before. **ReadsDescend** is the core of
`ReadsEnd`: every step of the program decreases a measure of seven counters
(tests left, commands left, packets to come, and what is left of the command), and
the peer increases none of them. The exception is the one that `ReadsEnd`
leaves out: read() of a Bluetooth channel that is closed.

### Injection

**KeepsTheTest**, **DeletesOnlyEmpty**, **KeepsOperands**, for every tree the
parser may make and every mode. The invariant knows the tree exactly: it is the
tree that was built with the data leaves of the composites that are done
replaced, all at once (`InjectionInv`). Injecting into one composite must not change what is found
below another, which is so because composites that send are never below each
other (`Sends`) and what is replaced are leaves. By `ImplementsInjection` the
properties hold in Grammar.

### WebPage

**TypeCorrect**, **QueuesMove**, **RequestsCounted**, for any number of
accordions and of things the user does. `NoStall` is about the moments between
scripts only; the invariant must say what is true inside of them. `ScriptInv`
says which operations can follow which on the stack, so that only the first one
may be in the middle of work on a queue; `QueueInv` that elements share no queue
and that any other queue begins with the mark of a running animation and has a
timer that nothing on the stack is going to end; `ActiveInv` also counts the
request whose callbacks are running.

**ShownBetweenScripts**: fadeOut of the report or of the list of libraries is
answered by fadeIn before the script ends. **RestIsSettled**: in every state in
which no script runs, no interval and no timeout is set and no request is open
(`AtRest`) the page is `Settled`. That is what is left of `Settles` when one
takes away that the browser comes to rest at all. No conjunct of
`Settled` is inductive, since each speaks of visibility and what decides it is
the last of the animations under way for the element, which may be an operation
of the script, wait in the queue, run, or be over. `Ends(e, kind)` says where to
look for it, in that order, and the invariant, `PageInv`, says what it is:

* `FlashInv`: the message is hidden as the last thing that happens to it, or the
  timeout that will hide it is set. `OpenedInv`: the accordion whose link was
  obeyed last is shown last, every other one is hidden last.
* `LinkInv`: an accordion is shown only while the links are disabled, only the
  one that was obeyed, and nothing waits behind it; when `enable` is called
  nothing else is under way for that accordion. `ShowingInv`: while the links are
  disabled an accordion is being shown, so that they do not stay disabled.
* `ShownInv`: the report and the list are invisible only in the middle of a
  script, which goes on by showing them.
* What these need of jQuery: which animations the page makes of which
  element (`SuitsInv`); an element whose callbacks animate nothing has at most
  one interval, and none without a queue (`TimerInv`); the end of a dequeue meets
  the queue it began with, or none (`CleanInv`, the line of jQuery that looks at the array
  after the callback); a callback that throws takes no animation with it
  (`ThrowInv`).

The proof first says of each operation what it does to scripts, queues and
intervals (`Effect`, `StepEffect`), and then of each part of `PageInv` that such
effects keep it, so that no part looks into the code again.

### Simulations

**TypeCorrect**, **ForeignKey**, **BoundedOverlap**, **ScriptIsCurrent** and the
action property **RequestsSpareOthers**, for any numbers of simulations, servers,
runners and jobs. `RunnerInv`: a runner is the only one of its server and waits
for a process of its own. `OrphanInv`: there are no more processes that nobody
waits for than runners that were killed. `ScriptInv`: the script on disk is as new as that of any job, as a launch
writes it before it submits the job. `KeyInv` is what **ForeignKey** needs
of a request in the middle of its steps: the output of a launch is free until
its simulation and its job are there (`LaunchKey`), and a deletion that has found no
job will find none, for nobody else submits one; the job it found is the only
one of its output, is out of the table before the simulation goes, archived or
deleted, and the directory goes last (`DeletionKey`). If the server ends in
between, each of these states is one that the theorem allows.
**NoJobIsLost** is what `Drains` rests on: a job that is marked as running is
held by a runner, or a runner was killed and the one that comes next has not
yet looked for dead jobs, or there was more than one server. The last case is
the job that stays marked for ever.

### Assumptions

They are those in the modules: nodes have at least two alternatives,
the walk is well formed, an int has a bit, the limit of ids (2^63) has none of the bits that an
int has, commands are finite in number, there are simulations, the sons of a
command are a well-formed walk of its subtree (each `or` has alternatives
before it), the accordions are in an order, and the elements of the page are
different ones. When all arrays of JQuery are in use no queue can
be created; there are more of them in a browser than pages need.

### Only model-checked

* `BuildsLanguage`, `Diagnosed` and `ImplementsInjection`: Grammar's rules and
  trees are recursive, and modules with RECURSIVE operators are out of the reach
  of TLAPS.
* The liveness properties `Terminates`, `Ends`, `ReadsEnd`, `Settles` and
  `Drains`: they need fairness and ENABLED, which are out of the reach of TLAPS.
  Proved is what they rest on, as said above: for `Terminates`, `Ends` and
  `ReadsEnd` that every step brings the end nearer, for `Settles` that a page at rest is
  settled, for `Drains` that no job is lost.

## Plan

In this order, the most important behaviour first.

1. *done* TSGenerator, TestCaseState, Campaign; SocketFactory, TestSession;
   their theorems.
2. *done* ReadFrames and its theorems.
3. *done* Grammar: rules, tree; Injection and its theorems.
4. *done* TestPlan and its refinement by Campaign, with its proof.
5. *done* JQuery and WebPage, Bj and Simulations and their theorems.
6. *done* The safety that the liveness properties rest on: descents, jobs, the
   page at rest.
7. To model, if the code is worked on: the value commands as operators on bytes.

## Not modelled

* Logs and reports, XML and text output: a test is in the log or it is not.
* The values of States and what the value commands compute. They are pure
  functions on byte strings without state; who owns a State is in ReadFrames.
* The scanner and the syntax of ABNF, values and ranges of numbers: Grammar
  begins where the parser reduces a rule.
* Walk is not computed from Grammar's tree. Campaign is about every walk
  instead; Grammar shows which trees there are.
* The monitor client and daemon: this version does not load the client.
* The controllers of the web interface other than SimulationsController: each
  request is one access to the database or a conversion.
* Post-processing tools and dissector: they convert files and keep no state.
* Third-party code, except where the pages' behaviour depends on it: the
  queues, animations, deferreds and requests of jQuery, the slide of jQuery UI, the hotkeys plugin, and Bj. Most
  JavaScript of the repository is of this kind. prototype.js, effects.js,
  dragdrop.js, controls.js, jquery.flot.js and excanvas.js (11,400 of 20,200
  lines) are loaded by no page: jRails puts jQuery in the place of the default
  scripts, and the layouts ask for packed versions of the last two. Of
  jquery.js, selectors, attributes, styles, DOM manipulation and geometry have
  no behaviour over time that a page's correctness rests on. Measured in
  lines of JavaScript the models cover little for that reason; stress itself is
  written in C++ and its web interface in Ruby.
