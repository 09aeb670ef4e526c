# Verification of AIOpsLab

This directory holds TLA+ specifications of AIOpsLab, the TLC configurations
that check them on small instances, and proofs checked by TLAPS. Every
definition is translated from the Python under `src/`; `PROJECT.json` maps each
one to the lines it stands for, lists the hazards of the code at their lines,
and says for every property which plausible change of the code breaks it.

## 1. The system

AIOpsLab is a benchmark for agents that operate cloud services. A *driver*
(`clients/*.py`, `cli.py`, `service.py`) creates an `Orchestrator`, which deploys
an application and Prometheus into a cluster, injects the *fault* of a
*problem*, starts a workload, lets an *agent* talk to an *environment* through a
small set of APIs, scores the submitted solution, takes the fault out and removes
the application. The cluster is shared, live and outlives the process: what the
process does not undo stays.

### 1.1 Components

| Component | State it keeps | Operations | What makes it correct | What is hard |
|---|---|---|---|---|
| `Orchestrator`, `CriticalSection` (`orchestrator.py`, `critical_section.py`) | session, agent, exit handlers of the process (atexit), deferred SIGINT | `init_problem`, `start_problem`, `ask_agent`, `ask_env`, `exit_cleanup_fault` | every injected fault is taken out exactly once, after scoring, before the application goes; a problem starts on a clean cluster | Ctrl-C between any two statements, exceptions of every external call, a second recovery at exit |
| Fault library (`generators/fault`) | none of its own: attributes of services in the cluster, files under `/tmp` | `inject_X`, `recover_X` for each fault type, looped over the targets | recovery undoes injection whatever the agent did in between, and may be repeated | commands that fail silently, delete-then-apply, missing objects, interrupted children |
| Session (`session.py`) | history, solution, results, times | `add`, `set_solution`, `set_results`, `to_json` | the history alternates and belongs to one problem | malformed items raise in the middle of a round |
| Drivers (`clients/*.py`, `cli.py`, `assessment.py`, `scripts/run_*.py`) | the list of problems left | a loop over problems | the next problem does not meet what the last one left | some catch exceptions and go on, some end |
| HTTP service (`service.py`) | none of its own: threads share the cluster and the exit handlers | `POST /simulate` | results are those of the problem asked for; no fault is left behind | requests at the same time, exceptions, an exit between any two steps |
| Response parser (`parser.py`, `onboarding_eval_parser.py`) | none | `parse` | an agent's text becomes one call or an error | argument syntax |
| Actions (`orchestrator/actions`) | none | `get_logs`, `get_metrics`, `get_traces`, `exec_shell`, `submit` | what is shown belongs to the namespace asked for | the shell changes the cluster arbitrarily |
| Log deduplication (`log_deduplication.py`) | none | `greedy_compress_lines` | no line is lost but for repeated ones | block sizes and boundaries |
| Tasks and evaluators (`orchestrator/tasks`, `evaluators`) | results; a shared prompt | `eval`, `common_eval`, `sys_status_after_recovery`, `reasoning_score` | the score depends on this session and on the cluster only | pods in transient states, shared mutable prompt |
| Problems (`orchestrator/problems`) | fault and target | `start_workload`, `inject_fault`, `recover_fault`, `eval` | a verdict is earned, and has a reason | evals are copies that differ in what they guard; pods move between two reads; `flower_model_misconfig` puts its fault in only when the workload runs |
| Workload (`generators/workload/wrk.py`) | a Kubernetes job and a config map | `start_workload` | the workload runs | fixed waits, a polling loop without limit |
| Applications (`service/apps`) | namespaces, releases, volumes | `deploy`, `delete`, `cleanup` | nothing is left | asynchronous deletion |
| Cluster interfaces (`kubectl.py`, `helm.py`, `dock.py`, `shell.py`) | none | `exec_command`, waits, upgrades | a failure is seen by the caller | most failures are returned as text |
| Telemetry (`service/telemetry`) | a Helm release and a claim | `deploy`, `teardown` | idempotent | namespaces of the claim |
| Deployment (`scripts/terraform/deploy.py`, `generate_inventory.py`) | Terraform's machines, inventory, kubeconfig | `--apply`, `--plan`, `--setup-only`, `--destroy`, the setup of the laptop | an exit code of 0 tells the truth; old machines are never worked with | steps that fail half way, machines that do not boot, an inventory that outlives its machines |
| Observers (`observer/*.py`) | port-forward processes, threads, files | `start_port_forward`, `stop_port_forward`, exports | ports and threads are given back | processes that survive, ports in use |
| Onboarding evaluator (`onboarding_evaluator.py`) | as the orchestrator's | a second session runner | as the orchestrator's | no critical sections, no limit on rounds |
| LLM cache (`clients/utils/llm.py`, `utils/cache.py`) | a JSON file, a dictionary per client | load, add, save | no entry is lost, an answer is the model's own | several threads and processes, kill during write |

### 1.2 How they interact

A driver calls `init_problem`, which calls the application, Prometheus and the
problem in that order and registers `exit_cleanup_fault` in the same critical
section as the injection. It then runs `start_problem` under `asyncio.run`. The
two only ways back from an exception are the `except Exception` of
`start_problem`, which takes the fault out, and atexit. The problem calls an
injector, the injector calls `KubeCtl`, which runs `kubectl` as a child process in
the terminal's foreground process group. SIGINT is therefore seen by the
interpreter (deferred inside a critical section, else turned by asyncio into a
cancellation the first time and a `KeyboardInterrupt` the second) and by the child.

The applications, Prometheus and the workload are reached through `kubectl`, Helm and
the Kubernetes API, which report most failures as text; only the two waits of
`KubeCtl` raise. The agent's calls go through `ask_env` to the actions; those for
traces and metrics open port forwards of their own. A submission is stored in the
session and scored by the problem's `eval`, which for a mitigation reads the live
cluster. The HTTP service runs all of this in worker threads of one process, and the
LLM clients of all agents share one cache file.

## 2. The modules

| Module | Models | Role |
|---|---|---|
| `FaultLifecycle` | what the benchmark promises of the faults in its cluster | abstract specification |
| `Orchestrator` | one process running problems in its main thread | component |
| `Orchestrator_proofs` | theorems about `Orchestrator` | proofs |
| `MCOrchestrator` | constants of its runs | model checking |
| `FaultLibrary` | fault types, their scripts and one fault's life | component |
| `FaultLibrary_proofs` | theorems about `FaultLibrary` | proofs |
| `MCFaultLibrary` | constants of its runs | model checking |
| `AppLifecycle` | the applications from constructor to cleanup, with the waits of `KubeCtl` | component |
| `Telemetry` | OpenEBS and Prometheus around the problems | component |
| `Telemetry_proofs` | theorems about `Telemetry` | proofs |
| `WrkJob` | config map and job of the workload generator | component |
| `PortForward` | the forwards behind `get_traces` and `get_metrics` | component |
| `Cluster` | the four above in one specification | composition, model checking |
| `Cluster_proofs` | theorems about `Cluster`, with `AppLifecycle`, `WrkJob` and `PortForward` | proofs |
| `Problems` | the catalogue of problems: families, tasks, targets, expected answers | data |
| `Scoring` | from `submit()` to the marks, and the judge | component |
| `Scoring_proofs` | theorems about `Scoring` | proofs |
| `MCScoring` | pools and forms of submission | model checking |
| `Mitigation` | the evals that inspect the cluster | component |
| `Onboarding` | the second session runner | component |
| `LogDedup` | the shortening of logs | algorithm |
| `Verdicts` | the last three and `Scoring`, with the judge and without, in one specification | composition |
| `Verdicts_proofs` | theorems about `Verdicts`, with `Mitigation` and `Onboarding` | proofs |
| `MCVerdicts` | constants of its run | model checking |
| `SimulateService` | `POST /simulate` in worker threads | component |
| `LLMCache` | the clients of the cache file | component |
| `LLMCache_proofs` | theorems about `LLMCache` | proofs |
| `Deployment` | `deploy.py` and the inventory | component |
| `LocalSetup` | the setup of the laptop in mode B | component |
| `Programs` | the service, the clients, in turn and in threads, and the last two in one specification | composition |
| `Programs_proofs` | theorems about `Programs`, with `SimulateService`, `Deployment` and `LocalSetup` | proofs |
| `MCPrograms` | constants of its run | model checking |

`Cluster`, `Verdicts` and `Programs` each put several components into one
specification (`ClusterSpec`, `VerdictSpec`, `ProgramSpec`). One component is extended,
the others are instances over variables of their own, marked by a prefix. The variable
`part` is chosen in the initial state; the chosen component takes steps by its own `Next`
and the others keep their initial state. The components of one such module share no
variable, so the reachable states are the union of those of the components and every
property is checked on each of them as if it ran alone. Fairness of a component is
stated over its own step. The theorems are about the same specifications.

### 2.1 Orchestrator

`pc` is the statement about to run, in the order of the source: `setup` to
`context` are `init_problem` and what the driver does before `start_problem`;
`ask` and `env` the two halves of a round; `eval` and `save` the scoring; `abort*`
the `except` clause and `finish*` the recovery after scoring; `cleanup`,
`teardown`, `report` the end of `start_problem`; `idle` the driver's loop; `exit`
atexit; `dead` no process. Each statement that calls out has a normal action and
one that raises, and a raise goes where Python takes it: to the `except` clause,
to the driver, or through the driver to `exit`.

* `todo`, `cur` are the driver's list and `session.problem`;
* `step`, `asked`, `answered`, `solution`, `accepted` are the dialogue: rounds,
  history items by role, `session.solution`, and whether the last response was a
  valid submission;
* `infra`, `running`, `fault` are the cluster: OpenEBS and Prometheus,
  applications, and per problem whether its fault is absent, half injected,
  injected, half recovered or recovered. "Half" is the state after the
  operation raised;
* `handlers` is atexit's table (unregistering removes every handler of the
  function, as `atexit.unregister` does); `inCS`, `signaled` are the critical
  section; `cancelled`, `sigints` are asyncio's treatment of SIGINT.

The constant `Docker` names the problems deployed with docker compose, for which
setup and teardown of OpenEBS and Prometheus are skipped and whose containers
outlive `cleanup`; `Late` those whose `inject_fault` does nothing until
`start_workload` calls it. `DriverContinues` selects the driver: `FALSE` is
`clients/gpt.py`, which ends with the first exception, `TRUE` is
`clients/react.py`, which prints it and goes on.

### 2.2 FaultLibrary

Each fault type is a script of commands and two kinds of edit (`set`, `swap`,
`create`) of one attribute per target. `Begin`, `Take` and `Return` are the
dispatch by name and the loop over the targets; `Read`, `Write`, `Delete`, `Run`
and `ListOrRestart` the commands; `CommandRaises` and `CommandFails` what a
failing command does. Which commands fail silently is read from their code: child
processes through `exec_command` and `patch_service` swallow their failure,
listing, fetching and replacing raise, and a `get` whose output is parsed raises
because the text is no JSON or YAML object. A second set of actions (`Inject`,
`Register`, `AgentActs`, `Recover`, `Unregister`, `ExitRecover`, ...) is the part
of `Orchestrator` that touches one fault, with the driver that ends at an
exception, so that the state in which recovery finds its targets is one the
program can be in: after any action of the agent, half recovered, at exit.

The value of a target is `good` (as deployed), `bad` (as the fault makes it),
`own` (anything else the agent may have written) or `gone`.

### 2.3 AppLifecycle and Telemetry

`AppLifecycle` follows one application (`hotel`, `social` or `astronomy`, `app`)
through several problems. `pc` is the call that is about to be made: the
constructor's `create_namespace` and what the pods mount (`extras`: config maps or a
TLS secret), `delete`, `deploy` and `cleanup`, which differ per application in what
they delete and whether they wait. `ns`, `release` and `pods` are the namespace
(`terminating` while Kubernetes empties it), whose objects are installed, and one pod
per problem that has one, possibly ready while it is already dying, which is what
`wait_for_ready` cannot tell. Neither `helm install` nor `kubectl apply` waits for a pod:
`Install` changes the release and `PodCreated`, a step of the cluster, makes the pod, so
that `wait_for_ready` may pass on the pods of an earlier problem (`overlap` records that
there were any). `Leave` ends a problem before its cleanup is through, wherever it is, as
an exception of the dialogue, the eval or the recovery does, and `left` remembers the last
that ended so. `errors` counts commands and API calls that failed without being noticed,
`timeouts` waits that raised, or for a deletion that were left. The actions under
`Kubernetes` are the cluster's, at its own pace.

`Telemetry` does the same for OpenEBS and Prometheus over the problems of one
process: `Prometheus.deploy` skips everything when Helm has a release, and tears
down, applies the claim and installs otherwise; `cut` records that a wait for
Prometheus' pods had been given up, `torn` that the last problem came to its end.

### 2.4 WrkJob and PortForward

`WrkJob`: config map and job have fixed names and outlive a problem. A call of
`start_workload` replaces the map, deletes an old job, sleeps five seconds
(`slow` when the job was still there), creates its own and watches it. Calls are
numbered, so that a map, a job or a mounted script can be traced to its call.

`PortForward`: every action of the agent makes its own API object. Traces go through
one fixed port and their forward is stopped after the reading; metrics take the first
free port of a range for the forward but always query the first port of it.
`forwards` says where each port leads and whether its pod is still there; `stray`
that the forward for traces is not the current call's.

### 2.5 Problems, Scoring, Mitigation, Onboarding, LogDedup

`Problems` has one record per problem file and lists what the registry registers.
`Scoring` follows a submission: arguments as the parser leaves them (`written` is the
form of the last one: positional, named, both, none, or one twice), `ask_env`, which
stores the solution before it performs the call, the eval of the task with its Python
values (a string, a list, a dictionary, a number, and what raises for each), and the
judge whose prompt all sessions of a process share (`prompted`, `judged`). `special`
says that the environment has answered with a special token, which `in_tokens` cannot
count. `fault` is what the injection of the problem's family puts in (`FaultIn`: nothing
for the generated problems), and may expire while the agent works, when it is a chaos
experiment.

`Mitigation` has the pods of the faulty service and two others, in the order in which
they are listed, each with the states of a container a kubelet can bring about
between any two reads; the kinds of `check` are the variants of the copied evals. All of
them begin with `CommonEval`, outside of any `try`, which a `special` trace or the judge
(`unjudged`) ends. `Onboarding` is `onboarding_evaluator.py` with its two evaluations and
no critical section: the pods of a mitigation drift between them (`repaired`, and `moved`
since the first one); `LogDedup` the passes of `greedy_compress_lines`, with the operators of the
source (`make_blocks`, `greedy_compress_pass`). A line is named by its number in the log,
a string is the sequence of the numbers of the lines joined in it, and `raw` says of each
line what it reads without its timestamp and whether it has one.

### 2.6 SimulateService, LLMCache, Deployment, LocalSetup

`SimulateService` runs the orchestrator of section 2.1 in several threads, reduced to
the steps that touch what the requests share: applications, telemetry, faults and the
table of exit handlers, of which `atexit.unregister` removes all that are of this
function (`dropped`). A step that raises may have done its work or none of it, and
`inject_fault` part of it; an exit handler may raise as well. `halfway` are the requests
whose fault was left so. `own` records that a request was evaluated in the environment
of its problem, `together` that it ran at a time with another.

`LLMCache`: a client loads the file when it is made, and writes all it has after every
answer; opening empties the file, so that a kill or a second writer in between leaves
it cut. `Deployment` is a table of steps per command and one action per step, over the
machines (a generation `gen` each time they are made again), the inventory, the
kubeconfig and what AIOpsLab was set up for; the last two are -1 for a cluster that is
not of these machines, as mode B only asks whether some cluster answers
(`SomeClusterAnswers`). `LocalSetup` has the nine steps
of mode B, each of which appends a status to a table.

## 3. The runs

| Run | Instance | States | Shows |
|---|---|---|---|
| `session_ending` | 4 problems, 2 with docker compose, 1 of them late; 2 rounds; 3 Ctrl-C; driver ends | 31 087 | all safety properties of `Orchestrator`, and the refinement of `FaultLifecycle` |
| `session_continuing` | 3 problems, 2 rounds, 1 Ctrl-C; driver goes on | 138 591 | `ScoredInPlace` needs no assumption on the driver |
| `session_liveness` | 2 problems, 2 rounds, 2 Ctrl-C | 2 705 | `EventuallyRecovered`, unless `start_workload` polls for good |
| `caught_with_fault` | driver goes on | violation | `RecoveredBeforeCaught` is false |
| `lost_handler` | driver goes on | violation | `ExitRecovers` is false for such a driver |
| `fault_library` | 13 fault types, 3 targets, 2 failing commands, 1 Ctrl-C | 217 864 | what injection and recovery do to the targets |
| `interrupted_command` | 1 target, no failing command, 1 Ctrl-C | violation | `NothingLeftBehind` is false |
| `generated_fault` | the generated problems' fault type | violation | `InjectedIsFaulty` is false |
| `cluster` | applications: 3 problems, 2 polls, 2 failures; telemetry: the same; workload: 3 problems, 2 failures; forwards: 6 calls, 3 ports for metrics, 2 removals, 2 failures, 1 empty query | 147 725 | what a session does to the cluster, and what it leaves there |
| `verdicts` | every registered problem and form of submission, 2 rounds; two sessions with the judge; mitigation: 7 kinds of eval, 2 polls, 2 actions, 1 failure; onboarding: 3 rounds; logs: up to 5 lines, 3 messages, window 2 | 244 439 | what an agent is shown and how its answer is judged |
| `programs` | service: 2 requests, 2 applications; cache: 2 clients of 2 models in turn, 3 clients at a time; deployment: 2 hosts, 2 polls, 4 commands; laptop: 2 runs | 67 547 | the programs around a session |
| `judge` | 4 problems of three tasks, 2 sessions of 1 round, with the judge | violation | `JudgedOnOwnTrace` is false |

Properties of `Orchestrator`: `HandlerIffOwed` (outside the critical sections
atexit holds exactly the faults still to be taken out), `SoleFault` (never two
problems' faults in the cluster), `CleanBetween` (nothing is left when the next
problem begins), `RecoverOnlyOwed` (no fault is taken out twice, or before it was
whole), `ExitRecovers` (no whole fault survives the process untreated),
`ScoredInPlace` (scoring happens with the fault in place, on a complete dialogue,
with this session's solution), `KeepsLifecycle` (refinement) and
`EventuallyRecovered` (unless the process stays in a loop of `start_workload`, every
fault put in is given to `recover_fault`).

Properties of `FaultLibrary`: `FailureSpoilsOneTarget` (an operation that returned
did exactly what its type means to do, on what it found, but for one target per
unnoticed failure), `LostOnlyHalfRedeployed` (only redeployments lose an object,
and when), `InjectedIsFaulty`, `LeftBehindExplained` (what can leave a target
faulty: a failed command, or an earlier target that is missing).

Properties of `cluster`, the first two as long as no command failed unnoticed and no wait
for a deletion was given up (`Quiet`): `OwnApplication` (a problem begins with its own
release, and with a ready pod of it unless pods of an earlier problem were still there,
which only social network, whose namespace stays, or a problem of hotel reservation left
before its cleanup can bring about); `CleanSlate` (one that came to its cleanup leaves
nothing, and however the last one ended the next install collides with nothing);
`TelemetryInPlace` (a dialogue has Prometheus' pods unless an earlier
wait was given up; storage comes first; nothing stays); `OwnWorkload` (the workload
that runs is the problem's own, or there is a reason); `ForeignTracesExplained` (only a
forward that was not stopped shows another namespace's traces); `MissedOnce` (at most
one call for metrics in a row fails while Prometheus runs and fewer forwards than ports
were kept); `CallsEnd` (every wait
ends).

Properties of `verdicts`: `MarksMatchAnswer`, `SubmissionDecides` (what is scored is
what the accepted submission said), `RaisesForAReason` (of the answer, of the
environment's text or of the judge), `TruthfulWhileItLasts` (detection is marked by what
is in the cluster while the experiment lasts); `SuccessIsEarned` and `NegativeHasReason`
(both directions of a mitigation's verdict, `common_eval` included); `ToldTheTruth` (what
is recorded is what the onboarding user was told, or, of a mitigation, what the pods have
become since; what is called invalid was not right); `TrimsRepetitionsOnly`
(no message is lost, order is kept, a log without timestamps is shown whole, the first
pass leaves no repeated line and the second, if the first has found none, no repeated
pair).

Properties of `programs`: `ResultsOfOwnProblem` and `LeftBehindExplained` (the service:
only requests at the same time get results of a foreign environment, and a fault is left
only where the injection had just been done or had raised half way, where the exit handler
raised half way, or where another request dropped it); `WholeCache` and `OtherModelExplained` (the cache: what can make its
file unreadable or lose an entry, and where another model's answer comes from);
`ReportsAreTrue` (exit codes and the table of the setup), `PresentMachinesOnly` (no
step works with machines of an old inventory); `ProgramsEnd` (requests are answered,
unless their workload polls for good, and commands end).

**Bounds.** Problems interact only through the cluster and the handlers of the one
before; four cover every order of a Kubernetes, a docker and a late problem with
another after them. Two rounds give a first, a last and a refused submission.
Three Ctrl-C cover one in a critical section, one asyncio turns into a
cancellation and one that interrupts the unwinding; a further one finds the
process in a state already reached. In `FaultLibrary` three targets give one
before and one after a target that fails; two failures allow one in the recovery
and one in the repeated recovery; the program itself is never bounded.

A wait with two polls has a first poll, a last one and one in between that only counts;
the limits of the code (150, 30 and 12 polls) add more of the latter. Three problems
one after the other are one that leaves something, one that meets it, and one that
meets what that one made of it. Three ports for metrics stand for the hundred of the
range: one is queried, and two failures and an empty query can keep one fewer than all
of them, which `MissedOnce` allows for, and all of them. Two requests at a time include one after the other and every
interleaving of two; a third adds no other kind of meeting. Five lines with a window of
two have a repeated block of either size at every place. `Deployment`'s four commands
allow a cluster that is made, destroyed, made again and set up. The bounds on errors,
removals and the agent's actions count what the environment does, never the program.

**Deadlock.** The programs stop (`dead`, `over`, `done`, the last problem), so the runs
do not check deadlock; the liveness properties show that they do not stop earlier than
they should.

**Fairness.** `FairSpec` of `Orchestrator` assumes weak fairness of the program's next
statement: every external call returns or raises. The code sets no time limit on most of
them, so this is an assumption about `kubectl`, Helm and the agents' HTTP clients, and
the scheduler of a single-threaded program needs nothing else. The polling loops of
`start_workload` have no limit, neither that of `wrk.py:111`, which waits for the state of
the job, nor the two of `flower_model_misconfig`. They are left out of the assumption
(`Polling`), so that any problem may stay there for ever, with its fault in the cluster;
`EventuallyRecovered` speaks of the behaviours in which the process does not. Ctrl-C gets it
out of a loop, after which the recovery at exit is bound to come. No fairness is assumed of
Ctrl-C, of the agent's answers or of which way a call ends. In the same way `cluster` and
`programs` assume weak fairness of each component's own next call (of each thread's, in
`SimulateService`, but for one that polls in `start_workload`) and none of Kubernetes, of
machines that boot, of users or of what fails. That a request is answered is promised
when its workload does not poll for good, and of the waits of `WrkJob` only
that they end when the job's status shows an end (`WatchEnds`). `verdicts` has no liveness property and no fairness.

### 3.1 Disagreements met

Shown by a run of their own:

* `caught_with_fault`: `eval`, `set_results` and `to_json` run outside the `try`
  whose comment says that any exception recovers the fault before the users
  catch it (`orchestrator.py:159`).
* `lost_handler`: after such an exception a driver that goes on loses the exit
  handler of the earlier problem, because `atexit.unregister` removes every
  registration of the function.
* `interrupted_command`: a deferred Ctrl-C still ends the `kubectl` child of the
  recovery, whose failure `exec_command` returns as text.
* `generated_fault`: `app_misconfig`, the fault type of the generated problems, has
  no method in `ApplicationFaultInjector` (there it is `misconfig_app`), so nothing
  is injected.
* `judge`: `format` replaces the text of the one prompt that all judges of a process
  share, so every later session is judged on the trace of the first
  (`qualitative.py:29`). It takes the second session: a process that runs one is judged
  on its own trace (`OneSessionJudgedOnItsTrace`, section 4.2).

Met as a named exception in a property that holds:

* a submission that names its argument, `submit(has_anomaly="Yes")`, is performed, and
  scored on the empty list of positional arguments (`orchestrator.py:127`;
  `ScoredAsSubmitted`);
* `submit()` without an argument, which the prompt of an analysis asks for when there is
  no fault (`tasks/analysis.py:66`), is refused, as its action takes one
  (`actions/analysis.py:18`; `OnlyAcceptedSucceeds`);
* a submission with a positional value and a named one, `submit("Yes", reason="x")`, is
  refused with a `TypeError`, but its positional value is stored (`orchestrator.py:126`), so
  that a dialogue which then runs out of steps is scored as a success by it
  (`OnlyAcceptedSucceeds`);
* `in_tokens` encodes what the environment has answered without `disallowed_special=()`,
  which `out_tokens` passes (`quantitative.py:33`, `:25`): a special token of the tokenizer in
  that text makes every eval raise, those of the mitigations that guard their checks with a
  `try` included, as they call `common_eval` before it (`misconfig_app_hotel_res.py:166`;
  `RaisesExplained`, `RaiseHasReason`);
* the generated detection problems expect "Yes" of a cluster into which nothing was
  injected (`base.py:67`; `TruthfulWhileItLasts`);
* a chaos experiment ends by itself, after which "Yes" is still the answer that counts
  (`inject_symp.py:57`; `TruthfulWhileItLasts`);
* some evals pass over a pod no node has taken, others raise on it
  (`assign_non_existent_node_social_net.py:198`; `SuccessMeansReady`,
  `RaiseHasReason`);
* a detection is never valid for the onboarding evaluator, which asks for a
  `results["success"]` that detections do not set (`onboarding_evaluator.py:136`,
  against `assessment.py:33`), so that its dialogue, which has no limit, ends only with an
  exception; and a mitigation is evaluated once more after it was announced valid
  (`onboarding_evaluator.py:189`), so that what is recorded may be a failure where the pods
  have moved (`RightIsAccepted`, `RecordedAsAnnounced`);
* with a window of three, a log that says the same three lines twice is not trimmed
  (`log_deduplication.py:126`, against `.env.example:59`), since the third pass works on
  the blocks the second has made; `RepetitionTrimmed` therefore speaks of the first two
  passes, for any window;
* an API error while a namespace is being deleted counts as its deletion
  (`kubectl.py:133`), and `wait_for_ready` is satisfied by ready pods that are being
  deleted while those of the new release are not listed yet (`kubectl.py:98`; the exceptions
  of `OwnApplication`);
* a problem that an exception of its eval or its recovery ends keeps its application
  (`orchestrator.py:205` is not reached), which only the `delete` of the next problem of the
  same application takes away (the condition of `CleanSlate`);
* a release whose pods never became ready is taken for a working Prometheus by the next
  problem (`prometheus.py:69`; `NotReadyExplained`), and its claim is looked for and
  deleted in another namespace than it is applied in (`prometheus.py:101`);
* the workload counts as completed when its pod is only ready (`wrk.py:113`);
* a forward for traces that was not stopped answers the next call, with the traces of
  another namespace (`trace_api.py:100`; `ForeignTracesExplained`), and a query of
  metrics of no duration leaves its forward (`metric_api.py:321`): when as many are left as
  there are ports, no later call gets one (`metric_api.py:161`; the condition of
  `MissedOnce`);
* an injection that raises half way has no exit handler yet (`orchestrator.py:78`), and what
  an exit handler leaves when it raises stays (`orchestrator.py:233`; `LeftBehindExplained`);
* two requests of the service share one cluster (`service.py:152`), and the end of one
  drops the exit handler of the other (`orchestrator.py:199`; `ResultsOfOwnProblem`,
  `LeftBehindExplained`);
* the last client to write decides what the cache holds (`llm.py:65`), and the key of an
  answer leaves out its model (`llm.py:298`; `StoredIsKept` for one client at a time,
  `OtherModelExplained`);
* `deploy` does not look at the result of the AIOpsLab setup (`deploy.py:752`), so that
  `ExitZeroIsTrue` promises nothing about it after `--apply`; and mode B sets AIOpsLab up for
  whatever cluster `~/.kube/config` names, as it only asks whether one answers
  (`deploy.py:370`, `:381`): `--setup-only` after an `--apply` that stopped early ends with 0
  and another cluster (`Trusted` in `ExitZeroIsTrue` and `PresentMachinesOnly`).

## 4. The proofs

Every safety invariant that a passing run checks is stated by a theorem, for every value
of the constants, and so is every action property; only liveness is left to TLC (section
4.5).

### 4.1 Orchestrator

`Orchestrator_proofs` proves, for every set of problems, any `MaxSteps`, any
`MaxSigints` and under the one assumption `OrchestratorAssumption` (docker and late
problems are problems, `None` is none, the numbers are natural):

| Theorem | Statement |
|---|---|
| `TypeCorrect` | `Spec => []TypeOK` |
| `ScoringInPlace` | `Spec => []ScoredInPlace` |
| `HandlersMatch`, `OneFault`, `NothingLeft`, `NoDoubleRecovery`, `RecoveredAtExit` | with `~DriverContinues`: `HandlerIffOwed`, `SoleFault`, `CleanBetween`, `RecoverOnlyOwed`, `ExitRecovers` |
| `Refinement` | with `~DriverContinues`: `Spec => KeepsLifecycle` |

The argument has two layers. None of the properties is inductive: each one holds at
a statement because of what the statements before it did. `BaseInv` says this
statement by statement, for any driver: where `cur` is defined (`Active`), where the
critical section is open (`CriticalWhere`), that problems not yet begun left no
trace (`Untouched`), what has become of `cur`'s fault and handler (`OwnFault`) and of
the rounds (`Rounds`). It implies `TypeOK` and `ScoredInPlace`. `IInv` adds, for a
driver that ends with an exception, that other problems' faults are out
(`OthersClean`), the exact table of handlers (`HandlersExact`) and what is installed
(`Installed`); it needs the assumption because a driver that goes on falsifies it,
as `lost_handler` shows. Each conjunct has a lemma that every action preserves it;
the refinement maps each problem's history to a phase (`PhaseOf`) and shows each
action to be a step of `FaultLifecycle` or a stutter.

### 4.2 The components and their compositions

The other proof modules prove the invariants of their component in the same way, from
an invariant `IInv`, which stands at the end of the component's module and whose
conjuncts have a lemma each.

| Module | Theorems | For every | Under |
|---|---|---|---|
| `FaultLibrary_proofs` | `LibraryTypes`, `OneTargetPerFailure` (`FailureSpoilsOneTarget`), `LostHalfway` (`LostOnlyHalfRedeployed`), `InjectionIsComplete` (`InjectedIsFaulty`), `LeftBehind` (`LeftBehindExplained`) | number of targets and failures, any of the fault types | `FaultLibraryAssumption`, `FaultTypes \subseteq DOMAIN Library` |
| `Telemetry_proofs` | `TelemetryTypes`, `TelemetryCountsOn` (`TelemetryInPlace` of `Telemetry`) | number of problems, polls and failures | `TelemetryAssumption` |
| `Cluster_proofs` | of `AppLifecycle` alone: `LifecycleTypes`, `ProblemHasItsApplication` (`OwnApplication`), `NothingOfTheLast` (`CleanSlate`); of `Cluster`: `ClusterTypes` (`TypesOK`), `ApplicationOfTheCluster`, `TelemetryIsInPlace` (`TelemetryInPlace`), `ProblemHasItsWorkload` (`OwnWorkload`), `ForeignTraces` (`ForeignTracesExplained`), `MetricsMissedOnce` (`MissedOnce`) | application, set of namespaces, number of problems, polls, calls, ports, removals and failures | `AppLifecycleAssumption`, `ClusterAssumption` |
| `Scoring_proofs` | `ScoringTypes`, `MarksAreFair` (`MarksMatchAnswer`), `LastSubmissionDecides` (`SubmissionDecides`), `RaisesAreExplained` (`RaisesExplained`), `DetectionsAreTruthful` (`TruthfulWhileItLasts`); `OneSessionJudgedOnItsTrace` (`JudgedOnOwnTrace`, which is false for more, when there is one session) | pool of registered problems, form of submission, number of rounds and sessions, with the judge or without | `ScoringAssumption` |
| `Verdicts_proofs` | `VerdictTypes` (`TypesOK`), `RaisesOfVerdicts` (`RaisesForAReason`), `SuccessEarned` (`SuccessIsEarned`), `NegativesHaveReasons` (`NegativeHasReason`), `EvaluatorTellsTheTruth` (`ToldTheTruth`), `LogTrimmed` (`TrimsRepetitionsOnly`), and the theorems of `Scoring_proofs` once more, of `VerdictSpec` | pool of problems, number of polls, actions, rounds and failures; logs of any length, set of messages and window | `VerdictAssumption` |
| `LLMCache_proofs` | `CacheTypes`, `OtherModelOnlyFromFile` (`OtherModelExplained`), `FileIsWhole` (`WholeCache`) | finite set of clients, payloads, models, number alive | `LLMCacheAssumption` |
| `Programs_proofs` | of `SimulateService` alone: `ServiceTypes`, `SeparateResults` (`ResultsOfOwnProblem`), `LeftBehind` (`LeftBehindExplained`); of `Programs`: `ProgramTypes` (`TypesOK`), `CacheIsWhole` (`WholeCache`), `OtherModelFromFile` (`OtherModelExplained`), `TrueReports` (`ReportsAreTrue`), `OldInventoryUnused` (`PresentMachinesOnly`, an action property), `ResultsAmongPrograms` | finite set of requests and of clients, number at a time, list of hosts, number of polls and commands | `SimulateAssumption`, `ProgramAssumption` |

The assumptions only say that numbers are natural (and positive where the code has a
positive constant), sets finite, that a table has the right domain, that a pool holds
problems of the right tasks and that the names of namespaces, models and the two services
differ. TLC evaluates each of them in the run of its composition.

**What is inductive.**

* `AppLifecycle`: as long as nothing failed unnoticed and no wait for a deletion was given
  up (`Quiet`), `Namespace` and `Released` say what each step finds, also where the last
  problem ended before its cleanup (`Left`); `PodsOfEarlier` that until its install a problem
  sees only older pods, `OwnPods` that after it they are its own unless there were any
  at the install (`overlap`), and `OneTimeoutEach` bounds the waits that raise. Without
  `Quiet` the properties are false, as TLC shows.
* `Telemetry`: pods that are starting are awaited or were given up on (`PodsOfRelease`),
  OpenEBS stays ready from its wait to its closing (`StorageKept`), and what was taken
  down stays down (`TakenApart`).
* `WrkJob`: `MapIsOwn`, `ScriptIsOwn` and `JobIsOwn` relate map, mounted script and job to
  the call under way; `EndExplained` how a call may have ended.
* `PortForward`: `OwnForward` says what the call under way has forwarded and `StrayKnown`
  that any other forward of the port for traces is a stray one, from which
  `ForeignTracesExplained` follows. `MissedOnce` counts: the ports that stay in use once
  the call is over (`Kept`) are at most as many as the calls that raised or had nothing to
  ask for (`KeptFew`), so that while these are fewer than the ports a call for metrics
  always finds one, and the call that met a dead forward on the first port has freed it
  (`FirstPort`). With as many lost forwards as ports the property is false: no forward can
  be started and every call misses.
* `Scoring`: `SolutionOf` says that the stored solution is that of the accepted submission,
  or of one with a positional and a named value, or, when none was accepted, one of the
  values no eval takes for right (`Refusable`): the refused call has replaced the solution,
  and only its shape keeps it from being scored as a success. `OutcomeOf` ties the marks to `Eval` of that solution and `FaultOf` the
  fault to the family. The marks of each of the tasks are computed from the definitions of
  `Problems` and `Scoring`, for any registered problem.
* `Mitigation`: what was read before the pods are listed was right when it was read
  (`ReadIsRight`), which eval can have found an attribute wrong by then (`AttributeOf`), that
  nothing follows a verdict, and that only a plain trace comes past `CommonEval`
  (`VerdictLast`); pods may move between any two reads.
* `Onboarding`: the loop ends with an answer that was right, or pods that were in order, or
  have moved since (`FoundRight`), the second eval records what they are by then
  (`Recorded`), and no detection can reach either (`FinalIsRight`).
* `LogDedup`: the strings are the state, and what the text has of the properties is said of
  them (`Ordered`, `Covers`, `Lines`), with one thing more: until a pass has found a
  repetition, the strings are still the lines (`Single`), so that the blocks of the second
  pass are pairs of lines. A pass is a loop, whose invariant (`PassInv`) says what it has
  kept of the blocks it has seen. That a line comes back in a later one needs that blocks
  with the same masked text are of the same length (`KeepStep`), and that a block is the
  lines of its own strings and no other's a little arithmetic on where blocks begin
  (`BlockBounds`).
* `SimulateService`: `Alone` says that a request that has not met another is the only one
  in progress, which is what lets `OwnEnvironment` follow it step by step to its
  evaluation; `FaultsHandled` says that a fault in the cluster has its handler, is about to
  have it, lost it to another request, or is half of one.
* `LLMCache`: `KnownOrOwn` says that what a client holds it has from a whole file or from
  its own model; with one client alive at a time `OneWriter` adds that it knows all that
  was ever stored.
* `Deployment`: `Applied` and `SetUpFor` say step by step what a command has done so far,
  `Fetched` that playbooks have succeeded only on machines that are still there and whose
  kubeconfig is the one on the laptop, and `Generations` that an apply under way still may
  make machines once.
* `LocalSetup`: a status that is fine says that the thing is there (`FineIsThere`), only two of
  the steps are ever skipped (`SkippedSteps`).
* `FaultLibrary`: `Placed` says where the loop is and that what is left of a script is one
  of the `Remainders`, each of a stage (`Fresh`, `ReadIn`, `Deleted`, `Edited`); `OnTrack` what
  the target is worth at that stage if no command on it has failed; `Counted` that the
  targets behind the loop that are not as meant, with the one on the way if it is off its
  track, are at most as many as the failures. `FromGood` and `Owed` tie the operations to
  the life of the fault. The library itself is a record of thirteen tuples, which the
  solver goes through case by case (`LibraryFacts`, `ScriptSteps`).

All invariants were also checked by TLC on small instances before they were proved.

### 4.3 How a composition is proved

The invariant of a composition (`ClusterIInv`, `VerdictIInv`, `ProgramIInv`) is the
conjunction of those of its parts. Each part has three lemmas: its initial states satisfy its
invariant, its steps keep it, and so does a step that leaves its variables alone. A step of
the composition is a step of one part and leaves the others', so every part keeps its
invariant, and the properties are read off. The parts whose component has a proof module of
its own are cited from there, through an instance of that module; as the provers take the
definitions of two instances of one module for different ones, a lemma first unfolds both
(`TelemetrySame` and the like). The lemmas about the other parts are in the composition's
module, about the prefixed variables.

### 4.4 Induction over data

The passes of `LogDedup` are a recursive function over the blocks, and the strings are
joined by a fold over a sequence of any length. The induction theorems of the library take
a predicate as a parameter, which none of the installed provers instantiates. The proof of
`LogTrimmed` goes round this with sets: the theorem about minimal elements of well-founded
relations (`WFMin`), which has no such parameter, gives a least element of every set of
numbers that is not empty (`LeastNumber`); from it follow induction, for a set of numbers
(`Induction`), and that a function defined by recursion over `0 .. n` exists (`Recursion`),
so that `FlattenRec` and `PassRec` can say of the fold and of the loop what each step makes
of the one before. Everything else is first-order. TLC has checked the same invariant
(`IInv` of `LogDedup`) with a window of four, on the logs of up to six lines over two
messages and on those of up to thirteen lines that all have a timestamp.

### 4.5 What is only model-checked

* Liveness under fairness: `EventuallyRecovered`, `CallsEnd` and `ProgramsEnd`. The prover
  handles neither `ENABLED` nor leads-to from weak fairness.
* The four violations of section 3.1 in `Orchestrator` and `FaultLibrary` and the one in
  `Scoring` are counterexamples and have nothing to prove; `NothingLeftBehind` and
  `RecoveredBeforeCaught` are false.

## 5. What is abstracted and what is not modelled

Messages, prompts, logs, results and files are reduced to what the properties tell
apart. A cluster operation is one step in `Orchestrator` (it happens, or raises
having happened in part), a script of commands in `FaultLibrary`, and a sequence of
calls against a moving cluster in `AppLifecycle`, `Telemetry` and `WrkJob`. These three
and `SimulateService` are not composed with `Orchestrator` into one state space: each of
them is a closer look at calls that `Orchestrator` makes in one step, with the same
outcomes. `FaultLibrary` takes the supported targets of each type (`mongodb-rate` and
`mongodb-geo` for the MongoDB types, `url-shorten-mongodb` for TLS). The registered
problems pass one target; the library's methods take a list, and the model gives them
three. SIGKILL and power loss are modelled for the cache, the one file that is read
again; elsewhere nothing is persisted that the code would recover from.

Not modelled:

* the injection of `redeploy_without_pv`, whose target is a namespace, and the
  installation of Chaos Mesh; its experiments' file of a fixed name under `/tmp`, which
  two problems at a time would share;
* Flower and the TiDB operator beyond their step in `Orchestrator`, the log API and Loki,
  which no action uses, the operator and hardware faults, which are not in use;
* the queries of the observers and the tables they export, the prompts and the calls of
  the models, the search for a code block in an answer, the endpoints that only list: pure
  reads, I/O or text;
* Terraform, Ansible, charts and manifests, and the generation of scenario files, which
  are programs and data of their own; `Deployment` has their outcomes.

## 6. Plan

The modules of the first plan are written, and every safety invariant of the passing runs
is proved (section 4). What is left is below. A refinement of `FaultLifecycle` without
`~DriverContinues` is not among it: `Orchestrator` implements it only while a raised exception
ends the driver, and
`SimulateService`, like any driver that goes on to the next problem, leaves the fault of
the failed request in the cluster even with one request at a time.

1. `redeploy_without_pv` as two scripts over a namespace, on top of `AppLifecycle`.
