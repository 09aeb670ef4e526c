------------------------------- MODULE WrkJob -------------------------------
(***************************************************************************)
(* Wrk.start_workload (generators/workload/wrk.py): the payload script     *)
(* goes into a config map, a job left by an earlier problem is deleted, a  *)
(* new one is created and watched until its pod is ready or has failed.    *)
(* Config map and job have fixed names in the namespace default and        *)
(* outlive the problem.  Nothing raises: every error is printed and the    *)
(* problem goes on.                                                        *)
(***************************************************************************)
EXTENDS Naturals

CONSTANTS
  MaxCalls,  \* bound on the problems that start a workload
  MaxErrors  \* bound on the API calls that fail

WrkJobAssumption == MaxCalls \in Nat /\ MaxErrors \in Nat

VARIABLES
  pc,      \* "idle", "delmap", "putmap", "check", "sleep", "create", "watch"
  calls,   \* calls of start_workload so far; a call's number stands for its script and URL
  map,     \* script in the config map, 0 when there is none
  job,     \* the job "wrk2-job"
  errors,  \* API calls that failed so far
  told,    \* how the last call ended: "none", "completed", "failed" or "error"
  slow     \* the old job was still there after the five seconds

vars == <<pc, calls, map, job, errors, told, slow>>

(* A job: the call it was made by, 0 for none, its pod, the script the pod *)
(* has mounted, whether a pod has failed, and whether it is being deleted. *)
NoJob == [call |-> 0, pod |-> "none", script |-> 0, failed |-> FALSE, deleting |-> FALSE]
NewJob ==
  [call |-> calls, pod |-> "pending", script |-> 0, failed |-> FALSE, deleting |-> FALSE]

Jobs ==
  [call : 0 .. calls, pod : {"none", "pending", "ready", "done"},
   script : 0 .. calls, failed : BOOLEAN, deleting : BOOLEAN]

TypeOK ==
  /\ pc \in {"idle", "delmap", "putmap", "check", "sleep", "create", "watch"}
  /\ calls \in 0 .. MaxCalls
  /\ map \in 0 .. calls
  /\ job \in Jobs
  /\ errors \in 0 .. MaxErrors
  /\ told \in {"none", "completed", "failed", "error"}
  /\ slow \in BOOLEAN

Init ==
  /\ pc = "idle" /\ calls = 0 /\ map = 0 /\ job = NoJob
  /\ errors = 0 /\ told = "none" /\ slow = FALSE

Goes(from, to) == pc = from /\ pc' = to

Fails == errors < MaxErrors /\ errors' = errors + 1

Start ==
  /\ Goes("idle", "delmap")
  /\ calls < MaxCalls /\ calls' = calls + 1
  /\ told' = "none" /\ slow' = FALSE
  /\ UNCHANGED <<map, job, errors>>

(* create_configmap: a map that is not there is no error; after another    *)
(* one the map is left as it is and the job created all the same.          *)
DeleteMap ==
  /\ \/ Goes("delmap", "putmap") /\ map' = 0 /\ UNCHANGED errors
     \/ Goes("delmap", "check") /\ Fails /\ UNCHANGED map
  /\ UNCHANGED <<calls, job, told, slow>>

CreateMap ==
  /\ Goes("putmap", "check")
  /\ \/ map' = calls /\ UNCHANGED errors
     \/ Fails /\ UNCHANGED map
  /\ UNCHANGED <<calls, job, told, slow>>

Returns(how) == pc' = "idle" /\ told' = how

(* Mutation of CheckJob: a job that has finished is left alone.            *)
CheckJobFinished ==
  /\ pc = "check"
  /\ IF job.pod \in {"none", "done"} \/ job.failed
     THEN pc' = "create" /\ UNCHANGED job
     ELSE pc' = "sleep" /\ job' = [job EXCEPT !.deleting = TRUE]
  /\ UNCHANGED <<calls, map, errors, told, slow>>

(* create_wrk_job: an existing job is deleted in the foreground, which is  *)
(* to say that it stays until its pods are gone.                           *)
CheckJob ==
  /\ pc = "check"
  /\ \/ Fails /\ Returns("error") /\ UNCHANGED job
     \/ job = NoJob /\ pc' = "create" /\ UNCHANGED <<job, errors, told>>
     \/ job # NoJob /\ pc' = "sleep" /\ job' = [job EXCEPT !.deleting = TRUE]
          /\ UNCHANGED <<errors, told>>
  /\ UNCHANGED <<calls, map, slow>>

(* Five seconds.                                                           *)
Sleep ==
  /\ Goes("sleep", "create")
  /\ slow' = (job # NoJob)
  /\ UNCHANGED <<calls, map, job, errors, told>>

(* A name that is still in use is refused.                                 *)
CreateJob ==
  /\ pc = "create"
  /\ IF job = NoJob
     THEN \/ pc' = "watch" /\ job' = NewJob /\ UNCHANGED <<errors, told>>
          \/ Fails /\ Returns("error") /\ UNCHANGED job
     ELSE Returns("error") /\ UNCHANGED <<job, errors>>
  /\ UNCHANGED <<calls, map, slow>>

(* Mutation of Watch: without a look at pods that failed.                  *)
WatchReadyOnly ==
  /\ pc = "watch"
  /\ IF job.pod = "ready" THEN Returns("completed") ELSE UNCHANGED <<pc, told>>
  /\ UNCHANGED <<calls, map, job, errors, slow>>

(* A poll of the job's status, or an error that ends the watching.         *)
Watch ==
  /\ pc = "watch"
  /\ \/ /\ UNCHANGED errors
        /\ IF job.pod = "ready" THEN Returns("completed")
           ELSE IF job.failed THEN Returns("failed")
           ELSE UNCHANGED <<pc, told>>
     \/ Fails /\ Returns("error")
  /\ UNCHANGED <<calls, map, job, slow>>

-----------------------------------------------------------------------------
(* Kubernetes: a pod mounts the config map and becomes ready, ends, or     *)
(* fails and is made again; a job that is deleted goes in the end.         *)
PodStarts ==
  /\ job.pod = "pending" /\ ~job.deleting /\ map # 0
  /\ job' = [job EXCEPT !.pod = "ready", !.script = map]

PodEnds ==
  /\ job.pod = "ready"
  /\ job' = [job EXCEPT !.pod = "done"]

PodFails ==
  /\ job.pod \in {"pending", "ready"} /\ ~job.deleting
  /\ job' = [job EXCEPT !.pod = "pending", !.script = 0, !.failed = TRUE]

JobGone ==
  /\ job.deleting
  /\ job' = NoJob

Kubernetes ==
  /\ PodStarts \/ PodEnds \/ PodFails \/ JobGone
  /\ UNCHANGED <<pc, calls, map, errors, told, slow>>

Work ==
  \/ DeleteMap \/ CreateMap \/ CheckJob \/ Sleep \/ CreateJob \/ Watch

Next == Start \/ Work \/ Kubernetes

(* The program goes on; Kubernetes need not.                               *)
Spec == Init /\ [][Next]_vars /\ WF_vars(Work)

-----------------------------------------------------------------------------
Ended == pc = "idle" /\ calls > 0

(* A problem whose workload is reported as under way has its own: its job, *)
(* with its script unless the config map could not be replaced.            *)
LoadAsAsked ==
  Ended /\ told \in {"completed", "failed"} /\ job # NoJob =>
    /\ job.call = calls
    /\ job.script \in {0, calls} \/ errors > 0

(* A problem goes on without its workload only after an API call failed or *)
(* the deletion of the old job took longer than the five seconds.          *)
MissingExplained == Ended /\ job.call # calls => errors > 0 \/ slow

(* A problem runs under its own workload, or says or could know why not.   *)
OwnWorkload == LoadAsAsked /\ MissingExplained

(* Once the pod is ready or has failed the watching ends, unless a pod     *)
(* that was ready came to its end between two polls.                       *)
WatchEnds ==
  pc = "watch" /\ (job.pod = "ready" \/ job.failed)
    ~> pc # "watch" \/ (job.pod = "done" /\ ~job.failed)

-----------------------------------------------------------------------------
(* The inductive invariant: the script of the map, the job of this call    *)
(* and how the call has ended, place by place.                             *)
MapIsOwn ==
  pc \notin {"delmap", "putmap"} /\ calls > 0 => map = calls \/ errors > 0

ScriptIsOwn ==
  job.call = calls => job.script \in {0, calls} \/ errors > 0

JobIsOwn ==
  /\ pc \in {"delmap", "putmap", "check", "sleep", "create"} => calls > 0 /\ job.call < calls
  /\ pc = "create" /\ job # NoJob => slow
  /\ pc = "watch" => calls > 0 /\ job.call = calls /\ ~job.deleting
  /\ job.call = 0 => job = NoJob

EndExplained ==
  Ended =>
    \/ told \in {"completed", "failed"} /\ job.call = calls /\ ~job.deleting
    \/ told = "error" /\ (errors > 0 \/ slow)

IInv == TypeOK /\ MapIsOwn /\ ScriptIsOwn /\ JobIsOwn /\ EndExplained

=============================================================================
