----------------------------- MODULE PortForward -----------------------------
(***************************************************************************)
(* The port forwards behind get_traces and get_metrics (actions/base.py,   *)
(* TraceAPI, PrometheusAPI).  Every call makes an API object of its own.   *)
(* Traces are read through one fixed port, and the forward is stopped when *)
(* they have been read.  Metrics are read through the first port of a      *)
(* range, whatever port of it the call was free to forward.                *)
(***************************************************************************)
EXTENDS FiniteSets, Integers

CONSTANTS
  Namespaces,   \* the namespaces with a Jaeger
  NodePorts,    \* those whose Jaeger has a node port
  MetricPorts,  \* ports for metrics (100 in the code)
  MaxCalls,     \* calls of the agents
  MaxEmpty,     \* those that ask for the metrics of no time
  MaxErrors,    \* errors of kubectl and of reading
  MaxMoves      \* removals of what is forwarded to

PortAssumption ==
  /\ NodePorts \subseteq Namespaces
  /\ {"prometheus", "nobody"} \intersect Namespaces = {}
  /\ MetricPorts \in Nat \ {0} /\ MaxCalls \in Nat
  /\ MaxEmpty \in Nat /\ MaxErrors \in Nat /\ MaxMoves \in Nat

VARIABLES
  pc,        \* "idle", "attempt" or "query"
  kind,      \* "traces" or "metrics"
  target,    \* what the call wants: a namespace, or "prometheus"
  port,      \* the port it forwards
  attempt,   \* attempts made
  started,   \* its forward was established
  answer,    \* who has answered, "nothing" or "raised"
  forwards,  \* port -> where it is forwarded to, and whether it gets there
  stray,     \* the forward for traces was not ended by the call that began it
  up,        \* what is running
  missed,    \* metrics calls in a row that failed with Prometheus running
  calls, empty, errors, moves

call == <<kind, target, port, attempt, started>>
network == <<forwards, stray, up>>
vars == <<pc, call, answer, network, missed, calls, empty, errors, moves>>

Targets == Namespaces \union {"prometheus"}
TracePort == 0
QueriedPort == 1  \* http://localhost:32000
Ports == {TracePort} \union (QueriedPort .. MetricPorts)
Free == [to |-> "nobody", live |-> FALSE]

Forwardings == [to : Targets \union {"nobody"}, live : BOOLEAN]

TypeOK ==
  /\ pc \in {"idle", "attempt", "query"}
  /\ kind \in {"traces", "metrics"} /\ target \in Targets
  /\ port \in Ports /\ attempt \in 0 .. 3 /\ started \in BOOLEAN
  /\ answer \in Targets \union {"nothing", "raised"}
  /\ forwards \in [Ports -> Forwardings]
  /\ \A p \in Ports : forwards[p].live => forwards[p].to \in up
  /\ stray \in BOOLEAN /\ up \subseteq Targets
  /\ calls \in 0 .. MaxCalls /\ moves \in 0 .. MaxMoves
  /\ empty \in 0 .. MaxEmpty /\ errors \in 0 .. MaxErrors
  /\ missed \in 0 .. MaxCalls

Init ==
  /\ pc = "idle" /\ kind = "traces" /\ target \in Namespaces
  /\ port = TracePort /\ attempt = 0 /\ started = FALSE /\ answer = "nothing"
  /\ forwards = [p \in Ports |-> Free] /\ stray = FALSE
  /\ up = Targets
  /\ missed = 0 /\ calls = 0 /\ empty = 0 /\ errors = 0 /\ moves = 0

InUse(p) == forwards[p] # Free
Works == UNCHANGED errors
Fails == errors < MaxErrors /\ errors' = errors + 1

Calls(k, t) ==
  /\ pc = "idle" /\ calls < MaxCalls /\ calls' = calls + 1
  /\ kind' = k /\ target' = t
  /\ attempt' = 0 /\ started' = FALSE
  /\ UNCHANGED <<network, empty, errors, moves>>

(* TraceAPI: with a node port there is nothing to forward.                 *)
GetTraces(ns) ==
  /\ Calls("traces", ns)
  /\ port' = TracePort /\ UNCHANGED missed
  /\ IF ns \in NodePorts
     THEN /\ pc' = "idle"
          /\ answer' = IF ns \in up THEN ns ELSE "nothing"
     ELSE pc' = "attempt" /\ answer' = "nothing"

Unused == {p \in Ports \ {TracePort} : ~InUse(p)}

(* find_free_port raises when there is none.                               *)
GetMetrics ==
  /\ Calls("metrics", "prometheus")
  /\ IF Unused = {}
     THEN /\ pc' = "idle" /\ answer' = "raised" /\ UNCHANGED port
          /\ missed' = IF "prometheus" \in up THEN missed + 1 ELSE missed
     ELSE /\ pc' = "attempt" /\ answer' = "nothing" /\ UNCHANGED missed
          /\ port' = CHOOSE p \in Unused : \A q \in Unused : p <= q

(* start_port_forward: a port in use is tried again, and so is a forward   *)
(* that has ended within three seconds.  Without one the call goes on.     *)
Attempt ==
  /\ pc = "attempt"
  /\ \/ /\ ~InUse(port) /\ target \in up /\ Works
        /\ forwards' = [forwards EXCEPT ![port] = [to |-> target, live |-> TRUE]]
        /\ started' = TRUE /\ pc' = "query" /\ UNCHANGED attempt
     \/ /\ \/ (InUse(port) \/ target \notin up) /\ Works
           \/ ~InUse(port) /\ Fails
        /\ attempt' = attempt + 1
        /\ pc' = IF attempt' = 3 THEN "query" ELSE "attempt"
        /\ UNCHANGED <<forwards, started>>
  /\ UNCHANGED <<kind, target, port, answer, stray, up, missed, calls, empty, moves>>

(* A read through a forward that no longer gets to its pod ends it.        *)
Read(p) == IF forwards[p].live THEN [answer |-> forwards[p].to, left |-> forwards[p]]
           ELSE [answer |-> "nothing", left |-> Free]

(* Mutation of ReadTraces: the forward is never stopped.                   *)
ReadTracesOnly ==
  /\ pc = "query" /\ kind = "traces" /\ pc' = "idle"
  /\ answer' = Read(TracePort).answer
  /\ UNCHANGED <<call, network, missed, calls, empty, errors, moves>>

(* extract_traces reads, and then stops the forward it has started:        *)
(* terminate goes to the shell, and the kubectl under it may live on.      *)
(* What raises on the way leaves the forward.                              *)
ReadTraces ==
  /\ pc = "query" /\ kind = "traces" /\ pc' = "idle"
  /\ LET read == Read(TracePort) IN
     \/ /\ Works /\ answer' = read.answer
        /\ forwards' = [forwards EXCEPT ![TracePort] = IF started THEN Free ELSE read.left]
     \/ /\ Fails /\ answer' \in {read.answer, "raised"}
        /\ forwards' = [forwards EXCEPT ![TracePort] = read.left]
  /\ stray' = InUse(TracePort)'
  /\ UNCHANGED <<call, up, missed, calls, empty, moves>>

(* Mutation of ReadMetrics: the forward is never stopped.                  *)
ReadMetricsOnly ==
  /\ pc = "query" /\ kind = "metrics" /\ pc' = "idle"
  /\ answer' = IF Read(QueriedPort).answer = "prometheus" THEN "prometheus" ELSE "raised"
  /\ missed' = IF answer' = "prometheus" THEN 0 ELSE missed + 1
  /\ UNCHANGED <<call, network, calls, empty, errors, moves>>

(* export_all_metrics sends every query to the first port, and stops its   *)
(* own forward in the loop over the time asked for: not when a query       *)
(* raises, and not when that time is empty.                                *)
ReadMetrics ==
  /\ pc = "query" /\ kind = "metrics" /\ pc' = "idle"
  /\ LET read == Read(QueriedPort)
         found == read.answer = "prometheus"
     IN
     \/ /\ Works /\ found /\ answer' = "prometheus" /\ missed' = 0
        /\ forwards' = IF started THEN [forwards EXCEPT ![port] = Free] ELSE forwards
        /\ UNCHANGED empty
     \/ /\ Works /\ ~found /\ answer' = "raised"
        /\ missed' = IF "prometheus" \in up /\ started THEN missed + 1 ELSE missed
        /\ forwards' = [forwards EXCEPT ![QueriedPort] = read.left]
        /\ UNCHANGED empty
     \/ /\ Fails /\ answer' \in {read.answer, "raised"}
        /\ forwards' = [forwards EXCEPT ![QueriedPort] = read.left]
        /\ UNCHANGED <<missed, empty>>
     \/ /\ Works /\ empty < MaxEmpty /\ empty' = empty + 1
        /\ answer' = "nothing"
        /\ UNCHANGED <<forwards, missed>>
  /\ UNCHANGED <<call, stray, up, calls, moves>>

(* Between two calls: an application or Prometheus is taken down, with its *)
(* pods, or deployed.                                                      *)
Goes(t) ==
  /\ pc = "idle" /\ t \in up /\ moves < MaxMoves /\ moves' = moves + 1
  /\ up' = up \ {t}
  /\ forwards' = [p \in Ports |-> IF forwards[p].to = t
                                  THEN [to |-> t, live |-> FALSE] ELSE forwards[p]]
  /\ UNCHANGED <<pc, call, answer, stray, missed, calls, empty, errors>>

Comes(t) ==
  /\ pc = "idle" /\ t \notin up
  /\ up' = up \union {t}
  /\ missed' = IF t = "prometheus" THEN 0 ELSE missed
  /\ UNCHANGED <<pc, call, answer, forwards, stray, calls, empty, errors, moves>>

(* A forward to what has gone may end at any time, and ends when used.     *)
Ends(p) ==
  /\ InUse(p) /\ ~forwards[p].live
  /\ forwards' = [forwards EXCEPT ![p] = Free]
  /\ UNCHANGED <<pc, call, answer, stray, up, missed, calls, empty, errors, moves>>

Next ==
  \/ \E ns \in Namespaces : GetTraces(ns)
  \/ GetMetrics
  \/ Attempt \/ ReadTraces \/ ReadMetrics
  \/ \E t \in Targets : Goes(t) \/ Comes(t)
  \/ \E p \in Ports : Ends(p)

Spec == Init /\ [][Next]_vars

-----------------------------------------------------------------------------
(* "Collects trace data from the service using Jaeger" (base.py:170), the  *)
(* service of the namespace asked for.                                     *)
OwnTraces == pc = "idle" /\ kind = "traces" => answer \in {target, "nothing", "raised"}

(* Traces of another namespace come only through the forward of an earlier *)
(* call that was not ended.                                                *)
ForeignTracesExplained == OwnTraces \/ stray

(* "Collects metrics data from the service using Prometheus"               *)
(* (base.py:117): when Prometheus is running and its forward can be        *)
(* started, at most one call in a row fails, the one that finds the first  *)
(* port forwarded to a pod that has gone.  Every call that raised or had   *)
(* no time to ask for may have kept a port, and there are so many.         *)
MissedOnce == errors + empty < MetricPorts => missed <= 1

-----------------------------------------------------------------------------
(* The inductive invariant.  Only Prometheus is behind the ports for       *)
(* metrics; a call of an agent forwards one port, which was free.          *)
Used == {p \in Ports \ {TracePort} : InUse(p)}

OfPrometheus ==
  \A p \in Ports \ {TracePort} : forwards[p].to \in {"prometheus", "nobody"}

OwnForward ==
  pc # "idle" =>
    /\ missed < calls
    /\ IF kind = "traces" THEN port = TracePort /\ target \in Namespaces
       ELSE /\ port # TracePort /\ target = "prometheus"
            /\ InUse(port) => started
    /\ pc = "attempt" => attempt < 3 /\ ~started
    /\ started => forwards[port] = [to |-> target, live |-> TRUE]

(* A forward for traces that outlived its call is known as a stray one.    *)
StrayKnown == ~stray /\ InUse(TracePort) => pc = "query" /\ kind = "traces" /\ started

(* The ports in use once the call is over and has stopped its forward: the *)
(* first port counts, which is in use when another one is taken.           *)
Kept ==
  IF pc = "idle" \/ kind = "traces" THEN Used
  ELSE IF port = QueriedPort THEN Used \ {port}
  ELSE (Used \union {QueriedPort}) \ {port}

KeptFew == Cardinality(Kept) <= errors + empty

(* After a call that failed the first port is free, or leads to Prometheus.*)
FirstPort ==
  errors + empty < MetricPorts /\ missed > 0 /\ "prometheus" \in up =>
    IF pc # "idle" /\ kind = "metrics" /\ port # QueriedPort
    THEN forwards[QueriedPort].live
    ELSE InUse(QueriedPort) => forwards[QueriedPort].live

IInv ==
  /\ TypeOK /\ missed <= calls
  /\ OfPrometheus /\ OwnForward /\ StrayKnown /\ KeptFew /\ FirstPort
  /\ ForeignTracesExplained /\ MissedOnce

=============================================================================
