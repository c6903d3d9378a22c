------------------------------- MODULE Metrics -------------------------------
(***************************************************************************)
(* The metrics of hyperlight_host: the registry they are registered in,    *)
(* which the application may choose once, the groups of metrics (an enum   *)
(* each: of the sandbox, of the hypervisor, of the application itself),    *)
(* which are registered as a whole when a metric of the group is first     *)
(* used, and the operations on the metrics, from any thread.               *)
(*                                                                         *)
(* The registry (prometheus::Registry) is external: it refuses a name it   *)
(* already has, and its values are atomic.                                 *)
(***************************************************************************)
EXTENDS Integers, Sequences, FiniteSets

CONSTANTS
    Threads,
    Registries,         \* the registries an application may set
    DefaultRegistry,    \* prometheus::default_registry()
    Groups,
    Definitions,        \* of each group: the sequence of its definitions
    Calls,              \* the operations the program makes on metrics
    MaxUses             \* bound: operations of a thread

NoRegistry == "no registry"
\* METRICS before it is set.  A lookup fails in it as in a map without the name.
NoMetrics == [n \in {} |-> 0]

CounterTypes == {"IntCounter", "IntCounterVec"}
GaugeTypes == {"IntGauge", "IntGaugeVec"}
HistogramTypes == {"Histogram", "HistogramVec"}
VecTypes == {"IntCounterVec", "IntGaugeVec", "HistogramVec"}
MetricTypes == CounterTypes \cup GaugeTypes \cup HistogramTypes

Metric(n, type, labels) == [name |-> n, type |-> type, labels |-> labels]

\* The groups of hyperlight_host itself, with the feature function_call_metrics.
\* Of the labels only the number matters; the buckets are left out.
SANDBOX_METRIC_DEFINITIONS ==
    <<Metric("guest_error_count", "IntCounterVec", 2),
      Metric("guest_function_call_duration_microseconds", "HistogramVec", 1),
      Metric("host_function_calls_duration_microseconds", "HistogramVec", 1)>>

HYPERVISOR_METRIC_DEFINITIONS ==
    <<Metric("number_of_cancelled_guest_executions", "IntCounter", 0)>>

ASSUME MetricsAssumption ==
    /\ MaxUses \in Nat
    /\ NoRegistry \notin Registries \cup {DefaultRegistry}
    /\ \A g \in Groups : \A i \in DOMAIN Definitions[g] :
          /\ Definitions[g][i].type \in MetricTypes
          /\ Definitions[g][i].labels \in Nat
          /\ Definitions[g][i].type \notin VecTypes => Definitions[g][i].labels = 0
    /\ \A g \in Groups : Definitions[g] # <<>>
    /\ \A c \in Calls :
          /\ c.group \in Groups /\ c.type \in MetricTypes
          /\ c.type \notin VecTypes => c.labels = <<>>

VARIABLES
    registry,       \* REGISTRY
    registered,     \* what the registries hold: records of a registry and a name
    once,           \* per group, INIT_METRICS: "new", the thread inside, or "done"
    metrics,        \* per group, METRICS: name -> definition, or NoMetrics
    hash_map,       \* per group: the map init_metrics is filling
    value,          \* per group: <<name, label values>> -> value
    at, op,         \* per thread: where it is, and in what operation
    uses,           \* per thread: the operations begun
    granted,        \* history: registries a set_metrics_registry succeeded with
    expected        \* history: the values if every group were always initialised

vars == <<registry, registered, once, metrics, hash_map, value, at, op, uses,
          granted, expected>>

Names(g) == {Definitions[g][i].name : i \in DOMAIN Definitions[g]}
EmptyMap == [n \in {} |-> 0]
NoOp == [group |-> "none"]

Init ==
    /\ registry = NoRegistry /\ registered = {}
    /\ once = [g \in Groups |-> "new"]
    /\ metrics = [g \in Groups |-> NoMetrics]
    /\ hash_map = [g \in Groups |-> EmptyMap]
    /\ value = [g \in Groups |-> EmptyMap]
    /\ at = [t \in Threads |-> "idle"]
    /\ op = [t \in Threads |-> NoOp]
    /\ uses = [t \in Threads |-> 0]
    /\ granted = {}
    /\ expected = [g \in Groups |-> EmptyMap]

Goto(t, place) == at' = [at EXCEPT ![t] = place]

Begin(t, what, place) ==
    /\ at[t] = "idle" /\ uses[t] < MaxUses
    /\ uses' = [uses EXCEPT ![t] = @ + 1]
    /\ op' = [op EXCEPT ![t] = what]
    /\ Goto(t, place)

End(t) ==
    /\ Goto(t, "idle")
    /\ op' = [op EXCEPT ![t] = NoOp]

-----------------------------------------------------------------------------
(* The registry.                                                           *)

\* set_metrics_registry looks at REGISTRY before it sets it.
CheckRegistry(t, r) ==
    /\ IF registry = NoRegistry
       THEN Begin(t, [registry |-> r], "set") ELSE Begin(t, NoOp, "idle")
    /\ UNCHANGED <<registry, registered, once, metrics, hash_map, value, granted, expected>>

\* OnceCell::set fails when the cell was filled since.
SetRegistry(t) ==
    /\ at[t] = "set"
    /\ IF registry = NoRegistry
       THEN registry' = op[t].registry /\ granted' = granted \cup {op[t].registry}
       ELSE UNCHANGED <<registry, granted>>
    /\ End(t)
    /\ UNCHANGED <<registered, once, metrics, hash_map, value, uses, expected>>

\* Mutant: the default is used without being stored.
RegistryOrDefault(r) ==
    /\ r = IF registry = NoRegistry THEN DefaultRegistry ELSE registry
    /\ UNCHANGED registry

\* REGISTRY.get_or_init(default_registry) returns r.
get_metrics_registry(r) ==
    /\ r = IF registry = NoRegistry THEN DefaultRegistry ELSE registry
    /\ registry' = r

-----------------------------------------------------------------------------
(* The metrics of a group.                                                 *)

\* A macro such as int_counter_inc! begins: call names a variant of the group's
\* enum, the type the macro is for, the label values and the operation.
Use(t, call) ==
    /\ Begin(t, call, "once")
    /\ UNCHANGED <<registry, registered, once, metrics, hash_map, value, granted, expected>>

\* Mutant: a thread does not wait for the one that initialises the group.
CallOnceNoWait(t) ==
    LET g == op[t].group IN
    /\ at[t] = "once"
    /\ IF once[g] = "new"
       THEN once' = [once EXCEPT ![g] = t] /\ Goto(t, "register")
       ELSE UNCHANGED once /\ Goto(t, "lookup")
    /\ UNCHANGED <<registry, registered, metrics, hash_map, value, op, uses, granted, expected>>

\* Once::call_once: the first thread initialises the group, those that come
\* meanwhile wait for it, and nobody does it again.
CallOnce(t) ==
    LET g == op[t].group IN
    /\ at[t] = "once"
    /\ \/ once[g] = "new" /\ once' = [once EXCEPT ![g] = t] /\ Goto(t, "register")
       \/ once[g] = "done" /\ UNCHANGED once /\ Goto(t, "lookup")
    /\ UNCHANGED <<registry, registered, metrics, hash_map, value, op, uses, granted, expected>>

\* The definition that register_metrics comes to next.
Current(g) == Definitions[g][Cardinality(DOMAIN hash_map[g]) + 1]

extend(map, n, d) == [m \in DOMAIN map \cup {n} |-> IF m = n THEN d ELSE map[m]]

Refuses(r, n) == [registry |-> r, name |-> n] \in registered

\* Mutant: the Once is left as it is when a registration fails.
KeepOnce(t, g) ==
    /\ Goto(t, "lookup")
    /\ UNCHANGED <<registered, hash_map, metrics, once>>

\* The error of a registration ends init_metrics and is only logged: the group
\* stays without metrics, and those registered before stay registered.
RegistrationFails(t, g) ==
    /\ once' = [once EXCEPT ![g] = "done"]
    /\ Goto(t, "lookup")
    /\ UNCHANGED <<registered, hash_map, metrics>>

\* One turn of the loop of register_metrics: a metric is made and registered.
\* After the last turn init_metrics publishes the map.
RegisterMetric(t, r) ==
    LET g == op[t].group
        d == Current(g)
        map == extend(hash_map[g], d.name, d)
    IN  /\ at[t] = "register"
        /\ get_metrics_registry(r)
        /\ IF Refuses(r, d.name)
           THEN RegistrationFails(t, g)
           ELSE /\ registered' = registered \cup {[registry |-> r, name |-> d.name]}
                /\ hash_map' = [hash_map EXCEPT ![g] = map]
                /\ IF Cardinality(DOMAIN map) < Len(Definitions[g])
                   THEN UNCHANGED <<once, metrics, at>>
                   ELSE /\ metrics' = [metrics EXCEPT ![g] = map]
                        /\ once' = [once EXCEPT ![g] = "done"]
                        /\ Goto(t, "lookup")
        /\ UNCHANGED <<value, op, uses, granted, expected>>

-----------------------------------------------------------------------------
(* Operations on a metric.                                                 *)

IntCounterOps(v) == [inc |-> v + 1, inc_by |-> v + 2, get |-> v, reset |-> 0]
IntCounterVecOps(v) == [inc |-> v + 1, inc_by |-> v + 2, get |-> v, reset |-> 0]
IntGaugeOps(v) == [inc |-> v + 1, dec |-> v - 1, set |-> 2, get |-> v, add |-> v + 2, sub |-> v - 2]
IntGaugeVecOps(v) == [inc |-> v + 1, dec |-> v - 1, set |-> 2, get |-> v, add |-> v + 2, sub |-> v - 2]
\* The value of a histogram is the count of its samples.
HistogramOps(v) == [observe |-> v + 1, get_sample_sum |-> v, get_sample_count |-> v]
HistogramVecOps(v) == [observe |-> v + 1, get_sample_sum |-> v, get_sample_count |-> v]

Ops(type, v) ==
    CASE type = "IntCounter" -> IntCounterOps(v)
      [] type = "IntCounterVec" -> IntCounterVecOps(v)
      [] type = "IntGauge" -> IntGaugeOps(v)
      [] type = "IntGaugeVec" -> IntGaugeVecOps(v)
      [] type = "Histogram" -> HistogramOps(v)
      [] type = "HistogramVec" -> HistogramVecOps(v)

\* The outcome of a use on the definition d of its metric.  A metric with
\* labels refuses another number of them: all but IntGaugeVec return the error.
Outcome(use, d) ==
    IF use.type # d.type THEN "error"
    ELSE IF Len(use.labels) = d.labels THEN "ok"
    ELSE IF d.type = "IntGaugeVec" THEN "panic" ELSE "error"

\* The values after a use that is applied.
Applied(values, use) ==
    LET cell == <<use.name, use.labels>>
        v == IF cell \in DOMAIN values THEN values[cell] ELSE 0
    IN  extend(values, cell, Ops(use.type, v)[use.change])

\* GetHyperlightMetric::metric: the group's map, the metric in it, its type.
Find(use) ==
    IF use.name \notin DOMAIN metrics[use.group]
    THEN "error"
    ELSE Outcome(use, metrics[use.group][use.name])

\* What the definitions promise for a use, whatever the threads do.
Promised(use) ==
    \E i \in DOMAIN Definitions[use.group] :
        /\ Definitions[use.group][i].name = use.name
        /\ Outcome(use, Definitions[use.group][i]) = "ok"

\* The int_..., histogram_... macros: an error is logged and the use is lost.
Operate(t) ==
    LET use == op[t]
        found == Find(use)
    IN  /\ at[t] = "lookup"
        /\ value' = IF found = "ok"
                    THEN [value EXCEPT ![use.group] = Applied(@, use)] ELSE value
        /\ expected' = IF Promised(use)
                       THEN [expected EXCEPT ![use.group] = Applied(@, use)] ELSE expected
        /\ Goto(t, IF found = "panic" THEN "panicked" ELSE "idle")
        /\ op' = [op EXCEPT ![t] = NoOp]
        /\ UNCHANGED <<registry, registered, once, metrics, hash_map, uses, granted>>

-----------------------------------------------------------------------------

Step(t) ==
    \/ SetRegistry(t)
    \/ CallOnce(t)
    \/ \E r \in Registries \cup {DefaultRegistry} : RegisterMetric(t, r)
    \/ Operate(t)

Next ==
    \E t \in Threads :
        \/ \E r \in Registries : CheckRegistry(t, r)
        \/ \E call \in Calls : Use(t, call)
        \/ Step(t)

Spec == Init /\ [][Next]_vars

\* Threads are scheduled, and a thread that waits in call_once goes on once the
\* initialisation is over.
FairSpec == Spec /\ \A t \in Threads : WF_vars(Step(t))

-----------------------------------------------------------------------------
(* Properties.                                                             *)

Shares(g, h) == g # h /\ Names(g) \cap Names(h) # {}

\* All metrics are in one registry, and it is the one an application chose with
\* success: neither threads that set it at the same time nor one that uses a
\* metric meanwhile can split the metrics (get_metrics_registry,
\* set_metrics_registry).  No name of it stands for two metrics: of two groups
\* with a name in common at most one ever works (register_metrics).
OneRegistry ==
    /\ granted \subseteq {registry}
    /\ \A m \in registered : m.registry = registry
    /\ \A g, h \in Groups : Shares(g, h) => metrics[g] = NoMetrics \/ metrics[h] = NoMetrics

\* A group whose names no other group has loses no operation, however the first
\* uses race with its initialisation: its values are those of the operations on
\* the right types, applied in their order (get_hyperlight_metric).
NothingLost ==
    \A g \in Groups : (\A h \in Groups : ~Shares(g, h)) => value[g] = expected[g]

\* Every operation ends: no thread waits for ever in the call_once of a group,
\* also when its initialisation fails.
OperationsEnd ==
    \A t \in Threads : at[t] # "idle" ~> at[t] \in {"idle", "panicked"}
=============================================================================
