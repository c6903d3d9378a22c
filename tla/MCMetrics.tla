------------------------------ MODULE MCMetrics ------------------------------
(***************************************************************************)
(* Two threads, the groups of the sandbox and of the hypervisor, and a     *)
(* group of the application that shares a name with that of the sandbox.   *)
(***************************************************************************)
EXTENDS Metrics

CONSTANTS t1, t2, r1, r2, default, sandbox, hypervisor, application

MCDefinitions ==
    [g \in {sandbox, hypervisor, application} |->
        CASE g = sandbox -> SANDBOX_METRIC_DEFINITIONS
          [] g = hypervisor -> HYPERVISOR_METRIC_DEFINITIONS
          [] g = application -> <<Metric("level", "IntGaugeVec", 1),
                                  Metric("guest_error_count", "IntGauge", 0),
                                  Metric("time", "Histogram", 0)>>]

Call(g, n, type, labels, change) ==
    [group |-> g, name |-> n, type |-> type, labels |-> labels, change |-> change]

Cancelled == "number_of_cancelled_guest_executions"

\* Among them: two uses of one counter, a use as another type, with too few
\* labels, and of a name without a definition.
MCCalls ==
    {Call(sandbox, "guest_error_count", "IntCounterVec", <<"code", "message">>, "inc"),
     Call(sandbox, "guest_error_count", "IntCounterVec", <<"code">>, "inc"),
     Call(sandbox, "guest_function_call_duration_microseconds", "HistogramVec",
          <<"function">>, "observe"),
     Call(hypervisor, Cancelled, "IntCounter", <<>>, "inc"),
     Call(hypervisor, Cancelled, "IntCounter", <<>>, "reset"),
     Call(hypervisor, Cancelled, "IntGauge", <<>>, "dec"),
     Call(hypervisor, "unknown", "IntCounter", <<>>, "inc"),
     Call(application, "level", "IntGaugeVec", <<>>, "set"),
     Call(application, "guest_error_count", "IntGauge", <<>>, "sub"),
     Call(application, "time", "Histogram", <<>>, "get_sample_count")}
=============================================================================
