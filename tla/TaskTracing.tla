----------------------------- MODULE TaskTracing -----------------------------
(***************************************************************************)
(* setTraceSink and makeTraceableTask, the same in ThreadPool.cpp and in   *)
(* WorkStealingThreadPool.cpp, with TaskTrace.h: any thread may change the *)
(* sink, in two stores, while others submit, reading flag and sink in two  *)
(* loads.  A sink is named by its setter; NULL is the empty function.      *)
(* How a task gets from its submit to a worker is the pools' concern: here *)
(* an accepted task is executed some time later.                           *)
(***************************************************************************)
EXTENDS Common

CONSTANT Setters  \* the threads that call setTraceSink, each with a sink of its own

ASSUME NullIsNoSink == NULL \notin Setters

VARIABLES trace_enabled, trace_sink,
          counter,   \* of nextTaskId
          setter,    \* each setter: where it is, its last argument
          pending,   \* each producer's task: where it is, the sink and id it holds
          reports,   \* history: the callbacks, as records
          standing,  \* history: returned calls, <<setter, sink>>, that no call
                     \* begun after their return has replaced
          replaced,  \* history: the standing ones when a setter's call began
          usable     \* history: sinks a submit may see, by when it runs

traceVars == <<trace_enabled, trace_sink, counter, setter, pending, reports,
               standing, replaced, usable>>

TraceInit ==
  /\ trace_enabled = FALSE /\ trace_sink = NULL
  /\ counter = 0
  /\ setter = [s \in Setters |-> [at |-> "idle", sink |-> NULL]]
  /\ pending = [p \in Producers |-> [at |-> "new", sink |-> NULL, id |-> NULL]]
  /\ reports = [p \in Producers |-> <<>>]
  /\ standing = {<<"constructor", NULL>>}
  /\ replaced = [s \in Setters |-> {}]
  /\ usable = [p \in Producers |-> {}]

Standing == {c[2] : c \in standing}
InSubmit(p) == pending[p].at \in {"flag", "sink", "id"}

-----------------------------------------------------------------------------
(* setTraceSink(k): a sink is stored and then enabled; an empty one is     *)
(* disabled and then cleared.                                              *)

SetCall(s, k) ==
  /\ setter[s].at = "idle"
  /\ setter' = [setter EXCEPT ![s] = [at |-> "first", sink |-> k]]
  /\ replaced' = [replaced EXCEPT ![s] = standing]
  /\ usable' = [p \in Producers |-> usable[p] \cup (IF InSubmit(p) THEN {k} ELSE {})]
  /\ UNCHANGED <<trace_enabled, trace_sink, counter, pending, reports, standing>>

(* Mutant: the flag is left alone.                                         *)
StoreFlagNot(v) == UNCHANGED trace_enabled

StoreFlag(v) == trace_enabled' = v

SetStore(s, from, to) ==
  /\ setter[s].at = from
  /\ setter' = [setter EXCEPT ![s].at = to]
  /\ \/ (setter[s].sink # NULL) = (from = "first")   \* the sink's turn
        /\ trace_sink' = setter[s].sink
        /\ UNCHANGED trace_enabled
     \/ (setter[s].sink # NULL) = (from = "second")  \* the flag's turn
        /\ StoreFlag(setter[s].sink # NULL)
        /\ UNCHANGED trace_sink
  /\ UNCHANGED <<counter, pending, reports, usable>>

SetFirst(s) == SetStore(s, "first", "second") /\ UNCHANGED <<standing, replaced>>

SetSecond(s) ==
  LET call == <<s, setter[s].sink>>
  IN  /\ SetStore(s, "second", "idle")
      /\ standing' = (standing \ replaced[s]) \cup {call}
      /\ replaced' = [r \in Setters |-> IF r = s THEN {} ELSE replaced[r] \ {call}]

-----------------------------------------------------------------------------
(* makeTraceableTask, by the three forms of submit.                        *)

SubmitCall(p) ==
  /\ pending[p].at = "new"
  /\ pending' = [pending EXCEPT ![p].at = "flag"]
  /\ usable' = [usable EXCEPT ![p] =
       Standing \cup {setter[s].sink : s \in {r \in Setters : setter[r].at # "idle"}}]
  /\ UNCHANGED <<trace_enabled, trace_sink, counter, setter, reports, standing, replaced>>

LoadFlag(p) ==
  /\ pending[p].at = "flag"
  /\ pending' = [pending EXCEPT ![p].at = IF trace_enabled THEN "sink" ELSE "queued"]
  /\ UNCHANGED <<trace_enabled, trace_sink, counter, setter, reports, standing, replaced, usable>>

LoadSink(p) ==
  /\ pending[p].at = "sink"
  /\ pending' = [pending EXCEPT ![p] =
       [at |-> IF trace_sink = NULL THEN "queued" ELSE "id", sink |-> trace_sink, id |-> NULL]]
  /\ UNCHANGED <<trace_enabled, trace_sink, counter, setter, reports, standing, replaced, usable>>

(* nextTaskId, and the time of submission.                                 *)
GiveId(p) ==
  /\ pending[p].at = "id"
  /\ pending' = [pending EXCEPT ![p].at = "queued", ![p].id = counter]
  /\ counter' = counter + 1
  /\ UNCHANGED <<trace_enabled, trace_sink, setter, reports, standing, replaced, usable>>

(* A full or stopped pool refuses the task, wrapped as it is.              *)
SubmitRefused(p) ==
  /\ pending[p].at = "queued"
  /\ pending' = [pending EXCEPT ![p] = [at |-> "refused", sink |-> NULL, id |-> NULL]]
  /\ usable' = [usable EXCEPT ![p] = {}]
  /\ UNCHANGED <<trace_enabled, trace_sink, counter, setter, reports, standing, replaced>>

-----------------------------------------------------------------------------
(* The task on its worker: the body and then the sink.  The body returns   *)
(* to the wrapper whatever the callable does, since packaged_task or the   *)
(* catch in submitVoid's lambda keeps an exception in: it has no failing   *)
(* branch here.                                                            *)

Body(p) ==
  /\ pending[p].at = "queued"
  /\ pending' = [pending EXCEPT ![p].at = IF pending[p].sink = NULL THEN "done" ELSE "callback"]
  /\ usable' = [usable EXCEPT ![p] = {}]
  /\ UNCHANGED <<trace_enabled, trace_sink, counter, setter, reports, standing, replaced>>

(* Mutant: the sink in force now, not the one of the submit.               *)
SinkNow(p) == trace_sink

SinkHeld(p) == pending[p].sink

Callback(p) ==
  /\ pending[p].at = "callback"
  /\ pending' = [pending EXCEPT ![p].at = "done"]
  /\ reports' = [reports EXCEPT ![p] = Append(@, [sink |-> SinkHeld(p), id |-> pending[p].id])]
  /\ UNCHANGED <<trace_enabled, trace_sink, counter, setter, standing, replaced, usable>>

TraceNext ==
  \/ \E s \in Setters : SetFirst(s) \/ SetSecond(s) \/ \E k \in {s, NULL} : SetCall(s, k)
  \/ \E p \in Producers : \/ SubmitCall(p) \/ LoadFlag(p) \/ LoadSink(p) \/ GiveId(p)
                          \/ SubmitRefused(p) \/ Body(p) \/ Callback(p)

TraceSpec == TraceInit /\ [][TraceNext]_traceVars

-----------------------------------------------------------------------------
(* "Only tasks submitted from now on": a submit uses the sink of a call    *)
(* that stood when it began or ran beside it, never one replaced before,   *)
(* and is not left untraced by one that was.                               *)
SubmitSeesALiveSink ==
  \A p \in Producers : pending[p].at = "queued" => pending[p].sink \in usable[p]

(* Each executed task that was traced at its submit calls the sink of that *)
(* time once and no other; no two callbacks have one id.                   *)
ReportedOnce ==
  /\ \A p \in Producers :
       /\ pending[p].at = "done" /\ pending[p].sink # NULL => Len(reports[p]) = 1
       /\ pending[p].at # "done" \/ pending[p].sink = NULL => reports[p] = <<>>
       /\ \A k \in DOMAIN reports[p] : reports[p][k].sink = pending[p].sink
  /\ \A p, r \in Producers : reports[p] # <<>> /\ reports[r] # <<>> /\ p # r =>
       reports[p][1].id # reports[r][1].id
=============================================================================
