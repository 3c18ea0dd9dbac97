--------------------------- MODULE EdgeScheduler ---------------------------
(***************************************************************************)
(* Scheduler::run_operation_on_all (src/src/wmtk/Scheduler.cpp) running    *)
(* EdgeSplit or EdgeCollapse on the EdgeMesh of EdgeMesh.tla: once over    *)
(* all edges, or in passes over the edges whose flag is set, until a pass  *)
(* has no success.  The flags are an attribute with default 1 that the     *)
(* operation's attribute transfer sets again around its output, the way    *)
(* longest_edge_split and shortest_edge_collapse do it.                    *)
(*                                                                         *)
(*   pc        where the scheduler is: "idle", "collect" or "run"          *)
(*   run       the arguments of the call: the operation, whether it is     *)
(*             given flags, whether its priority is random                 *)
(*   queue     the edges that the loop over simplices or order has left    *)
(*   flags     the edge ids whose flag is 1                                *)
(*   res, internal_stats, m_stats   the counters of those names            *)
(*   tried, done, total   no state of the program: the edges attempted     *)
(*             since they last changed, and what the operations returned   *)
(*             in this call and in all calls                               *)
(*                                                                         *)
(* The priorities are values the caller supplies, read when the edges are  *)
(* collected: any order is possible, ties included.                        *)
(***************************************************************************)
EXTENDS EdgeMesh, Sequences, TLC

CONSTANTS
    Randoms,    \* the priorities used: random (TRUE), ordered (FALSE)
    MaxRuns     \* bound: calls of the scheduler

ASSUME RandomsAssumption == Randoms \subseteq BOOLEAN

VARIABLES pc, run, queue, flags, res, internal_stats, m_stats, tried, done, total, calls

scheduler == <<pc, run, queue, flags, res, internal_stats, m_stats>>
history   == <<tried, done, total, calls>>
svars     == <<vars, scheduler, history>>

NoStats == [success |-> 0, fail |-> 0]
Plus(a, b) == [success |-> a.success + b.success, fail |-> a.fail + b.fail]
Count(ok) == IF ok THEN [success |-> 1, fail |-> 0] ELSE [success |-> 0, fail |-> 1]

\* The orders in which a set of edges can be worked through.
Orders(S) == {q \in [1 .. Cardinality(S) -> S] : \A i, j \in DOMAIN q : q[i] = q[j] => i = j}

-----------------------------------------------------------------------------
SchedulerInit ==
    /\ Init
    /\ pc = "idle" /\ queue = << >> /\ flags = mesh.e
    /\ run = [op |-> "split", flagged |-> FALSE, random |-> FALSE]
    /\ res = NoStats /\ internal_stats = NoStats /\ m_stats = NoStats
    /\ tried = {} /\ done = NoStats /\ total = NoStats /\ calls = 0

Call(op, flagged, random) ==
    /\ pc = "idle" /\ calls < MaxRuns
    /\ run' = [op |-> op, flagged |-> flagged, random |-> random]
    /\ res' = NoStats /\ internal_stats' = NoStats
    /\ tried' = {} /\ done' = NoStats /\ calls' = calls + 1
    /\ UNCHANGED <<vars, m_stats, total>>

\* run_operation_on_all on all edges.
run_on_all(op, random) ==
    /\ Call(op, FALSE, random)
    /\ queue' \in Orders(mesh.e)
    /\ pc' = "run"
    /\ UNCHANGED flags

\* run_operation_on_all with a flag attribute: every flag is set.
run_on_flagged(op, random) ==
    /\ Call(op, TRUE, random)
    /\ flags' = flags \cup mesh.e
    /\ pc' = "collect"
    /\ UNCHANGED queue

\* The next pass is over the flagged edges, whose flags are cleared before any
\* of them is worked on.
collect ==
    /\ pc = "collect"
    /\ queue' \in Orders(mesh.e \cap flags)
    /\ flags' = flags \ mesh.e
    /\ internal_stats' = NoStats
    /\ pc' = "run"
    /\ UNCHANGED <<vars, run, res, m_stats, history>>

\* Variant with a bug: what is counted where depends on the priority alone.
CountIn_by_priority(ok) ==
    /\ IF ~run.random
       THEN internal_stats' = Plus(internal_stats, Count(ok)) /\ UNCHANGED res
       ELSE res' = Plus(res, Count(ok)) /\ UNCHANGED internal_stats
    /\ done' = Plus(done, Count(ok)) /\ total' = Plus(total, Count(ok))
\* The random branch of the flagged loop counts in res, not in internal_stats.
CountIn(ok) ==
    /\ IF run.flagged /\ ~run.random
       THEN internal_stats' = Plus(internal_stats, Count(ok)) /\ UNCHANGED res
       ELSE res' = Plus(res, Count(ok)) /\ UNCHANGED internal_stats
    /\ done' = Plus(done, Count(ok)) /\ total' = Plus(total, Count(ok))

\* An attempt that before() refuses: the edge is gone since it was collected,
\* or an invariant says no.
refuse ==
    /\ pc = "run" /\ queue # << >>
    /\ queue' = Tail(queue)
    /\ CountIn(FALSE)
    /\ tried' = (tried \cup {Head(queue)}) \cap mesh.e
    /\ UNCHANGED <<vars, pc, run, flags, m_stats, calls>>

\* Variant with a bug: the star is that of the mesh before the operation.
flagged_by_transfer_before ==
    {e \in mesh.e : \E j \in Sides : mesh.ev[e][j] = output'.tuple.vertex}
\* apply_attribute_transfer sets the flags in the closed star of the output
\* vertex; the null tuple of a refused edge is passed over.
flagged_by_transfer ==
    {e \in mesh'.e : \E j \in Sides : mesh'.ev[e][j] = output'.tuple.vertex}

\* An attempt that executes the operation.  A failure undoes the writes to the
\* flags with all others; new ids have the default flag.
attempt ==
    /\ pc = "run" /\ queue # << >>
    /\ Head(queue) \in mesh.e
    /\ queue' = Tail(queue)
    /\ \E accepted \in BOOLEAN :
          CASE run.op = "split"    -> split_edge(Head(queue), 0, accepted)
            [] run.op = "collapse" -> collapse_edge(Head(queue), 0, accepted)
    /\ CountIn(output'.ok)
    /\ flags' = flags \cup (capacity.e .. capacity'.e - 1)
                      \cup (IF output'.ok THEN flagged_by_transfer ELSE {})
    /\ tried' = {e \in (tried \cup {Head(queue)}) \cap mesh'.e : mesh'.ev[e] = mesh.ev[e]}
    /\ UNCHANGED <<pc, run, m_stats, calls>>

end_run ==
    /\ pc = "run" /\ queue = << >> /\ ~run.flagged
    /\ m_stats' = Plus(m_stats, res)
    /\ pc' = "idle"
    /\ UNCHANGED <<vars, run, queue, flags, res, internal_stats, history>>

\* Variant with a bug: the first pass is the last.
end_pass_once ==
    /\ pc = "run" /\ queue = << >> /\ run.flagged
    /\ res' = Plus(res, internal_stats)
    /\ m_stats' = Plus(m_stats, internal_stats)
    /\ pc' = "idle"
    /\ UNCHANGED <<vars, run, queue, flags, internal_stats, history>>
\* Variant with a bug: the result is that of the last pass.
end_pass_last_result ==
    /\ pc = "run" /\ queue = << >> /\ run.flagged
    /\ res' = IF run.random THEN res ELSE internal_stats
    /\ m_stats' = Plus(m_stats, internal_stats)
    /\ pc' = IF internal_stats.success > 0 THEN "collect" ELSE "idle"
    /\ UNCHANGED <<vars, run, queue, flags, internal_stats, history>>
\* Variant with a bug: a pass without success is followed by another.
end_pass_again ==
    /\ pc = "run" /\ queue = << >> /\ run.flagged
    /\ res' = Plus(res, internal_stats)
    /\ m_stats' = Plus(m_stats, internal_stats)
    /\ pc' = IF internal_stats.success >= 0 THEN "collect" ELSE "idle"
    /\ UNCHANGED <<vars, run, queue, flags, internal_stats, history>>
\* A pass without success is the last.  m_stats is given what the pass counted.
end_pass ==
    /\ pc = "run" /\ queue = << >> /\ run.flagged
    /\ res' = Plus(res, internal_stats)
    /\ m_stats' = Plus(m_stats, internal_stats)
    /\ pc' = IF internal_stats.success > 0 THEN "collect" ELSE "idle"
    /\ UNCHANGED <<vars, run, queue, flags, internal_stats, history>>

Step == collect \/ refuse \/ attempt \/ end_run \/ end_pass

SchedulerNext ==
    \/ Step
    \/ \E op \in {"split", "collapse"}, random \in Randoms :
          run_on_all(op, random) \/ run_on_flagged(op, random)

\* A call runs on to its end; whether another is made is up to the caller.
SchedulerSpec == SchedulerInit /\ [][SchedulerNext]_svars /\ WF_svars(Step)

-----------------------------------------------------------------------------
\* The queue holds every edge once and only ids that exist; a flag belongs to
\* an id; the passes are counted by a flagged run only.
SchedulerTypeOK ==
    /\ pc \in {"idle", "collect", "run"}
    /\ run \in [op : {"split", "collapse"}, flagged : BOOLEAN, random : BOOLEAN]
    /\ \A i, j \in DOMAIN queue : queue[i] = queue[j] => i = j
    /\ \A i \in DOMAIN queue : queue[i] \in 0 .. capacity.e - 1
    /\ flags \subseteq 0 .. capacity.e - 1
    /\ pc # "run" => queue = << >>
    /\ ~run.flagged => internal_stats = NoStats

\* In a flagged run no edge is forgotten: an active edge that has not been
\* attempted since its vertices last changed is in the queue or has its flag
\* set for the next pass.  An edge whose neighbour is changed after the pass
\* has collected it, and before or after its own turn, depends on when the
\* flags are cleared and which edges the transfer reaches.
NothingForgotten ==
    run.flagged /\ pc # "idle" =>
        mesh.e \subseteq tried \cup flags \cup {queue[i] : i \in DOMAIN queue}

\* A flagged run by priority ends when it has settled: every active edge has
\* been attempted since its vertices last changed.
SettledAtTheEnd == run.flagged /\ ~run.random /\ pc = "idle" => mesh.e \subseteq tried

\* The statistics that a call returns count what its operations returned.
ResultCountsAttempts == pc = "idle" => res = done

\* Scheduler.hpp says of the statistics that stats() returns that they hold
\* the number of successful, failed and performed operations of the scheduler.
StatsCountAttempts == pc = "idle" => m_stats = total

\* Every call of the scheduler ends.
RunsEnd == pc # "idle" ~> pc = "idle"
=============================================================================
