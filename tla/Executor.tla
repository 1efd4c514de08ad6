------------------------------ MODULE Executor ------------------------------
(***************************************************************************)
(* dagExecutor.Execute (internal/engine/executor.go): the main goroutine   *)
(* walks an execution graph, a pool of workers runs the nodes, every       *)
(* result is recorded in a checkpoint file, and a later execution of the   *)
(* same pipeline resumes from that file.                                   *)
(*                                                                         *)
(* What runNode does with one node (its hosts, precheck, retries and       *)
(* rollback) is the subject of module NodeRun; here a node simply ends     *)
(* with one of the three statuses runNode returns.                         *)
(*                                                                         *)
(* The order in which Execute puts nodes on the tasks channel comes from   *)
(* iterating over Go maps, so the channel is a set here, not a sequence;   *)
(* the counter sent records how often each node was put on it.             *)
(***************************************************************************)
EXTENDS Integers, FiniteSets

CONSTANTS
    Node,          \* identifiers a node of the pipeline's plan can have
    Graphs,        \* the plans an execution can be started with
    Worker,        \* the worker goroutines (maxWorkers of them)
    MaxStarts      \* bound: how many times the pipeline is started

Status  == {"Pending", "Running", "Success", "Failed", "Skipped"}
Outcome == {"Success", "Failed", "Skipped"}

Graph == [nodes : SUBSET Node, deps : [Node -> SUBSET Node]]

ASSUME NodeAssumption   == IsFiniteSet(Node)
ASSUME GraphsAssumption == Graphs \subseteq Graph
ASSUME StartsAssumption == MaxStarts \in Nat

Idle       == "idle"
Exited     == "exited"
NoFile     == [present |-> FALSE]
Checkpoint == [present : {TRUE}, nodes : [Node -> Status], status : Status]

ASSUME WorkerStateAssumption == {Idle, Exited} \cap Node = {}

VARIABLES
    g,           \* the graph being executed
    pc,          \* the main goroutine
    nodeStatus,  \* result.NodeResults[id].Status
    inDegree,    \* dependencies of a node still to be reported
    processed,   \* processedNodesCount
    tasks,       \* nodes on the tasks channel
    worker,      \* what each worker holds: a node, Idle or Exited
    results,     \* node -> outcome, for the results on the channel
    sent,        \* how often each node was sent on the tasks channel
    merged,      \* nodes whose output was merged into the state bag
    ckpt,        \* the checkpoint in memory
    file,        \* the checkpoint on disk
    final,       \* the status Execute returned, "Pending" before it returns
    starts       \* number of executions started

exec == <<g, pc, nodeStatus, inDegree, processed, tasks, worker, results,
          sent, merged, ckpt, final>>
vars == <<g, pc, nodeStatus, inDegree, processed, tasks, worker, results,
          sent, merged, ckpt, file, final, starts>>

-----------------------------------------------------------------------------
(* The graph *)

Dependents(n) == {m \in g.nodes : n \in g.deps[m]}

\* Validate: every dependency exists and Kahn's algorithm removes all nodes,
\* that is, no nonempty set of nodes has all its members waiting on it
\* (module GraphValidate shows the algorithm to decide this).
Validate(gr) ==
    /\ \A n \in gr.nodes : gr.deps[n] \subseteq gr.nodes
    /\ {S \in SUBSET gr.nodes : S # {} /\ \A n \in S : gr.deps[n] \cap S # {}} = {}

\* Mutants: a dependent is dispatched one dependency too early.
ReadyEarly(n, deg) == {m \in Dependents(n) : deg[m] <= 1}
\* Dependents of n that wait for nothing more once their in-degrees are deg.
Ready(n, deg) == {m \in Dependents(n) : deg[m] = 0}

\* The nodes the cascading-skip queue reaches from n: Pending dependents of n,
\* and Pending dependents of those. The least set closed under that rule.
CascadeClosed(n, S, st) ==
    \A m \in g.nodes : st[m] = "Pending" /\ g.deps[m] \cap (S \cup {n}) # {}
                           => m \in S
\* Mutants: only direct dependents are skipped; nodes are skipped and counted
\* again although they are no longer Pending.
CascadeDirect(n, st) == {m \in Dependents(n) : st[m] = "Pending"}
CascadeRecounts(n, st) == Dependents(n)
Cascade(n, st) ==
    {m \in g.nodes :
        /\ st[m] = "Pending"
        /\ \A S \in SUBSET g.nodes : CascadeClosed(n, S, st) => m \in S}

-----------------------------------------------------------------------------
(* The checkpoint *)

\* Mutant: the new checkpoint has no status.
NewCheckpointBlank == [present |-> TRUE,
                       nodes   |-> [n \in Node |-> "Pending"],
                       status  |-> ""]
NewCheckpoint == [present |-> TRUE,
                  nodes   |-> [n \in Node |-> "Pending"],
                  status  |-> "Running"]

\* Mutant: the node states recorded before are dropped.
saveNodeStateOnly(n, s) == [NewCheckpoint EXCEPT !.nodes[n] = s]
\* saveNodeState: record the node's status in the checkpoint in memory.
saveNodeState(n, s) == [ckpt EXCEPT !.nodes[n] = s]

\* persister.Save replaces the file or leaves the old one; Execute only logs
\* a failure.
Save(c) == file' = c \/ file' = file

\* alreadyDone ranges over every node of the checkpoint, whether the graph
\* has it or not.
alreadyDone(c) == {n \in Node : c.nodes[n] \in {"Success", "Skipped"}}

\* Mutants: every recorded node is counted, entry nodes are queued done or not.
RestoredCountAll(c) == Cardinality({n \in Node : c.nodes[n] # "Pending"})
EntryTasksAll(gr, c) == {n \in gr.nodes : gr.deps[n] = {}}
\* processedNodesCount and the task queue at the start of the main loop.
RestoredCount(c) == Cardinality(alreadyDone(c))
EntryTasks(gr, c) == {n \in gr.nodes : gr.deps[n] = {}} \ alreadyDone(c)

\* What persister.Load yields: no checkpoint when there is no file or the file
\* cannot be read, in which case a new one is made.
Loaded == {NewCheckpoint} \cup (IF file.present THEN {file} ELSE {})

-----------------------------------------------------------------------------
(* The main goroutine *)

Init ==
    /\ g \in Graphs
    /\ pc = "idle"
    /\ nodeStatus = [n \in Node |-> "Pending"]
    /\ inDegree = [n \in Node |-> 0]
    /\ processed = 0
    /\ tasks = {}
    /\ worker = [w \in Worker |-> Exited]
    /\ results = [n \in Node |-> "Pending"]
    /\ sent = [n \in Node |-> 0]
    /\ merged = {}
    /\ ckpt = NewCheckpoint
    /\ file = NoFile
    /\ final = "Pending"
    /\ starts = 0

\* Execute up to the main loop: validate, load or create the checkpoint,
\* restore node results, save the initial checkpoint, start the workers and
\* queue the entry nodes that are not already done.
Execute(gr, c) ==
    /\ pc \in {"idle", "returned"}
    /\ starts < MaxStarts
    /\ Validate(gr)
    /\ c \in Loaded
    /\ g' = gr
    /\ pc' = "loop"
    /\ nodeStatus' = [n \in Node |-> IF n \in gr.nodes THEN c.nodes[n]
                                                       ELSE "Pending"]
    /\ inDegree' = [n \in Node |-> IF n \in gr.nodes
                                   THEN Cardinality(gr.deps[n]) ELSE 0]
    /\ processed' = RestoredCount(c)
    /\ tasks' = EntryTasks(gr, c)
    /\ worker' = [w \in Worker |-> Idle]
    /\ results' = [n \in Node |-> "Pending"]
    /\ sent' = [n \in Node |-> IF n \in tasks' THEN 1 ELSE 0]
    /\ merged' = {}
    /\ ckpt' = c
    /\ Save(c)
    /\ final' = "Pending"
    /\ starts' = starts + 1

\* Execute on a graph that does not validate returns Failed at once.
RejectGraph(gr) ==
    /\ pc \in {"idle", "returned"}
    /\ starts < MaxStarts
    /\ ~Validate(gr)
    /\ pc' = "returned"
    /\ final' = "Failed"
    /\ starts' = starts + 1
    /\ UNCHANGED <<g, nodeStatus, inDegree, processed, tasks, worker, results,
                   sent, merged, ckpt, file>>

\* Execute with dryRun set: report every node as Skipped and return. Neither
\* the checkpoint nor a worker is touched and result.Status stays Pending.
dryRun(gr) ==
    /\ pc \in {"idle", "returned"}
    /\ starts < MaxStarts
    /\ g' = gr
    /\ pc' = "returned"
    /\ nodeStatus' = [n \in Node |-> IF n \in gr.nodes THEN "Skipped"
                                                       ELSE "Pending"]
    /\ final' = "Pending"
    /\ starts' = starts + 1
    /\ sent' = [n \in Node |-> 0]
    /\ merged' = {}
    /\ UNCHANGED <<inDegree, processed, tasks, worker, results, ckpt, file>>

\* Mutant: the output is dropped.
MergeOutputNever(n) == merged
\* The output of a result goes into the state bag every step reads.
MergeOutput(n) == merged \cup {n}

\* The part of a loop iteration common to every result: take it off the
\* channel, count it, set the status, merge the output, record it.
Receive(n, s) ==
    /\ pc = "loop"
    /\ processed < Cardinality(g.nodes)
    /\ results[n] = s
    /\ results' = [results EXCEPT ![n] = "Pending"]
    /\ merged' = MergeOutput(n)
    /\ ckpt' = saveNodeState(n, s)
    /\ Save(ckpt')

\* 1 when the node was Pending and is counted now, 0 when it was restored.
Counted(n) == IF nodeStatus[n] = "Pending" THEN 1 ELSE 0

\* A node ended Failed or Skipped: skip everything Pending downstream of it.
ResultSkips(n, s) ==
    /\ s \in {"Failed", "Skipped"}
    /\ Receive(n, s)
    /\ LET st   == [nodeStatus EXCEPT ![n] = s]
           skip == Cascade(n, st)
       IN  /\ nodeStatus' = [m \in Node |-> IF m \in skip THEN "Skipped"
                                                          ELSE st[m]]
           /\ processed' = processed + Counted(n) + Cardinality(skip)
    /\ UNCHANGED <<g, pc, inDegree, tasks, worker, sent, final, starts>>

\* A node ended Success: every dependent waits for one node less, and the
\* dependents that wait for none go on the tasks channel.
ResultSucceeds(n) ==
    /\ Receive(n, "Success")
    /\ nodeStatus' = [nodeStatus EXCEPT ![n] = "Success"]
    /\ processed' = processed + Counted(n)
    /\ inDegree' = [m \in Node |-> IF m \in Dependents(n) THEN inDegree[m] - 1
                                                          ELSE inDegree[m]]
    /\ LET ready == Ready(n, inDegree')
       IN  /\ tasks' = tasks \cup ready
           /\ sent' = [m \in Node |-> IF m \in ready THEN sent[m] + 1
                                                     ELSE sent[m]]
    /\ UNCHANGED <<g, pc, worker, final, starts>>

\* The loop ends: close(tasks), then wg.Wait.
CloseTasks ==
    /\ pc = "loop"
    /\ processed >= Cardinality(g.nodes)
    /\ pc' = "closing"
    /\ UNCHANGED <<g, nodeStatus, inDegree, processed, tasks, worker, results,
                   sent, merged, ckpt, file, final, starts>>

\* Mutant: the run fails only if every node failed.
FinalStatusAll == IF \A n \in g.nodes : nodeStatus[n] = "Failed"
                  THEN "Failed" ELSE "Success"
FinalStatus == IF \E n \in g.nodes : nodeStatus[n] = "Failed"
               THEN "Failed" ELSE "Success"

\* All workers are gone: compute the final status, then delete the checkpoint
\* on success and save it otherwise (Delete may fail too). The channels go with
\* Execute, and with them any result nobody received.
Return ==
    /\ pc = "closing"
    /\ \A w \in Worker : worker[w] = Exited
    /\ pc' = "returned"
    /\ final' = FinalStatus
    /\ ckpt' = [ckpt EXCEPT !.status = FinalStatus]
    /\ IF FinalStatus = "Success" THEN Save(NoFile) ELSE Save(ckpt')
    /\ tasks' = {}
    /\ results' = [n \in Node |-> "Pending"]
    /\ UNCHANGED <<g, nodeStatus, inDegree, processed, worker, sent, merged,
                   starts>>

-----------------------------------------------------------------------------
(* The workers *)

\* A worker receives a node from the tasks channel (open or closed: close
\* does not drop what is buffered).
TakeTask(w, n) ==
    /\ worker[w] = Idle
    /\ n \in tasks
    /\ tasks' = tasks \ {n}
    /\ worker' = [worker EXCEPT ![w] = n]
    /\ UNCHANGED <<g, pc, nodeStatus, inDegree, processed, results, sent,
                   merged, ckpt, file, final, starts>>

\* runNode returns and the worker sends the result.
SendResult(w, s) ==
    /\ worker[w] \in Node
    /\ results' = [results EXCEPT ![worker[w]] = s]
    /\ worker' = [worker EXCEPT ![w] = Idle]
    /\ UNCHANGED <<g, pc, nodeStatus, inDegree, processed, tasks, sent, merged,
                   ckpt, file, final, starts>>

\* The range over the closed and drained channel ends.
WorkerDone(w) ==
    /\ pc = "closing"
    /\ worker[w] = Idle
    /\ tasks = {}
    /\ worker' = [worker EXCEPT ![w] = Exited]
    /\ UNCHANGED <<g, pc, nodeStatus, inDegree, processed, tasks, results,
                   sent, merged, ckpt, file, final, starts>>

-----------------------------------------------------------------------------
\* The process is killed: everything but the file is lost. Another start is
\* the operator's.
Crash ==
    /\ pc \in {"loop", "closing"}
    /\ starts < MaxStarts
    /\ pc' = "idle"
    /\ nodeStatus' = [n \in Node |-> "Pending"]
    /\ inDegree' = [n \in Node |-> 0]
    /\ processed' = 0
    /\ tasks' = {}
    /\ worker' = [w \in Worker |-> Exited]
    /\ results' = [n \in Node |-> "Pending"]
    /\ sent' = [n \in Node |-> 0]
    /\ merged' = {}
    /\ ckpt' = NewCheckpoint
    /\ UNCHANGED <<g, file, final, starts>>

WorkerStep(w) ==
    \/ \E n \in Node : TakeTask(w, n)
    \/ \E s \in Outcome : SendResult(w, s)
    \/ WorkerDone(w)

MainStep ==
    \/ \E n \in Node : ResultSucceeds(n)
    \/ \E n \in Node, s \in Outcome : ResultSkips(n, s)
    \/ CloseTasks
    \/ Return

Start ==
    \E gr \in Graphs : \/ RejectGraph(gr)
                      \/ dryRun(gr)
                      \/ \E c \in Loaded : Execute(gr, c)

Next ==
    \/ Start
    \/ MainStep
    \/ \E w \in Worker : WorkerStep(w)
    \/ Crash

Spec == Init /\ [][Next]_vars

\* The Go scheduler runs every goroutine that can run, and runNode ends: every
\* step has a timeout. Nothing makes the operator start a pipeline.
Fairness == WF_vars(MainStep) /\ \A w \in Worker : WF_vars(WorkerStep(w))

FairSpec == Spec /\ Fairness

-----------------------------------------------------------------------------
(* Properties *)

Running  == {worker[w] : w \in Worker} \cap Node
Reported == {n \in Node : results[n] # "Pending"}
InFlight == tasks \cup Running \cup Reported

\* Type invariant of the executor's state.
TypeOK ==
    /\ g \in Graphs
    /\ pc \in {"idle", "loop", "closing", "returned"}
    /\ nodeStatus \in [Node -> Status]
    /\ inDegree \in [Node -> Int]
    /\ processed \in Nat
    /\ tasks \subseteq Node
    /\ worker \in [Worker -> Node \cup {Idle, Exited}]
    /\ results \in [Node -> {"Pending"} \cup Outcome]
    /\ sent \in [Node -> Nat]
    /\ merged \subseteq Node
    /\ ckpt \in Checkpoint
    /\ file \in {NoFile} \cup Checkpoint
    /\ final \in Status
    /\ starts \in 0..MaxStarts

\* A node is queued, runs or reports only when every node it depends on has
\* ended with Success (the inDegree bookkeeping of Execute).
DepsSucceeded ==
    \A n \in InFlight : \A d \in g.deps[n] : nodeStatus[d] = "Success"

\* A node is sent on the tasks channel at most once per execution, so neither
\* channel, made with room for len(g.Nodes), ever blocks its sender.
SentOnce == \A n \in Node : sent[n] <= 1

\* A node that starts finds the output of everything it depends on in the state
\* bag: Execute merges a result before it dispatches the dependents.
OutputsVisible ==
    \A n \in InFlight : g.deps[n] \subseteq merged

\* When Execute closes the tasks channel no node is Pending and no result is
\* still on its way: the results loop may stop listening.
AllProcessedAtClose ==
    pc = "closing" => /\ \A n \in g.nodes : nodeStatus[n] # "Pending"
                      /\ InFlight = {}

\* Execute reports Success only when every node ended with Success, or was
\* skipped with no failed node anywhere in the graph.
SuccessIsEarned ==
    pc = "returned" /\ final = "Success" =>
        \A n \in g.nodes : nodeStatus[n] \in {"Success", "Skipped"}

\* Whatever moment the process dies at, a node the file records as Success has
\* all its dependencies recorded as Success.
CheckpointClosed ==
    file.present =>
        \A n \in g.nodes : file.nodes[n] = "Success" =>
            \A d \in g.deps[n] : file.nodes[d] = "Success"

\* A resumed run does not execute a node again that the checkpoint it works
\* from records as done, whether it was restored or recorded in this run.
CompletedNotRerun ==
    \A n \in tasks \cup Running : ckpt.nodes[n] \notin {"Success", "Skipped"}

\* Within one execution a node that ended Success or Skipped keeps that status.
KeepsOutcome ==
    pc \in {"loop", "closing"} /\ pc' # "idle" =>
        \A n \in g.nodes :
            nodeStatus[n] \in {"Success", "Skipped"} => nodeStatus'[n] = nodeStatus[n]
OutcomeStable == [][KeepsOutcome]_vars

\* An execution that has started its workers comes to an end.
Terminates == pc = "loop" ~> pc \in {"returned", "idle"}

\* "Checkpoint tracks the execution state of a pipeline so it can be resumed
\* after interruption" (checkpoint.go): the last execution, which nothing
\* interrupts, comes to an end whatever checkpoint it starts from.
ResumeTerminates == starts = MaxStarts /\ pc = "loop" ~> pc = "returned"

-----------------------------------------------------------------------------
\* The status and the phase DagRun sees: a node it calls Running is with a worker
\* or on the results channel.
Seen == [n \in Node |-> IF n \in Running \cup Reported THEN "Running" ELSE nodeStatus[n]]
Phase == CASE pc = "idle" -> "planned"
           [] pc \in {"loop", "closing"} -> "running"
           [] pc = "returned" -> "ended"

\* An execution without restarts implements DagRun.
Abstract == INSTANCE DagRun WITH
    graph <- g, phase <- Phase, status <- Seen, verdict <- final

\* Execute, its workers and its counters do what DagRun promises.
ImplementsDagRun == Abstract!Spec
=============================================================================
