--------------------------- MODULE ExecutorProofs ---------------------------
(* Machine-checked proofs about Executor, for every graph, any number of    *)
(* workers and any number of restarts.                                      *)
EXTENDS Executor, FiniteSetTheorems, TLAPS

\* Every set of nodes is finite and has a natural number of members.
LEMMA NodeSets ==
    \A S \in SUBSET Node : IsFiniteSet(S) /\ Cardinality(S) \in Nat
BY NodeAssumption, FS_Subset, FS_CardinalityType

\* A graph the executor can be started with has the shape Execute reads.
LEMMA GraphShape ==
    \A gr \in Graphs : /\ gr.nodes \in SUBSET Node
                       /\ gr.deps \in [Node -> SUBSET Node]
BY GraphsAssumption DEF Graph

\* The checkpoint Execute makes when it loads none.
LEMMA NewCheckpointType == NewCheckpoint \in Checkpoint
BY DEF NewCheckpoint, Checkpoint, Status

\* What Load yields is a checkpoint.
LEMMA LoadedType == TypeOK => Loaded \subseteq Checkpoint
<1>2. NoFile.present = FALSE
  BY DEF NoFile
<1>3. TypeOK /\ file.present => file \in Checkpoint
  BY <1>2 DEF TypeOK
<1> QED
  BY NewCheckpointType, <1>3 DEF Loaded

\* Receiving a result keeps the channel, the bag and both checkpoints typed.
LEMMA ReceiveType ==
    ASSUME TypeOK, NEW n \in Node, NEW s \in Outcome, Receive(n, s)
    PROVE  /\ results' \in [Node -> {"Pending"} \cup Outcome]
           /\ merged' \subseteq Node
           /\ ckpt' \in Checkpoint
           /\ file' \in {NoFile} \cup Checkpoint
<1>1. s \in Status
  BY DEF Outcome, Status
<1>2. ckpt' \in Checkpoint
  BY <1>1 DEF Receive, saveNodeState, TypeOK, Checkpoint
<1> QED
  BY <1>2 DEF Receive, MergeOutput, Save, TypeOK

\* Every step keeps the types.
LEMMA TypeStep == TypeOK /\ [Next]_vars => TypeOK'
<1> SUFFICES ASSUME TypeOK, [Next]_vars PROVE TypeOK'
  OBVIOUS
<1>1. ASSUME NEW gr \in Graphs, NEW c \in Loaded, Execute(gr, c)
      PROVE  TypeOK'
  <2>1. c \in Checkpoint
    BY LoadedType
  <2>2. processed' \in Nat
    BY <1>1, NodeSets DEF Execute, RestoredCount, alreadyDone
  <2>3. inDegree' \in [Node -> Int]
    BY <1>1, NodeSets, GraphShape DEF Execute
  <2>4. /\ nodeStatus' \in [Node -> Status]
        /\ tasks' \subseteq Node
        /\ sent' \in [Node -> Nat]
    BY <1>1, <2>1, GraphShape DEF Execute, EntryTasks, Checkpoint, Status
  <2> QED
    BY <1>1, <2>1, <2>2, <2>3, <2>4, StartsAssumption
    DEF TypeOK, Execute, Save, Status, Outcome
<1>2. ASSUME NEW gr \in Graphs, RejectGraph(gr) PROVE TypeOK'
  BY <1>2, StartsAssumption DEF TypeOK, RejectGraph, Status
<1>3. ASSUME NEW gr \in Graphs, dryRun(gr) PROVE TypeOK'
  BY <1>3, StartsAssumption DEF TypeOK, dryRun, Status
<1>4. ASSUME NEW n \in Node, ResultSucceeds(n) PROVE TypeOK'
  <2>1. "Success" \in Outcome /\ Receive(n, "Success")
    BY <1>4 DEF Outcome, ResultSucceeds
  <2>2. processed' \in Nat
    BY <1>4 DEF TypeOK, ResultSucceeds, Counted
  <2>3. /\ inDegree' \in [Node -> Int]
        /\ tasks' \subseteq Node
        /\ sent' \in [Node -> Nat]
    BY <1>4, GraphShape DEF TypeOK, ResultSucceeds, Ready, Dependents
  <2> QED
    BY <1>4, <2>1, <2>2, <2>3, ReceiveType
    DEF TypeOK, ResultSucceeds, Status
<1>5. ASSUME NEW n \in Node, NEW s \in Outcome, ResultSkips(n, s)
      PROVE  TypeOK'
  <2> DEFINE st   == [nodeStatus EXCEPT ![n] = s]
             skip == Cascade(n, st)
  <2>1. skip \in SUBSET Node
    BY GraphShape DEF Cascade, TypeOK
  <2>2. Cardinality(skip) \in Nat
    BY <2>1, NodeSets
  <2>3. Receive(n, s) /\ s \in Status
    BY <1>5 DEF ResultSkips, Outcome, Status
  <2>4. processed' = processed + Counted(n) + Cardinality(skip)
    BY <1>5 DEF ResultSkips
  <2>5. processed' \in Nat
    BY <2>2, <2>4 DEF TypeOK, Counted
  <2>6. nodeStatus' = [m \in Node |-> IF m \in skip THEN "Skipped" ELSE st[m]]
    BY <1>5 DEF ResultSkips
  <2> HIDE DEF skip
  <2>7. nodeStatus' \in [Node -> Status]
    BY <2>3, <2>6 DEF TypeOK, Status
  <2> QED
    BY <1>5, <2>3, <2>5, <2>7, ReceiveType DEF TypeOK, ResultSkips
<1>6. CASE CloseTasks
  BY <1>6 DEF TypeOK, CloseTasks
<1>7. CASE Return
  <2>1. FinalStatus \in Status
    BY DEF FinalStatus, Status
  <2>2. ckpt' \in Checkpoint
    BY <1>7, <2>1 DEF Return, TypeOK, Checkpoint
  <2> QED
    BY <1>7, <2>1, <2>2 DEF TypeOK, Return, Save
<1>8. ASSUME NEW w \in Worker, NEW n \in Node, TakeTask(w, n) PROVE TypeOK'
  BY <1>8 DEF TypeOK, TakeTask
<1>9. ASSUME NEW w \in Worker, NEW s \in Outcome, SendResult(w, s)
      PROVE  TypeOK'
  BY <1>9 DEF TypeOK, SendResult
<1>10. ASSUME NEW w \in Worker, WorkerDone(w) PROVE TypeOK'
  BY <1>10 DEF TypeOK, WorkerDone
<1>11. CASE Crash
  <2>1. ckpt' \in Checkpoint
    BY <1>11, NewCheckpointType DEF Crash
  <2> QED
    BY <1>11, <2>1 DEF TypeOK, Crash, Status, Outcome
<1>12. CASE UNCHANGED vars
  BY <1>12 DEF TypeOK, vars
<1> QED
  BY <1>1, <1>2, <1>3, <1>4, <1>5, <1>6, <1>7, <1>8, <1>9, <1>10, <1>11,
     <1>12
  DEF Next, Start, MainStep, WorkerStep

\* The variables of the executor always have their types.
THEOREM TypeCorrect == Spec => []TypeOK
<1>1. Init => TypeOK
  BY StartsAssumption
  DEF Init, TypeOK, Checkpoint, NewCheckpoint, NoFile, Status, Outcome
<1> QED
  BY <1>1, TypeStep, PTL DEF Spec

-----------------------------------------------------------------------------
(* A node is dispatched once, after everything it depends on succeeded.      *)
(*                                                                           *)
(* DepsSucceeded is not inductive: it says nothing of the counter inDegree   *)
(* that decides when a node is sent. The strengthening says what inDegree    *)
(* counts: the dependencies that have not ended with Success in this very    *)
(* execution, a node that was restored from a checkpoint not being one.      *)

\* The nodes that were sent in this execution, have reported and succeeded.
Done == {n \in Node : sent[n] = 1 /\ n \notin InFlight /\ nodeStatus[n] = "Success"}

\* A node is in one place at a time, and with one worker.
OnePlace ==
    /\ tasks \cap Running = {}
    /\ tasks \cap Reported = {}
    /\ Running \cap Reported = {}
    /\ \A v, w \in Worker : worker[v] = worker[w] /\ worker[v] \in Node => v = w

\* Outside Execute nothing is queued, running or reported.
Quiet ==
    pc \in {"idle", "returned"} =>
        tasks = {} /\ Reported = {} /\ \A w \in Worker : worker[w] = Exited

\* inDegree counts the dependencies that are not Done.
DegreeExact ==
    pc \in {"loop", "closing"} =>
        \A n \in g.nodes : inDegree[n] = Cardinality(g.deps[n] \ Done)

\* Everything a dispatched node depends on is Done.
SentReady ==
    pc \in {"loop", "closing"} =>
        \A n \in Node : sent[n] = 1 => g.deps[n] \subseteq Done

FlightSent == \A n \in InFlight : sent[n] = 1

DispatchInv ==
    /\ TypeOK
    /\ SentOnce
    /\ OnePlace
    /\ Quiet
    /\ FlightSent
    /\ DegreeExact
    /\ SentReady

\* Execute starts from a clean slate: only entry nodes are in flight.
LEMMA DispatchExecute ==
    ASSUME DispatchInv, TypeOK', NEW gr \in Graphs, NEW c \in Loaded,
           Execute(gr, c)
    PROVE  DispatchInv'
<1>1. Running' = {} /\ Reported' = {}
  BY WorkerStateAssumption DEF Execute, Running, Reported
<1>2. InFlight' = tasks' /\ Done' = {}
  BY <1>1 DEF InFlight, Done, Execute
<1>3. SentOnce' /\ FlightSent'
  BY <1>2 DEF Execute, SentOnce, FlightSent, TypeOK
<1>4. OnePlace' /\ Quiet'
  BY <1>1, WorkerStateAssumption DEF OnePlace, Quiet, Execute
<1>5. DegreeExact'
  BY <1>2, GraphShape DEF DegreeExact, Execute
<1>6. SentReady'
  BY <1>2, GraphShape DEF SentReady, Execute, EntryTasks
<1> QED
  BY <1>3, <1>4, <1>5, <1>6 DEF DispatchInv

\* What receiving a successful result does: the node is Done, and the
\* dependents it releases are in flight, none of them sent before.
LEMMA SucceedsEffect ==
    ASSUME DispatchInv, TypeOK', NEW n \in Node, ResultSucceeds(n)
    PROVE  LET ready == Ready(n, inDegree')
           IN  /\ pc = "loop" /\ pc' = "loop" /\ g' = g /\ worker' = worker
               /\ n \in Reported /\ sent[n] = 1 /\ n \notin Done
               /\ n \notin tasks /\ n \notin Running
               /\ ready \subseteq Dependents(n)
               /\ \A m \in Dependents(n) :
                     sent[m] = 0 /\ m \in g.nodes /\ n \in g.deps[m]
               /\ \A m \in ready :
                     m \notin InFlight /\ m \notin Done /\ m # n /\ m \in Node
               /\ Running' = Running
               /\ Reported' = Reported \ {n}
               /\ tasks' = tasks \cup ready
               /\ sent' = [m \in Node |-> IF m \in ready THEN sent[m] + 1 ELSE sent[m]]
               /\ InFlight' = (InFlight \ {n}) \cup ready
               /\ Done' = Done \cup {n}
<1> DEFINE ready == Ready(n, inDegree')
<1>1. /\ n \in Reported /\ sent[n] = 1 /\ n \notin Done
      /\ n \notin tasks /\ n \notin Running
  BY DEF DispatchInv, ResultSucceeds, Receive, Reported, InFlight, FlightSent,
         Done, OnePlace
<1>2. pc = "loop" /\ pc' = "loop" /\ g' = g /\ worker' = worker
  BY DEF ResultSucceeds, Receive
<1>3. \A m \in Dependents(n) : sent[m] = 0 /\ m \in g.nodes /\ n \in g.deps[m]
  BY <1>1, <1>2, GraphShape
  DEF DispatchInv, SentReady, SentOnce, TypeOK, Dependents
<1>4. ready \subseteq Dependents(n)
  BY DEF Ready
<1>5. \A m \in ready : m \notin InFlight /\ m \notin Done /\ m # n /\ m \in Node
  BY <1>1, <1>3, <1>4, GraphShape DEF DispatchInv, FlightSent, Done, TypeOK
<1>6. /\ Running' = Running
      /\ Reported' = Reported \ {n}
      /\ tasks' = tasks \cup ready
      /\ sent' = [m \in Node |-> IF m \in ready THEN sent[m] + 1 ELSE sent[m]]
  BY <1>2 DEF Running, Reported, ResultSucceeds, Receive, DispatchInv, TypeOK
<1>7. InFlight' = (InFlight \ {n}) \cup ready
  BY <1>1, <1>5, <1>6 DEF InFlight
<1>8. nodeStatus' = [nodeStatus EXCEPT ![n] = "Success"]
  BY DEF ResultSucceeds
<1> HIDE DEF ready
<1>9. Done' = Done \cup {n}
  BY <1>1, <1>5, <1>6, <1>7, <1>8 DEF Done, DispatchInv, TypeOK
<1> QED
  BY <1>1, <1>2, <1>3, <1>4, <1>5, <1>6, <1>7, <1>9 DEF ready

\* A successful result keeps the invariant: the in-degrees it lowers are those of
\* the nodes that wait for one node less.
LEMMA DispatchSucceeds ==
    ASSUME DispatchInv, TypeOK', NEW n \in Node, ResultSucceeds(n)
    PROVE  DispatchInv'
<1> DEFINE ready == Ready(n, inDegree')
<1>1. /\ n \in Reported /\ sent[n] = 1 /\ n \notin Done
      /\ n \notin tasks /\ n \notin Running
  BY SucceedsEffect
<1>2. pc = "loop" /\ pc' = "loop" /\ g' = g /\ worker' = worker
  BY SucceedsEffect
<1>3. \A m \in Dependents(n) : sent[m] = 0 /\ m \in g.nodes /\ n \in g.deps[m]
  BY SucceedsEffect
<1>4. ready \subseteq Dependents(n)
  BY SucceedsEffect
<1>5. \A m \in ready : m \notin InFlight /\ m \notin Done /\ m # n /\ m \in Node
  BY SucceedsEffect
<1>6. /\ Running' = Running
      /\ Reported' = Reported \ {n}
      /\ tasks' = tasks \cup ready
      /\ sent' = [m \in Node |-> IF m \in ready THEN sent[m] + 1 ELSE sent[m]]
  BY SucceedsEffect
<1>7. InFlight' = (InFlight \ {n}) \cup ready
  BY SucceedsEffect
<1> HIDE DEF ready
<1>9. Done' = Done \cup {n}
  BY SucceedsEffect
<1>10. SentOnce' /\ FlightSent'
  <2>1. \A m \in ready : sent'[m] = 1
    BY <1>3, <1>4, <1>5, <1>6
  <2>2. \A m \in Node \ ready : sent'[m] = sent[m]
    BY <1>6
  <2>3. InFlight \subseteq Node
    BY DEF InFlight, Running, Reported, DispatchInv, TypeOK
  <2> QED
    BY <1>7, <2>1, <2>2, <2>3 DEF SentOnce, FlightSent, DispatchInv, TypeOK
<1>11. OnePlace' /\ Quiet'
  BY <1>1, <1>2, <1>5, <1>6 DEF OnePlace, Quiet, DispatchInv, InFlight
<1>12. \A m \in g.nodes : inDegree'[m] = Cardinality(g.deps[m] \ Done')
  <2> TAKE m \in g.nodes
  <2>1. m \in Node /\ IsFiniteSet(g.deps[m] \ Done)
    BY GraphShape, NodeSets DEF DispatchInv, TypeOK
  <2>2. inDegree[m] = Cardinality(g.deps[m] \ Done)
    BY <1>2 DEF DispatchInv, DegreeExact
  <2>3. CASE m \in Dependents(n)
    <3>1. inDegree'[m] = inDegree[m] - 1
      BY <2>1, <2>3 DEF ResultSucceeds
    <3>2. n \in g.deps[m] \ Done
      BY <1>1, <1>3, <2>3
    <3>3. (g.deps[m] \ Done) \ {n} = g.deps[m] \ Done'
      BY <1>9
    <3>4. Cardinality((g.deps[m] \ Done) \ {n}) = Cardinality(g.deps[m] \ Done) - 1
      BY <2>1, <3>2, FS_RemoveElement
    <3> QED
      BY <2>2, <3>1, <3>3, <3>4
  <2>4. CASE m \notin Dependents(n)
    <3>1. inDegree'[m] = inDegree[m]
      BY <2>1, <2>4 DEF ResultSucceeds
    <3>2. g.deps[m] \ Done' = g.deps[m] \ Done
      BY <1>9, <2>4 DEF Dependents
    <3> QED
      BY <2>2, <3>1, <3>2
  <2> QED
    BY <2>3, <2>4
<1>13. DegreeExact'
  BY <1>2, <1>12 DEF DegreeExact
<1>14. \A m \in ready : g.deps[m] \subseteq Done'
  <2> TAKE m \in ready
  <2>1. m \in g.nodes /\ inDegree'[m] = 0
    BY <1>3, <1>4 DEF ready, Ready
  <2>2. Cardinality(g.deps[m] \ Done') = 0 /\ IsFiniteSet(g.deps[m] \ Done')
    BY <1>12, <2>1, GraphShape, NodeSets DEF DispatchInv, TypeOK
  <2> QED
    BY <2>2, FS_EmptySet
<1>15. SentReady'
  BY <1>2, <1>6, <1>9, <1>14 DEF SentReady, DispatchInv, TypeOK
<1> QED
  BY <1>10, <1>11, <1>13, <1>15 DEF DispatchInv

\* What receiving a failed or skipped result does: neither it nor the cascade
\* behind it makes a node Done or sends one.
LEMMA SkipsEffect ==
    ASSUME DispatchInv, TypeOK', NEW n \in Node, NEW s \in Outcome,
           ResultSkips(n, s)
    PROVE  /\ pc = "loop" /\ pc' = "loop" /\ g' = g /\ worker' = worker
           /\ tasks' = tasks /\ sent' = sent /\ inDegree' = inDegree
           /\ n \in Reported /\ n \notin tasks /\ n \notin Running /\ n \notin Done
           /\ Running' = Running /\ Reported' = Reported \ {n}
           /\ InFlight' = InFlight \ {n}
           /\ Done' = Done
<1> DEFINE st   == [nodeStatus EXCEPT ![n] = s]
           skip == Cascade(n, st)
<1>1. /\ n \in Reported /\ n \notin tasks /\ n \notin Running /\ n \notin Done
  BY DEF DispatchInv, ResultSkips, Receive, Reported, InFlight, Done, OnePlace,
         Outcome
<1>2. /\ pc = "loop" /\ pc' = "loop" /\ g' = g /\ worker' = worker
      /\ tasks' = tasks /\ sent' = sent /\ inDegree' = inDegree
  BY DEF ResultSkips, Receive
<1>3. Running' = Running /\ Reported' = Reported \ {n}
  BY <1>2 DEF Running, Reported, ResultSkips, Receive, DispatchInv, TypeOK
<1>4. InFlight' = InFlight \ {n}
  BY <1>1, <1>2, <1>3 DEF InFlight
<1>5. \A m \in skip : st[m] = "Pending"
  BY DEF Cascade
<1>6. nodeStatus' = [m \in Node |-> IF m \in skip THEN "Skipped" ELSE st[m]]
  BY DEF ResultSkips
<1>7. s # "Success"
  BY DEF ResultSkips
<1> HIDE DEF skip
<1>8. \A m \in Node : nodeStatus'[m] = "Success" <=>
                        nodeStatus[m] = "Success" /\ m # n
  BY <1>5, <1>6, <1>7 DEF DispatchInv, TypeOK
<1>9. Done' = Done
  BY <1>1, <1>2, <1>4, <1>8 DEF Done
<1> QED
  BY <1>1, <1>2, <1>3, <1>4, <1>9

\* A failed or skipped result keeps the invariant.
LEMMA DispatchSkips ==
    ASSUME DispatchInv, TypeOK', NEW n \in Node, NEW s \in Outcome,
           ResultSkips(n, s)
    PROVE  DispatchInv'
BY SkipsEffect
DEF DispatchInv, SentOnce, OnePlace, Quiet, FlightSent, DegreeExact, SentReady

\* The steps of a worker move a node along without losing it.
LEMMA DispatchWorker ==
    ASSUME DispatchInv, TypeOK', NEW w \in Worker, WorkerStep(w)
    PROVE  DispatchInv' /\ InFlight' = InFlight /\ Done' = Done
<1>1. /\ pc' = pc /\ g' = g /\ sent' = sent /\ inDegree' = inDegree
      /\ nodeStatus' = nodeStatus
  BY DEF WorkerStep, TakeTask, SendResult, WorkerDone
<1>2. Idle \notin Node /\ Exited \notin Node /\ Idle # Exited
  BY WorkerStateAssumption DEF Idle, Exited
<1>3. InFlight' = InFlight /\ OnePlace' /\ Quiet'
  <2>1. ASSUME NEW n \in Node, TakeTask(w, n)
        PROVE  InFlight' = InFlight /\ OnePlace' /\ Quiet'
    <3>1. n \notin Running /\ n \notin Reported /\ tasks' = tasks \ {n}
          /\ results' = results
      BY <2>1 DEF TakeTask, DispatchInv, OnePlace
    <3>2. Running' = Running \cup {n} /\ Reported' = Reported
      BY <1>2, <2>1 DEF TakeTask, Running, Reported, DispatchInv, TypeOK
    <3>3. InFlight' = InFlight
      BY <2>1, <3>1, <3>2 DEF InFlight, TakeTask
    <3>4. \A u, v \in Worker : worker'[u] = worker'[v] /\ worker'[u] \in Node
                                  => u = v
      BY <2>1, <3>1 DEF TakeTask, Running, DispatchInv, OnePlace, TypeOK
    <3>5. OnePlace'
      BY <3>1, <3>2, <3>4 DEF OnePlace, DispatchInv
    <3>6. Quiet'
      BY <1>1, <1>2, <2>1 DEF Quiet, DispatchInv, TakeTask
    <3> QED
      BY <3>3, <3>5, <3>6
  <2>2. ASSUME NEW s \in Outcome, SendResult(w, s)
        PROVE  InFlight' = InFlight /\ OnePlace' /\ Quiet'
    <3> DEFINE n == worker[w]
    <3>1. /\ n \in Running /\ n \notin tasks /\ n \notin Reported
          /\ tasks' = tasks /\ s # "Pending"
      BY <2>2 DEF SendResult, DispatchInv, OnePlace, Running, Outcome
    <3>2. Running' = Running \ {n}
      BY <1>2, <2>2 DEF SendResult, Running, DispatchInv, OnePlace, TypeOK
    <3>3. Reported' = Reported \cup {n}
      BY <2>2, <3>1 DEF SendResult, Reported, DispatchInv, TypeOK
    <3>4. InFlight' = InFlight
      BY <3>1, <3>2, <3>3 DEF InFlight
    <3>5. \A u, v \in Worker : worker'[u] = worker'[v] /\ worker'[u] \in Node
                                  => u = v
      BY <1>2, <2>2 DEF SendResult, DispatchInv, OnePlace, TypeOK
    <3>6. OnePlace'
      BY <3>1, <3>2, <3>3, <3>5 DEF OnePlace, DispatchInv
    <3>7. Quiet'
      BY <1>1, <1>2, <2>2 DEF Quiet, DispatchInv, SendResult
    <3> QED
      BY <3>4, <3>6, <3>7
  <2>3. CASE WorkerDone(w)
    <3>1. tasks' = tasks /\ results' = results /\ pc' = "closing"
      BY <2>3 DEF WorkerDone
    <3>2. Running' = Running /\ Reported' = Reported
      BY <1>2, <2>3 DEF WorkerDone, Running, Reported, DispatchInv, TypeOK
    <3>3. \A u, v \in Worker : worker'[u] = worker'[v] /\ worker'[u] \in Node
                                  => u = v
      BY <1>2, <2>3 DEF WorkerDone, DispatchInv, OnePlace, TypeOK
    <3> QED
      BY <3>1, <3>2, <3>3 DEF InFlight, OnePlace, Quiet, DispatchInv
  <2> QED
    BY <2>1, <2>2, <2>3 DEF WorkerStep
<1>4. Done' = Done
  BY <1>1, <1>3 DEF Done
<1> QED
  BY <1>1, <1>3, <1>4
  DEF DispatchInv, SentOnce, FlightSent, DegreeExact, SentReady

\* Every step keeps the strengthened invariant.
LEMMA DispatchStep == DispatchInv /\ [Next]_vars => DispatchInv'
<1> SUFFICES ASSUME DispatchInv, [Next]_vars PROVE DispatchInv'
  OBVIOUS
<1>0. TypeOK'
  BY TypeStep DEF DispatchInv
<1>1. ASSUME NEW gr \in Graphs, RejectGraph(gr) \/ dryRun(gr) PROVE DispatchInv'
  <2>1. /\ pc \in {"idle", "returned"} /\ pc' = "returned"
        /\ tasks' = tasks /\ worker' = worker /\ results' = results
    BY <1>1 DEF RejectGraph, dryRun
  <2>2. Running = {} /\ InFlight = {}
    BY <2>1, WorkerStateAssumption DEF DispatchInv, Quiet, Running, InFlight
  <2>3. Running' = {} /\ Reported' = {} /\ InFlight' = {}
    BY <2>1, <2>2 DEF Running, Reported, InFlight
  <2>4. SentOnce'
    BY <1>1 DEF RejectGraph, dryRun, SentOnce, DispatchInv
  <2> QED
    BY <1>0, <2>1, <2>2, <2>3, <2>4
    DEF DispatchInv, OnePlace, Quiet, FlightSent, DegreeExact, SentReady
<1>2. CASE CloseTasks
  <2>1. InFlight' = InFlight /\ Done' = Done /\ Running' = Running
        /\ Reported' = Reported
    BY <1>2 DEF CloseTasks, InFlight, Running, Reported, Done
  <2> QED
    BY <1>0, <1>2, <2>1
    DEF CloseTasks, DispatchInv, SentOnce, OnePlace, Quiet, FlightSent,
        DegreeExact, SentReady
<1>3. CASE Return \/ Crash
  <2>1. /\ pc' \in {"idle", "returned"} /\ tasks' = {}
        /\ results' = [n \in Node |-> "Pending"]
        /\ \A w \in Worker : worker'[w] = Exited
        /\ sent' = sent \/ sent' = [n \in Node |-> 0]
    BY <1>3 DEF Return, Crash, DispatchInv, TypeOK
  <2>2. Running' = {} /\ Reported' = {} /\ InFlight' = {}
    BY <2>1, WorkerStateAssumption DEF Running, Reported, InFlight
  <2>3. SentOnce'
    BY <2>1 DEF SentOnce, DispatchInv
  <2> QED
    BY <1>0, <2>1, <2>2, <2>3, WorkerStateAssumption
    DEF DispatchInv, OnePlace, Quiet, FlightSent, DegreeExact, SentReady
<1>4. CASE UNCHANGED vars
  <2>1. /\ InFlight' = InFlight /\ Done' = Done /\ Running' = Running
        /\ Reported' = Reported
    BY <1>4 DEF vars, InFlight, Running, Reported, Done
  <2> QED
    BY <1>0, <1>4, <2>1
    DEF vars, DispatchInv, SentOnce, OnePlace, Quiet, FlightSent, DegreeExact,
        SentReady
<1> QED
  BY <1>0, <1>1, <1>2, <1>3, <1>4, DispatchExecute, DispatchSucceeds,
     DispatchSkips, DispatchWorker
  DEF Next, Start, MainStep

\* Nothing is dispatched in the beginning.
LEMMA DispatchInit == Init => DispatchInv
<1> SUFFICES ASSUME Init PROVE DispatchInv
  OBVIOUS
<1>1. TypeOK
  BY StartsAssumption
  DEF Init, TypeOK, Checkpoint, NewCheckpoint, NoFile, Status, Outcome
<1>2. Running = {} /\ Reported = {} /\ InFlight = {}
  BY WorkerStateAssumption DEF Init, Running, Reported, InFlight
<1> QED
  BY <1>1, <1>2, WorkerStateAssumption
  DEF Init, DispatchInv, SentOnce, OnePlace, Quiet, FlightSent, DegreeExact,
      SentReady

\* The strengthened invariant holds in every reachable state, across crashes,
\* restarts and plans that change between them.
LEMMA DispatchCorrect == Spec => []DispatchInv
BY DispatchInit, DispatchStep, PTL DEF Spec

\* A node is queued, runs or reports only after every node it depends on ended
\* with Success, whatever checkpoint the execution started from.
THEOREM DependenciesRespected == Spec => []DepsSucceeded
<1>1. ASSUME DispatchInv PROVE DepsSucceeded
  <2>1. CASE pc \in {"idle", "returned"}
    <3>1. Running = {} /\ InFlight = {}
      BY <1>1, <2>1, WorkerStateAssumption
      DEF DispatchInv, Quiet, Running, InFlight
    <3> QED
      BY <3>1 DEF DepsSucceeded
  <2>2. CASE pc \in {"loop", "closing"}
    <3>1. \A n \in InFlight : n \in Node /\ sent[n] = 1
      BY <1>1 DEF DispatchInv, FlightSent, InFlight, Running, Reported, TypeOK
    <3> QED
      BY <1>1, <2>2, <3>1 DEF DispatchInv, SentReady, Done, DepsSucceeded
  <2> QED
    BY <1>1, <2>1, <2>2 DEF DispatchInv, TypeOK
<1> QED
  BY <1>1, DispatchCorrect, PTL

\* No node is put on the tasks channel twice in one execution, so the channels'
\* capacity of one slot per node is enough.
THEOREM DispatchedOnce == Spec => []SentOnce
<1>1. DispatchInv => SentOnce
  BY DEF DispatchInv
<1> QED
  BY <1>1, DispatchCorrect, PTL
=============================================================================
