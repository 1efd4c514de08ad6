---------------------------- MODULE DagRunProofs ----------------------------
(* Executor implements DagRun: a machine-checked refinement proof for every *)
(* graph and any number of workers, for an execution that nothing           *)
(* interrupts and that starts without a checkpoint.                         *)
EXTENDS ExecutorResumeProofs

\* The pipeline is started once; DagRun says nothing of restarts.
OneRun == MaxStarts <= 1

\* A node in flight has no status yet: it was not restored.
FlightPending == Active => \A n \in InFlight : nodeStatus[n] = "Pending"

\* What is Pending can still run: a cascade leaves no node behind that waits for
\* one that did not succeed.
Unblocked ==
    Active => \A m \in g.nodes : nodeStatus[m] = "Pending" =>
                  \A d \in g.deps[m] : nodeStatus[d] \notin {"Failed", "Skipped"}

DagInv == ResumeInv /\ FlightPending /\ Unblocked

\* Without a file there is nothing to load.
LEMMA FirstStart ==
    ASSUME OneRun, ResumeInv, starts < MaxStarts
    PROVE  /\ starts = 0 /\ pc = "idle" /\ final = "Pending"
           /\ nodeStatus = [n \in Node |-> "Pending"]
           /\ Loaded = {NewCheckpoint}
<1>1. starts = 0
  BY StartsAssumption DEF OneRun, ResumeInv, DispatchInv, TypeOK
<1>2. file = NoFile /\ NoFile.present = FALSE
  BY <1>1 DEF ResumeInv, Fresh, NoFile
<1> QED
  BY <1>1, <1>2 DEF ResumeInv, Fresh, Loaded

\* Every step of the execution keeps the invariant.
LEMMA DagStep ==
    ASSUME OneRun, DagInv, [Next]_vars
    PROVE  DagInv'
<1>0. ResumeInv' /\ TypeOK'
  BY ResumeStep, TypeStep DEF OneRun, FixedPlan, DagInv, ResumeInv, DispatchInv
<1> SUFFICES FlightPending' /\ Unblocked'
  BY <1>0 DEF DagInv
<1>1. ASSUME NEW gr \in Graphs, NEW c \in Loaded, Execute(gr, c)
      PROVE  FlightPending' /\ Unblocked'
  <2>1. c = NewCheckpoint
    BY <1>1, FirstStart DEF DagInv, Execute
  <2>2. nodeStatus' = [n \in Node |-> "Pending"]
    BY <1>1, <2>1 DEF Execute, NewCheckpoint
  <2>3. InFlight' \subseteq Node /\ g'.nodes \subseteq Node
        /\ \A m \in g'.nodes : g'.deps[m] \subseteq Node
    BY <1>0, GraphShape DEF InFlight, Running, Reported, TypeOK
  <2> QED
    BY <2>2, <2>3 DEF FlightPending, Unblocked
<1>2. ASSUME NEW gr \in Graphs, RejectGraph(gr) \/ dryRun(gr)
      PROVE  FlightPending' /\ Unblocked'
  BY <1>2 DEF RejectGraph, dryRun, FlightPending, Unblocked, Active
<1>3. ASSUME NEW n \in Node, ResultSucceeds(n) PROVE FlightPending' /\ Unblocked'
  <2>1. /\ Active /\ g' = g /\ n \in InFlight
        /\ InFlight' = (InFlight \ {n}) \cup Ready(n, inDegree')
        /\ \A m \in Ready(n, inDegree') : m \in Node /\ m # n
    BY <1>0, <1>3, SucceedsEffect DEF DagInv, ResumeInv, Active, InFlight
  <2>2. \A m \in Ready(n, inDegree') : nodeStatus[m] = "Pending"
    BY <1>0, <1>3, ReleasedPending DEF DagInv
  <2>3. nodeStatus' = [nodeStatus EXCEPT ![n] = "Success"]
    BY <1>3 DEF ResultSucceeds
  <2>4. InFlight \subseteq Node /\ g.nodes \subseteq Node
        /\ \A m \in g.nodes : g.deps[m] \subseteq Node
    BY GraphShape DEF InFlight, Running, Reported, DagInv, ResumeInv, DispatchInv, TypeOK
  <2>5. \A m \in Node : nodeStatus'[m] = IF m = n THEN "Success" ELSE nodeStatus[m]
    BY <2>3 DEF DagInv, ResumeInv, DispatchInv, TypeOK
  <2>6. FlightPending'
    BY <2>1, <2>2, <2>4, <2>5 DEF FlightPending, DagInv
  <2>7. Unblocked'
    BY <2>1, <2>4, <2>5 DEF Unblocked, DagInv
  <2> QED
    BY <2>6, <2>7
<1>4. ASSUME NEW n \in Node, NEW s \in Outcome, ResultSkips(n, s)
      PROVE  FlightPending' /\ Unblocked'
  <2> DEFINE st   == [nodeStatus EXCEPT ![n] = s]
             skip == Cascade(n, st)
  <2>1. /\ Active /\ g' = g /\ n \in InFlight /\ InFlight' = InFlight \ {n}
        /\ s \in {"Failed", "Skipped"}
    BY <1>0, <1>4, SkipsEffect DEF DagInv, ResumeInv, Active, InFlight, ResultSkips
  <2>2. \A m \in skip : m \in g.nodes /\ m # n /\ m \notin InFlight
    BY <2>1, CascadeUnsent DEF DagInv
  <2>3. CascadeClosed(n, skip, st)
    BY CascadeFacts
  <2>4. nodeStatus' = [m \in Node |-> IF m \in skip THEN "Skipped" ELSE st[m]]
    BY <1>4 DEF ResultSkips
  <2>5. InFlight \subseteq Node /\ g.nodes \subseteq Node
        /\ \A m \in g.nodes : g.deps[m] \subseteq Node
    BY GraphShape DEF InFlight, Running, Reported, DagInv, ResumeInv, DispatchInv, TypeOK
  <2> HIDE DEF skip
  <2>6. \A m \in Node : /\ st[m] = IF m = n THEN s ELSE nodeStatus[m]
                        /\ nodeStatus'[m] = IF m \in skip THEN "Skipped" ELSE st[m]
    BY <2>4 DEF DagInv, ResumeInv, DispatchInv, TypeOK
  <2> HIDE DEF st
  <2>7. FlightPending'
    BY <2>1, <2>2, <2>5, <2>6 DEF FlightPending, DagInv
  <2>8. Unblocked'
    <3> SUFFICES ASSUME NEW m \in g.nodes, nodeStatus'[m] = "Pending", NEW d \in g.deps[m],
                        nodeStatus'[d] \in {"Failed", "Skipped"}
                 PROVE  FALSE
      BY <2>1 DEF Unblocked
    <3>1. m \in Node /\ d \in Node
      BY <2>5
    <3>2. m \notin skip /\ m # n /\ nodeStatus[m] = "Pending" /\ st[m] = "Pending"
      BY <2>1, <2>6, <3>1
    <3>3. nodeStatus[d] \notin {"Failed", "Skipped"}
      BY <2>1, <3>2 DEF DagInv, Unblocked
    <3>4. d \in skip \cup {n}
      BY <2>6, <3>1, <3>3
    <3> QED
      BY <2>3, <3>2, <3>4 DEF CascadeClosed
  <2> QED
    BY <2>7, <2>8
<1>5. CASE CloseTasks
  BY <1>5 DEF CloseTasks, DagInv, FlightPending, Unblocked, Active, InFlight, Running,
              Reported
<1>6. CASE Return \/ Crash
  BY <1>6 DEF Return, Crash, FlightPending, Unblocked, Active
<1>7. ASSUME NEW w \in Worker, WorkerStep(w) PROVE FlightPending' /\ Unblocked'
  <2>1. InFlight' = InFlight
    BY <1>0, <1>7, DispatchWorker DEF DagInv, ResumeInv
  <2>2. nodeStatus' = nodeStatus /\ pc' = pc /\ g' = g
    BY <1>7 DEF WorkerStep, TakeTask, SendResult, WorkerDone
  <2> QED
    BY <2>1, <2>2 DEF DagInv, FlightPending, Unblocked, Active
<1>8. CASE UNCHANGED vars
  BY <1>8 DEF vars, DagInv, FlightPending, Unblocked, Active, InFlight, Running, Reported
<1> QED
  BY <1>1, <1>2, <1>3, <1>4, <1>5, <1>6, <1>7, <1>8 DEF Next, Start, MainStep

-----------------------------------------------------------------------------
(* The refinement mapping *)

\* The phase for every place of the main goroutine.
LEMMA PhaseValue ==
    /\ pc = "idle" => Phase = "planned"
    /\ pc \in {"loop", "closing"} => Phase = "running"
    /\ pc = "returned" => Phase = "ended"
BY DEF Phase

\* Outside an execution, and once it has closed the channel, DagRun sees the
\* statuses as they are.
LEMMA SeenQuiet ==
    ASSUME TypeOK, Running = {}, Reported = {}
    PROVE  Seen = nodeStatus
BY DEF Seen, TypeOK

\* A state of Executor starts as one of DagRun.
LEMMA InitRefines == Init => Abstract!Init
<1> SUFFICES ASSUME Init PROVE Abstract!Init
  OBVIOUS
<1>1. Running = {} /\ Reported = {}
  BY WorkerStateAssumption DEF Init, Running, Reported
<1>2. Seen = [n \in Node |-> "Pending"]
  BY <1>1 DEF Init, Seen
<1>3. Phase = "planned"
  BY PhaseValue DEF Init
<1> QED
  BY <1>2, <1>3 DEF Init, Abstract!Init

\* A step that leaves alone what DagRun sees.
LEMMA Stutters ==
    ASSUME g' = g, Phase' = Phase, Seen' = Seen, final' = final
    PROVE  [Abstract!Next]_(Abstract!dvars)
BY DEF Abstract!dvars

\* The start of an execution, a refused graph and a dry run.
LEMMA StartRefines ==
    ASSUME OneRun, DagInv, DagInv', Start
    PROVE  Abstract!Next
<1>1. starts < MaxStarts
  BY DEF Start, Execute, RejectGraph, dryRun
<1>2. /\ pc = "idle" /\ final = "Pending" /\ nodeStatus = [n \in Node |-> "Pending"]
      /\ Loaded = {NewCheckpoint}
  BY <1>1, FirstStart DEF DagInv
<1>3. tasks = {} /\ Reported = {} /\ \A w \in Worker : worker[w] = Exited
  BY <1>2 DEF DagInv, ResumeInv, DispatchInv, Quiet
<1>4. Running = {}
  BY <1>3, WorkerStateAssumption DEF Running
<1>5. Seen = [n \in Node |-> "Pending"] /\ Phase = "planned"
  BY <1>2, <1>3, <1>4, PhaseValue, SeenQuiet DEF DagInv, ResumeInv, DispatchInv
<1>6. ASSUME NEW gr \in Graphs, NEW c \in Loaded, Execute(gr, c) PROVE Abstract!Next
  <2>1. Running' = {} /\ Reported' = {}
    BY <1>6, WorkerStateAssumption DEF Execute, Running, Reported
  <2>2. nodeStatus' = [n \in Node |-> "Pending"]
    BY <1>2, <1>6 DEF Execute, NewCheckpoint
  <2>3. Seen' = [n \in Node |-> "Pending"]
    BY <2>1, <2>2 DEF Seen
  <2>4. Phase' = "running"
    BY <1>6 DEF Execute, Phase
  <2>5. g' = gr /\ final' = "Pending"
    BY <1>6 DEF Execute
  <2>6. Abstract!Begin(gr)
    BY <1>2, <1>5, <2>3, <2>4, <2>5 DEF Abstract!Begin
  <2> QED
    BY <2>6 DEF Abstract!Next
<1>7. ASSUME NEW gr \in Graphs, RejectGraph(gr) PROVE Abstract!Next
  <2>1. /\ Seen' = Seen /\ g' = g /\ final' = "Failed" /\ pc' = "returned"
    BY <1>7 DEF RejectGraph, Seen, Running, Reported
  <2>2. Phase' = "ended"
    BY <2>1 DEF Phase
  <2>3. Abstract!Refuse
    BY <1>5, <2>1, <2>2 DEF Abstract!Refuse
  <2> QED
    BY <2>3 DEF Abstract!Next
<1>8. ASSUME NEW gr \in Graphs, dryRun(gr) PROVE Abstract!Next
  <2>1. /\ Running' = {} /\ Reported' = {} /\ g' = gr /\ final' = "Pending"
        /\ pc' = "returned"
        /\ nodeStatus' = [n \in Node |-> IF n \in gr.nodes THEN "Skipped" ELSE "Pending"]
    BY <1>3, <1>4, <1>8 DEF dryRun, Running, Reported
  <2>2. Seen' = [n \in Node |-> IF n \in gr.nodes THEN "Skipped" ELSE "Pending"]
    BY <2>1 DEF Seen
  <2>3. Phase' = "ended"
    BY <2>1 DEF Phase
  <2>4. Abstract!Preview(gr)
    BY <1>2, <1>5, <2>1, <2>2, <2>3 DEF Abstract!Preview
  <2> QED
    BY <2>4 DEF Abstract!Next
<1> QED
  BY <1>6, <1>7, <1>8 DEF Start

\* What a worker does: it starts a node, or nothing DagRun sees.
LEMMA WorkerRefines ==
    ASSUME OneRun, DagInv, DagInv', NEW w \in Worker, WorkerStep(w)
    PROVE  [Abstract!Next]_(Abstract!dvars)
<1>0. /\ g' = g /\ pc' = pc /\ final' = final /\ nodeStatus' = nodeStatus
      /\ Idle \notin Node /\ Exited \notin Node
  BY WorkerStateAssumption DEF WorkerStep, TakeTask, SendResult, WorkerDone, Idle, Exited
<1>1. Phase' = Phase
  BY <1>0 DEF Phase
<1>2. ASSUME NEW n \in Node, TakeTask(w, n) PROVE Abstract!Next
  <2>1. n \in tasks /\ n \in InFlight
    BY <1>2 DEF TakeTask, InFlight
  <2>2. Active
    BY <2>1 DEF DagInv, ResumeInv, DispatchInv, TypeOK, Quiet, Active
  <2>3. /\ n \in g.nodes /\ nodeStatus[n] = "Pending" /\ g.deps[n] \subseteq Done
    BY <2>1, <2>2, InFlightFacts DEF DagInv, FlightPending
  <2>4. n \notin Running /\ n \notin Reported
    BY <2>1 DEF DagInv, ResumeInv, DispatchInv, OnePlace
  <2>5. Running' = Running \cup {n} /\ Reported' = Reported
    BY <1>0, <1>2 DEF TakeTask, Running, Reported, DagInv, ResumeInv, DispatchInv, TypeOK
  <2>6. Seen' = [Seen EXCEPT ![n] = "Running"]
    BY <1>0, <2>5 DEF Seen
  <2>7. Seen[n] = "Pending" /\ \A d \in g.deps[n] : Seen[d] = "Success"
    BY <2>3, <2>4 DEF Seen, Done, InFlight
  <2>8. Phase = "running"
    BY <2>2, PhaseValue DEF Active
  <2>9. Abstract!Start(n)
    BY <1>0, <1>1, <2>3, <2>6, <2>7, <2>8 DEF Abstract!Start
  <2> QED
    BY <2>9 DEF Abstract!Next
<1>3. ASSUME NEW s \in Outcome, SendResult(w, s) PROVE Seen' = Seen
  <2> DEFINE n == worker[w]
  <2>1. /\ n \in Running /\ n \in Node /\ s # "Pending"
    BY <1>3 DEF SendResult, Running, Outcome
  <2>2. Reported' = Reported \cup {n}
    BY <1>3, <2>1 DEF SendResult, Reported, DagInv, ResumeInv, DispatchInv, TypeOK
  <2>3. Running' = Running \ {n}
    BY <1>0, <1>3 DEF SendResult, Running, DagInv, ResumeInv, DispatchInv, OnePlace, TypeOK
  <2>4. Running' \cup Reported' = Running \cup Reported
    BY <2>1, <2>2, <2>3
  <2> QED
    BY <1>0, <2>4 DEF Seen
<1>4. CASE WorkerDone(w)
  <2>1. Running' = Running /\ Reported' = Reported
    BY <1>0, <1>4 DEF WorkerDone, Running, Reported, DagInv, ResumeInv, DispatchInv, TypeOK
  <2>2. Seen' = Seen
    BY <1>0, <2>1 DEF Seen
  <2> QED
    BY <1>0, <1>1, <2>2, Stutters
<1> QED
  BY <1>0, <1>1, <1>2, <1>3, <1>4, Stutters DEF WorkerStep

\* A successful result settles its node and no other.
LEMMA SucceedsRefines ==
    ASSUME OneRun, DagInv, DagInv', NEW n \in Node, ResultSucceeds(n)
    PROVE  Abstract!Next
<1>1. /\ Active /\ g' = g /\ n \in InFlight /\ n \in Reported
      /\ Running' = Running /\ Reported' = Reported \ {n} /\ n \notin Running
      /\ pc = "loop" /\ pc' = "loop"
  BY SucceedsEffect DEF DagInv, ResumeInv, DispatchInv, Active, InFlight
<1>2. n \in g.nodes
  BY <1>1, InFlightFacts DEF DagInv
<1>3. nodeStatus' = [nodeStatus EXCEPT ![n] = "Success"] /\ final' = final
  BY DEF ResultSucceeds
<1>4. /\ Seen[n] = "Running" /\ Seen'[n] = "Success"
      /\ Seen' = [Seen EXCEPT ![n] = "Success"]
  BY <1>1, <1>3 DEF Seen, DagInv, ResumeInv, DispatchInv, TypeOK
<1>5. Phase = "running" /\ Phase' = "running"
  BY <1>1 DEF Phase
<1>6. g.nodes \subseteq Node /\ \A m \in Node : g.deps[m] \subseteq Node
  BY GraphShape DEF DagInv, ResumeInv, DispatchInv, TypeOK
<1>7. ASSUME NEW m \in g.nodes \ {n}, Seen[m] = "Pending"
      PROVE  \A d \in g.deps[m] : Seen'[d] \notin {"Failed", "Skipped"}
  <2>1. nodeStatus[m] = "Pending"
    BY <1>6, <1>7 DEF Seen
  <2>2. \A d \in g.deps[m] : nodeStatus[d] \notin {"Failed", "Skipped"}
    BY <1>1, <2>1 DEF DagInv, Unblocked
  <2> QED
    BY <1>4, <1>6, <2>2 DEF Seen
<1>8. Seen' = [m \in Node |-> IF m = n THEN Seen'[n]
                              ELSE IF m \in {} THEN "Skipped" ELSE Seen[m]]
  BY <1>4 DEF Seen
<1>9. Abstract!Settle(n, {})
  BY <1>1, <1>2, <1>3, <1>4, <1>5, <1>7, <1>8 DEF Abstract!Settle, Abstract!Blocked
<1> QED
  BY <1>9 DEF Abstract!Next

\* A failed or skipped result settles its node, and with it exactly the nodes
\* that can no longer run.
LEMMA SkipsRefines ==
    ASSUME OneRun, DagInv, DagInv', NEW n \in Node, NEW s \in Outcome, ResultSkips(n, s)
    PROVE  Abstract!Next
<1> DEFINE st   == [nodeStatus EXCEPT ![n] = s]
           skip == Cascade(n, st)
<1>1. /\ Active /\ g' = g /\ n \in InFlight /\ n \in Reported
      /\ Running' = Running /\ Reported' = Reported \ {n} /\ n \notin Running
      /\ pc = "loop" /\ pc' = "loop" /\ s \in {"Failed", "Skipped"}
  BY SkipsEffect DEF DagInv, ResumeInv, DispatchInv, Active, InFlight, ResultSkips
<1>2. n \in g.nodes
  BY <1>1, InFlightFacts DEF DagInv
<1>3. \A m \in skip : /\ m \in g.nodes /\ m # n /\ nodeStatus[m] = "Pending"
                       /\ m \notin InFlight
  BY <1>1, CascadeUnsent DEF DagInv
<1>4. /\ CascadeClosed(n, skip, st)
      /\ \A m \in skip : g.deps[m] \cap (skip \cup {n}) # {}
  BY CascadeFacts
<1>5. /\ nodeStatus' = [m \in Node |-> IF m \in skip THEN "Skipped" ELSE st[m]]
      /\ final' = final
  BY DEF ResultSkips
<1>6. g.nodes \subseteq Node /\ \A m \in Node : g.deps[m] \subseteq Node
  BY GraphShape DEF DagInv, ResumeInv, DispatchInv, TypeOK
<1> HIDE DEF skip
<1>7. \A m \in Node : st[m] = IF m = n THEN s ELSE nodeStatus[m]
  BY DEF DagInv, ResumeInv, DispatchInv, TypeOK
<1>8. skip \subseteq Node /\ \A m \in skip : m \notin Running \cup Reported
  BY <1>3, <1>6 DEF InFlight
<1> HIDE DEF st
<1>9. \A m \in Node : Seen'[m] = IF m = n THEN s
                                 ELSE IF m \in skip THEN "Skipped" ELSE Seen[m]
  BY <1>1, <1>3, <1>5, <1>7, <1>8 DEF Seen
<1>10. Seen[n] = "Running" /\ Seen'[n] = s /\ \A m \in skip : Seen[m] = "Pending"
  BY <1>1, <1>3, <1>8, <1>9 DEF Seen
<1>11. Seen' = [m \in Node |-> IF m = n THEN Seen'[n]
                               ELSE IF m \in skip THEN "Skipped" ELSE Seen[m]]
  BY <1>9, <1>10 DEF Seen
<1>12. Phase = "running" /\ Phase' = "running"
  BY <1>1 DEF Phase
<1>13. ASSUME NEW m \in g.nodes \ {n}
       PROVE  m \in skip <=> Seen[m] = "Pending"
                             /\ \E d \in g.deps[m] : Seen'[d] \in {"Failed", "Skipped"}
  <2>1. m \in Node /\ g.deps[m] \subseteq Node
    BY <1>6
  <2>2. ASSUME m \in skip
        PROVE  Seen[m] = "Pending" /\ \E d \in g.deps[m] : Seen'[d] \in {"Failed", "Skipped"}
    <3>1. PICK d \in g.deps[m] : d \in skip \cup {n}
      BY <1>4, <2>2
    <3>2. Seen'[d] \in {"Failed", "Skipped"}
      BY <1>1, <1>8, <1>9, <3>1
    <3> QED
      BY <1>10, <2>2, <3>2
  <2>3. ASSUME Seen[m] = "Pending", NEW d \in g.deps[m], Seen'[d] \in {"Failed", "Skipped"}
        PROVE  m \in skip
    <3>1. nodeStatus[m] = "Pending" /\ d \in Node
      BY <2>1, <2>3 DEF Seen
    <3>2. nodeStatus[d] \notin {"Failed", "Skipped"}
      BY <1>1, <3>1 DEF DagInv, Unblocked
    <3>3. Seen[d] \notin {"Failed", "Skipped"}
      BY <3>1, <3>2 DEF Seen
    <3>4. d \in skip \cup {n}
      BY <1>9, <2>3, <3>1, <3>3
    <3>5. st[m] = "Pending"
      BY <1>7, <2>1, <3>1
    <3> QED
      BY <1>4, <3>4, <3>5 DEF CascadeClosed
  <2> QED
    BY <2>2, <2>3
<1>14. Abstract!Settle(n, skip)
  <2>1. \A m \in skip : m \in g.nodes /\ Seen[m] = "Pending"
    BY <1>3, <1>10
  <2>2. Seen'[n] \in {"Success", "Failed", "Skipped"}
    BY <1>1, <1>10
  <2>3. g' = g /\ Phase' = Phase /\ final' = final
    BY <1>1, <1>5, <1>12
  <2> QED
    BY <1>2, <1>10, <1>11, <1>12, <1>13, <2>1, <2>2, <2>3
    DEF Abstract!Settle, Abstract!Blocked
<1>15. skip \in SUBSET Node
  BY <1>8
<1> QED
  BY <1>14, <1>15 DEF Abstract!Next

\* Execute returns when DagRun may end, with the verdict DagRun gives.
LEMMA ReturnRefines ==
    ASSUME OneRun, DagInv, DagInv', Return
    PROVE  Abstract!Next
<1>1. /\ pc = "closing" /\ pc' = "returned" /\ g' = g /\ nodeStatus' = nodeStatus
      /\ final' = FinalStatus
  BY DEF Return
<1>2. InFlight = {} /\ \A n \in g.nodes : nodeStatus[n] # "Pending"
  BY <1>1, EndFacts DEF DagInv, AllProcessedAtClose
<1>3. Running = {} /\ Reported = {} /\ Running' = {} /\ Reported' = {}
  <2>1. tasks' = {} /\ Reported' = {} /\ \A w \in Worker : worker'[w] = Exited
    BY <1>1 DEF DagInv, ResumeInv, DispatchInv, Quiet
  <2> QED
    BY <1>2, <2>1, WorkerStateAssumption DEF InFlight, Running
<1>4. Seen = nodeStatus /\ Seen' = nodeStatus
  BY <1>1, <1>3 DEF Seen, DagInv, ResumeInv, DispatchInv, TypeOK
<1>5. Phase = "running" /\ Phase' = "ended"
  BY <1>1 DEF Phase
<1>6. \A n \in g.nodes : nodeStatus[n] \in {"Success", "Failed", "Skipped"}
  BY <1>1, <1>2, StatusFacts DEF DagInv, Active, Outcome
<1>7. Abstract!End
  BY <1>1, <1>4, <1>5, <1>6 DEF Abstract!End, FinalStatus
<1> QED
  BY <1>7 DEF Abstract!Next

\* An uninterrupted execution, with its channels, counters and workers, does what
\* DagRun promises: every step of Executor is a step of DagRun or nothing DagRun
\* sees.
THEOREM Refinement ==
    ASSUME OneRun
    PROVE  Spec => ImplementsDagRun
<1>1. Init => DagInv
  <2> SUFFICES ASSUME Init PROVE DagInv
    OBVIOUS
  <2>1. ResumeInv
    BY ResumeInit
  <2> QED
    BY <2>1 DEF DagInv, FlightPending, Unblocked, Active, Init
<1>2. DagInv /\ [Next]_vars => DagInv'
  BY DagStep
<1>3. DagInv /\ DagInv' /\ [Next]_vars => [Abstract!Next]_(Abstract!dvars)
  <2> SUFFICES ASSUME DagInv, DagInv', [Next]_vars PROVE [Abstract!Next]_(Abstract!dvars)
    OBVIOUS
  <2>1. CASE CloseTasks
    <3>1. Phase' = Phase /\ Seen' = Seen /\ g' = g /\ final' = final
      BY <2>1 DEF CloseTasks, Phase, Seen, Running, Reported
    <3> QED
      BY <3>1, Stutters
  <2>2. CASE Crash
    BY <2>2, FirstStart DEF Crash, DagInv
  <2>3. CASE UNCHANGED vars
    <3>1. Phase' = Phase /\ Seen' = Seen /\ g' = g /\ final' = final
      BY <2>3 DEF vars, Phase, Seen, Running, Reported
    <3> QED
      BY <3>1, Stutters
  <2> QED
    BY <2>1, <2>2, <2>3, StartRefines, WorkerRefines, SucceedsRefines, SkipsRefines,
       ReturnRefines
    DEF Next, MainStep
<1> QED
  BY <1>1, <1>2, <1>3, InitRefines, PTL DEF Spec, ImplementsDagRun, Abstract!Spec
=============================================================================
