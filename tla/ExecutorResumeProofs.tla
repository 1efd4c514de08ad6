------------------------ MODULE ExecutorResumeProofs ------------------------
(* Machine-checked proofs about what Executor does with outputs, counters   *)
(* and checkpoints.                                                         *)
EXTENDS ExecutorProofs

-----------------------------------------------------------------------------
(* Outputs *)

\* Everything that is Done has its output in the state bag.
DoneMerged == pc \in {"loop", "closing"} => Done \subseteq merged

\* A result is merged in the very step that makes its node Done.
LEMMA DoneMergedStep ==
    DispatchInv /\ DoneMerged /\ [Next]_vars => DoneMerged'
<1> SUFFICES ASSUME DispatchInv, DoneMerged, [Next]_vars PROVE DoneMerged'
  OBVIOUS
<1>0. TypeOK'
  BY TypeStep DEF DispatchInv
<1>1. ASSUME NEW gr \in Graphs, NEW c \in Loaded, Execute(gr, c) PROVE DoneMerged'
  <2>1. Running' = {} /\ Reported' = {}
    BY <1>1, WorkerStateAssumption DEF Execute, Running, Reported
  <2>2. Done' = {}
    BY <1>1, <2>1 DEF InFlight, Done, Execute
  <2> QED
    BY <2>2 DEF DoneMerged
<1>2. ASSUME NEW gr \in Graphs, RejectGraph(gr) \/ dryRun(gr) PROVE DoneMerged'
  BY <1>2 DEF RejectGraph, dryRun, DoneMerged
<1>3. ASSUME NEW n \in Node, ResultSucceeds(n) PROVE DoneMerged'
  <2>1. Done' = Done \cup {n} /\ pc = "loop"
    BY <1>0, <1>3, SucceedsEffect
  <2>2. merged' = merged \cup {n}
    BY <1>3 DEF ResultSucceeds, Receive, MergeOutput
  <2> QED
    BY <2>1, <2>2 DEF DoneMerged
<1>4. ASSUME NEW n \in Node, NEW s \in Outcome, ResultSkips(n, s) PROVE DoneMerged'
  <2>1. Done' = Done /\ pc = "loop"
    BY <1>0, <1>4, SkipsEffect
  <2>2. merged' = merged \cup {n}
    BY <1>4 DEF ResultSkips, Receive, MergeOutput
  <2> QED
    BY <2>1, <2>2 DEF DoneMerged
<1>5. CASE CloseTasks
  BY <1>5 DEF CloseTasks, DoneMerged, Done, InFlight, Running, Reported
<1>6. CASE Return \/ Crash
  BY <1>6 DEF Return, Crash, DoneMerged
<1>7. ASSUME NEW w \in Worker, WorkerStep(w) PROVE DoneMerged'
  <2>1. Done' = Done
    BY <1>0, <1>7, DispatchWorker
  <2>2. merged' = merged /\ pc' = pc
    BY <1>7 DEF WorkerStep, TakeTask, SendResult, WorkerDone
  <2> QED
    BY <2>1, <2>2 DEF DoneMerged
<1>8. CASE UNCHANGED vars
  BY <1>8 DEF vars, DoneMerged, Done, InFlight, Running, Reported
<1> QED
  BY <1>1, <1>2, <1>3, <1>4, <1>5, <1>6, <1>7, <1>8 DEF Next, Start, MainStep

\* A node that is queued, runs or has reported found the outputs of all its
\* dependencies in the state bag, in every execution and after every restart.
THEOREM OutputsReachDependents == Spec => []OutputsVisible
<1>1. Init => DoneMerged
  BY DEF Init, DoneMerged
<1>2. ASSUME DispatchInv, DoneMerged PROVE OutputsVisible
  <2>1. CASE pc \in {"idle", "returned"}
    <3>1. Running = {} /\ InFlight = {}
      BY <1>2, <2>1, WorkerStateAssumption
      DEF DispatchInv, Quiet, Running, InFlight
    <3> QED
      BY <3>1 DEF OutputsVisible
  <2>2. CASE pc \in {"loop", "closing"}
    <3>1. \A n \in InFlight : n \in Node /\ sent[n] = 1
      BY <1>2 DEF DispatchInv, FlightSent, InFlight, Running, Reported, TypeOK
    <3> QED
      BY <1>2, <2>2, <3>1 DEF DispatchInv, SentReady, DoneMerged, OutputsVisible
  <2> QED
    BY <1>2, <2>1, <2>2 DEF DispatchInv, TypeOK
<1>3. Spec => []DoneMerged
  BY <1>1, DoneMergedStep, DispatchCorrect, PTL DEF Spec
<1> QED
  BY <1>2, <1>3, DispatchCorrect, PTL

-----------------------------------------------------------------------------
(* Restarts with an unchanged plan. A checkpoint is keyed by pipeline and    *)
(* says nothing of the plan it was made for (checkpoint.go), so what follows *)
(* needs the pipeline to be planned the same way every time; that a changed  *)
(* plan breaks it is what the README describes.                              *)

\* The pipeline is started once, or with the same graph every time.
FixedPlan == MaxStarts <= 1 \/ \A gr, gs \in Graphs : gr = gs

\* A checkpoint that fits graph gr: it records nodes of the graph only, with how
\* they ended, and whatever they depended on had ended with Success.
Fits(gr, c) ==
    \A n \in Node : c.nodes[n] # "Pending" =>
        /\ n \in gr.nodes
        /\ c.nodes[n] \in Outcome
        /\ \A d \in gr.deps[n] : c.nodes[d] = "Success"

Active == pc \in {"loop", "closing"}

\* Nothing has happened before the first start.
Fresh ==
    starts = 0 => /\ pc = "idle" /\ file = NoFile /\ final = "Pending"
                  /\ nodeStatus = [n \in Node |-> "Pending"]

\* What is on disk fits the graph.
FileFits == file.present => Fits(g, file)

\* A node that was skipped behind another one is held back by it for good: the
\* other one is over and did not succeed.
HeldBack(m) ==
    /\ sent[m] = 0
    /\ \E d \in g.deps[m] : d \notin InFlight /\ nodeStatus[d] \in {"Failed", "Skipped"}

\* The nodes that have ended one way or another.
Over == {n \in g.nodes : nodeStatus[n] # "Pending" /\ n \notin InFlight}

\* What Execute knows of the nodes while it runs. The checkpoint in memory fits
\* the graph and records no node in flight as completed; Execute's own results
\* agree with it but for the nodes it skipped behind others; and no more nodes
\* are counted than have ended.
Bookkeeping ==
    Active =>
        /\ Fits(g, ckpt)
        /\ Done \subseteq {n \in Node : ckpt.nodes[n] = "Success"}
        /\ InFlight \subseteq g.nodes
        /\ \A n \in InFlight : ckpt.nodes[n] \notin {"Success", "Skipped"}
        /\ \A n \in g.nodes :
              \/ nodeStatus[n] = ckpt.nodes[n]
              \/ ckpt.nodes[n] = "Pending" /\ nodeStatus[n] = "Skipped" /\ HeldBack(n)
        /\ processed <= Cardinality(Over)
        /\ pc = "closing" => processed >= Cardinality(g.nodes)

ResumeInv == DispatchInv /\ Fresh /\ FileFits /\ Bookkeeping /\ SuccessIsEarned

\* The cascade reaches every Pending node behind n, and only those that have
\* something in it, or n itself, right before them.
LEMMA CascadeFacts ==
    ASSUME NEW n, NEW st
    PROVE  /\ Cascade(n, st) \subseteq g.nodes
           /\ \A m \in Cascade(n, st) : st[m] = "Pending"
           /\ CascadeClosed(n, Cascade(n, st), st)
           /\ \A m \in Cascade(n, st) : g.deps[m] \cap (Cascade(n, st) \cup {n}) # {}
<1> DEFINE skip == Cascade(n, st)
<1>1. skip \subseteq g.nodes /\ \A m \in skip : st[m] = "Pending"
  BY DEF Cascade
<1>2. \A m \in skip, S \in SUBSET g.nodes : CascadeClosed(n, S, st) => m \in S
  BY DEF Cascade
<1>3. CascadeClosed(n, skip, st)
  <2> SUFFICES ASSUME NEW m \in g.nodes, st[m] = "Pending",
                      g.deps[m] \cap (skip \cup {n}) # {},
                      NEW S \in SUBSET g.nodes, CascadeClosed(n, S, st)
               PROVE  m \in S
    BY DEF CascadeClosed, Cascade
  <2>1. skip \subseteq S
    BY <1>2
  <2> HIDE DEF skip
  <2>2. g.deps[m] \cap (S \cup {n}) # {}
    BY <2>1
  <2> QED
    BY <2>2 DEF CascadeClosed
<1>4. ASSUME NEW m \in skip PROVE g.deps[m] \cap (skip \cup {n}) # {}
  <2> SUFFICES ASSUME g.deps[m] \cap (skip \cup {n}) = {} PROVE FALSE
    OBVIOUS
  <2> HIDE DEF skip
  <2>1. CascadeClosed(n, skip \ {m}, st)
    BY <1>3 DEF CascadeClosed
  <2>2. skip \ {m} \in SUBSET g.nodes
    BY <1>1
  <2> QED
    BY <1>2, <2>1, <2>2
<1> QED
  BY <1>1, <1>3, <1>4

\* A node in flight has not ended in this execution, and only an entry node that
\* failed in an earlier one has a status at all.
LEMMA InFlightFacts ==
    ASSUME ResumeInv, Active, NEW n \in InFlight
    PROVE  /\ n \in Node /\ n \in g.nodes /\ sent[n] = 1
           /\ g.deps[n] \subseteq Done
           /\ nodeStatus[n] = ckpt.nodes[n]
           /\ nodeStatus[n] \notin {"Success", "Skipped"}
<1>1. n \in Node /\ sent[n] = 1
  BY DEF ResumeInv, DispatchInv, FlightSent, InFlight, Running, Reported, TypeOK
<1>2. g.deps[n] \subseteq Done
  BY <1>1 DEF ResumeInv, DispatchInv, SentReady, Active
<1>3. n \in g.nodes /\ ckpt.nodes[n] \notin {"Success", "Skipped"}
  BY DEF ResumeInv, Bookkeeping
<1>4. nodeStatus[n] = ckpt.nodes[n]
  BY <1>1, <1>3 DEF ResumeInv, Bookkeeping, HeldBack
<1> QED
  BY <1>1, <1>2, <1>3, <1>4

\* A dependent that is released has neither been restored nor skipped.
LEMMA ReleasedPending ==
    ASSUME ResumeInv, TypeOK', NEW n \in Node, ResultSucceeds(n),
           NEW m \in Ready(n, inDegree')
    PROVE  nodeStatus[m] = "Pending" /\ ckpt.nodes[m] = "Pending"
<1>1. /\ Active /\ n \in InFlight /\ m \in g.nodes /\ m \in Node /\ n \in g.deps[m]
      /\ Done' = Done \cup {n} /\ g' = g /\ pc' = "loop"
  BY SucceedsEffect DEF ResumeInv, Active, InFlight
<1>2. ckpt.nodes[m] = "Pending"
  BY <1>1 DEF ResumeInv, Bookkeeping, Fits
<1>3. g.deps[m] \subseteq Done \cup {n}
  <2>1. DispatchInv' /\ sent'[m] = 1
    BY DispatchSucceeds, SucceedsEffect DEF ResumeInv
  <2> QED
    BY <1>1, <2>1 DEF DispatchInv, SentReady
<1>4. ~HeldBack(m)
  BY <1>1, <1>3 DEF HeldBack, Done
<1> QED
  BY <1>1, <1>2, <1>4 DEF ResumeInv, Bookkeeping

\* A checkpoint written during the run fits the graph if the one in memory does.
LEMMA SavedFits ==
    ASSUME FileFits, Fresh, Active, NEW c, Fits(g, c),
           file' = c \/ file' = file, g' = g, starts' = starts
    PROVE  FileFits' /\ starts # 0
BY DEF FileFits, Fresh, Active, Fits

\* A successful result is recorded, counted, and releases only nodes that are new.
LEMMA ResumeSucceeds ==
    ASSUME ResumeInv, TypeOK', NEW n \in Node, ResultSucceeds(n)
    PROVE  ResumeInv'
<1> DEFINE ready == Ready(n, inDegree')
<1>0. DispatchInv'
  BY DispatchSucceeds DEF ResumeInv
<1>1. /\ pc = "loop" /\ pc' = "loop" /\ g' = g /\ Active /\ n \in InFlight
      /\ InFlight' = (InFlight \ {n}) \cup ready
      /\ Done' = Done \cup {n}
      /\ sent' = [m \in Node |-> IF m \in ready THEN sent[m] + 1 ELSE sent[m]]
      /\ ready \subseteq g.nodes /\ n \notin ready
  BY SucceedsEffect DEF ResumeInv, Active, InFlight
<1>2. /\ n \in g.nodes /\ g.deps[n] \subseteq Done
      /\ nodeStatus[n] \notin {"Success", "Skipped"}
  BY <1>1, InFlightFacts
<1>3. \A m \in ready : nodeStatus[m] = "Pending" /\ ckpt.nodes[m] = "Pending"
  BY ReleasedPending
<1> HIDE DEF ready
<1>4. /\ nodeStatus' = [nodeStatus EXCEPT ![n] = "Success"]
      /\ ckpt' = [ckpt EXCEPT !.nodes[n] = "Success"]
      /\ processed' = processed + Counted(n)
      /\ file' = ckpt' \/ file' = file
      /\ final' = final /\ starts' = starts
  BY DEF ResultSucceeds, Receive, saveNodeState, Save
<1>5. /\ ckpt'.nodes[n] = "Success" /\ \A m \in Node \ {n} : ckpt'.nodes[m] = ckpt.nodes[m]
      /\ nodeStatus'[n] = "Success" /\ \A m \in Node \ {n} : nodeStatus'[m] = nodeStatus[m]
  BY <1>4 DEF ResumeInv, DispatchInv, TypeOK, Checkpoint
<1>6. /\ Fits(g, ckpt)
      /\ \A d \in Done : ckpt.nodes[d] = "Success"
      /\ InFlight \subseteq g.nodes
      /\ \A m \in InFlight : ckpt.nodes[m] \notin {"Success", "Skipped"}
      /\ processed <= Cardinality(Over)
  BY <1>1 DEF ResumeInv, Bookkeeping
<1>7. g.nodes \subseteq Node /\ \A m \in Node : g.deps[m] \subseteq Node
  BY GraphShape DEF ResumeInv, DispatchInv, TypeOK
<1>8. Fits(g, ckpt')
  BY <1>2, <1>5, <1>6, <1>7 DEF Fits, Outcome
<1>9. Done' \subseteq {m \in Node : ckpt'.nodes[m] = "Success"}
  BY <1>1, <1>5, <1>6 DEF Done
<1>10. /\ InFlight' \subseteq g.nodes
       /\ \A m \in InFlight' : ckpt'.nodes[m] \notin {"Success", "Skipped"}
  BY <1>1, <1>3, <1>5, <1>6, <1>7
<1>11. ASSUME NEW m \in g.nodes
       PROVE  \/ nodeStatus'[m] = ckpt'.nodes[m]
              \/ ckpt'.nodes[m] = "Pending" /\ nodeStatus'[m] = "Skipped" /\ HeldBack(m)'
  <2>1. CASE m = n
    BY <1>5, <2>1
  <2>2. CASE m # n /\ nodeStatus[m] = ckpt.nodes[m]
    BY <1>5, <1>7, <2>2
  <2>3. CASE m # n /\ ckpt.nodes[m] = "Pending" /\ nodeStatus[m] = "Skipped" /\ HeldBack(m)
    <3>1. m \notin ready /\ sent'[m] = 0
      BY <1>1, <1>3, <1>7, <2>3 DEF HeldBack
    <3>2. PICK d \in g.deps[m] : d \notin InFlight /\ nodeStatus[d] \in {"Failed", "Skipped"}
      BY <2>3 DEF HeldBack
    <3>3. d # n /\ d \notin ready /\ d \in Node
      BY <1>1, <1>3, <1>7, <3>2
    <3>4. HeldBack(m)'
      BY <1>1, <1>5, <3>1, <3>2, <3>3 DEF HeldBack
    <3> QED
      BY <1>5, <1>7, <2>3, <3>4
  <2> QED
    BY <1>1, <2>1, <2>2, <2>3 DEF ResumeInv, Bookkeeping
<1>12. processed' <= Cardinality(Over')
  <2>1. Over' = Over \cup {n} /\ n \notin Over
    BY <1>1, <1>2, <1>3, <1>5, <1>7 DEF Over
  <2>2. IsFiniteSet(Over) /\ Cardinality(Over) \in Nat
    BY <1>7, NodeSets DEF Over
  <2>3. Cardinality(Over') = Cardinality(Over) + 1
    BY <2>1, <2>2, FS_AddElement
  <2> QED
    BY <1>4, <1>6, <2>2, <2>3 DEF Counted, ResumeInv, DispatchInv, TypeOK
<1>13. Bookkeeping'
  BY <1>1, <1>8, <1>9, <1>10, <1>11, <1>12 DEF Bookkeeping
<1>14. FileFits' /\ Fresh'
  BY <1>1, <1>4, <1>8, SavedFits DEF ResumeInv, Fresh
<1>15. SuccessIsEarned'
  BY <1>1 DEF SuccessIsEarned
<1> QED
  BY <1>0, <1>13, <1>14, <1>15 DEF ResumeInv

\* The nodes that the cascade skips were never sent.
LEMMA CascadeUnsent ==
    ASSUME ResumeInv, Active, NEW n \in InFlight, NEW s \in {"Failed", "Skipped"},
           NEW m \in Cascade(n, [nodeStatus EXCEPT ![n] = s])
    PROVE  m \in g.nodes /\ m # n /\ nodeStatus[m] = "Pending" /\ sent[m] = 0
           /\ m \notin InFlight
<1> DEFINE st   == [nodeStatus EXCEPT ![n] = s]
           skip == Cascade(n, st)
<1>1. /\ skip \subseteq g.nodes /\ \A k \in skip : st[k] = "Pending"
      /\ \A k \in skip : g.deps[k] \cap (skip \cup {n}) # {}
  BY CascadeFacts
<1>2. g.nodes \subseteq Node /\ n \in Node /\ n \notin Done
  BY GraphShape, InFlightFacts DEF ResumeInv, DispatchInv, TypeOK, Done
<1> HIDE DEF skip
<1>3. \A k \in skip : k # n /\ nodeStatus[k] = "Pending" /\ k \in Node /\ k \notin Done
  BY <1>1, <1>2 DEF ResumeInv, DispatchInv, TypeOK, Done
<1>4. m \in skip
  BY DEF skip
<1>5. sent[m] # 1
  <2>1. sent[m] = 1 => g.deps[m] \subseteq Done
    BY <1>3, <1>4 DEF ResumeInv, DispatchInv, SentReady, Active
  <2> QED
    BY <1>1, <1>2, <1>3, <1>4, <2>1
<1>6. sent[m] = 0
  BY <1>3, <1>4, <1>5 DEF ResumeInv, DispatchInv, SentOnce, TypeOK
<1>7. m \notin InFlight
  BY <1>5 DEF ResumeInv, DispatchInv, FlightSent
<1> QED
  BY <1>1, <1>3, <1>4, <1>6, <1>7

\* A failed or skipped result is recorded, and counted with the nodes behind it.
LEMMA ResumeSkips ==
    ASSUME ResumeInv, TypeOK', NEW n \in Node, NEW s \in Outcome, ResultSkips(n, s)
    PROVE  ResumeInv'
<1> DEFINE st   == [nodeStatus EXCEPT ![n] = s]
           skip == Cascade(n, st)
<1>0. DispatchInv'
  BY DispatchSkips DEF ResumeInv
<1>1. /\ pc = "loop" /\ pc' = "loop" /\ g' = g /\ Active /\ n \in InFlight
      /\ InFlight' = InFlight \ {n}
      /\ Done' = Done /\ sent' = sent /\ n \notin Done
  BY SkipsEffect DEF ResumeInv, Active, InFlight
<1>2. n \in g.nodes /\ g.deps[n] \subseteq Done
  BY <1>1, InFlightFacts
<1>3. s \in {"Failed", "Skipped"}
  BY DEF ResultSkips
<1>4. \A m \in skip : m \in g.nodes /\ m # n /\ nodeStatus[m] = "Pending"
                       /\ sent[m] = 0 /\ m \notin InFlight
  BY <1>1, <1>3, CascadeUnsent
<1>5. /\ nodeStatus' = [m \in Node |-> IF m \in skip THEN "Skipped" ELSE st[m]]
      /\ ckpt' = [ckpt EXCEPT !.nodes[n] = s]
      /\ processed' = processed + Counted(n) + Cardinality(skip)
      /\ file' = ckpt' \/ file' = file
      /\ final' = final /\ starts' = starts
  BY DEF ResultSkips, Receive, saveNodeState, Save
<1>6. \A m \in skip : g.deps[m] \cap (skip \cup {n}) # {}
  BY CascadeFacts
<1> HIDE DEF skip
<1>7. g.nodes \subseteq Node /\ \A m \in Node : g.deps[m] \subseteq Node
  BY GraphShape DEF ResumeInv, DispatchInv, TypeOK
<1>8. /\ ckpt'.nodes[n] = s /\ \A m \in Node \ {n} : ckpt'.nodes[m] = ckpt.nodes[m]
      /\ nodeStatus'[n] = s
      /\ \A m \in skip : nodeStatus'[m] = "Skipped"
      /\ \A m \in Node \ (skip \cup {n}) : nodeStatus'[m] = nodeStatus[m]
  BY <1>4, <1>5, <1>7 DEF ResumeInv, DispatchInv, TypeOK, Checkpoint
<1>9. /\ Fits(g, ckpt)
      /\ \A d \in Done : ckpt.nodes[d] = "Success"
      /\ InFlight \subseteq g.nodes
      /\ \A m \in InFlight : ckpt.nodes[m] \notin {"Success", "Skipped"}
      /\ processed <= Cardinality(Over)
  BY <1>1 DEF ResumeInv, Bookkeeping
<1>10. Fits(g, ckpt')
  <2> SUFFICES ASSUME NEW m \in Node, ckpt'.nodes[m] # "Pending"
               PROVE  /\ m \in g.nodes
                      /\ ckpt'.nodes[m] \in Outcome
                      /\ \A d \in g.deps[m] : ckpt'.nodes[d] = "Success"
    BY DEF Fits
  <2>1. CASE m = n
    BY <1>1, <1>2, <1>7, <1>8, <1>9, <2>1
  <2>2. CASE m # n
    <3>1. /\ m \in g.nodes /\ ckpt.nodes[m] \in Outcome
          /\ \A d \in g.deps[m] : ckpt.nodes[d] = "Success"
      BY <1>8, <1>9, <2>2 DEF Fits
    <3>2. n \notin g.deps[m]
      BY <1>1, <1>9, <3>1
    <3> QED
      BY <1>7, <1>8, <2>2, <3>1, <3>2
  <2> QED
    BY <2>1, <2>2
<1>11. Done' \subseteq {m \in Node : ckpt'.nodes[m] = "Success"}
  BY <1>1, <1>8, <1>9 DEF Done
<1>12. /\ InFlight' \subseteq g.nodes
       /\ \A m \in InFlight' : ckpt'.nodes[m] \notin {"Success", "Skipped"}
  BY <1>1, <1>7, <1>8, <1>9
<1>13. ASSUME NEW m \in g.nodes
       PROVE  \/ nodeStatus'[m] = ckpt'.nodes[m]
              \/ ckpt'.nodes[m] = "Pending" /\ nodeStatus'[m] = "Skipped" /\ HeldBack(m)'
  <2>1. CASE m = n
    BY <1>8, <2>1
  <2>2. CASE m \in skip
    <3>1. ckpt'.nodes[m] = "Pending" /\ m # n
      BY <1>1, <1>4, <1>7, <1>8, <2>2 DEF ResumeInv, Bookkeeping
    <3>2. PICK d \in g.deps[m] : d \in skip \cup {n}
      BY <1>6, <2>2
    <3>3. d \notin InFlight' /\ nodeStatus'[d] \in {"Failed", "Skipped"}
      BY <1>1, <1>3, <1>4, <1>8, <3>2
    <3>4. HeldBack(m)'
      BY <1>1, <1>4, <2>2, <3>2, <3>3 DEF HeldBack
    <3> QED
      BY <1>8, <2>2, <3>1, <3>4
  <2>3. CASE m # n /\ m \notin skip /\ nodeStatus[m] = ckpt.nodes[m]
    BY <1>7, <1>8, <2>3
  <2>4. CASE m # n /\ m \notin skip /\ ckpt.nodes[m] = "Pending"
             /\ nodeStatus[m] = "Skipped" /\ HeldBack(m)
    <3>1. PICK d \in g.deps[m] : d \notin InFlight /\ nodeStatus[d] \in {"Failed", "Skipped"}
      BY <2>4 DEF HeldBack
    <3>2. d # n /\ d \notin skip /\ d \in Node
      BY <1>1, <1>4, <1>7, <3>1
    <3>3. HeldBack(m)'
      BY <1>1, <1>8, <2>4, <3>1, <3>2 DEF HeldBack
    <3> QED
      BY <1>7, <1>8, <2>4, <3>3
  <2> QED
    BY <1>1, <2>1, <2>2, <2>3, <2>4 DEF ResumeInv, Bookkeeping
<1>14. processed' <= Cardinality(Over')
  <2>1. /\ Over' = (Over \cup {n}) \cup skip /\ n \notin Over
        /\ (Over \cup {n}) \cap skip = {}
    BY <1>1, <1>2, <1>3, <1>4, <1>7, <1>8 DEF Over
  <2>2. /\ IsFiniteSet(Over) /\ Cardinality(Over) \in Nat
        /\ IsFiniteSet(skip) /\ Cardinality(skip) \in Nat
    <3>1. Over \in SUBSET Node /\ skip \in SUBSET Node
      BY <1>4, <1>7 DEF Over
    <3> QED
      BY <3>1, NodeSets
  <2>3. IsFiniteSet(Over \cup {n}) /\ Cardinality(Over \cup {n}) = Cardinality(Over) + 1
    BY <2>1, <2>2, FS_AddElement
  <2>4. Cardinality(Over') = Cardinality(Over) + 1 + Cardinality(skip)
    <3>1. Cardinality((Over \cup {n}) \cup skip)
            = Cardinality(Over \cup {n}) + Cardinality(skip)
              - Cardinality((Over \cup {n}) \cap skip)
      BY <2>2, <2>3, FS_Union
    <3>2. Cardinality((Over \cup {n}) \cap skip) = 0
      BY <2>1, FS_EmptySet
    <3> QED
      BY <2>1, <2>2, <2>3, <3>1, <3>2
  <2> QED
    BY <1>5, <1>9, <2>2, <2>4 DEF Counted, ResumeInv, DispatchInv, TypeOK
<1>15. Bookkeeping'
  BY <1>1, <1>10, <1>11, <1>12, <1>13, <1>14 DEF Bookkeeping
<1>16. FileFits' /\ Fresh'
  BY <1>1, <1>5, <1>10, SavedFits DEF ResumeInv, Fresh
<1>17. SuccessIsEarned'
  BY <1>1 DEF SuccessIsEarned
<1> QED
  BY <1>0, <1>15, <1>16, <1>17 DEF ResumeInv

\* Execute starts from a checkpoint that fits the plan.
LEMMA ResumeExecute ==
    ASSUME FixedPlan, ResumeInv, TypeOK', NEW gr \in Graphs, NEW c \in Loaded,
           Execute(gr, c)
    PROVE  ResumeInv'
<1>0. DispatchInv'
  BY DispatchExecute DEF ResumeInv
<1>1. /\ g' = gr /\ pc' = "loop" /\ starts' = starts + 1 /\ starts < MaxStarts
      /\ ckpt' = c /\ (file' = c \/ file' = file) /\ tasks' = EntryTasks(gr, c)
      /\ processed' = Cardinality(alreadyDone(c))
      /\ nodeStatus' = [n \in Node |-> IF n \in gr.nodes THEN c.nodes[n] ELSE "Pending"]
  BY DEF Execute, Save, RestoredCount
<1>2. Running' = {} /\ Reported' = {}
  BY WorkerStateAssumption DEF Execute, Running, Reported
<1>3. InFlight' = tasks' /\ Done' = {}
  BY <1>2 DEF InFlight, Done, Execute
<1>4. starts \in Nat /\ MaxStarts \in Nat
  BY StartsAssumption DEF ResumeInv, DispatchInv, TypeOK
<1>5. NoFile.present = FALSE
  BY DEF NoFile
<1>6. file.present => Fits(gr, file)
  <2> SUFFICES ASSUME file.present PROVE Fits(gr, file)
    OBVIOUS
  <2>1. starts # 0
    BY <1>5 DEF ResumeInv, Fresh
  <2>2. gr = g
    BY <1>1, <1>4, <2>1 DEF FixedPlan, ResumeInv, DispatchInv, TypeOK
  <2> QED
    BY <2>2 DEF ResumeInv, FileFits
<1>7. Fits(gr, NewCheckpoint)
  BY DEF Fits, NewCheckpoint
<1>8. Fits(gr, c)
  BY <1>6, <1>7 DEF Loaded
<1>9. gr.nodes \subseteq Node /\ c \in Checkpoint
  BY GraphShape, LoadedType DEF ResumeInv, DispatchInv
<1>10. processed' <= Cardinality(Over')
  <2>1. alreadyDone(c) \subseteq Over' /\ Over' \in SUBSET Node
    BY <1>1, <1>3, <1>8, <1>9 DEF Over, Fits, EntryTasks, alreadyDone
  <2> QED
    BY <1>1, <2>1, NodeSets, FS_Subset
<1>11. Bookkeeping'
  <2>1. InFlight' \subseteq gr.nodes
        /\ \A n \in InFlight' : c.nodes[n] \notin {"Success", "Skipped"}
    BY <1>1, <1>3, <1>9 DEF EntryTasks, alreadyDone
  <2>2. \A n \in gr.nodes : nodeStatus'[n] = c.nodes[n]
    BY <1>1, <1>9
  <2> QED
    BY <1>1, <1>3, <1>8, <1>10, <2>1, <2>2 DEF Bookkeeping
<1>12. FileFits'
  BY <1>1, <1>6, <1>8 DEF FileFits
<1>13. Fresh' /\ SuccessIsEarned'
  BY <1>1, <1>4 DEF Fresh, SuccessIsEarned
<1> QED
  BY <1>0, <1>11, <1>12, <1>13 DEF ResumeInv

\* A worker changes nothing the main goroutine keeps.
LEMMA ResumeWorker ==
    ASSUME ResumeInv, TypeOK', NEW w \in Worker, WorkerStep(w)
    PROVE  ResumeInv'
<1>1. DispatchInv' /\ InFlight' = InFlight /\ Done' = Done
  BY DispatchWorker DEF ResumeInv
<1>2. /\ g' = g /\ pc' = pc /\ nodeStatus' = nodeStatus /\ processed' = processed
      /\ sent' = sent /\ ckpt' = ckpt /\ file' = file /\ final' = final /\ starts' = starts
  BY DEF WorkerStep, TakeTask, SendResult, WorkerDone
<1> QED
  BY <1>1, <1>2
  DEF ResumeInv, Fresh, FileFits, Bookkeeping, Active, Fits, HeldBack, Over,
      SuccessIsEarned

\* At the end of the loop every node has ended, and none is in flight.
LEMMA EndFacts ==
    ASSUME ResumeInv, pc = "closing"
    PROVE  AllProcessedAtClose /\ Over = g.nodes
<1>1. /\ processed <= Cardinality(Over) /\ processed >= Cardinality(g.nodes)
      /\ InFlight \subseteq g.nodes
  BY DEF ResumeInv, Bookkeeping, Active
<1>2. g.nodes \in SUBSET Node /\ Over \in SUBSET g.nodes
  BY GraphShape DEF ResumeInv, DispatchInv, TypeOK, Over
<1>3. /\ IsFiniteSet(g.nodes) /\ Cardinality(g.nodes) \in Nat
      /\ IsFiniteSet(Over) /\ Cardinality(Over) \in Nat
  BY <1>2, NodeSets
<1>4. Cardinality(Over) <= Cardinality(g.nodes)
      /\ (Cardinality(g.nodes) = Cardinality(Over) => g.nodes = Over)
  BY <1>2, <1>3, FS_Subset
<1>5. Over = g.nodes
  BY <1>1, <1>3, <1>4 DEF ResumeInv, DispatchInv, TypeOK
<1> QED
  BY <1>1, <1>5 DEF Over, AllProcessedAtClose

\* Execute never records a node as Running.
LEMMA StatusFacts ==
    ASSUME ResumeInv, Active
    PROVE  \A n \in g.nodes : nodeStatus[n] \in {"Pending"} \cup Outcome
<1>1. g.nodes \subseteq Node
  BY GraphShape DEF ResumeInv, DispatchInv, TypeOK
<1>2. \A n \in g.nodes : ckpt.nodes[n] \in {"Pending"} \cup Outcome
  BY <1>1 DEF ResumeInv, Bookkeeping, Fits
<1> QED
  BY <1>2 DEF ResumeInv, Bookkeeping, Outcome

\* Execute returns Success only for what it has seen end that way.
LEMMA ResumeReturn == ResumeInv /\ TypeOK' /\ DispatchInv' /\ Return => ResumeInv'
<1> SUFFICES ASSUME ResumeInv, DispatchInv', Return PROVE ResumeInv'
  OBVIOUS
<1>1. /\ pc = "closing" /\ pc' = "returned" /\ g' = g /\ nodeStatus' = nodeStatus
      /\ final' = FinalStatus /\ starts' = starts
      /\ ckpt' = [ckpt EXCEPT !.status = FinalStatus]
      /\ file' = NoFile \/ file' = ckpt' \/ file' = file
  BY DEF Return, Save
<1>2. SuccessIsEarned'
  <2> SUFFICES ASSUME FinalStatus = "Success", NEW n \in g.nodes
               PROVE  nodeStatus[n] \in {"Success", "Skipped"}
    BY <1>1 DEF SuccessIsEarned
  <2>1. nodeStatus[n] # "Failed"
    BY DEF FinalStatus
  <2>2. nodeStatus[n] # "Pending"
    BY <1>1, EndFacts DEF Over
  <2> QED
    BY <1>1, <2>1, <2>2, StatusFacts DEF Active, Outcome
<1>3. Fits(g, ckpt) /\ starts # 0
  BY <1>1 DEF ResumeInv, Bookkeeping, Active, Fresh
<1>4. ckpt'.nodes = ckpt.nodes
  BY <1>1 DEF ResumeInv, DispatchInv, TypeOK, Checkpoint
<1>5. Fits(g, ckpt')
  BY <1>3, <1>4 DEF Fits
<1>6. FileFits'
  <2>1. NoFile.present = FALSE
    BY DEF NoFile
  <2>2. CASE file' = NoFile
    BY <2>1, <2>2 DEF FileFits
  <2>3. CASE file' = ckpt'
    BY <1>1, <1>5, <2>3 DEF FileFits
  <2>4. CASE file' = file
    BY <1>1, <2>4 DEF FileFits, ResumeInv
  <2> QED
    BY <1>1, <2>2, <2>3, <2>4
<1> QED
  BY <1>1, <1>2, <1>3, <1>6 DEF ResumeInv, Fresh, Bookkeeping, Active

\* Every step keeps the invariant, as long as the plan does not change.
LEMMA ResumeStep == FixedPlan /\ ResumeInv /\ [Next]_vars => ResumeInv'
<1> SUFFICES ASSUME FixedPlan, ResumeInv, [Next]_vars PROVE ResumeInv'
  OBVIOUS
<1>0. TypeOK' /\ DispatchInv'
  BY TypeStep, DispatchStep DEF ResumeInv, DispatchInv
<1>1. ASSUME NEW gr \in Graphs, RejectGraph(gr) PROVE ResumeInv'
  <2>1. starts \in Nat
    BY StartsAssumption DEF ResumeInv, DispatchInv, TypeOK
  <2> QED
    BY <1>0, <1>1, <2>1
    DEF RejectGraph, ResumeInv, Fresh, FileFits, Fits, Bookkeeping, Active, SuccessIsEarned
<1>2. ASSUME NEW gr \in Graphs, dryRun(gr) PROVE ResumeInv'
  <2>1. starts \in Nat /\ MaxStarts \in Nat /\ starts < MaxStarts
    BY <1>2, StartsAssumption DEF ResumeInv, DispatchInv, TypeOK, dryRun
  <2>2. NoFile.present = FALSE
    BY DEF NoFile
  <2>3. file.present => Fits(gr, file)
    <3> SUFFICES ASSUME file.present PROVE Fits(gr, file)
      OBVIOUS
    <3>1. starts # 0
      BY <2>2 DEF ResumeInv, Fresh
    <3>2. gr = g
      BY <2>1, <3>1 DEF FixedPlan, ResumeInv, DispatchInv, TypeOK
    <3> QED
      BY <3>2 DEF ResumeInv, FileFits
  <2>4. FileFits'
    BY <1>2, <2>3 DEF dryRun, FileFits
  <2> QED
    BY <1>0, <1>2, <2>1, <2>4
    DEF dryRun, ResumeInv, Fresh, Bookkeeping, Active, SuccessIsEarned
<1>3. CASE CloseTasks
  <2>1. InFlight' = InFlight /\ Done' = Done
    BY <1>3 DEF CloseTasks, InFlight, Running, Reported, Done
  <2>2. Active /\ Active' /\ Over' = Over
    BY <1>3, <2>1 DEF CloseTasks, Active, Over
  <2>3. Bookkeeping'
    BY <1>3, <2>1, <2>2 DEF CloseTasks, ResumeInv, Bookkeeping, Fits, HeldBack
  <2> QED
    BY <1>0, <1>3, <2>3
    DEF CloseTasks, ResumeInv, Fresh, FileFits, Fits, SuccessIsEarned
<1>4. CASE Return
  BY <1>0, <1>4, ResumeReturn
<1>5. CASE Crash
  <2>1. starts # 0
    BY <1>5 DEF Crash, ResumeInv, Fresh
  <2> QED
    BY <1>0, <1>5, <2>1
    DEF Crash, ResumeInv, Fresh, FileFits, Fits, Bookkeeping, Active, SuccessIsEarned
<1>6. CASE UNCHANGED vars
  <2>1. InFlight' = InFlight /\ Done' = Done
    BY <1>6 DEF vars, InFlight, Running, Reported, Done
  <2> QED
    BY <1>0, <1>6, <2>1
    DEF vars, ResumeInv, Fresh, FileFits, Bookkeeping, Active, Fits, HeldBack, Over,
        SuccessIsEarned
<1> QED
  BY <1>0, <1>1, <1>2, <1>3, <1>4, <1>5, <1>6, ResumeExecute, ResumeSucceeds,
     ResumeSkips, ResumeWorker
  DEF Next, Start, MainStep

\* Nothing is recorded in the beginning.
LEMMA ResumeInit == Init => ResumeInv
<1> SUFFICES ASSUME Init PROVE ResumeInv
  OBVIOUS
<1>1. DispatchInv
  BY DispatchInit
<1>2. file.present = FALSE
  BY DEF Init, NoFile
<1> QED
  BY <1>1, <1>2 DEF Init, ResumeInv, Fresh, FileFits, Bookkeeping, Active, SuccessIsEarned

\* The invariant holds across crashes and restarts of one plan.
LEMMA ResumeCorrect ==
    ASSUME FixedPlan
    PROVE  Spec => []ResumeInv
<1>1. ResumeInv /\ [Next]_vars => ResumeInv'
  BY ResumeStep
<1> QED
  BY <1>1, ResumeInit, PTL DEF Spec

-----------------------------------------------------------------------------
(* What follows for a pipeline that is planned the same way every time. *)

\* When Execute stops listening, every node has ended and no result is on its
\* way, restored nodes and cascading skips included.
THEOREM NothingPendingAtClose ==
    ASSUME FixedPlan
    PROVE  Spec => []AllProcessedAtClose
<1>1. ResumeInv => AllProcessedAtClose
  BY EndFacts DEF AllProcessedAtClose
<1> QED
  BY <1>1, ResumeCorrect, PTL

\* Execute returns Success only if every node succeeded or was skipped.
THEOREM SuccessEarned ==
    ASSUME FixedPlan
    PROVE  Spec => []SuccessIsEarned
<1>1. ResumeInv => SuccessIsEarned
  BY DEF ResumeInv
<1> QED
  BY <1>1, ResumeCorrect, PTL

\* Whenever the process dies, the file records no node as succeeded without
\* everything that node depends on: resuming from it skips no work.
THEOREM FileClosed ==
    ASSUME FixedPlan
    PROVE  Spec => []CheckpointClosed
<1>1. ResumeInv => CheckpointClosed
  <2>1. TypeOK /\ g \in Graphs => g.nodes \subseteq Node
    BY GraphShape
  <2> QED
    BY <2>1 DEF ResumeInv, DispatchInv, TypeOK, FileFits, Fits, CheckpointClosed
<1> QED
  BY <1>1, ResumeCorrect, PTL

\* No execution runs a node again that the checkpoint records as completed.
THEOREM NoneRerun ==
    ASSUME FixedPlan
    PROVE  Spec => []CompletedNotRerun
<1>1. ASSUME ResumeInv PROVE CompletedNotRerun
  <2>1. CASE Active
    BY <1>1, <2>1 DEF ResumeInv, Bookkeeping, CompletedNotRerun, InFlight
  <2>2. CASE ~Active
    <3>1. tasks = {} /\ Running = {}
      BY <1>1, <2>2, WorkerStateAssumption
      DEF ResumeInv, DispatchInv, TypeOK, Quiet, Active, Running
    <3> QED
      BY <3>1 DEF CompletedNotRerun
  <2> QED
    BY <2>1, <2>2
<1> QED
  BY <1>1, ResumeCorrect, PTL

\* Within one execution a node that succeeded or was skipped stays that way:
\* neither a late result nor a cascade changes it.
THEOREM OutcomesStable ==
    ASSUME FixedPlan
    PROVE  Spec => OutcomeStable
<1>1. ASSUME ResumeInv, [Next]_vars PROVE [KeepsOutcome]_vars
  <2> SUFFICES ASSUME Next, Active PROVE KeepsOutcome
    BY <1>1 DEF KeepsOutcome, Active
  <2>0. TypeOK' /\ g.nodes \subseteq Node
    BY <1>1, TypeStep, GraphShape DEF ResumeInv, DispatchInv, TypeOK
  <2>1. ASSUME NEW n \in Node, ResultSucceeds(n) PROVE KeepsOutcome
    <3>1. n \in InFlight
      BY <1>1, <2>0, <2>1, SucceedsEffect DEF ResumeInv, InFlight
    <3>2. nodeStatus[n] \notin {"Success", "Skipped"}
      BY <1>1, <3>1, InFlightFacts
    <3>3. \A m \in Node \ {n} : nodeStatus'[m] = nodeStatus[m]
      BY <1>1, <2>1 DEF ResultSucceeds, ResumeInv, DispatchInv, TypeOK
    <3> QED
      BY <2>0, <3>2, <3>3 DEF KeepsOutcome
  <2>2. ASSUME NEW n \in Node, NEW s \in Outcome, ResultSkips(n, s) PROVE KeepsOutcome
    <3> DEFINE st   == [nodeStatus EXCEPT ![n] = s]
               skip == Cascade(n, st)
    <3>1. n \in InFlight
      BY <1>1, <2>0, <2>2, SkipsEffect DEF ResumeInv, InFlight
    <3>2. nodeStatus[n] \notin {"Success", "Skipped"}
      BY <1>1, <3>1, InFlightFacts
    <3>3. \A m \in skip : st[m] = "Pending"
      BY CascadeFacts
    <3>4. nodeStatus' = [m \in Node |-> IF m \in skip THEN "Skipped" ELSE st[m]]
      BY <2>2 DEF ResultSkips
    <3> HIDE DEF skip
    <3>5. \A m \in Node \ {n} : nodeStatus[m] # "Pending" => nodeStatus'[m] = nodeStatus[m]
      BY <1>1, <3>3, <3>4 DEF ResumeInv, DispatchInv, TypeOK
    <3> QED
      BY <2>0, <3>2, <3>5 DEF KeepsOutcome
  <2>3. CASE CloseTasks \/ Return
    BY <2>3 DEF CloseTasks, Return, KeepsOutcome
  <2>4. ASSUME NEW w \in Worker, WorkerStep(w) PROVE KeepsOutcome
    BY <2>4 DEF WorkerStep, TakeTask, SendResult, WorkerDone, KeepsOutcome
  <2>5. CASE Crash
    BY <2>5 DEF Crash, KeepsOutcome
  <2>6. CASE Start
    BY <2>6 DEF Start, RejectGraph, dryRun, Execute, Active
  <2> QED
    BY <2>1, <2>2, <2>3, <2>4, <2>5, <2>6 DEF Next, MainStep
<1> QED
  BY <1>1, ResumeCorrect, PTL DEF Spec, OutcomeStable
=============================================================================
