---------------------------- MODULE NodeRunProofs ----------------------------
(* Machine-checked proofs about NodeRun, for any list of hosts, with and  *)
(* without repetitions, and any number of retries.                         *)
EXTENDS NodeRun, TLAPS

\* What a step of one goroutine can do, one disjunct per action.
LEMMA HostActions ==
    ASSUME NEW g \in Entry, HostStep(g)
    PROVE  g \in DOMAIN hosts /\
           \/ \E o \in {"done", "todo", "error", "panic"} : Precheck(g, o)
           \/ \E r \in StepResult, err \in BOOLEAN : Run(g, r, err)
           \/ RunPanics(g)
           \/ \E o \in {"ok", "error", "panic"} : PanicRollback(g, o)
           \/ \E o \in {"ok", "error", "panic"} : Rollback(g, o)
           \/ Conclude(g)
           \/ Record(g)
BY DEF HostStep, Panic, RollbackOutcome

\* node.Hosts has at most one host per goroutine.
LEMMA ListType ==
    ASSUME hosts \in HostList
    PROVE  /\ DOMAIN hosts \subseteq Entry
           /\ \A g \in DOMAIN hosts : hosts[g] \in Host
<1>1. PICK n \in 0..MaxHosts : hosts \in [1..n -> Host]
  BY DEF HostList
<1>2. 1..n \subseteq Entry
  BY HostsAssumption DEF Entry
<1> QED
  BY <1>1, <1>2

\* After an attempt the loop is left, or it goes on within the retry limit.
LEMMA AttemptType ==
    ASSUME TypeOK, NEW g \in Entry, NEW err \in BOOLEAN, AfterAttempt(g, err)
    PROVE  /\ pc' \in [Entry -> HostPc]
           /\ attempt' \in [Entry -> 0..MaxRetries]
           /\ hr' \in [Entry -> Status]
BY RetriesAssumption DEF TypeOK, AfterAttempt, MayRetry, HostPc, Status

-----------------------------------------------------------------------------
(* The inductive invariant: what is known of a goroutine at each place of    *)
(* runStepOnHost. Fresh and Ended carry statuses to the map of results;      *)
(* Mapped says whose result a host's entry in the map is; AppliedLeaves      *)
(* keeps every retry and rollback away from a completed Run; Cause remembers *)
(* why the goroutines were cancelled.                                        *)

Fresh(g) == pc[g] = "precheck" => effect[g] = "none"

Started(g) == pc[g] # "precheck" => g \in DOMAIN hosts /\ node # "condition"

Ended(g) ==
    /\ pc[g] \in {"return", "recorded"} => hr[g] \in {"Success", "Failed"}
    /\ pc[g] = "rollback" => hr[g] = "Failed"

AppliedLeaves(g) ==
    effect[g] = "applied" => /\ pc[g] \in {"conclude", "return", "recorded"}
                             /\ ~runErr[g]

HostInv(g) == Fresh(g) /\ Started(g) /\ Ended(g) /\ AppliedLeaves(g)

Mapped ==
    \A g \in DOMAIN hosts : pc[g] = "recorded" =>
        \E e \in Twins(g) : Reported(e, hostResults[hosts[g]])

Cause == cancelled => \E g \in DOMAIN hosts : Reported(g, "Failed")

IndInv ==
    /\ TypeOK
    /\ \A g \in Entry : HostInv(g)
    /\ Mapped
    /\ Cause
    /\ node = "condition" => ~cancelled
    /\ NodeStatusFaithful

USE DEF HostInv, Fresh, Started, Ended, AppliedLeaves

\* Init establishes the invariant.
LEMMA InitInv == Init => IndInv
<1> SUFFICES ASSUME Init PROVE IndInv
  OBVIOUS
<1>1. TypeOK
  <2>1. attempt \in [Entry -> 0..MaxRetries]
    BY RetriesAssumption DEF Init
  <2>2. runErr \in [Entry -> BOOLEAN] /\ expired \in [Entry -> BOOLEAN]
    BY DEF Init
  <2> QED
    BY <2>1, <2>2 DEF Init, TypeOK, HostPc, Status, StepResult, Effect
<1>2. \A g \in Entry : HostInv(g)
  BY DEF Init
<1>3. Mapped
  BY <1>1, ListType DEF Init, TypeOK, Mapped
<1>4. Cause /\ ~cancelled /\ NodeStatusFaithful
  BY DEF Init, Cause, NodeStatusFaithful
<1> QED
  BY <1>1, <1>2, <1>3, <1>4 DEF IndInv

\* A step of goroutine g leaves what is known of the others as it is.
LEMMA OtherHosts ==
    ASSUME IndInv, NEW g \in Entry, NEW x \in Entry, x # g, node = "running",
           node' # "condition", hosts' = hosts,
           pc'[x] = pc[x], hr'[x] = hr[x], runErr'[x] = runErr[x],
           effect'[x] \in {effect[x], "undone"}, effect[x] = "none" => effect'[x] = "none"
    PROVE  HostInv(x)'
BY DEF IndInv

\* A goroutine on its way to its result keeps what is known of the results.
LEMMA Unrecorded ==
    ASSUME IndInv, NEW g \in DOMAIN hosts, node = "running",
           node' \in {"running", "crashed"}, hosts' = hosts,
           hostResults' = hostResults, cancelled' = cancelled,
           pc[g] # "recorded", pc'[g] # "recorded",
           \A x \in DOMAIN hosts \ {g} : pc'[x] = pc[x] /\ hr'[x] = hr[x]
    PROVE  /\ Mapped' /\ Cause' /\ NodeStatusFaithful'
           /\ node' = "condition" => ~cancelled'
<1>1. \A x \in DOMAIN hosts, v \in Status : Reported(x, v) => Reported(x, v)'
  BY DEF Reported
<1>2. \A x \in DOMAIN hosts : pc'[x] = "recorded" => pc[x] = "recorded"
  OBVIOUS
<1>3. \A x \in DOMAIN hosts : hostResults[hosts[x]] \in Status
  BY ListType DEF IndInv, TypeOK, Status
<1>4. \A x : Twins(x)' = Twins(x)
  BY DEF Twins
<1>5. Mapped'
  BY <1>1, <1>2, <1>3, <1>4 DEF IndInv, Mapped, Twins
<1>6. Cause'
  BY <1>1 DEF IndInv, Cause, Status
<1> QED
  BY <1>5, <1>6 DEF NodeStatusFaithful

\* Precheck keeps the invariant.
LEMMA PrecheckInv ==
    ASSUME IndInv, NEW g \in Entry, NEW o \in {"done", "todo", "error", "panic"},
           g \in DOMAIN hosts, Precheck(g, o)
    PROVE  IndInv'
<1>1. TypeOK'
  BY DEF IndInv, TypeOK, Precheck, HostPc, Status, Effect
<1>2. HostInv(g)'
  BY DEF IndInv, TypeOK, Precheck
<1>3. \A x \in Entry \ {g} : HostInv(x)'
  BY OtherHosts DEF IndInv, TypeOK, Precheck
<1>4. /\ Mapped' /\ Cause' /\ NodeStatusFaithful'
      /\ node' = "condition" => ~cancelled'
  BY Unrecorded, ListType DEF IndInv, TypeOK, Precheck
<1> QED
  BY <1>1, <1>2, <1>3, <1>4 DEF IndInv

\* An attempt that returns keeps the invariant.
LEMMA RunInv ==
    ASSUME IndInv, NEW g \in Entry, NEW r \in StepResult, NEW err \in BOOLEAN,
           g \in DOMAIN hosts, Run(g, r, err)
    PROVE  IndInv'
<1>0. TypeOK /\ AfterAttempt(g, err)
  BY DEF IndInv, Run
<1>1. TypeOK'
  BY <1>0, AttemptType DEF TypeOK, Run, Effect
<1>2. HostInv(g)'
  BY <1>0 DEF IndInv, TypeOK, Run, AfterAttempt, MayRetry
<1>3. \A x \in Entry \ {g} : HostInv(x)'
  BY <1>0, OtherHosts DEF TypeOK, Run, AfterAttempt
<1>4. /\ Mapped' /\ Cause' /\ NodeStatusFaithful'
      /\ node' = "condition" => ~cancelled'
  BY Unrecorded, ListType DEF IndInv, TypeOK, Run, AfterAttempt
<1> QED
  BY <1>1, <1>2, <1>3, <1>4 DEF IndInv

\* A panic of Run keeps the invariant.
LEMMA RunPanicsInv ==
    ASSUME IndInv, NEW g \in Entry, g \in DOMAIN hosts, RunPanics(g)
    PROVE  IndInv'
<1>1. TypeOK'
  BY DEF IndInv, TypeOK, RunPanics, HostPc, Status, Effect
<1>2. HostInv(g)'
  BY DEF IndInv, TypeOK, RunPanics
<1>3. \A x \in Entry \ {g} : HostInv(x)'
  BY OtherHosts DEF IndInv, TypeOK, RunPanics
<1>4. /\ Mapped' /\ Cause' /\ NodeStatusFaithful'
      /\ node' = "condition" => ~cancelled'
  BY Unrecorded, ListType DEF IndInv, TypeOK, RunPanics
<1> QED
  BY <1>1, <1>2, <1>3, <1>4 DEF IndInv

\* So does the rollback that follows it.
LEMMA PanicRollbackInv ==
    ASSUME IndInv, NEW g \in Entry, NEW o \in {"ok", "error", "panic"},
           g \in DOMAIN hosts, PanicRollback(g, o)
    PROVE  IndInv'
<1>0. TypeOK /\ runErr[g] \in BOOLEAN
  BY DEF IndInv, TypeOK
<1>1. TypeOK'
  BY <1>0, AttemptType DEF TypeOK, PanicRollback, Undo, Effect
<1>2. HostInv(g)'
  BY <1>0 DEF IndInv, TypeOK, PanicRollback, Undo, AfterAttempt
<1>3. \A x \in Entry \ {g} : HostInv(x)'
  BY <1>0, OtherHosts DEF TypeOK, PanicRollback, Undo, AfterAttempt
<1>4. /\ Mapped' /\ Cause' /\ NodeStatusFaithful'
      /\ node' = "condition" => ~cancelled'
  BY Unrecorded, ListType DEF IndInv, TypeOK, PanicRollback, AfterAttempt
<1> QED
  BY <1>1, <1>2, <1>3, <1>4 DEF IndInv

\* The end of the loop keeps the invariant.
LEMMA ConcludeInv ==
    ASSUME IndInv, NEW g \in Entry, g \in DOMAIN hosts, Conclude(g)
    PROVE  IndInv'
<1>1. TypeOK'
  BY DEF IndInv, TypeOK, Conclude, ResultStatus, HostPc, Status
<1>2. HostInv(g)'
  BY DEF IndInv, TypeOK, Conclude, ResultStatus
<1>3. \A x \in Entry \ {g} : HostInv(x)'
  BY OtherHosts DEF IndInv, TypeOK, Conclude
<1>4. /\ Mapped' /\ Cause' /\ NodeStatusFaithful'
      /\ node' = "condition" => ~cancelled'
  BY Unrecorded, ListType DEF IndInv, TypeOK, Conclude
<1> QED
  BY <1>1, <1>2, <1>3, <1>4 DEF IndInv

\* The rollback of a failed Run keeps the invariant.
LEMMA RollbackInv ==
    ASSUME IndInv, NEW g \in Entry, NEW o \in {"ok", "error", "panic"},
           g \in DOMAIN hosts, Rollback(g, o)
    PROVE  IndInv'
<1>1. TypeOK'
  BY DEF IndInv, TypeOK, Rollback, Undo, HostPc, Effect
<1>2. HostInv(g)'
  <2>1. effect[g] # "applied"
    BY DEF IndInv, Rollback
  <2>2. hr[g] = "Failed"
    BY DEF IndInv, Rollback
  <2>3. effect'[g] # "applied" /\ hosts' = hosts /\ hostResults' = hostResults
        /\ hr' = hr /\ node' # "condition"
    BY <2>1 DEF IndInv, TypeOK, Rollback, Undo
  <2>4. pc'[g] \in {"rollback", "return"}
    BY DEF IndInv, TypeOK, Rollback
  <2> QED
    BY <2>1, <2>2, <2>3, <2>4
<1>3. \A x \in Entry \ {g} : HostInv(x)'
  BY OtherHosts DEF IndInv, TypeOK, Rollback, Undo
<1>4. /\ Mapped' /\ Cause' /\ NodeStatusFaithful'
      /\ node' = "condition" => ~cancelled'
  BY Unrecorded, ListType DEF IndInv, TypeOK, Rollback
<1> QED
  BY <1>1, <1>2, <1>3, <1>4 DEF IndInv

\* Recording a result keeps the invariant.
LEMMA RecordInv ==
    ASSUME IndInv, NEW g \in Entry, g \in DOMAIN hosts, Record(g)
    PROVE  IndInv'
<1>0. hr[g] \in {"Success", "Failed"} /\ hosts[g] \in Host
  BY ListType DEF IndInv, TypeOK, Record
<1>1. TypeOK'
  BY <1>0 DEF IndInv, TypeOK, Record, HostPc
<1>2. HostInv(g)'
  BY <1>0 DEF IndInv, TypeOK, Record
<1>3. \A x \in Entry \ {g} : HostInv(x)'
  BY OtherHosts DEF IndInv, TypeOK, Record
<1>4. \A x \in DOMAIN hosts, v \in Status : Reported(x, v) => Reported(x, v)'
  BY ListType DEF IndInv, TypeOK, Record, Reported
<1>5. Reported(g, hr[g])' /\ hr' = hr /\ hosts' = hosts
  BY DEF IndInv, TypeOK, Record, Reported
<1>6. Mapped'
  <2> SUFFICES ASSUME NEW x \in DOMAIN hosts, pc'[x] = "recorded"
               PROVE  \E e \in Twins(x) : /\ pc'[e] = "recorded"
                                       /\ hr'[e] = hostResults'[hosts[x]]
    BY <1>5 DEF Mapped, Twins, Reported
  <2>1. CASE hosts[x] = hosts[g]
    <3>1. hostResults'[hosts[x]] = hr[g] /\ g \in Twins(x)
      BY <1>0, <2>1 DEF IndInv, TypeOK, Record, Twins
    <3> QED
      BY <1>5, <3>1 DEF Reported
  <2>2. CASE hosts[x] # hosts[g]
    <3>1. /\ hostResults'[hosts[x]] = hostResults[hosts[x]]
          /\ hostResults[hosts[x]] \in Status /\ pc[x] = "recorded"
      BY <1>0, <2>2, ListType DEF IndInv, TypeOK, Record, Status
    <3>2. PICK e \in Twins(x) : Reported(e, hostResults[hosts[x]])
      BY <3>1 DEF IndInv, Mapped
    <3> QED
      BY <1>4, <3>1, <3>2 DEF Twins, Reported
  <2> QED
    BY <2>1, <2>2
<1>7. Cause'
  BY <1>0, <1>4, <1>5 DEF IndInv, Cause, Record, Status
<1> QED
  BY <1>1, <1>2, <1>3, <1>6, <1>7 DEF IndInv, Record, NodeStatusFaithful

\* The steps of runNode itself keep the invariant.
LEMMA NodeInv == IndInv /\ NodeStep => IndInv'
<1> SUFFICES ASSUME IndInv, NodeStep PROVE IndInv'
  OBVIOUS
<1>1. ASSUME NEW o \in {"true", "false", "error", "panic"}, CheckCondition(o)
      PROVE  IndInv'
  <2>1. TypeOK'
    BY <1>1 DEF IndInv, TypeOK, CheckCondition, hvars, Status
  <2>2. \A x \in Entry : HostInv(x)'
    BY <1>1 DEF IndInv, CheckCondition, hvars
  <2>3. hosts' = hosts /\ cancelled' = cancelled /\ hostResults' = hostResults
        /\ pc' = pc /\ hr' = hr
        /\ ~cancelled /\ nodeStatus' # "Success" /\ node' # "condition"
    BY <1>1 DEF IndInv, CheckCondition, hvars
  <2>4. Mapped'
    BY <2>3 DEF IndInv, Mapped, Twins, Reported
  <2> QED
    BY <2>1, <2>2, <2>3, <2>4 DEF IndInv, Cause, NodeStatusFaithful
<1>2. CASE ReturnNode
  <2>1. TypeOK'
    BY <1>2 DEF IndInv, TypeOK, ReturnNode, AggregateStatus, hvars, Status
  <2>2. \A x \in Entry : HostInv(x)'
    BY <1>2 DEF IndInv, ReturnNode, hvars
  <2>3. hosts' = hosts /\ cancelled' = cancelled /\ hostResults' = hostResults
        /\ pc' = pc /\ hr' = hr /\ node' = "returned"
    BY <1>2 DEF ReturnNode, hvars
  <2>4. Mapped' /\ Cause'
    BY <2>3 DEF IndInv, Mapped, Cause, Twins, Reported
  <2>5. ASSUME nodeStatus' = "Success", NEW x \in DOMAIN hosts
        PROVE  \E e \in Twins(x) : Reported(e, "Success")
    <3>1. pc[x] = "recorded" /\ hostResults[hosts[x]] # "Failed"
      BY <1>2, <2>5 DEF ReturnNode, AggregateStatus
    <3>2. PICK e \in Twins(x) : Reported(e, hostResults[hosts[x]])
      BY <2>5, <3>1 DEF IndInv, Mapped
    <3>3. e \in Entry /\ hr[e] \in {"Success", "Failed"}
      BY <3>2, ListType DEF IndInv, TypeOK, Reported, Twins
    <3> QED
      BY <3>1, <3>2, <3>3 DEF Reported
  <2>6. NodeStatusFaithful'
    BY <2>3, <2>5 DEF IndInv, Cause, Twins, Reported, NodeStatusFaithful
  <2> QED
    BY <2>1, <2>2, <2>3, <2>4, <2>6 DEF IndInv
<1> QED
  BY <1>1, <1>2 DEF NodeStep, Panic

\* A timeout changes nothing the invariant speaks of.
LEMMA ExpireInv == ASSUME IndInv, NEW g \in Entry, Expire(g) PROVE IndInv'
<1>1. TypeOK'
  BY DEF IndInv, TypeOK, Expire
<1> QED
  BY <1>1 DEF IndInv, Expire, Mapped, Cause, NodeStatusFaithful, Twins, Reported

\* Every step keeps the invariant.
LEMMA StepInv == IndInv /\ [Next]_vars => IndInv'
<1> SUFFICES ASSUME IndInv, [Next]_vars PROVE IndInv'
  OBVIOUS
<1>1. CASE UNCHANGED vars
  BY <1>1 DEF vars, IndInv, TypeOK, Mapped, Cause, NodeStatusFaithful, Twins, Reported
<1>2. ASSUME NEW g \in Entry, HostStep(g) PROVE IndInv'
  BY <1>2, HostActions, PrecheckInv, RunInv, RunPanicsInv, PanicRollbackInv,
     ConcludeInv, RollbackInv, RecordInv
<1> QED
  BY <1>1, <1>2, NodeInv, ExpireInv DEF Next

\* The invariant holds throughout every run of a node.
LEMMA Inductive == Spec => []IndInv
BY InitInv, StepInv, PTL DEF Spec

-----------------------------------------------------------------------------

\* The variables of a node's run always have their types; in particular no
\* step is attempted more often than retryMaxRetries allows.
THEOREM TypeCorrect == Spec => []TypeOK
BY Inductive, PTL DEF IndInv

\* Whatever hosts a node lists, it reports Success only if a goroutine of each
\* host has, and a failure goes unreported only on a host listed twice.
THEOREM NodeReportsHosts == Spec => []NodeStatusFaithful
BY Inductive, PTL DEF IndInv

\* A Run that completed is never repeated nor rolled back by its goroutine.
THEOREM CompletedRunIsFinal == Spec => AppliedIsFinal
<1>1. IndInv /\ [Next]_vars => [AppliedStays]_vars
  <2> SUFFICES ASSUME IndInv, Next, NEW x \in DOMAIN hosts, effect[x] = "applied"
               PROVE  \/ effect'[x] = "applied"
                      \/ effect'[x] = "undone" /\ \E e \in Twins(x) \ {x} :
                                           pc[e] \in {"rollback", "panicked"}
    BY DEF AppliedStays
  <2>0. /\ x \in Entry /\ pc[x] \in {"conclude", "return", "recorded"}
        /\ effect \in [Entry -> Effect]
    BY ListType DEF IndInv, TypeOK
  <2>1. CASE NodeStep
    BY <2>1 DEF NodeStep, CheckCondition, ReturnNode, hvars
  <2>2. ASSUME NEW g \in Entry, HostStep(g)
        PROVE  \/ effect'[x] = "applied"
               \/ effect'[x] = "undone" /\ g \in Twins(x) \ {x} /\
                                            pc[g] \in {"rollback", "panicked"}
    <3>1. CASE \E o \in {"done", "todo", "error", "panic"} : Precheck(g, o)
      BY <2>0, <3>1 DEF Precheck
    <3>2. CASE \E r \in StepResult, err \in BOOLEAN : Run(g, r, err)
      BY <2>0, <3>2 DEF Run
    <3>3. CASE RunPanics(g)
      BY <2>0, <3>3 DEF RunPanics
    <3>4. CASE \E o \in {"ok", "error", "panic"} : PanicRollback(g, o) \/ Rollback(g, o)
      <4>1. g # x /\ pc[g] \in {"rollback", "panicked"} /\ g \in DOMAIN hosts
        BY <2>0, <2>2, <3>4, HostActions DEF PanicRollback, Rollback
      <4>2. effect'[x] = "applied" \/ (effect'[x] = "undone" /\ x \in Twins(g))
        BY <2>0, <3>4 DEF PanicRollback, Rollback, Undo
      <4> QED
        BY <4>1, <4>2 DEF Twins
    <3>5. CASE Conclude(g) \/ Record(g)
      BY <3>5 DEF Conclude, Record
    <3> QED
      BY <2>2, <3>1, <3>2, <3>3, <3>4, <3>5, HostActions
  <2>3. ASSUME NEW g \in Entry, Expire(g) PROVE effect'[x] = "applied"
    BY <2>3 DEF Expire
  <2> QED
    BY <2>1, <2>2, <2>3 DEF Next
<1> QED
  BY Inductive, <1>1, PTL DEF Spec, AppliedIsFinal
-----------------------------------------------------------------------------
(* Success is earned on every host on which the step does not panic, even if *)
(* it does on others. The status is decided two steps after the effect:      *)
(* Honest says what it will be decided from in between, and that a failed    *)
(* goroutine only rolls back and returns.                                    *)

Honest(g) ==
    /\ pc[g] = "conclude" /\ ~runErr[g] /\ result[g] # "failed" =>
          effect[g] = "applied" \/ UndoneByTwin(g)
    /\ pc[g] \in {"return", "recorded"} /\ hr[g] = "Success" =>
          Earned(g) \/ UndoneByTwin(g)
    /\ pc[g] # "panicked"
    /\ hr[g] = "Failed" => pc[g] \in {"rollback", "return", "recorded"}

Calm == {g \in DOMAIN hosts : hosts[g] \notin MayPanic}

HonestInv == \A g \in Calm : Honest(g)

\* What a goroutine has rolled back stays rolled back.
LEMMA UndoneStays ==
    ASSUME IndInv, HonestInv, NEW x \in Entry, HostStep(x), NEW g \in Calm,
           UndoneByTwin(g)
    PROVE  UndoneByTwin(g)'
<1>1. PICK e \in Twins(g) \ {g} : effect[e] = "undone" /\ hr[e] = "Failed"
  BY DEF UndoneByTwin
<1>2. /\ e \in Entry /\ pc[e] \in {"rollback", "return", "recorded"}
      /\ effect \in [Entry -> Effect] /\ hr \in [Entry -> Status]
  BY <1>1, ListType DEF IndInv, TypeOK, HonestInv, Honest, Calm, Twins
<1>3. effect'[e] = "undone" /\ hr'[e] = "Failed" /\ hosts' = hosts
  <2>1. CASE \E o \in {"done", "todo", "error", "panic"} : Precheck(x, o)
    BY <1>1, <1>2, <2>1 DEF Precheck
  <2>2. CASE \E r \in StepResult, err \in BOOLEAN : Run(x, r, err)
    BY <1>1, <1>2, <2>2 DEF Run, AfterAttempt
  <2>3. CASE RunPanics(x)
    BY <1>1, <1>2, <2>3 DEF RunPanics
  <2>4. CASE \E o \in {"ok", "error", "panic"} : PanicRollback(x, o)
    BY <1>1, <1>2, <2>4 DEF PanicRollback, Undo, AfterAttempt
  <2>5. CASE \E o \in {"ok", "error", "panic"} : Rollback(x, o)
    BY <1>1, <1>2, <2>5 DEF Rollback, Undo
  <2>6. CASE Conclude(x) \/ Record(x)
    BY <1>1, <1>2, <2>6 DEF Conclude, Record
  <2> QED
    BY <2>1, <2>2, <2>3, <2>4, <2>5, <2>6, HostActions
<1> QED
  BY <1>1, <1>3 DEF UndoneByTwin, Twins

\* A step of goroutine x leaves the others honest.
LEMMA OtherHonest ==
    ASSUME NEW g, Honest(g), UndoneByTwin(g) => UndoneByTwin(g)',
           ignoreError' = ignoreError, pc'[g] = pc[g], hr'[g] = hr[g],
           runErr'[g] = runErr[g], result'[g] = result[g],
           effect'[g] = effect[g] \/ UndoneByTwin(g)'
    PROVE  Honest(g)'
BY DEF Honest, Earned

\* Every step keeps the statuses of goroutines without panics honest.
LEMMA HonestHost ==
    ASSUME IndInv, HonestInv, NEW x \in Entry, HostStep(x)
    PROVE  HonestInv'
<1>a. hosts' = hosts /\ x \in DOMAIN hosts
  BY HostActions DEF Precheck, Run, RunPanics, PanicRollback, Rollback, Conclude, Record
<1> SUFFICES ASSUME NEW g \in Calm
             PROVE  Honest(g)'
  BY <1>a DEF HonestInv, Calm
<1>0. TypeOK /\ Honest(g) /\ g \in Entry /\ HostInv(g)
  BY ListType DEF IndInv, TypeOK, HonestInv, Calm
<1>u. UndoneByTwin(g) => UndoneByTwin(g)'
  BY UndoneStays
<1>1. ASSUME NEW o \in {"done", "todo", "error", "panic"}, Precheck(x, o)
      PROVE  Honest(g)'
  <2>1. CASE x = g
    BY <1>0, <1>1, <2>1 DEF TypeOK, Precheck, Honest, Earned
  <2>2. CASE x # g
    BY <1>0, <1>u, <1>1, <2>2, OtherHonest DEF TypeOK, Precheck
  <2> QED
    BY <2>1, <2>2
<1>2. ASSUME NEW r \in StepResult, NEW err \in BOOLEAN, Run(x, r, err)
      PROVE  Honest(g)'
  <2>1. CASE x = g
    <3>1. pc'[g] \in {"run", "conclude"} /\ hr'[g] \in {hr[g], "Running"}
      BY <1>0, <1>2, <2>1 DEF TypeOK, Run, AfterAttempt
    <3>2. hr[g] # "Failed"
      BY <1>0, <1>2, <2>1 DEF Run, Honest
    <3>3. runErr'[g] = err /\ result'[g] = r
          /\ effect'[g] = (IF err \/ r = "failed" THEN "partial" ELSE "applied")
      BY <1>0, <1>2, <2>1 DEF TypeOK, Run
    <3> QED
      BY <3>1, <3>2, <3>3 DEF Honest
  <2>2. CASE x # g
    BY <1>0, <1>u, <1>2, <2>2, OtherHonest DEF TypeOK, Run, AfterAttempt
  <2> QED
    BY <2>1, <2>2
<1>3. ASSUME NEW o \in {"ok", "error", "panic"}, Rollback(x, o)
      PROVE  Honest(g)'
  <2>1. CASE x = g
    <3>1. pc'[g] \in {"rollback", "return"} /\ hr'[g] = "Failed"
      BY <1>0, <1>3, <2>1 DEF TypeOK, Rollback
    <3> QED
      BY <3>1 DEF Honest
  <2>2. CASE x # g
    <3>1. CASE effect'[g] = effect[g]
      BY <1>0, <1>u, <1>3, <2>2, <3>1, OtherHonest DEF TypeOK, Rollback
    <3>2. CASE effect'[g] # effect[g]
      <4>1. g \in Twins(x) /\ o = "ok"
        BY <1>0, <1>3, <3>2 DEF TypeOK, Rollback, Undo
      <4>2. x \in Twins(g) \ {g} /\ x \in Twins(x)
        BY <1>a, <2>2, <4>1 DEF Twins
      <4>3. effect'[x] = "undone" /\ hr'[x] = "Failed"
        BY <1>3, <4>1, <4>2 DEF IndInv, Rollback, Undo
      <4>4. UndoneByTwin(g)'
        BY <1>a, <4>2, <4>3 DEF UndoneByTwin, Twins
      <4> QED
        BY <1>0, <1>u, <1>3, <2>2, <4>4, OtherHonest DEF TypeOK, Rollback
    <3> QED
      BY <3>1, <3>2
  <2> QED
    BY <2>1, <2>2
<1>4. ASSUME Conclude(x)
      PROVE  Honest(g)'
  <2>1. CASE x = g
    <3>1. pc'[g] = (IF runErr[g] /\ ~ignoreError THEN "rollback" ELSE "return")
      BY <1>0, <1>4, <2>1 DEF TypeOK, Conclude
    <3>2. hr'[g] = "Success" => Earned(g) \/ UndoneByTwin(g)
      BY <1>0, <1>4, <2>1 DEF TypeOK, Conclude, ResultStatus, Honest, Earned
    <3>3. Earned(g) => Earned(g)'
      BY <1>4 DEF Conclude, Earned
    <3> QED
      BY <1>u, <3>1, <3>2, <3>3 DEF Honest
  <2>2. CASE x # g
    BY <1>0, <1>u, <1>4, <2>2, OtherHonest DEF TypeOK, Conclude
  <2> QED
    BY <2>1, <2>2
<1>5. ASSUME Record(x)
      PROVE  Honest(g)'
  <2>1. CASE x = g
    <3>1. pc'[g] = "recorded" /\ hr'[g] = hr[g] /\ pc[g] = "return"
      BY <1>0, <1>5, <2>1 DEF TypeOK, Record
    <3>2. Earned(g) => Earned(g)'
      BY <1>5 DEF Record, Earned
    <3> QED
      BY <1>0, <1>u, <3>1, <3>2 DEF Honest
  <2>2. CASE x # g
    BY <1>0, <1>u, <1>5, <2>2, OtherHonest DEF TypeOK, Record
  <2> QED
    BY <2>1, <2>2
<1>6. ASSUME RunPanics(x)
      PROVE  Honest(g)'
  <2>1. x # g
    BY <1>6 DEF RunPanics, Calm
  <2> QED
    BY <1>0, <1>u, <1>6, <2>1, OtherHonest DEF TypeOK, RunPanics
<1>7. ASSUME NEW o \in {"ok", "error", "panic"}, PanicRollback(x, o)
      PROVE  Honest(g)'
  <2>1. x # g /\ g \notin Twins(x)
    <3>1. x \notin Calm
      BY <1>7 DEF PanicRollback, HonestInv, Honest
    <3> QED
      BY <1>a, <3>1 DEF Calm, Twins
  <2>2. effect'[g] = effect[g]
    BY <1>0, <1>7, <2>1 DEF TypeOK, PanicRollback, Undo
  <2> QED
    BY <1>0, <1>u, <1>7, <2>1, <2>2, OtherHonest DEF TypeOK, PanicRollback, AfterAttempt
<1> QED
  BY <1>1, <1>2, <1>3, <1>4, <1>5, <1>6, <1>7, HostActions

\* A goroutine on whose host the step does not panic reports Success only if
\* the step had nothing to do there, its last Run completed, or it ignores
\* errors; only a failed goroutine of the same host takes that away.
THEOREM SuccessIsApplied == Spec => []SuccessMeansApplied
<1>1. Init => HonestInv
  BY ListType DEF Init, HonestInv, Honest, Calm
<1>2. IndInv /\ HonestInv /\ [Next]_vars => HonestInv'
  <2> SUFFICES ASSUME IndInv, HonestInv, [Next]_vars PROVE HonestInv'
    OBVIOUS
  <2>1. CASE NodeStep \/ UNCHANGED vars \/ \E g \in Entry : Expire(g)
    BY <2>1 DEF NodeStep, CheckCondition, ReturnNode, Expire, vars, hvars,
       HonestInv, Honest, Earned, Calm, UndoneByTwin, Twins
  <2> QED
    BY <2>1, HonestHost DEF Next
<1>3. HonestInv => SuccessMeansApplied
  BY DEF HonestInv, Honest, SuccessMeansApplied, Reported, Calm
<1> QED
  BY Inductive, <1>1, <1>2, <1>3, PTL DEF Spec
=============================================================================
