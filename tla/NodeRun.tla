------------------------------- MODULE NodeRun -------------------------------
(***************************************************************************)
(* dagExecutor.runNode and runStepOnHost (internal/engine/executor.go):    *)
(* one node of the graph, its step run by one goroutine per entry of       *)
(* node.Hosts, each with precheck, attempts, retries, panic recovery and   *)
(* rollback. The list may name a host twice (a task that appends workers   *)
(* to masters); results are kept under the host's name.                    *)
(*                                                                         *)
(* A step is known by what its methods may return; a ghost variable keeps  *)
(* what is left on the host of what a goroutine did there.                 *)
(***************************************************************************)
EXTENDS Integers, FiniteSets

CONSTANTS
    Host,             \* hosts a node can be planned for
    MaxHosts,         \* bound on the length of node.Hosts
    MaxRetries,       \* retryMaxRetries
    MayPanic,         \* the hosts on which the step's methods may panic
    ReliableRollback  \* Rollback undoes everything unless its context is done

ASSUME HostsAssumption == MaxHosts \in Nat
ASSUME RetriesAssumption == MaxRetries \in Nat
ASSUME PanicAssumption == MayPanic \subseteq Host
ASSUME RollbackAssumption == ReliableRollback \in BOOLEAN

\* The goroutines of the node: the indices of node.Hosts.
Entry      == 1..MaxHosts
HostList   == UNION {[1..n -> Host] : n \in 0..MaxHosts}
Status     == {"Pending", "Running", "Success", "Failed", "Skipped"}
StepResult == {"nil", "completed", "skipped", "failed", "other"}
HostPc     == {"precheck", "run", "panicked", "conclude", "rollback", "return",
               "recorded"}
Effect     == {"none", "present", "applied", "partial", "undone"}

VARIABLES
    node,         \* runNode: "condition", "running", "returned", "crashed"
    nodeStatus,   \* the status runNode returns
    hosts,        \* node.Hosts, a sequence of hosts
    ignoreError,  \* step.GetBase().IgnoreError
    pc,           \* where runStepOnHost is, per goroutine
    attempt,      \* the retry counter
    runErr,       \* whether the variable runErr holds an error
    result,       \* the status in the variable result
    hr,           \* hr.Status
    hostResults,  \* what is recorded under the host's name, "Pending" before
    expired,      \* the step's own timeout has passed
    cancelled,    \* the errgroup context is cancelled
    effect        \* ghost: what is left of what the goroutine did

hvars == <<attempt, runErr, result, hr, hostResults, expired, effect>>
vars  == <<node, nodeStatus, hosts, ignoreError, pc, attempt, runErr, result,
           hr, hostResults, expired, cancelled, effect>>

Panic(h) == IF h \in MayPanic THEN {"panic"} ELSE {}

\* The goroutines of the host of g, g itself included.
Twins(g) == {e \in DOMAIN hosts : hosts[e] = hosts[g]}

\* stepCtx is derived from the errgroup context and has the step's timeout.
CtxDone(g) == expired[g] \/ cancelled

Init ==
    /\ node = "condition"
    /\ nodeStatus = "Pending"
    /\ hosts \in HostList
    /\ ignoreError \in BOOLEAN
    /\ pc = [g \in Entry |-> "precheck"]
    /\ attempt = [g \in Entry |-> 0]
    /\ runErr = [g \in Entry |-> FALSE]
    /\ result = [g \in Entry |-> "nil"]
    /\ hr = [g \in Entry |-> "Pending"]
    /\ hostResults = [h \in Host |-> "Pending"]
    /\ expired = [g \in Entry |-> FALSE]
    /\ cancelled = FALSE
    /\ effect = [g \in Entry |-> "none"]

-----------------------------------------------------------------------------
(* runNode *)

\* The condition, when the node has one: "true" also stands for a node
\* without. Nothing recovers a panic here: it ends the process.
CheckCondition(o) ==
    /\ node = "condition"
    /\ node' = CASE o = "true" -> "running"
                 [] o \in {"false", "error"} -> "returned"
                 [] o = "panic" -> "crashed"
    /\ nodeStatus' = CASE o = "false" -> "Skipped"
                       [] o = "error" -> "Failed"
                       [] OTHER -> "Pending"
    /\ UNCHANGED <<hosts, ignoreError, pc, cancelled>>
    /\ UNCHANGED hvars

\* Mutant: the node fails only if all its hosts did.
AggregateStatusAll ==
    IF \A g \in DOMAIN hosts : hostResults[hosts[g]] = "Failed" THEN "Failed" ELSE "Success"
\* AggregateStatus: Failed when Failed is recorded for a host, Success
\* otherwise, also for a node without hosts.
AggregateStatus ==
    IF \E g \in DOMAIN hosts : hostResults[hosts[g]] = "Failed" THEN "Failed" ELSE "Success"

\* hostGroup.Wait has returned.
ReturnNode ==
    /\ node = "running"
    /\ \A g \in DOMAIN hosts : pc[g] = "recorded"
    /\ node' = "returned"
    /\ nodeStatus' = AggregateStatus
    /\ UNCHANGED <<hosts, ignoreError, pc, cancelled>>
    /\ UNCHANGED hvars

\* Goroutine g returns: its result takes the place of any recorded for the
\* same host before, and an error cancels the context of the other goroutines.
Record(g) ==
    /\ node = "running"
    /\ pc[g] = "return"
    /\ pc' = [pc EXCEPT ![g] = "recorded"]
    /\ hostResults' = [hostResults EXCEPT ![hosts[g]] = hr[g]]
    /\ cancelled' = (cancelled \/ hr[g] = "Failed")
    /\ UNCHANGED <<node, nodeStatus, hosts, ignoreError, attempt, runErr,
                   result, hr, expired, effect>>

-----------------------------------------------------------------------------
(* runStepOnHost *)

\* Precheck returns done, not done or an error; a panic becomes an error.
Precheck(g, o) ==
    /\ node = "running"
    /\ pc[g] = "precheck"
    /\ pc' = [pc EXCEPT ![g] = IF o = "todo" THEN "run" ELSE "return"]
    /\ hr' = [hr EXCEPT ![g] = CASE o = "done" -> "Success"
                                 [] o = "todo" -> "Running"
                                 [] o \in {"error", "panic"} -> "Failed"]
    /\ effect' = [effect EXCEPT ![g] = IF o = "done" THEN "present" ELSE @]
    /\ UNCHANGED <<node, nodeStatus, hosts, ignoreError, attempt, runErr,
                   result, hostResults, expired, cancelled>>

\* Mutants: one attempt too many; an attempt is repeated whatever it returned.
MayRetryAtLimit(g, err) == err /\ ~ignoreError /\ attempt[g] <= MaxRetries
MayRetryAnyway(g, err) == attempt[g] < MaxRetries
\* Whether the retry loop goes on once an attempt is over and runErr is err.
MayRetry(g, err) == err /\ ~ignoreError /\ attempt[g] < MaxRetries

\* Mutant: attempts are not counted.
AfterAttemptUncounted(g, err) ==
    IF MayRetry(g, err)
    THEN /\ pc' = [pc EXCEPT ![g] = "run"]
         /\ hr' = [hr EXCEPT ![g] = "Running"]
         /\ UNCHANGED attempt
    ELSE /\ pc' = [pc EXCEPT ![g] = "conclude"]
         /\ UNCHANGED <<attempt, hr>>
\* Leave the loop, or reset the host result and try again.
AfterAttempt(g, err) ==
    IF MayRetry(g, err)
    THEN /\ pc' = [pc EXCEPT ![g] = "run"]
         /\ attempt' = [attempt EXCEPT ![g] = @ + 1]
         /\ hr' = [hr EXCEPT ![g] = "Running"]
    ELSE /\ pc' = [pc EXCEPT ![g] = "conclude"]
         /\ UNCHANGED <<attempt, hr>>

\* Run returns (r, nil) or (r, error).
Run(g, r, err) ==
    /\ node = "running"
    /\ pc[g] = "run"
    /\ runErr' = [runErr EXCEPT ![g] = err]
    /\ result' = [result EXCEPT ![g] = r]
    /\ effect' = [effect EXCEPT ![g] = IF err \/ r = "failed" THEN "partial"
                                                              ELSE "applied"]
    /\ AfterAttempt(g, err)
    /\ UNCHANGED <<node, nodeStatus, hosts, ignoreError, hostResults, expired,
                   cancelled>>

\* Run panics: the deferred function marks the host result, and calls Rollback
\* next. runErr and result keep what they held before.
RunPanics(g) ==
    /\ node = "running"
    /\ hosts[g] \in MayPanic
    /\ pc[g] = "run"
    /\ pc' = [pc EXCEPT ![g] = "panicked"]
    /\ hr' = [hr EXCEPT ![g] = "Failed"]
    /\ effect' = [effect EXCEPT ![g] = "partial"]
    /\ UNCHANGED <<node, nodeStatus, hosts, ignoreError, attempt, runErr,
                   result, hostResults, expired, cancelled>>

\* What Rollback can return to goroutine g. A command under a context that is done
\* is killed, so nothing is undone then.
RollbackOutcome(g) ==
    Panic(hosts[g]) \cup (IF CtxDone(g) THEN {"error"}
                   ELSE IF ReliableRollback THEN {"ok"} ELSE {"ok", "error"})

\* Rollback works on the host: it also undoes what another goroutine of the
\* same host has done or found there.
Undo(g, o) ==
    effect' = [e \in Entry |->
                  IF o = "ok" /\ e \in Twins(g)
                              /\ (e = g \/ effect[e] \in {"present", "applied"})
                  THEN "undone" ELSE effect[e]]

\* Rollback after a panic; a second panic is not recovered.
PanicRollback(g, o) ==
    /\ node = "running"
    /\ pc[g] = "panicked"
    /\ o \in RollbackOutcome(g)
    /\ Undo(g, o)
    /\ IF o = "panic"
       THEN node' = "crashed" /\ UNCHANGED <<pc, attempt, hr>>
       ELSE AfterAttempt(g, runErr[g]) /\ UNCHANGED node
    /\ UNCHANGED <<nodeStatus, hosts, ignoreError, runErr, result, hostResults,
                   expired, cancelled>>

\* Mutant: the status of the result is not looked at.
ResultStatusAny(g) == "Success"
\* The status of a host whose loop ended without an error in runErr.
ResultStatus(g) == IF result[g] = "failed" THEN "Failed" ELSE "Success"

\* After the loop: an error is ignored or rolled back, otherwise the status
\* comes from the result.
Conclude(g) ==
    /\ node = "running"
    /\ pc[g] = "conclude"
    /\ pc' = [pc EXCEPT ![g] = IF runErr[g] /\ ~ignoreError THEN "rollback"
                                                            ELSE "return"]
    /\ hr' = [hr EXCEPT ![g] = IF runErr[g]
                               THEN IF ignoreError THEN "Success" ELSE "Failed"
                               ELSE ResultStatus(g)]
    /\ UNCHANGED <<node, nodeStatus, hosts, ignoreError, attempt, runErr,
                   result, hostResults, expired, cancelled, effect>>

Rollback(g, o) ==
    /\ node = "running"
    /\ pc[g] = "rollback"
    /\ o \in RollbackOutcome(g)
    /\ Undo(g, o)
    /\ IF o = "panic" THEN node' = "crashed" /\ UNCHANGED pc
                      ELSE pc' = [pc EXCEPT ![g] = "return"] /\ UNCHANGED node
    /\ UNCHANGED <<nodeStatus, hosts, ignoreError, attempt, runErr, result, hr,
                   hostResults, expired, cancelled>>

\* The step's timeout passes.
Expire(g) ==
    /\ node = "running" /\ g \in DOMAIN hosts
    /\ pc[g] # "recorded" /\ ~expired[g]
    /\ expired' = [expired EXCEPT ![g] = TRUE]
    /\ UNCHANGED <<node, nodeStatus, hosts, ignoreError, pc, attempt, runErr,
                   result, hr, hostResults, cancelled, effect>>

HostStep(g) ==
    /\ g \in DOMAIN hosts
    /\ \/ \E o \in {"done", "todo", "error"} \cup Panic(hosts[g]) : Precheck(g, o)
       \/ \E r \in StepResult, err \in BOOLEAN : Run(g, r, err)
       \/ RunPanics(g)
       \/ \E o \in RollbackOutcome(g) : PanicRollback(g, o) \/ Rollback(g, o)
       \/ Conclude(g)
       \/ Record(g)

NodeStep ==
    \/ \E o \in {"true", "false", "error"} \cup UNION {Panic(h) : h \in Host} :
           CheckCondition(o)
    \/ ReturnNode

Next ==
    \/ NodeStep
    \/ \E g \in Entry : HostStep(g) \/ Expire(g)

\* Goroutines are scheduled fairly and the step's methods return.
Fairness == WF_vars(NodeStep) /\ \A g \in Entry : WF_vars(HostStep(g))

Spec     == Init /\ [][Next]_vars
FairSpec == Spec /\ Fairness

-----------------------------------------------------------------------------
(* Properties *)

\* Type invariant of a node's run.
TypeOK ==
    /\ node \in {"condition", "running", "returned", "crashed"}
    /\ nodeStatus \in Status
    /\ hosts \in HostList
    /\ ignoreError \in BOOLEAN
    /\ pc \in [Entry -> HostPc]
    /\ attempt \in [Entry -> 0..MaxRetries]
    /\ runErr \in [Entry -> BOOLEAN]
    /\ result \in [Entry -> StepResult]
    /\ hr \in [Entry -> Status]
    /\ hostResults \in [Host -> {"Pending", "Success", "Failed"}]
    /\ expired \in [Entry -> BOOLEAN]
    /\ cancelled \in BOOLEAN
    /\ effect \in [Entry -> Effect]

\* What goroutine g has recorded.
Reported(g, s) == pc[g] = "recorded" /\ hr[g] = s

\* The step had nothing to do on the host, or its last Run completed and was
\* not rolled back, or the step ignores errors.
Earned(g) == effect[g] \in {"present", "applied"} \/ (ignoreError /\ runErr[g])

\* A goroutine that failed on the same host has rolled the host back.
UndoneByTwin(g) ==
    \E e \in Twins(g) \ {g} : effect[e] = "undone" /\ hr[e] = "Failed"

\* Where the step does not panic a goroutine reports Success only if that is
\* earned, whatever retries, timeouts and the other hosts, panics included, do
\* (the status runStepOnHost derives from runErr and result). Only a second
\* goroutine of the same host can have taken the effect away.
SuccessMeansApplied ==
    \A g \in DOMAIN hosts :
        hosts[g] \notin MayPanic /\ Reported(g, "Success") =>
            Earned(g) \/ UndoneByTwin(g)

\* "Panic recovery + Rollback" (PIPELINE_STABILITY_REPORT.md), "Still attempt
\* rollback on panic" (executor.go): nor does a goroutine report Success when
\* the step panicked there and was rolled back.
PanicIsFailure ==
    \A g \in DOMAIN hosts :
        hosts[g] \in MayPanic /\ Reported(g, "Success") =>
            Earned(g) \/ UndoneByTwin(g)

\* A Run that completed is neither repeated nor rolled back by its own
\* goroutine, whatever happens on the other hosts of the node: its effect goes
\* only by the rollback of a second goroutine of the same host.
AppliedStays ==
    \A g \in DOMAIN hosts :
        effect[g] = "applied" =>
            \/ effect'[g] = "applied"
            \/ effect'[g] = "undone" /\ \E e \in Twins(g) \ {g} :
                                           pc[e] \in {"rollback", "panicked"}
AppliedIsFinal == [][AppliedStays]_vars

\* The node reports Success only if on each of its hosts a goroutine has, so a
\* failure that cancelled the others goes unreported only if its host is
\* listed twice and the goroutine that recorded last had Success
\* (hostResults[currentHost.GetName()], executor.go).
NodeStatusFaithful ==
    node = "returned" /\ nodeStatus = "Success" =>
        /\ \A g \in DOMAIN hosts : \E e \in Twins(g) : Reported(e, "Success")
        /\ cancelled => \E g \in DOMAIN hosts : /\ Reported(g, "Failed")
                                              /\ Twins(g) # {g}

\* runNode returns, or an unrecovered panic ends the process.
NodeReturns == <>(node \in {"returned", "crashed"})
=============================================================================
