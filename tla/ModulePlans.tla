----------------------------- MODULE ModulePlans -----------------------------
(***************************************************************************)
(* How the modules of internal/module plan: which fragments of their tasks *)
(* they merge, which they link, and what they give as their entry and exit *)
(* nodes. A task is a record of what IsRequired answers and the fragment   *)
(* its Plan returns (Failure when it returns an error).                    *)
(***************************************************************************)
EXTENDS Fragments, Naturals, Sequences

Task == [required : BOOLEAN, frag : Fragment]

\* planTask: a task that is not required contributes an empty fragment.
planTask(t) == IF t.required THEN t.frag ELSE NewExecutionFragment

\* The loop of the modules that chain their tasks: empty fragments are left
\* out, the others are merged and wait for the last one that was not empty.
ChainTask(acc, f) ==
    IF f.ok /\ IsEmpty(f) THEN acc
    ELSE [frag |-> LinkFragments(MergeFragment(acc.frag, f), acc.exit, f.entry),
          exit |-> f.exit]

Chain(fs) ==
    LET at[k \in 0..Len(fs)] ==
            IF k = 0 THEN [frag |-> NewExecutionFragment, exit |-> {}]
                     ELSE ChainTask(at[k - 1], fs[k])
    IN  at[Len(fs)]

\* The loop of those that merge them only.
Merged(fs) ==
    LET at[k \in 0..Len(fs)] == IF k = 0 THEN NewExecutionFragment
                                         ELSE MergeFragment(at[k - 1], fs[k])
    IN  at[Len(fs)]

\* The fragments a module's tasks contribute, in order.
TaskFragments(tasks) == [k \in DOMAIN tasks |-> planTask(tasks[k])]

\* BaseModule.PlanTasks merges the fragments of the required tasks.
PlanTasks(tasks) == CalculateEntryAndExitNodes(Merged(TaskFragments(tasks)))

\* PreflightModule.Plan
PreflightModule(tasks) == CalculateEntryAndExitNodes(Chain(TaskFragments(tasks)).frag)

\* InfrastructureModule.Plan: the operating system tasks in a chain; etcd after
\* its PKI, which comes after the chain; the container runtime after the chain.
InfrastructureModule(osTasks, etcdPki, installEtcd, runtime) ==
    LET os   == Chain(TaskFragments(osTasks))
        pki  == planTask(etcdPki)
        etcd == planTask(installEtcd)
        cri  == planTask(runtime)
        f1   == LinkFragments(MergeFragment(os.frag, pki), os.exit, pki.entry)
        f2   == LinkFragments(MergeFragment(f1, etcd), pki.exit, etcd.entry)
        f3   == LinkFragments(MergeFragment(f2, cri), os.exit, cri.entry)
    IN  CalculateEntryAndExitNodes(f3)

\* DeployLoadBalancerTask.Plan and LoadBalancerModule.Plan: the chained
\* fragment is returned with the entry and exit nodes of a new one.
LoadBalancerModule(enabled, tasks) ==
    LET c == Chain([k \in DOMAIN tasks |-> tasks[k].frag])
    IN  IF ~enabled \/ (c.frag.ok /\ c.exit = {}) THEN NewExecutionFragment
                                                  ELSE c.frag

\* One step of a control plane module: a required task is merged and linked
\* after the task before it, when it is linked at all.
AddTask(acc, t, isEntry, isLinked) ==
    IF ~t.required THEN acc
    ELSE LET f == MergeFragment(acc, t.frag)
             g == IF isLinked THEN LinkFragments(f, acc.exit, t.frag.entry) ELSE f
         IN  [g EXCEPT !.entry = IF isEntry THEN acc.entry \cup t.frag.entry
                                            ELSE acc.entry,
                       !.exit  = t.frag.exit]

\* KubeadmControlPlaneModule.Plan: the binaries are planned whether required or
\* not.
KubeadmControlPlaneModule(binaries, initCP, joinCP) ==
    LET f1 == AddTask(NewExecutionFragment, [binaries EXCEPT !.required = TRUE],
                      TRUE, FALSE)
        f2 == AddTask(f1, initCP, FALSE, TRUE)
    IN  AddTask(f2, joinCP, FALSE, TRUE)

\* KubexmControlPlaneModule.Plan: configuring the control plane is not linked
\* to what was planned before it.
KubexmControlPlaneModule(pki, kubeconfigs, configure, start, admin, join) ==
    LET f1 == AddTask(NewExecutionFragment, pki, TRUE, FALSE)
        f2 == AddTask(f1, kubeconfigs, FALSE, TRUE)
        f3 == AddTask(f2, configure, TRUE, FALSE)
        f4 == AddTask(f3, start, FALSE, TRUE)
        f5 == AddTask(f4, admin, FALSE, TRUE)
    IN  AddTask(f5, join, FALSE, TRUE)

\* KubeadmWorkerModule.Plan
KubeadmWorkerModule(binaries, joinWorkers) ==
    AddTask(AddTask(NewExecutionFragment, binaries, TRUE, FALSE),
            joinWorkers, FALSE, TRUE)

\* KubexmWorkerModule.Plan and NetworkModule.Plan: one task and its nodes.
SingleTaskModule(t) == AddTask(NewExecutionFragment, t, TRUE, FALSE)

\* AddonsModule.Plan: side by side, all first and all last.
AddonsModule(tasks) ==
    LET fs == TaskFragments(tasks)
        f  == Merged(fs)
    IN  IF ~f.ok THEN f
        ELSE [f EXCEPT !.entry = UNION {fs[k].entry : k \in DOMAIN fs},
                       !.exit  = UNION {fs[k].exit : k \in DOMAIN fs}]
=============================================================================
