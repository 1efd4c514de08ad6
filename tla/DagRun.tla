------------------------------- MODULE DagRun -------------------------------
(***************************************************************************)
(* What one uninterrupted execution of a graph promises its caller (the    *)
(* Engine interface, internal/engine/interface.go): every node either runs *)
(* once, after everything it depends on has succeeded, or is skipped       *)
(* because something upstream did not; the verdict is Failed exactly when  *)
(* some node failed. Nothing is said of channels, counters or workers.     *)
(***************************************************************************)
EXTENDS Integers

CONSTANTS Node, Graphs

VARIABLES graph, phase, status, verdict

dvars == <<graph, phase, status, verdict>>

Init ==
    /\ graph \in Graphs
    /\ phase = "planned"
    /\ status = [n \in Node |-> "Pending"]
    /\ verdict = "Pending"

Begin(gr) ==
    /\ phase = "planned"
    /\ phase' = "running"
    /\ graph' = gr
    /\ UNCHANGED <<status, verdict>>

\* A graph that cannot be executed is refused; nothing runs.
Refuse ==
    /\ phase = "planned"
    /\ phase' = "ended"
    /\ verdict' = "Failed"
    /\ UNCHANGED <<graph, status>>

\* A dry run reports every node as Skipped and gives no verdict.
Preview(gr) ==
    /\ phase = "planned"
    /\ phase' = "ended"
    /\ graph' = gr
    /\ status' = [n \in Node |-> IF n \in gr.nodes THEN "Skipped" ELSE "Pending"]
    /\ UNCHANGED verdict

Start(n) ==
    /\ phase = "running"
    /\ n \in graph.nodes
    /\ status[n] = "Pending"
    /\ \A d \in graph.deps[n] : status[d] = "Success"
    /\ status' = [status EXCEPT ![n] = "Running"]
    /\ UNCHANGED <<graph, phase, verdict>>

Blocked(m, st) == \E d \in graph.deps[m] : st[d] \in {"Failed", "Skipped"}

\* A running node ends, and with it the set S of nodes that can no longer run:
\* all of them, and no other.
Settle(n, S) ==
    /\ phase = "running"
    /\ n \in graph.nodes
    /\ status[n] = "Running"
    /\ \A m \in S : m \in graph.nodes /\ status[m] = "Pending"
    /\ status'[n] \in {"Success", "Failed", "Skipped"}
    /\ status' = [m \in Node |-> IF m = n THEN status'[n]
                                 ELSE IF m \in S THEN "Skipped" ELSE status[m]]
    /\ \A m \in graph.nodes \ {n} :
          m \in S <=> status[m] = "Pending" /\ Blocked(m, status')
    /\ UNCHANGED <<graph, phase, verdict>>

End ==
    /\ phase = "running"
    /\ \A n \in graph.nodes : status[n] \in {"Success", "Failed", "Skipped"}
    /\ phase' = "ended"
    /\ verdict' = IF \E n \in graph.nodes : status[n] = "Failed"
                  THEN "Failed" ELSE "Success"
    /\ UNCHANGED <<graph, status>>

Next ==
    \/ \E gr \in Graphs : Begin(gr) \/ Preview(gr)
    \/ Refuse
    \/ \E n \in Node : Start(n)
    \/ \E n \in Node, S \in SUBSET Node : Settle(n, S)
    \/ End

Spec == Init /\ [][Next]_dvars
=============================================================================
