------------------------- MODULE GraphValidateProofs -------------------------
(* Machine-checked proofs about GraphValidate, for graphs of any size.      *)
EXTENDS GraphValidate, FiniteSetTheorems, TLAPS

\* Every set of node identifiers is finite.
LEMMA NodeSets ==
    \A S \in SUBSET NodeId : IsFiniteSet(S) /\ Cardinality(S) \in Nat
BY NodeIdAssumption, FS_Subset, FS_CardinalityType

\* Taking out one more node that is still in the set lowers its size by one.
LEMMA OneFewer ==
    ASSUME NEW S \in SUBSET NodeId, NEW R \in SUBSET NodeId,
           NEW u \in S, u \notin R
    PROVE  Cardinality(S \ (R \cup {u})) = Cardinality(S \ R) - 1
<1>1. S \ (R \cup {u}) = (S \ R) \ {u} /\ u \in S \ R
  OBVIOUS
<1>2. IsFiniteSet(S \ R)
  BY NodeSets
<1> DEFINE T == S \ R
<1>3. Cardinality(T \ {u}) = Cardinality(T) - 1
  <2>1. IsFiniteSet(T) /\ u \in T
    BY <1>1, <1>2
  <2> HIDE DEF T
  <2> QED
    BY <2>1, FS_RemoveElement
<1> QED
  BY <1>1, <1>3

\* A set of node identifiers has no members just when its size is zero.
LEMMA NoneLeft ==
    \A S \in SUBSET NodeId : Cardinality(S) = 0 <=> S = {}
BY NodeSets, FS_EmptySet

-----------------------------------------------------------------------------
(* What the loop maintains. VerdictCorrect alone says nothing before the     *)
(* function returns. The counters are tied to the graph by Degrees, Queue    *)
(* and Counted; Untouched is the heart of the matter: no set of nodes that   *)
(* wait on each other ever loses a member, so the loop removes everything    *)
(* only if there is no such set, and what it leaves behind is one.           *)

\* inDegree is the number of dependencies that are still there.
Degrees == \A n \in NodeId : inDegree[n] = Cardinality(deps[n] \ removed)

\* The queue holds exactly the nodes that could be removed and are not.
Queue == queue = {n \in nodes \ removed : deps[n] \subseteq removed}

\* count is the number of nodes removed.
Counted == count = Cardinality(removed)

\* What a removed node waited for was removed before it.
Closed == \A n \in removed : deps[n] \subseteq removed

\* A set of nodes waiting on each other loses no member.
Untouched == \A S \in SUBSET nodes : SelfWaiting(S) => S \cap removed = {}

KahnInv ==
    /\ \A n \in NodeId \ nodes : deps[n] = {}
    /\ pc = "count" => removed = {} /\ count = 0
    /\ pc \in {"kahn", "nodes"} =>
         DependenciesExist /\ Degrees /\ Queue /\ Counted /\ Closed /\ Untouched
    /\ pc = "nodes" => removed = nodes

IndInv == TypeOK /\ KahnInv /\ VerdictCorrect

\* Init establishes the invariant.
LEMMA InitInv == Init => IndInv
BY DEF Init, IndInv, TypeOK, KahnInv, VerdictCorrect

\* Counting the in-degrees starts the loop in the state it maintains.
LEMMA CountDegreesInv == IndInv /\ CountDegrees => IndInv'
<1> SUFFICES ASSUME IndInv, CountDegrees PROVE IndInv'
  OBVIOUS
<1> USE DEF IndInv
<1>0. removed = {} /\ count = 0 /\ removed' = {} /\ count' = 0
      /\ nodes' = nodes /\ deps' = deps /\ entry' = entry /\ exit' = exit
  BY DEF KahnInv, CountDegrees
<1>1. CASE Missing # {}
  <2>1. pc' = "returned" /\ verdict' = "missing" /\ inDegree' = inDegree
        /\ queue' = queue
    BY <1>1 DEF CountDegrees, Return
  <2>2. ~DependenciesExist'
    BY <1>0, <1>1 DEF Missing, DependenciesExist
  <2>3. TypeOK'
    BY <1>0, <2>1 DEF TypeOK
  <2>4. KahnInv'
    BY <1>0, <2>1 DEF KahnInv
  <2>5. VerdictCorrect'
    BY <2>1, <2>2 DEF VerdictCorrect, Valid
  <2> QED
    BY <2>3, <2>4, <2>5
<1>2. CASE Missing = {}
  <2>1. /\ inDegree' = [n \in NodeId |-> Cardinality(deps[n])]
        /\ queue' = {n \in nodes : deps[n] = {}}
        /\ pc' = "kahn"
        /\ verdict' = verdict
    BY <1>2 DEF CountDegrees
  <2>2. inDegree' \in [NodeId -> Nat]
    BY <2>1, NodeSets DEF TypeOK
  <2>3. TypeOK'
    BY <1>0, <2>1, <2>2 DEF TypeOK
  <2>4. DependenciesExist'
    BY <1>0, <1>2 DEF Missing, DependenciesExist
  <2>5. Degrees'
    <3>1. \A n \in NodeId : deps[n] \ {} = deps[n]
      OBVIOUS
    <3> QED
      BY <1>0, <2>1, <3>1 DEF Degrees
  <2>6. Queue'
    <3>1. nodes \ {} = nodes
      OBVIOUS
    <3> QED
      BY <1>0, <2>1, <3>1 DEF Queue
  <2>7. Counted'
    BY <1>0, FS_EmptySet DEF Counted
  <2>8. Closed' /\ Untouched'
    BY <1>0 DEF Closed, Untouched
  <2>9. KahnInv'
    BY <1>0, <2>1, <2>4, <2>5, <2>6, <2>7, <2>8 DEF KahnInv
  <2>10. VerdictCorrect'
    BY <2>1 DEF VerdictCorrect
  <2> QED
    BY <2>3, <2>9, <2>10
<1> QED
  BY <1>1, <1>2

\* Removing a node keeps the loop's invariant.
LEMMA RemoveInv == \A u \in NodeId : IndInv /\ Remove(u) => IndInv'
<1> SUFFICES ASSUME NEW u \in NodeId, IndInv, Remove(u) PROVE IndInv'
  OBVIOUS
<1> USE DEF IndInv
<1>0. /\ DependenciesExist /\ Degrees /\ Queue /\ Counted /\ Closed /\ Untouched
      /\ \A n \in NodeId \ nodes : deps[n] = {}
  BY DEF KahnInv, Remove
<1>1. /\ u \in nodes /\ u \notin removed /\ deps[u] \subseteq removed
  BY <1>0 DEF Queue, Remove
<1>2. /\ inDegree' = Decremented(u)
      /\ queue' = (queue \ {u}) \cup Freed(u)
      /\ count' = count + 1
      /\ removed' = removed \cup {u}
      /\ nodes' = nodes /\ deps' = deps /\ entry' = entry /\ exit' = exit
      /\ pc = "kahn" /\ pc' = "kahn" /\ verdict' = verdict
  BY DEF Remove
<1>3. deps \in [NodeId -> SUBSET NodeId] /\ nodes \in SUBSET NodeId
      /\ removed \in SUBSET NodeId
  BY DEF TypeOK
<1>4. \A n \in NodeId : inDegree'[n] = Cardinality(deps[n] \ removed')
  <2> SUFFICES ASSUME NEW n \in NodeId
               PROVE  inDegree'[n] = Cardinality(deps[n] \ (removed \cup {u}))
    BY <1>2
  <2>1. CASE u \in deps[n]
    <3>1. Cardinality(deps[n] \ (removed \cup {u})) = Cardinality(deps[n] \ removed) - 1
      BY <1>1, <1>3, <2>1, OneFewer
    <3> QED
      BY <1>0, <1>2, <2>1, <3>1 DEF Degrees, Decremented
  <2>2. CASE u \notin deps[n]
    <3>1. deps[n] \ (removed \cup {u}) = deps[n] \ removed
      BY <2>2
    <3> QED
      BY <1>0, <1>2, <2>2, <3>1 DEF Degrees, Decremented
  <2> QED
    BY <2>1, <2>2
<1>5. inDegree' \in [NodeId -> Nat]
  <2>1. \A n \in NodeId : Cardinality(deps[n] \ removed') \in Nat
    BY <1>3, NodeSets
  <2>2. inDegree' = [n \in NodeId |-> inDegree'[n]]
    BY <1>2 DEF Decremented
  <2> QED
    BY <1>4, <2>1, <2>2
<1>6. \A v \in nodes : v \in Freed(u) <=>
         v \notin removed /\ u \in deps[v] /\ deps[v] \subseteq removed'
  <2> SUFFICES ASSUME NEW v \in nodes, u \in deps[v]
               PROVE  inDegree[v] - 1 = 0 <=>
                         v \notin removed /\ deps[v] \subseteq removed'
    BY DEF Freed
  <2>1. v \notin removed
    BY <1>0, <1>1 DEF Closed
  <2>2. inDegree'[v] = inDegree[v] - 1
    BY <1>2, <1>3 DEF Decremented
  <2>3. inDegree'[v] = 0 <=> deps[v] \ removed' = {}
    BY <1>3, <1>4, NoneLeft
  <2> QED
    BY <2>1, <2>2, <2>3
<1>7. Queue'
  <2>1. Freed(u) \subseteq nodes
    BY DEF Freed
  <2> SUFFICES ASSUME NEW v \in nodes
               PROVE  v \in queue' <=> v \notin removed' /\ deps[v] \subseteq removed'
    BY <1>0, <1>2, <2>1 DEF Queue
  <2>2. CASE u \in deps[v]
    <3>1. v \notin queue /\ v # u
      BY <1>0, <1>1, <2>2 DEF Queue
    <3> QED
      BY <1>2, <1>6, <3>1, <2>2
  <2>3. CASE u \notin deps[v]
    <3>1. v \notin Freed(u) /\ (deps[v] \subseteq removed' <=> deps[v] \subseteq removed)
      BY <1>2, <2>3 DEF Freed
    <3> QED
      BY <1>0, <1>2, <3>1 DEF Queue
  <2> QED
    BY <2>2, <2>3
<1>8. Counted'
  <2>1. IsFiniteSet(removed)
    BY <1>3, NodeSets
  <2> QED
    BY <1>0, <1>1, <1>2, <2>1, FS_AddElement DEF Counted
<1>9. Closed'
  BY <1>0, <1>1, <1>2 DEF Closed
<1>10. Untouched'
  <2> SUFFICES ASSUME NEW S \in SUBSET nodes, SelfWaiting(S)
               PROVE  S \cap (removed \cup {u}) = {}
    BY <1>2 DEF Untouched, SelfWaiting
  <2>1. S \cap removed = {}
    BY <1>0 DEF Untouched
  <2>2. u \notin S
    BY <1>1, <2>1 DEF SelfWaiting
  <2> QED
    BY <2>1, <2>2
<1>11. TypeOK'
  BY <1>0, <1>1, <1>2, <1>5 DEF TypeOK, Freed
<1>12. KahnInv'
  <2>1. Degrees'
    BY <1>2, <1>4 DEF Degrees
  <2>2. DependenciesExist'
    BY <1>0, <1>2 DEF DependenciesExist
  <2> QED
    BY <1>0, <1>2, <1>7, <1>8, <1>9, <1>10, <2>1, <2>2 DEF KahnInv
<1>13. VerdictCorrect'
  BY <1>2 DEF VerdictCorrect
<1> QED
  BY <1>11, <1>12, <1>13

\* When the queue is empty the nodes that are left wait on each other.
LEMMA Leftover ==
    ASSUME TypeOK, DependenciesExist, Queue, queue = {}
    PROVE  removed # nodes => SelfWaiting(nodes \ removed)
<1> SUFFICES ASSUME removed # nodes PROVE SelfWaiting(nodes \ removed)
  OBVIOUS
<1>1. nodes \ removed # {}
  BY DEF TypeOK
<1>2. ASSUME NEW n \in nodes \ removed
      PROVE  deps[n] \cap (nodes \ removed) # {}
  <2>1. ~(deps[n] \subseteq removed)
    BY DEF Queue
  <2> QED
    BY <2>1 DEF DependenciesExist
<1> QED
  BY <1>1, <1>2 DEF SelfWaiting

\* The number of removed nodes tells whether all were removed.
LEMMA CountTells ==
    ASSUME TypeOK, Counted
    PROVE  count = Cardinality(nodes) <=> removed = nodes
<1>1. IsFiniteSet(nodes) /\ removed \subseteq nodes
  BY NodeSets DEF TypeOK
<1>2. Cardinality(nodes) = Cardinality(removed) => nodes = removed
  <2>1. removed \in SUBSET nodes
    BY <1>1
  <2> QED
    BY <1>1, <2>1, FS_Subset
<1> QED
  BY <1>2 DEF Counted

\* The comparison of the counts tells the graphs with a cycle from the others.
LEMMA CompareCountInv == IndInv /\ CompareCount => IndInv'
<1> SUFFICES ASSUME IndInv, CompareCount PROVE IndInv'
  OBVIOUS
<1> USE DEF IndInv
<1>0. /\ DependenciesExist /\ Degrees /\ Queue /\ Counted /\ Closed /\ Untouched
      /\ queue = {}
  BY DEF KahnInv, CompareCount
<1>1. UNCHANGED <<nodes, deps, entry, exit, inDegree, queue, count, removed>>
  BY DEF CompareCount
<1>2. CASE count # Cardinality(nodes)
  <2>1. pc' = "returned" /\ verdict' = "cyclic"
    BY <1>2 DEF CompareCount, Return
  <2>2. SelfWaiting(nodes \ removed)
    BY <1>0, <1>2, CountTells, Leftover
  <2>3. ~Acyclic'
    BY <1>1, <2>2 DEF Acyclic, SelfWaiting
  <2>4. DependenciesExist'
    BY <1>0, <1>1 DEF DependenciesExist
  <2>5. VerdictCorrect'
    BY <2>1, <2>3, <2>4 DEF VerdictCorrect, Valid
  <2>6. TypeOK' /\ KahnInv'
    BY <1>1, <2>1 DEF TypeOK, KahnInv
  <2> QED
    BY <2>5, <2>6
<1>3. CASE count = Cardinality(nodes)
  <2>1. pc' = "nodes" /\ verdict' = verdict
    BY <1>3 DEF CompareCount
  <2>2. removed = nodes
    BY <1>0, <1>3, CountTells
  <2>3. TypeOK'
    BY <1>1, <2>1 DEF TypeOK
  <2>4. (DependenciesExist /\ Degrees /\ Queue /\ Counted /\ Closed /\ Untouched)'
    BY <1>0, <1>1
    DEF DependenciesExist, Degrees, Queue, Counted, Closed, Untouched, SelfWaiting
  <2>5. KahnInv'
    BY <1>1, <2>1, <2>2, <2>4 DEF KahnInv
  <2> QED
    BY <2>1, <2>3, <2>5 DEF VerdictCorrect
<1> QED
  BY <1>2, <1>3

\* The checks of the entry and exit nodes complete the verdict.
LEMMA CheckNodesInv == IndInv /\ CheckNodes => IndInv'
<1> SUFFICES ASSUME IndInv, CheckNodes PROVE IndInv'
  OBVIOUS
<1> USE DEF IndInv
<1>0. DependenciesExist /\ Untouched /\ removed = nodes
  BY DEF KahnInv, CheckNodes
<1>1. UNCHANGED <<nodes, deps, entry, exit, inDegree, queue, count, removed>>
      /\ pc' = "returned"
  BY DEF CheckNodes, Return
<1>2. Acyclic
  BY <1>0 DEF Acyclic, Untouched, SelfWaiting
<1>3. DependenciesExist' /\ Acyclic'
  BY <1>0, <1>1, <1>2 DEF DependenciesExist, Acyclic, SelfWaiting
<1>4. verdict' = IF EntryNodesWrong # {} THEN "entry"
                 ELSE IF ~(exit \subseteq nodes) THEN "exit"
                 ELSE "ok"
  BY DEF CheckNodes, Return
<1>5. verdict' = "ok" <=> (\A n \in entry : n \in nodes /\ deps[n] = {}) /\ exit \subseteq nodes
  BY <1>4 DEF EntryNodesWrong
<1>6. VerdictCorrect'
  BY <1>1, <1>3, <1>4, <1>5 DEF VerdictCorrect, Valid
<1>7. TypeOK' /\ KahnInv'
  BY <1>1, <1>4 DEF TypeOK, KahnInv
<1> QED
  BY <1>6, <1>7

\* The invariant holds throughout every call.
LEMMA Inductive == Spec => []IndInv
<1>1. IndInv /\ [Next]_vars => IndInv'
  <2> SUFFICES ASSUME IndInv, [Next]_vars PROVE IndInv'
    OBVIOUS
  <2>1. CASE UNCHANGED vars
    BY <2>1 DEF vars, IndInv, TypeOK, KahnInv, VerdictCorrect, DependenciesExist,
       Degrees, Queue, Counted, Closed, Untouched, SelfWaiting, Valid, Acyclic
  <2> QED
    BY <2>1, CountDegreesInv, RemoveInv, CompareCountInv, CheckNodesInv DEF Next
<1> QED
  BY InitInv, <1>1, PTL DEF Spec

\* The variables of a call of Validate always have their types: no in-degree goes
\* below zero, and only nodes are queued and removed.
THEOREM TypeCorrect == Spec => []TypeOK
BY Inductive, PTL DEF IndInv

\* Validate's verdict is right about every graph of every size: it accepts
\* exactly the graphs whose dependencies exist, in which no set of nodes waits
\* on itself and whose entry and exit nodes are declared properly.
THEOREM ValidateDecides == Spec => []VerdictCorrect
BY Inductive, PTL DEF IndInv

\* No node is ever queued a second time, so counting removals counts nodes.
THEOREM NeverQueuedAgain == Spec => []QueuedOnce
<1>1. IndInv => QueuedOnce
  <2> SUFFICES ASSUME IndInv, pc = "kahn", NEW u \in queue, NEW v \in Freed(u)
               PROVE  v \notin queue /\ v \notin removed
    BY DEF QueuedOnce
  <2>1. Queue /\ Closed
    BY DEF IndInv, KahnInv
  <2>2. u \notin removed /\ u \in deps[v]
    BY <2>1 DEF Queue, Freed
  <2> QED
    BY <2>1, <2>2 DEF Queue, Closed
<1> QED
  BY Inductive, <1>1, PTL
=============================================================================
