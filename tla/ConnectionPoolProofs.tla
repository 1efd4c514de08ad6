------------------------ MODULE ConnectionPoolProofs ------------------------
(* Machine-checked proofs about ConnectionPool, for any number of           *)
(* connectors and connections and all limits.                               *)
EXTENDS ConnectionPool, FiniteSetTheorems, SequenceTheorems, TLAPS

-----------------------------------------------------------------------------
(* Counting *)

\* A set of connectors has a natural number of members, one more when another
\* joins and one less when a member leaves.
LEMMA ConnectorSets ==
    ASSUME NEW S \in SUBSET Connector
    PROVE  /\ IsFiniteSet(S)
           /\ Cardinality(S) \in Nat
           /\ \A c \in S : Cardinality(S \ {c}) = Cardinality(S) - 1
           /\ \A c \in Connector \ S : Cardinality(S \cup {c}) = Cardinality(S) + 1
<1>1. IsFiniteSet(S)
  BY PoolAssumption, FS_Subset
<1>2. Cardinality(S) \in Nat
  BY <1>1, FS_CardinalityType
<1>3. \A c \in S : Cardinality(S \ {c}) = Cardinality(S) - 1
  BY <1>1, FS_RemoveElement
<1>4. \A c \in Connector \ S : Cardinality(S \cup {c}) = Cardinality(S) + 1
  BY <1>1, FS_AddElement
<1> QED
  BY <1>1, <1>2, <1>3, <1>4

\* A connector that changes its state leaves the set of those in the state it
\* had and joins those in the one it gets.
LEMMA Moves ==
    ASSUME TypeOK, NEW c \in Connector,
           NEW s \in {"closed", "dialing", "direct", "own", "pooled"},
           pc' = [pc EXCEPT ![c] = s]
    PROVE  /\ Dialing' = IF s = "dialing" THEN Dialing \cup {c} ELSE Dialing \ {c}
           /\ Pooled' = IF s = "pooled" THEN Pooled \cup {c} ELSE Pooled \ {c}
BY DEF TypeOK, Dialing, Pooled

\* A list without repetitions has as many members as positions.
LEMMA DistinctCount ==
    ASSUME NEW s \in Seq(Conn),
           \A j, k \in DOMAIN s : s[j] = s[k] => j = k
    PROVE  /\ IsFiniteSet({s[k] : k \in DOMAIN s})
           /\ Cardinality({s[k] : k \in DOMAIN s}) = Len(s)
<1> DEFINE T == {s[k] : k \in DOMAIN s}
<1>1. DOMAIN s = 1..Len(s) /\ Len(s) \in Nat
  BY LenProperties
<1>2. IsFiniteSet(DOMAIN s) /\ Cardinality(DOMAIN s) = Len(s)
  BY <1>1, FS_Interval
<1>3. s \in Surjection(DOMAIN s, T)
  BY <1>1, LenProperties DEF Surjection
<1>4. s \in Injection(DOMAIN s, T)
  BY <1>1, <1>3 DEF Surjection, Injection, IsInjective
<1> HIDE DEF T
<1>5. IsFiniteSet(T) /\ Cardinality(T) = Cardinality(DOMAIN s)
  BY <1>2, <1>3, <1>4, FS_Surjection
<1> QED
  BY <1>2, <1>5 DEF T

\* How many of the members of P are no greater than k.
Rank(P, k) == Cardinality({j \in P : j <= k})

\* Numbered from the least to the greatest, every number up to the size of P is
\* the rank of exactly one member.
LEMMA Ranks ==
    ASSUME NEW n \in Nat, NEW P \in SUBSET (1..n)
    PROVE  /\ IsFiniteSet(P) /\ Cardinality(P) \in Nat
           /\ \A m \in 1..Cardinality(P) : \E k \in P : Rank(P, k) = m
           /\ \A k \in P : Rank(P, k) \in 1..Cardinality(P)
           /\ \A j, k \in P : Rank(P, j) = Rank(P, k) => j = k
<1>0. IsFiniteSet(1..n) /\ \A k \in P : k \in Int
  BY FS_Interval
<1>1. IsFiniteSet(P) /\ Cardinality(P) \in Nat
  BY <1>0, FS_Subset, FS_CardinalityType
<1> DEFINE Upto(k) == {j \in P : j <= k}
           r == [k \in P |-> Cardinality(Upto(k))]
           N == 1..Cardinality(P)
<1>2. ASSUME NEW k \in P
      PROVE  /\ IsFiniteSet(Upto(k)) /\ Cardinality(Upto(k)) \in Nat
             /\ Cardinality(Upto(k)) <= Cardinality(P)
             /\ Cardinality(Upto(k)) >= 1
  <2>1. Upto(k) \in SUBSET P
    OBVIOUS
  <2>2. IsFiniteSet(Upto(k)) /\ Cardinality(Upto(k)) <= Cardinality(P)
    BY <1>1, <2>1, FS_Subset
  <2>3. Cardinality(Upto(k)) \in Nat
    BY <2>2, FS_CardinalityType
  <2>4. k \in Upto(k)
    OBVIOUS
  <2>5. Cardinality(Upto(k)) # 0
    BY <2>2, <2>4, FS_EmptySet
  <2> QED
    BY <2>2, <2>3, <2>5
<1>3. ASSUME NEW j \in P, NEW k \in P, j < k
      PROVE  Cardinality(Upto(j)) < Cardinality(Upto(k))
  <2>0. /\ \A i \in P : i <= j => i <= k
        /\ k <= k /\ ~(k <= j)
    BY <1>0, <1>3
  <2>1. Upto(j) \in SUBSET Upto(k) /\ k \in Upto(k) /\ k \notin Upto(j)
    BY <2>0
  <2>2. /\ Cardinality(Upto(j)) <= Cardinality(Upto(k))
        /\ Cardinality(Upto(k)) = Cardinality(Upto(j)) => Upto(k) = Upto(j)
    BY <1>2, <2>1, FS_Subset
  <2>3. Upto(k) # Upto(j)
    BY <2>1
  <2> HIDE DEF Upto
  <2> QED
    BY <1>2, <2>2, <2>3
<1>4. r \in [P -> N]
  BY <1>1, <1>2
<1>5. \A j, k \in P : j # k => r[j] # r[k]
  <2> SUFFICES ASSUME NEW j \in P, NEW k \in P, j # k PROVE r[j] # r[k]
    OBVIOUS
  <2>1. j < k \/ k < j
    OBVIOUS
  <2>2. r[j] < r[k] \/ r[k] < r[j]
    BY <1>3, <2>1
  <2>3. r[j] \in Nat /\ r[k] \in Nat
    BY <1>2
  <2> QED
    BY <2>2, <2>3
<1> HIDE DEF r
<1>6. r \in Injection(P, N)
  BY <1>4, <1>5 DEF Injection, IsInjective
<1>7. IsFiniteSet(N) /\ Cardinality(N) = Cardinality(P)
  BY <1>1, FS_Interval
<1>8. r \in Surjection(P, N)
  <2> HIDE DEF N
  <2> QED
    BY <1>6, <1>7, FS_Injection
<1>9. \A m \in 1..Cardinality(P) : \E k \in P : r[k] = m
  BY <1>8 DEF Surjection
<1>10. \A k \in P : r[k] = Rank(P, k)
  BY DEF r, Rank
<1> QED
  BY <1>1, <1>4, <1>5, <1>9, <1>10

-----------------------------------------------------------------------------
(* The inductive invariant. Accounting and Exclusive need each other: the    *)
(* counter is right because a connection is in one place only, and the       *)
(* limits follow from the counter. To them it adds that the counter is never *)
(* above MaxPerKey, and that nobody dials once the pool is shut down.        *)

\* No connection is twice in the idle list.
Distinct == \A j, k \in DOMAIN idle : idle[j] = idle[k] => j = k

\* Every open connection has one owner, and owners have open connections only.
Owned ==
    /\ \A c \in Pooled : held[c] \in Conn
    /\ \A c, d \in Pooled : c # d => held[c] # held[d]
    /\ \A c \in Pooled : held[c] \notin Idle /\ conn[held[c]] = "open"
    /\ \A x \in Idle : conn[x] = "open"

Bounded ==
    /\ Len(idle) <= MaxIdlePerKey
    /\ numActive <= MaxPerKey
    /\ stopped => Dialing = {} /\ idle = <<>>

PoolInv == TypeOK /\ Distinct /\ Owned /\ Bounded /\ Accounting /\ NoneLost

\* A new pool is empty.
LEMMA InitPool == Init => PoolInv
<1> SUFFICES ASSUME Init PROVE PoolInv
  OBVIOUS
<1>1. Dialing = {} /\ Pooled = {} /\ Idle = {} /\ Len(idle) = 0
  BY DEF Init, Dialing, Pooled, Idle
<1>2. TypeOK
  BY EmptySeq DEF Init, TypeOK
<1> QED
  BY <1>1, <1>2, PoolAssumption, FS_EmptySet
  DEF Init, PoolInv, Distinct, Owned, Bounded, Accounting, NoneLost

\* Get cuts the idle list in three: what it drops, what it returns, and the
\* rest, no two of which share a connection.
LEMMA Cut ==
    ASSUME TypeOK, Distinct, NEW k \in 0..(Len(idle) - 1),
           idle' = IdleAfter(k + 1)
    PROVE  /\ idle' \in Seq(Conn)
           /\ Len(idle') = Len(idle) - k - 1
           /\ Distinct'
           /\ Idle = Front(k) \cup {idle[k + 1]} \cup Idle'
           /\ Idle' \cap Front(k) = {}
           /\ idle[k + 1] \notin Idle' \cup Front(k)
           /\ idle[k + 1] \in Conn
<1>1. Len(idle) \in Nat /\ idle \in [1..Len(idle) -> Conn] /\ DOMAIN idle = 1..Len(idle)
  BY LenProperties DEF TypeOK
<1>0. k \in Nat /\ k + 1 <= Len(idle)
  BY <1>1
<1>2. idle' = SubSeq(idle, k + 2, Len(idle))
  BY <1>0, <1>1 DEF IdleAfter
<1>3. /\ idle' \in Seq(Conn)
      /\ Len(idle') = Len(idle) - k - 1
      /\ \A j \in 1..(Len(idle) - k - 1) : idle'[j] = idle[k + 1 + j]
  <2>1. \A j \in (k + 2)..Len(idle) : idle[j] \in Conn
    BY <1>1
  <2> DEFINE t == SubSeq(idle, k + 2, Len(idle))
  <2>2. /\ t \in Seq(Conn)
        /\ Len(t) = IF k + 2 <= Len(idle) THEN Len(idle) - (k + 2) + 1 ELSE 0
        /\ \A j \in 1..(Len(idle) - (k + 2) + 1) : t[j] = idle[(k + 2) + j - 1]
    BY <1>1, <2>1, SubSeqProperties
  <2> HIDE DEF t
  <2>3. idle' = t
    BY <1>2 DEF t
  <2>4. Len(t) = Len(idle) - k - 1
    <3>1. CASE k + 2 <= Len(idle)
      BY <1>0, <1>1, <2>2, <3>1
    <3>2. CASE ~(k + 2 <= Len(idle))
      <4>0. \A l, m \in Nat : m + 1 <= l /\ ~(m + 2 <= l) => l - m - 1 = 0
        OBVIOUS
      <4>1. Len(idle) - k - 1 = 0
        BY <1>0, <1>1, <3>2, <4>0
      <4> QED
        BY <2>2, <3>2, <4>1
    <3> QED
      BY <3>1, <3>2
  <2>5. ASSUME NEW j \in 1..(Len(idle) - k - 1) PROVE t[j] = idle[k + 1 + j]
    <3>1. j \in 1..(Len(idle) - (k + 2) + 1) /\ (k + 2) + j - 1 = k + 1 + j
      BY <1>0, <1>1
    <3> QED
      BY <2>2, <3>1
  <2> QED
    BY <2>2, <2>3, <2>4, <2>5
<1>4. DOMAIN idle' = 1..(Len(idle) - k - 1)
  BY <1>3, LenProperties
<1>5. Idle' = {idle[j] : j \in (k + 2)..Len(idle)}
  <2>1. \A j \in DOMAIN idle' : k + 1 + j \in (k + 2)..Len(idle) /\ idle'[j] = idle[k + 1 + j]
    BY <1>1, <1>3, <1>4
  <2>2. ASSUME NEW j \in (k + 2)..Len(idle)
        PROVE  j - k - 1 \in DOMAIN idle' /\ idle'[j - k - 1] = idle[j]
    <3>1. j - k - 1 \in 1..(Len(idle) - k - 1) /\ k + 1 + (j - k - 1) = j
      BY <1>0, <1>1
    <3> QED
      BY <1>3, <1>4, <3>1
  <2> QED
    BY <2>1, <2>2 DEF Idle
<1>6. Distinct'
  <2> SUFFICES ASSUME NEW i \in DOMAIN idle', NEW j \in DOMAIN idle', idle'[i] = idle'[j]
               PROVE  i = j
    BY DEF Distinct
  <2>1. /\ k + 1 + i \in DOMAIN idle /\ k + 1 + j \in DOMAIN idle
        /\ idle[k + 1 + i] = idle[k + 1 + j]
    BY <1>1, <1>3, <1>4
  <2> QED
    BY <1>4, <2>1 DEF Distinct
<1>7. DOMAIN idle = (1..k) \cup {k + 1} \cup ((k + 2)..Len(idle))
  BY <1>1
<1>8. Idle = Front(k) \cup {idle[k + 1]} \cup Idle'
  BY <1>5, <1>7 DEF Idle, Front
<1>9. \A i \in 1..k, j \in (k + 2)..Len(idle) :
        idle[i] # idle[j] /\ idle[i] # idle[k + 1] /\ idle[j] # idle[k + 1]
  BY <1>1 DEF Distinct
<1>10. /\ \A i \in 1..k : idle[i] # idle[k + 1]
       /\ \A j \in (k + 2)..Len(idle) : idle[j] # idle[k + 1]
  BY <1>1 DEF Distinct
<1>11. Idle' \cap Front(k) = {} /\ idle[k + 1] \notin Idle' \cup Front(k)
  BY <1>5, <1>9, <1>10 DEF Front
<1>12. idle[k + 1] \in Conn
  BY <1>1
<1> QED
  BY <1>3, <1>6, <1>8, <1>11, <1>12

\* The size of the list and of the sets of connectors in a state of the pool.
LEMMA Sizes ==
    ASSUME TypeOK
    PROVE  /\ Len(idle) \in Nat
           /\ DOMAIN idle = 1..Len(idle)
           /\ Idle \subseteq Conn
           /\ Dialing \in SUBSET Connector /\ Cardinality(Dialing) \in Nat
           /\ Pooled \in SUBSET Connector /\ Cardinality(Pooled) \in Nat
<1>1. Len(idle) \in Nat /\ DOMAIN idle = 1..Len(idle)
  BY LenProperties DEF TypeOK
<1>2. Idle \subseteq Conn
  BY LenProperties DEF Idle, TypeOK
<1>3. Dialing \in SUBSET Connector /\ Pooled \in SUBSET Connector
  BY DEF Dialing, Pooled
<1> QED
  BY <1>1, <1>2, <1>3, ConnectorSets

\* Get hands out an idle connection: the place moves from the list to the
\* connector, and the places of the stale ones are free again.
LEMMA GetIdleInv ==
    ASSUME PoolInv, NEW c \in Connector, NEW k \in 0..(Len(idle) - 1), GetIdle(c, k)
    PROVE  PoolInv'
<1> DEFINE x == idle[k + 1]
<1> USE DEF PoolInv
<1>1. /\ idle' \in Seq(Conn)
      /\ Len(idle') = Len(idle) - k - 1
      /\ Distinct'
      /\ Idle = Front(k) \cup {x} \cup Idle'
      /\ Idle' \cap Front(k) = {}
      /\ x \notin Idle' \cup Front(k)
      /\ x \in Conn
  BY Cut DEF GetIdle
<1>2. /\ c \notin Dialing /\ c \notin Pooled
      /\ Dialing' = Dialing \ {c} /\ Pooled' = Pooled \cup {c}
  BY Moves DEF GetIdle, Dialing, Pooled
<1>3. Dialing' = Dialing /\ Cardinality(Pooled') = Cardinality(Pooled) + 1
  BY <1>2, ConnectorSets, Sizes
<1>4. k \in Nat /\ Len(idle) \in Nat /\ k + 1 <= Len(idle)
  BY Sizes
<1>5. /\ numActive' = numActive - k /\ ~stopped /\ stopped' = stopped
      /\ conn' = Closed(Front(k))
      /\ held' = [held EXCEPT ![c] = x]
      /\ pc' = [pc EXCEPT ![c] = "pooled"]
  BY DEF GetIdle
<1>6. numActive = Len(idle) + Cardinality(Dialing) + Cardinality(Pooled)
  BY <1>5 DEF Accounting
<1>7. numActive' = Len(idle') + Cardinality(Dialing') + Cardinality(Pooled')
  BY <1>1, <1>3, <1>4, <1>5, <1>6, Sizes
<1>8. numActive' \in Nat /\ numActive' <= MaxPerKey /\ Len(idle') <= MaxIdlePerKey
  <2>1. numActive \in Nat /\ numActive <= MaxPerKey /\ Len(idle) <= MaxIdlePerKey
    BY DEF TypeOK, Bounded
  <2>2. numActive >= k
    BY <1>4, <1>6, Sizes
  <2> QED
    BY <1>1, <1>4, <1>5, <2>1, <2>2, PoolAssumption
<1> HIDE DEF x
<1>9. /\ \A y \in Front(k) : y \in Conn => conn'[y] = "closed"
      /\ \A y \in Conn \ Front(k) : conn'[y] = conn[y]
      /\ conn' \in [Conn -> {"unused", "open", "closed"}]
  BY <1>5 DEF Closed, TypeOK
<1>10. TypeOK'
  BY <1>1, <1>5, <1>8, <1>9 DEF TypeOK
<1>11. held'[c] = x /\ \A d \in Pooled : held'[d] = held[d] /\ d # c
  BY <1>2, <1>5 DEF TypeOK, Pooled
<1>12. Owned'
  <2>1. \A d \in Pooled : held[d] \notin Idle /\ held[d] \in Conn
                           /\ conn[held[d]] = "open"
    BY DEF Owned
  <2>2. \A d \in Pooled' : held'[d] \in Conn
    BY <1>1, <1>2, <1>11, <2>1
  <2>3. \A d, e \in Pooled' : d # e => held'[d] # held'[e]
    BY <1>1, <1>2, <1>11, <2>1 DEF Owned
  <2>4. \A d \in Pooled' : held'[d] \notin Idle' /\ conn'[held'[d]] = "open"
    BY <1>1, <1>2, <1>9, <1>11, <2>1 DEF Owned
  <2>5. \A y \in Idle' : conn'[y] = "open"
    BY <1>1, <1>9, Sizes DEF Owned
  <2> QED
    BY <2>2, <2>3, <2>4, <2>5 DEF Owned
<1>13. NoneLost'
  <2> SUFFICES ASSUME NEW y \in Conn, conn'[y] = "open"
               PROVE  y \in Idle' \/ \E d \in Pooled' : held'[d] = y
    BY DEF NoneLost
  <2>1. y \notin Front(k) /\ conn[y] = "open"
    BY <1>9
  <2>2. y \in Idle \/ \E d \in Pooled : held[d] = y
    BY <2>1 DEF NoneLost
  <2> QED
    BY <1>1, <1>2, <1>11, <2>1, <2>2
<1> QED
  BY <1>1, <1>5, <1>7, <1>8, <1>10, <1>12, <1>13 DEF Accounting, Bounded

\* Get drops the whole list and reserves a place for a dial if one is free.
LEMMA GetNewInv ==
    ASSUME PoolInv, NEW c \in Connector, GetNew(c)
    PROVE  PoolInv'
<1> DEFINE n == numActive - Len(idle)
<1> USE DEF PoolInv
<1>1. /\ idle' = <<>> /\ ~stopped /\ stopped' = stopped /\ held' = held
      /\ conn' = Closed(Idle) /\ pc[c] = "closed"
  BY DEF GetNew
<1>2. Idle' = {} /\ Len(idle') = 0 /\ idle' \in Seq(Conn) /\ DOMAIN idle' = {}
  BY <1>1, EmptySeq DEF Idle
<1>3. n = Cardinality(Dialing) + Cardinality(Pooled) /\ n \in Nat /\ n <= MaxPerKey
  BY <1>1, Sizes, PoolAssumption DEF Accounting, TypeOK, Bounded
<1>4. /\ \A y \in Idle : conn'[y] = "closed"
      /\ \A y \in Conn \ Idle : conn'[y] = conn[y]
      /\ conn' \in [Conn -> {"unused", "open", "closed"}]
  BY <1>1, Sizes DEF Closed, TypeOK
<1>5. c \notin Dialing /\ c \notin Pooled
  BY <1>1 DEF Dialing, Pooled
<1>6. \/ /\ numActive' = n /\ pc' = [pc EXCEPT ![c] = "direct"]
      \/ /\ numActive' = n + 1 /\ pc' = [pc EXCEPT ![c] = "dialing"] /\ n < MaxPerKey
  BY <1>3, PoolAssumption DEF GetNew, Exhausted
<1>7. /\ pc' \in [Connector -> {"closed", "dialing", "direct", "own", "pooled"}]
      /\ Pooled' = Pooled
      /\ numActive' = Cardinality(Dialing') + Cardinality(Pooled')
      /\ numActive' \in Nat /\ numActive' <= MaxPerKey
  <2>1. CASE numActive' = n /\ pc' = [pc EXCEPT ![c] = "direct"]
    <3>1. Dialing' = Dialing /\ Pooled' = Pooled
      BY <1>5, <2>1 DEF TypeOK, Dialing, Pooled
    <3> QED
      BY <1>3, <2>1, <3>1 DEF TypeOK
  <2>2. CASE numActive' = n + 1 /\ pc' = [pc EXCEPT ![c] = "dialing"] /\ n < MaxPerKey
    <3>1. Dialing' = Dialing \cup {c} /\ Pooled' = Pooled
      BY <1>5, <2>2 DEF TypeOK, Dialing, Pooled
    <3>2. Cardinality(Dialing') = Cardinality(Dialing) + 1
      BY <1>5, <3>1, ConnectorSets, Sizes
    <3> QED
      BY <1>3, <2>2, <3>1, <3>2, Sizes, PoolAssumption DEF TypeOK
  <2> QED
    BY <1>6, <2>1, <2>2
<1>8. TypeOK'
  BY <1>1, <1>2, <1>4, <1>7 DEF TypeOK
<1>9. Accounting' /\ Bounded' /\ Distinct'
  <2>0. Dialing' \in SUBSET Connector /\ Pooled' \in SUBSET Connector
    BY DEF Dialing, Pooled
  <2>1. Cardinality(Dialing') + Cardinality(Pooled')
          = 0 + Cardinality(Dialing') + Cardinality(Pooled')
    BY <2>0, ConnectorSets
  <2>2. Accounting'
    BY <1>2, <1>7, <2>1 DEF Accounting
  <2> QED
    BY <1>1, <1>2, <1>7, <2>2, PoolAssumption DEF Bounded, Distinct
<1>10. Owned' /\ NoneLost'
  BY <1>1, <1>2, <1>4, <1>7 DEF Owned, NoneLost
<1> QED
  BY <1>8, <1>9, <1>10

\* The dial succeeds: the place reserved is that of the new connection.
LEMMA DialOkInv ==
    ASSUME PoolInv, NEW c \in Connector, NEW x \in Conn, DialOk(c, x)
    PROVE  PoolInv'
<1> USE DEF PoolInv
<1>1. /\ idle' = idle /\ numActive' = numActive /\ stopped' = stopped
      /\ conn' = [conn EXCEPT ![x] = "open"] /\ conn[x] = "unused"
      /\ held' = [held EXCEPT ![c] = x]
      /\ pc' = [pc EXCEPT ![c] = "pooled"] /\ pc[c] = "dialing"
  BY DEF DialOk
<1>2. c \in Dialing /\ c \notin Pooled /\ Idle' = Idle
  BY <1>1 DEF Dialing, Pooled, Idle
<1>3. Dialing' = Dialing \ {c} /\ Pooled' = Pooled \cup {c}
  BY <1>1, Moves
<1>4. /\ Cardinality(Dialing') = Cardinality(Dialing) - 1
      /\ Cardinality(Pooled') = Cardinality(Pooled) + 1
  BY <1>2, <1>3, ConnectorSets, Sizes
<1>5. TypeOK'
  BY <1>1 DEF TypeOK
<1>6. Accounting' /\ Bounded' /\ Distinct'
  BY <1>1, <1>2, <1>3, <1>4, Sizes DEF Accounting, Bounded, Distinct
<1>7. /\ held'[c] = x /\ \A d \in Pooled : held'[d] = held[d] /\ d # c
      /\ conn'[x] = "open" /\ \A y \in Conn \ {x} : conn'[y] = conn[y]
  BY <1>1, <1>2 DEF TypeOK, Pooled
<1>8. x \notin Idle /\ \A d \in Pooled : held[d] # x
  BY <1>1 DEF Owned
<1>9. Owned'
  BY <1>2, <1>3, <1>7, <1>8, Sizes DEF Owned
<1>10. NoneLost'
  BY <1>2, <1>3, <1>7 DEF NoneLost
<1> QED
  BY <1>5, <1>6, <1>9, <1>10

\* The dial fails and gives its place back.
LEMMA DialFailsInv ==
    ASSUME PoolInv, NEW c \in Connector, DialFails(c)
    PROVE  PoolInv'
<1> USE DEF PoolInv
<1>1. /\ idle' = idle /\ numActive' = numActive - 1 /\ stopped' = stopped
      /\ conn' = conn /\ held' = held
      /\ pc' = [pc EXCEPT ![c] = "direct"] /\ pc[c] = "dialing"
  BY DEF DialFails, AfterDialFailure
<1>2. c \in Dialing /\ c \notin Pooled /\ Idle' = Idle
  BY <1>1 DEF Dialing, Pooled, Idle
<1>3. Dialing' = Dialing \ {c} /\ Pooled' = Pooled
  BY <1>1, <1>2 DEF TypeOK, Dialing, Pooled
<1>4. Cardinality(Dialing') = Cardinality(Dialing) - 1 /\ Cardinality(Dialing') \in Nat
  BY <1>2, <1>3, ConnectorSets, Sizes
<1>5. ~stopped
  BY <1>2 DEF Bounded
<1>6. numActive' = Len(idle') + Cardinality(Dialing') + Cardinality(Pooled')
      /\ numActive' \in Nat /\ numActive' <= MaxPerKey
  BY <1>1, <1>3, <1>4, <1>5, Sizes, PoolAssumption DEF Accounting, Bounded, TypeOK
<1>7. TypeOK'
  BY <1>1, <1>6 DEF TypeOK
<1>8. Accounting' /\ Bounded' /\ Distinct'
  BY <1>1, <1>3, <1>5, <1>6 DEF Accounting, Bounded, Distinct
<1>9. Owned' /\ NoneLost'
  BY <1>1, <1>2, <1>3 DEF Owned, NoneLost
<1> QED
  BY <1>7, <1>8, <1>9

\* Connections the pool knows nothing of leave it alone.
LEMMA OwnInv ==
    ASSUME PoolInv, NEW c \in Connector,
           CloseOwn(c) \/ \E ok \in BOOLEAN : DirectDial(c, ok)
    PROVE  PoolInv'
<1> USE DEF PoolInv
<1>1. /\ idle' = idle /\ numActive' = numActive /\ stopped' = stopped
      /\ conn' = conn /\ held' = held /\ pc[c] \in {"direct", "own"}
  BY DEF CloseOwn, DirectDial
<1>2. PICK s \in {"own", "closed"} : pc' = [pc EXCEPT ![c] = s]
  BY DEF CloseOwn, DirectDial
<1>3. Idle' = Idle /\ Dialing' = Dialing /\ Pooled' = Pooled
  BY <1>1, <1>2, Moves DEF Idle, Dialing, Pooled
<1>4. TypeOK'
  BY <1>1, <1>2 DEF TypeOK
<1>5. Accounting' /\ Bounded' /\ Distinct'
  BY <1>1, <1>3 DEF Accounting, Bounded, Distinct
<1>6. Owned' /\ NoneLost'
  BY <1>1, <1>3 DEF Owned, NoneLost
<1> QED
  BY <1>4, <1>5, <1>6

\* Put of a managed connection: it goes to the end of the list, or it is closed
\* and its place is free.
LEMMA PutInv ==
    ASSUME PoolInv, NEW c \in Connector, NEW healthy \in BOOLEAN, Put(c, healthy)
    PROVE  PoolInv'
<1> DEFINE x == held[c]
<1> USE DEF PoolInv
<1>1. /\ ~stopped /\ stopped' = stopped /\ pc[c] = "pooled"
      /\ held' = [held EXCEPT ![c] = NoConn]
      /\ pc' = [pc EXCEPT ![c] = "closed"]
  BY DEF Put
<1>2. c \in Pooled /\ c \notin Dialing
  BY <1>1 DEF Dialing, Pooled
<1>3. Dialing' = Dialing /\ Pooled' = Pooled \ {c}
  BY <1>1, <1>2 DEF TypeOK, Dialing, Pooled
<1>4. Cardinality(Pooled') = Cardinality(Pooled) - 1 /\ Cardinality(Pooled') \in Nat
  BY <1>2, <1>3, ConnectorSets, Sizes
<1>5. /\ x \in Conn /\ x \notin Idle /\ conn[x] = "open"
      /\ \A d \in Pooled' : held'[d] = held[d] /\ held[d] # x /\ d \in Pooled
  BY <1>1, <1>2, <1>3 DEF Owned, TypeOK, Pooled
<1>6. numActive = Len(idle) + Cardinality(Dialing) + Cardinality(Pooled)
  BY <1>1 DEF Accounting
<1>7. /\ numActive \in Nat /\ Len(idle) <= MaxIdlePerKey /\ numActive <= MaxPerKey
      /\ held' \in [Connector -> Conn \cup {NoConn}]
      /\ pc' \in [Connector -> {"closed", "dialing", "direct", "own", "pooled"}]
  BY <1>1 DEF TypeOK, Bounded
<1> HIDE DEF x
<1>8. CASE Keeps(healthy)
  <2>1. idle' = Append(idle, x) /\ numActive' = numActive /\ conn' = conn
    BY <1>8 DEF Put, x
  <2>2. /\ idle' \in Seq(Conn) /\ Len(idle') = Len(idle) + 1
        /\ \A j \in 1..Len(idle) : idle'[j] = idle[j]
        /\ idle'[Len(idle) + 1] = x
        /\ DOMAIN idle' = 1..(Len(idle) + 1)
    BY <1>5, <2>1, AppendProperties, LenProperties DEF TypeOK
  <2>3. DOMAIN idle = 1..Len(idle) /\ Len(idle) \in Nat
    BY Sizes
  <2>4. DOMAIN idle' = DOMAIN idle \cup {Len(idle) + 1}
    BY <2>2, <2>3
  <2>5. Idle' = Idle \cup {x}
    BY <2>2, <2>3, <2>4 DEF Idle
  <2>6. Distinct'
    <3>1. \A j \in DOMAIN idle : idle'[j] = idle[j] /\ idle[j] # x
      BY <1>5, <2>2, <2>3 DEF Idle
    <3> QED
      BY <2>2, <2>4, <3>1 DEF Distinct
  <2>7. TypeOK'
    BY <1>1, <1>7, <2>1, <2>2 DEF TypeOK
  <2>8. Accounting'
    BY <1>3, <1>4, <1>6, <2>1, <2>2, Sizes DEF Accounting
  <2>9. Bounded'
    BY <1>1, <1>7, <1>8, <2>1, <2>2, <2>3, PoolAssumption DEF Bounded, Keeps
  <2>10. Owned'
    BY <1>3, <1>5, <2>1, <2>5 DEF Owned
  <2>11. NoneLost'
    BY <1>2, <1>3, <1>5, <2>1, <2>5 DEF NoneLost, x
  <2> QED
    BY <2>6, <2>7, <2>8, <2>9, <2>10, <2>11
<1>9. CASE ~Keeps(healthy)
  <2>1. idle' = idle /\ numActive' = Less(1) /\ conn' = Closed({x}) /\ Idle' = Idle
    BY <1>9 DEF Put, x, Idle
  <2>2. numActive >= 1
    BY <1>4, <1>6, Sizes
  <2>3. numActive' = numActive - 1 /\ numActive' \in Nat /\ numActive' <= MaxPerKey
    BY <1>7, <2>1, <2>2, PoolAssumption DEF Less
  <2>4. /\ conn'[x] = "closed" /\ \A y \in Conn \ {x} : conn'[y] = conn[y]
        /\ conn' \in [Conn -> {"unused", "open", "closed"}]
    BY <1>5, <2>1 DEF Closed, TypeOK
  <2>5. TypeOK'
    BY <1>1, <1>7, <2>1, <2>3, <2>4 DEF TypeOK
  <2>6. Accounting'
    BY <1>3, <1>4, <1>6, <2>1, <2>3, Sizes DEF Accounting
  <2>7. Bounded' /\ Distinct'
    BY <1>1, <1>7, <2>1, <2>3 DEF Bounded, Distinct
  <2>8. Owned'
    <3>1. \A d \in Pooled' : held'[d] \in Conn \ {x} /\ held'[d] \notin Idle'
                             /\ conn'[held'[d]] = "open"
      <4> SUFFICES ASSUME NEW d \in Pooled'
                   PROVE  held'[d] \in Conn \ {x} /\ held'[d] \notin Idle'
                          /\ conn'[held'[d]] = "open"
        OBVIOUS
      <4>1. d \in Pooled /\ held'[d] = held[d] /\ held[d] # x
        BY <1>5
      <4>2. held[d] \in Conn /\ held[d] \notin Idle /\ conn[held[d]] = "open"
        BY <4>1 DEF Owned
      <4> QED
        BY <2>1, <2>4, <4>1, <4>2
    <3>2. \A y \in Idle' : conn'[y] = "open"
      BY <1>5, <2>1, <2>4, Sizes DEF Owned
    <3>3. \A d, e \in Pooled' : d # e => held'[d] # held'[e]
      BY <1>5 DEF Owned
    <3> QED
      BY <3>1, <3>2, <3>3 DEF Owned
  <2>9. NoneLost'
    <3> SUFFICES ASSUME NEW y \in Conn, conn'[y] = "open"
                 PROVE  y \in Idle' \/ \E d \in Pooled' : held'[d] = y
      BY DEF NoneLost
    <3>1. y # x /\ conn[y] = "open"
      BY <2>4
    <3>2. y \in Idle \/ \E d \in Pooled : held[d] = y
      BY <3>1 DEF NoneLost
    <3> QED
      BY <1>3, <1>5, <2>1, <3>1, <3>2 DEF x
  <2> QED
    BY <2>5, <2>6, <2>7, <2>8, <2>9
<1> QED
  BY <1>8, <1>9

\* The list the scrubber puts in place has just the connections that are fresh.
LEMMA Kept ==
    ASSUME TypeOK, Distinct, NEW S \in SUBSET Idle, idle' = FreshIdle(S)
    PROVE  /\ idle' \in Seq(Conn)
           /\ Distinct'
           /\ Idle' = Idle \ S
           /\ IsFiniteSet(S) /\ Cardinality(S) \in Nat
           /\ Len(idle') = Len(idle) - Cardinality(S)
<1> DEFINE P == {k \in DOMAIN idle : idle[k] \notin S}
           N == Cardinality(P)
           Nth(n) == CHOOSE k \in P : Cardinality({j \in P : j <= k}) = n
<1>1. DOMAIN idle = 1..Len(idle) /\ Len(idle) \in Nat /\ idle \in [1..Len(idle) -> Conn]
  BY LenProperties DEF TypeOK
<1>2. P \in SUBSET (1..Len(idle)) /\ \A k \in P : idle[k] \in Idle \ S
  BY <1>1 DEF Idle
<1>3. idle' = [n \in 1..N |-> idle[Nth(n)]]
  BY DEF FreshIdle
<1>4. \A x \in Idle \ S : \E k \in P : x = idle[k]
  BY DEF Idle
<1> HIDE DEF P
<1>5. /\ N \in Nat
      /\ \A n \in 1..N : \E k \in P : Rank(P, k) = n
      /\ \A k \in P : Rank(P, k) \in 1..N
      /\ \A j, k \in P : Rank(P, j) = Rank(P, k) => j = k
  BY <1>1, <1>2, Ranks
<1>6. \A n \in 1..N : Nth(n) \in P /\ Rank(P, Nth(n)) = n
  BY <1>5 DEF Rank
<1> HIDE DEF N, Nth
<1>7. /\ DOMAIN idle' = 1..N
      /\ \A n \in 1..N : idle'[n] = idle[Nth(n)] /\ idle'[n] \in Conn
  BY <1>1, <1>2, <1>3, <1>6
<1>8. idle' \in Seq(Conn) /\ Len(idle') = N
  <2>1. idle' \in [1..N -> Conn]
    BY <1>3, <1>7
  <2> QED
    BY <1>5, <2>1, SeqDef, LenProperties
<1>9. Distinct'
  <2> SUFFICES ASSUME NEW i \in 1..N, NEW j \in 1..N, idle'[i] = idle'[j] PROVE i = j
    BY <1>7 DEF Distinct
  <2>1. Nth(i) \in DOMAIN idle /\ Nth(j) \in DOMAIN idle /\ idle[Nth(i)] = idle[Nth(j)]
    BY <1>1, <1>2, <1>6, <1>7
  <2>2. Nth(i) = Nth(j)
    BY <2>1 DEF Distinct
  <2> QED
    BY <1>6, <2>2
<1>10. Idle' = Idle \ S
  <2>1. ASSUME NEW n \in 1..N PROVE idle'[n] \in Idle \ S
    BY <1>2, <1>6, <1>7
  <2>2. ASSUME NEW x \in Idle \ S PROVE \E n \in 1..N : idle'[n] = x
    <3>1. PICK k \in P : x = idle[k]
      BY <1>4
    <3>2. Rank(P, k) \in 1..N
      BY <1>5
    <3>3. Nth(Rank(P, k)) = k
      BY <1>5, <1>6, <3>2
    <3> QED
      BY <1>7, <3>1, <3>2, <3>3
  <2> QED
    BY <1>7, <2>1, <2>2 DEF Idle
<1>11. IsFiniteSet(Idle) /\ Cardinality(Idle) = Len(idle)
  BY DistinctCount DEF Distinct, TypeOK, Idle
<1>12. Cardinality(Idle') = Len(idle')
  <2>1. \A j, k \in DOMAIN idle' : idle'[j] = idle'[k] => j = k
    BY <1>9 DEF Distinct
  <2> QED
    BY <1>8, <2>1, DistinctCount DEF Idle
<1>13. IsFiniteSet(S) /\ Cardinality(S) \in Nat
  BY <1>11, FS_Subset, FS_CardinalityType
<1>14. Cardinality(Idle \ S) = Cardinality(Idle) - Cardinality(S)
  <2>1. Idle \cap S = S
    OBVIOUS
  <2> QED
    BY <1>11, <2>1, FS_Difference
<1> QED
  BY <1>8, <1>9, <1>10, <1>11, <1>12, <1>13, <1>14

\* The scrubber closes stale connections and frees their places.
LEMMA ScrubInv ==
    ASSUME PoolInv, NEW S \in SUBSET Idle, Scrub(S)
    PROVE  PoolInv'
<1> USE DEF PoolInv
<1>1. /\ ~stopped /\ stopped' = stopped /\ pc' = pc /\ held' = held
      /\ numActive' = Less(Cardinality(S)) /\ conn' = Closed(S)
      /\ idle' = FreshIdle(S)
  BY DEF Scrub
<1>2. /\ idle' \in Seq(Conn) /\ Distinct' /\ Idle' = Idle \ S
      /\ Cardinality(S) \in Nat /\ Len(idle') = Len(idle) - Cardinality(S)
  BY <1>1, Kept
<1>3. Dialing' = Dialing /\ Pooled' = Pooled
  BY <1>1 DEF Dialing, Pooled
<1>4. numActive = Len(idle) + Cardinality(Dialing) + Cardinality(Pooled)
  BY <1>1 DEF Accounting
<1>5. Len(idle') \in Nat
  BY <1>2, LenProperties
<1>6. /\ numActive' = numActive - Cardinality(S) /\ numActive' \in Nat
      /\ numActive' <= MaxPerKey /\ Len(idle') <= MaxIdlePerKey
  <2>1. numActive >= Cardinality(S) /\ numActive \in Nat /\ numActive <= MaxPerKey
        /\ Len(idle) <= MaxIdlePerKey
    BY <1>2, <1>4, <1>5, Sizes DEF TypeOK, Bounded
  <2> QED
    BY <1>1, <1>2, <2>1, Sizes, PoolAssumption DEF Less
<1>7. /\ \A y \in Conn \ S : conn'[y] = conn[y]
      /\ \A y \in Conn \cap S : conn'[y] = "closed"
      /\ conn' \in [Conn -> {"unused", "open", "closed"}]
  BY <1>1 DEF Closed, TypeOK
<1>8. TypeOK'
  BY <1>1, <1>2, <1>6, <1>7 DEF TypeOK
<1>9. Accounting'
  BY <1>2, <1>3, <1>4, <1>6, Sizes DEF Accounting
<1>10. Bounded'
  BY <1>1, <1>6 DEF Bounded
<1>11. Owned'
  <2>1. \A d \in Pooled : held[d] \in Conn \ S /\ conn'[held[d]] = "open"
    BY <1>7 DEF Owned
  <2>2. \A y \in Idle' : conn'[y] = "open"
    BY <1>2, <1>7, Sizes DEF Owned
  <2> QED
    BY <1>1, <1>2, <1>3, <2>1, <2>2 DEF Owned
<1>12. NoneLost'
  BY <1>1, <1>2, <1>3, <1>7 DEF NoneLost
<1> QED
  BY <1>2, <1>8, <1>9, <1>10, <1>11, <1>12

\* Shutdown closes the whole list; what connectors hold stays open.
LEMMA ShutdownInv == PoolInv /\ Shutdown => PoolInv'
<1> SUFFICES ASSUME PoolInv, Shutdown PROVE PoolInv'
  OBVIOUS
<1> USE DEF PoolInv
<1>1. /\ idle' = <<>> /\ numActive' = 0 /\ stopped' = TRUE /\ pc' = pc /\ held' = held
      /\ conn' = Closed(Idle) /\ \A c \in Connector : pc[c] # "dialing"
  BY DEF Shutdown
<1>2. Idle' = {} /\ Len(idle') = 0 /\ idle' \in Seq(Conn) /\ DOMAIN idle' = {}
  BY <1>1, EmptySeq DEF Idle
<1>3. Dialing' = {} /\ Pooled' = Pooled
  BY <1>1 DEF Dialing, Pooled
<1>4. /\ \A y \in Idle : conn'[y] = "closed"
      /\ \A y \in Conn \ Idle : conn'[y] = conn[y]
      /\ conn' \in [Conn -> {"unused", "open", "closed"}]
  BY <1>1, Sizes DEF Closed, TypeOK
<1>5. TypeOK'
  BY <1>1, <1>2, <1>4 DEF TypeOK
<1>6. Accounting' /\ Bounded' /\ Distinct'
  BY <1>1, <1>2, <1>3, PoolAssumption DEF Accounting, Bounded, Distinct
<1>7. Owned' /\ NoneLost'
  BY <1>1, <1>2, <1>3, <1>4 DEF Owned, NoneLost
<1> QED
  BY <1>5, <1>6, <1>7

-----------------------------------------------------------------------------

\* Every step of a connector or of the pool keeps the invariant.
LEMMA PoolStep == PoolInv /\ [Next]_vars => PoolInv'
<1> SUFFICES ASSUME PoolInv, [Next]_vars PROVE PoolInv'
  OBVIOUS
<1>1. CASE UNCHANGED vars
  BY <1>1 DEF vars, PoolInv, TypeOK, Distinct, Owned, Bounded, Accounting, NoneLost,
              Idle, Pooled, Dialing
<1> QED
  BY <1>1, GetIdleInv, GetNewInv, DialOkInv, DialFailsInv, OwnInv, PutInv, ScrubInv,
     ShutdownInv
  DEF Next, Connect, Close

\* The invariant holds whatever the connectors, the dials and the scrubber do.
LEMMA PoolCorrect == Spec => []PoolInv
BY InitPool, PoolStep, PTL DEF Spec

\* The variables of the pool and its connectors always have their types; in
\* particular numActive never goes below zero, clamped or not.
THEOREM TypeCorrect == Spec => []TypeOK
<1>1. PoolInv => TypeOK
  BY DEF PoolInv
<1> QED
  BY <1>1, PoolCorrect, PTL

\* The pool's counter is exact: no sequence of dials, failures, returns and
\* evictions loses a place or makes one up.
THEOREM CounterExact == Spec => []Accounting
<1>1. PoolInv => Accounting
  BY DEF PoolInv
<1> QED
  BY <1>1, PoolCorrect, PTL

\* No two connectors ever share a connection, and none uses one that the pool
\* may hand out or has closed.
THEOREM ConnectionsExclusive == Spec => []Exclusive
<1>1. ASSUME PoolInv PROVE Exclusive
  <2>1. Cardinality(Idle) = Len(idle)
    BY <1>1, DistinctCount DEF PoolInv, Distinct, TypeOK, Idle
  <2> QED
    BY <1>1, <2>1 DEF PoolInv, Owned, Exclusive
<1> QED
  BY <1>1, PoolCorrect, PTL

\* Every connection the pool opened is idle, held or closed.
THEOREM ConnectionsNeverLost == Spec => []NoneLost
<1>1. PoolInv => NoneLost
  BY DEF PoolInv
<1> QED
  BY <1>1, PoolCorrect, PTL

\* MaxPerKey and MaxIdlePerKey are respected by every pool until it is shut down.
THEOREM LimitsRespected == Spec => []WithinLimits
<1>1. ASSUME PoolInv PROVE WithinLimits
  <2> DEFINE Open == {x \in Conn : conn[x] = "open"}
             Held == {held[c] : c \in Pooled}
  <2> SUFFICES ASSUME ~stopped PROVE Cardinality(Open) <= MaxPerKey
    BY <1>1 DEF PoolInv, Bounded, WithinLimits
  <2>1. TypeOK
    BY <1>1 DEF PoolInv
  <2>2. IsFiniteSet(Idle) /\ Cardinality(Idle) = Len(idle)
    BY <1>1, DistinctCount DEF PoolInv, Distinct, TypeOK, Idle
  <2>3. IsFiniteSet(Pooled)
    BY <2>1, Sizes, ConnectorSets
  <2>4. IsFiniteSet(Held) /\ Cardinality(Held) <= Cardinality(Pooled)
    <3> DEFINE f == [c \in Pooled |-> held[c]]
    <3>1. f \in Surjection(Pooled, Held)
      BY DEF Surjection
    <3> HIDE DEF f, Held
    <3> QED
      BY <2>3, <3>1, FS_Surjection
  <2>5. Open \in SUBSET (Idle \cup Held)
    BY <1>1 DEF PoolInv, NoneLost
  <2> HIDE DEF Held, Open
  <2>6. /\ IsFiniteSet(Idle \cup Held)
        /\ Cardinality(Idle \cup Held)
             = Cardinality(Idle) + Cardinality(Held) - Cardinality(Idle \cap Held)
        /\ IsFiniteSet(Idle \cap Held)
    BY <2>2, <2>4, FS_Union, FS_Intersection
  <2>7. Cardinality(Open) <= Cardinality(Idle \cup Held) /\ IsFiniteSet(Open)
    BY <2>5, <2>6, FS_Subset
  <2>8. /\ Cardinality(Open) \in Nat /\ Cardinality(Idle \cap Held) \in Nat
        /\ Cardinality(Held) \in Nat /\ Cardinality(Idle \cup Held) \in Nat
    BY <2>4, <2>6, <2>7, FS_CardinalityType
  <2>9. /\ numActive = Len(idle) + Cardinality(Dialing) + Cardinality(Pooled)
        /\ numActive <= MaxPerKey
    BY <1>1 DEF PoolInv, Accounting, Bounded
  <2>10. Cardinality(Open) <= Len(idle) + Cardinality(Pooled)
    BY <2>1, <2>2, <2>4, <2>6, <2>7, <2>8, Sizes
  <2> QED
    BY <2>1, <2>8, <2>9, <2>10, Sizes, PoolAssumption
<1> QED
  BY <1>1, PoolCorrect, PTL
=============================================================================
