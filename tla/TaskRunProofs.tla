---------------------------- MODULE TaskRunProofs ----------------------------
(* Proofs about TaskRun. What a step, its Rollback or a part of it can do to a
   host is read off its effects, by induction over their list; what a plan
   guarantees, in any order, with any failures and in any number of rounds,
   follows from that and the edges of its graph. *)
EXTENDS TaskRun, FiniteSetTheorems, WellFoundedInduction, TLAPS

-----------------------------------------------------------------------------
(* Induction, in the form of the least counterexample: a set of numbers needs no
   operator to be passed to the theorem. *)

\* A set of natural numbers that is not empty has a least element.
LEMMA LeastNumber ==
    ASSUME NEW S \in SUBSET Nat, S # {}
    PROVE  \E n \in S : \A m \in S : n <= m
<1> DEFINE R == OpToRel(<, Nat)
<1>1. IsWellFoundedOn(R, Nat)
    BY NatLessThanWellFounded
<1>2. \A m \in Nat, k \in Nat : <<m, k>> \in R <=> m < k
    BY DEF OpToRel
<1> HIDE DEF R
<1>3. PICK n \in S : \A m \in S : ~(<<m, n>> \in R)
    BY <1>1, WFMin
<1>4. \A m \in S : ~(m < n)
    BY <1>2, <1>3
<1> QED
    BY <1>4

\* A set that has zero, and k when it has k - 1, has all numbers up to N.
LEMMA AllUpTo ==
    ASSUME NEW N \in Nat, NEW S, 0 \in S, \A k \in 1 .. N : k - 1 \in S => k \in S
    PROVE  0 .. N \subseteq S
<1> SUFFICES ASSUME (0 .. N) \ S # {}
             PROVE  FALSE
    OBVIOUS
<1> DEFINE M == (0 .. N) \ S
<1>1. PICK n \in M : \A m \in M : n <= m
    <2>1. M \in SUBSET Nat /\ M # {}
        OBVIOUS
    <2> HIDE DEF M
    <2> QED
        BY <2>1, LeastNumber
<1>2. n # 0 /\ n - 1 \in 0 .. N /\ ~(n <= n - 1)
    BY <1>1
<1>3. n - 1 \in S
    BY <1>1, <1>2
<1> QED
    BY <1>1, <1>2, <1>3

-----------------------------------------------------------------------------
(* What one effect does. D is the set of resources of a step. *)

\* SetTo, resource by resource.
LEMMA SetToValue ==
    ASSUME NEW D, NEW w \in [D -> Value], Systemd \in D, NEW T \in SUBSET D, NEW x \in Value
    PROVE  /\ SetTo(T, x, w) \in [D -> Value]
           /\ \A r \in D \ {Systemd} : SetTo(T, x, w)[r] = IF r \in T THEN x ELSE w[r]
           /\ w[Systemd] # "absent" => SetTo(T, x, w)[Systemd] # "absent"
           /\ T = {} => SetTo(T, x, w) = w
<1> DEFINE y == SystemdAfter(T, w)
           u == SetTo(T, x, w)
<1>1. y \in Value /\ (w[Systemd] # "absent" => y # "absent") /\ (T = {} => y = w[Systemd])
    BY DEF SystemdAfter, Value
<1> HIDE DEF y
<1>2. u = [r \in D |-> IF r = Systemd THEN y ELSE IF r \in T THEN x ELSE w[r]]
    BY DEF SetTo, y
<1> HIDE DEF u
<1>3. u \in [D -> Value]
    BY <1>1, <1>2
<1>4. T = {} => u = w
    BY <1>1, <1>2
<1>5. u[Systemd] = y /\ \A r \in D \ {Systemd} : u[r] = IF r \in T THEN x ELSE w[r]
    BY <1>2
<1> QED
    BY <1>1, <1>3, <1>4, <1>5 DEF u

\* The resources an effect deals with are among D.
Fits(e, D) == e.from \subseteq D /\ e.uses \subseteq D /\ e.to \subseteq D /\ e.drops \subseteq D

\* u is what w may become by effect e: what was there is still there, and what was
\* gone still gone, unless e may turn it.
Respects(e, D, w, u) ==
    /\ u \in [D -> Value]
    /\ \A v \in {"there", "gone"} : \A r \in D :
           Is(w[r], v) /\ r \notin MayTurn(e, Opposite(v)) => Is(u[r], v)

\* Targets an effect sets to a value that it may turn them to.
LEMMA SetToRespects ==
    ASSUME NEW D, NEW w \in [D -> Value], Systemd \in D, NEW e, Fits(e, D),
           NEW T \in SUBSET D, NEW x \in Value,
           \A r \in T \ {Systemd} :
               \/ x = w[r]
               \/ x = "absent" /\ r \in MayTurn(e, "gone")
               \/ x # "absent" /\ r \in MayTurn(e, "there")
    PROVE  Respects(e, D, w, SetTo(T, x, w))
<1> DEFINE u == SetTo(T, x, w)
<1>1. /\ u \in [D -> Value]
      /\ \A r \in D \ {Systemd} : u[r] = IF r \in T THEN x ELSE w[r]
      /\ w[Systemd] # "absent" => u[Systemd] # "absent"
    BY SetToValue
<1> HIDE DEF u
<1>2. ASSUME NEW r \in D, w[r] # "absent", r \notin MayTurn(e, "gone")
      PROVE  u[r] # "absent"
    BY <1>1, <1>2
<1>3. ASSUME NEW r \in D, w[r] = "absent", r \notin MayTurn(e, "there")
      PROVE  u[r] = "absent"
    <2>1. r # Systemd
        BY <1>3 DEF MayTurn
    <2> QED
        BY <1>1, <1>3, <2>1
<1> QED
    BY <1>1, <1>2, <1>3 DEF Respects, Is, Opposite, u

\* The targets an effect changes, and what it makes of them.
LEMMA ResultTurns ==
    ASSUME NEW D, NEW w \in [D -> Value], NEW e, Fits(e, D)
    PROVE  /\ Touched(e, w) \subseteq e.to
           /\ Result(e, w) \in Value
           /\ \A r \in Touched(e, w) \ {Systemd} :
                  \/ Result(e, w) = w[r]
                  \/ Result(e, w) = "absent" /\ r \in MayTurn(e, "gone")
                  \/ Result(e, w) # "absent" /\ r \in MayTurn(e, "there")
<1>1. Touched(e, w) \subseteq e.to
    BY DEF Touched
<1>2. Result(e, w) \in Value
    BY DEF Result, Value
<1>3. Result(e, w) = "absent" => e.op \in {"remove", "discard", "save", "note"}
    BY DEF Result
<1>4. Result(e, w) # "absent" => e.op \notin {"remove", "discard"}
    BY DEF Result
<1> QED
    BY <1>1, <1>2, <1>3, <1>4 DEF MayTurn

\* An effect that is applied as a whole.
LEMMA DoRespects ==
    ASSUME NEW D, NEW w \in [D -> Value], Systemd \in D, NEW e, Fits(e, D)
    PROVE  Respects(e, D, w, Do(e, w))
<1> DEFINE T == Touched(e, w)
           u == SetTo(T, Result(e, w), w)
<1>1. Respects(e, D, w, u)
    BY ResultTurns, SetToRespects DEF Fits
<1>2. Do(e, w) = IF T = {} THEN u ELSE SetTo(e.drops, "absent", u)
    BY DEF Do
<1>3. Respects(e, D, u, SetTo(e.drops, "absent", u))
    <2>1. \A r \in e.drops \ {Systemd} : r \in MayTurn(e, "gone")
        BY DEF MayTurn
    <2>2. u \in [D -> Value] /\ "absent" \in Value
        BY <1>1 DEF Respects, Value
    <2> HIDE DEF u
    <2> QED
        BY <2>1, <2>2, SetToRespects DEF Fits
<1> HIDE DEF T, u
<1> QED
    BY <1>1, <1>2, <1>3 DEF Respects

\* What an effect is certain to make or to remove.
LEMMA DoTurns ==
    ASSUME NEW D, NEW w \in [D -> Value], Systemd \in D, NEW e, Fits(e, D),
           NEW v \in {"there", "gone"}, NEW r \in MustTurn(e, v)
    PROVE  Is(Do(e, w)[r], v)
<1> DEFINE T == Touched(e, w)
           x == Result(e, w)
           u == SetTo(T, x, w)
           z == SetTo(e.drops, "absent", u)
<1>1. r \in D /\ r \in e.to /\ T \subseteq D /\ x \in Value /\ "absent" \in Value
    BY ResultTurns DEF MustTurn, Fits, Value
<1>2. /\ u \in [D -> Value]
      /\ \A q \in D \ {Systemd} : u[q] = IF q \in T THEN x ELSE w[q]
    <2> HIDE DEF T, x
    <2> QED
        BY <1>1, SetToValue
<1>3. /\ \A q \in D \ {Systemd} : z[q] = IF q \in e.drops THEN "absent" ELSE u[q]
      /\ u[Systemd] # "absent" => z[Systemd] # "absent"
    <2> HIDE DEF u
    <2> QED
        BY <1>1, <1>2, SetToValue DEF Fits
<1>4. Do(e, w) = IF T = {} THEN u ELSE z
    BY DEF Do
<1>5. CASE v = "gone"
    <2>1. r # Systemd /\ e.op = "remove"
        BY <1>5 DEF MustTurn
    <2>2. r \in T /\ x = "absent"
        BY <1>1, <2>1 DEF Touched, Result
    <2> HIDE DEF T, u, x, z
    <2> QED
        BY <1>1, <1>2, <1>3, <1>4, <1>5, <2>1, <2>2 DEF Is
<1>6. CASE v = "there"
    <2>1. r \notin e.drops /\ e.op \in {"install", "fill", "ensure", "fetch", "start", "restart"}
        BY <1>6 DEF MustTurn
    <2>2. x # "absent" /\ (r \notin T => w[r] # "absent")
        BY <1>1, <2>1 DEF Touched, Result
    <2>3. u[r] # "absent"
        <3>1. CASE r = Systemd
            <4>1. u[Systemd] = SystemdAfter(T, w)
                BY <1>1, <3>1 DEF SetTo
            <4>2. SystemdAfter(T, w) # "absent"
                BY <2>2, <3>1 DEF SystemdAfter
            <4> QED
                BY <3>1, <4>1, <4>2
        <3>2. CASE r # Systemd
            BY <1>1, <1>2, <2>2, <3>2
        <3> QED
            BY <3>1, <3>2
    <2> HIDE DEF T, u, x, z
    <2> QED
        BY <1>1, <1>3, <1>4, <1>6, <2>1, <2>3 DEF Is
<1> QED
    BY <1>5, <1>6

\* An effect that is cut short.
LEMMA PartlyRespects ==
    ASSUME NEW D, NEW w \in [D -> Value], Systemd \in D, NEW e, Fits(e, D),
           NEW crash, NEW u \in Partly(e, w, crash)
    PROVE  Respects(e, D, w, u)
<1>1. Respects(e, D, w, w)
    BY DEF Respects
<1>2. Respects(e, D, w, Do(e, w))
    BY DoRespects
<1>3. Touched(e, w) \subseteq D
    BY ResultTurns DEF Fits
<1>4. \A T \in SUBSET Touched(e, w) : Respects(e, D, w, SetTo(T, Result(e, w), w))
    <2> TAKE T \in SUBSET Touched(e, w)
    <2> QED
        BY <1>3, ResultTurns, SetToRespects
<1>5. ASSUME e.op \in {"fill", "ensure", "fetch"}
      PROVE  Respects(e, D, w, SetTo(Touched(e, w), "stale", w))
    <2>1. Touched(e, w) \subseteq MayTurn(e, "there") /\ "stale" \in Value
        BY <1>5, ResultTurns DEF MayTurn, Value
    <2> QED
        BY <1>3, <2>1, SetToRespects
<1>6. ASSUME e.op \in {"start", "restart"}
      PROVE  Respects(e, D, w, SetTo(Touched(e, w), "absent", w))
    <2>1. "absent" \in Value /\ \A r \in Touched(e, w) \ {Systemd} :
              w[r] = "absent" \/ r \in MayTurn(e, "gone")
        BY <1>6 DEF MayTurn, Value, Touched
    <2> QED
        BY <1>3, <2>1, SetToRespects
<1> QED
    BY <1>1, <1>2, <1>4, <1>5, <1>6 DEF Partly

-----------------------------------------------------------------------------
(* What a list of effects does. *)

\* Trail is the function its recursive definition describes.
LEMMA TrailDef ==
    ASSUME NEW run, Len(run) \in Nat, NEW w
    PROVE  Trail(run, w) = [i \in 0 .. Len(run) |->
                               IF i = 0 THEN w ELSE Attempt(run[i], Trail(run, w)[i - 1])]
<1> DEFINE Goes(f, n) == f = [i \in 0 .. n |-> IF i = 0 THEN w ELSE Attempt(run[i], f[i - 1])]
           N == Len(run)
           S == {n \in 0 .. N : \E f : Goes(f, n)}
<1>1. 0 \in S
    <2>1. Goes([i \in 0 .. 0 |-> w], 0)
        OBVIOUS
    <2>2. \E f : Goes(f, 0)
        <3> HIDE DEF Goes
        <3> QED
            BY <2>1
    <2> HIDE DEF Goes
    <2> QED
        BY <2>2
<1>2. ASSUME NEW k \in 1 .. N, k - 1 \in S
      PROVE  k \in S
    <2>1. PICK f : Goes(f, k - 1)
        BY <1>2
    <2> DEFINE g == [i \in 0 .. k |-> IF i = k THEN Attempt(run[k], f[k - 1]) ELSE f[i]]
    <2>2. \A i \in 0 .. k : i # 0 => i - 1 \in 0 .. (k - 1) /\ i - 1 # k
        OBVIOUS
    <2>3. \A i \in 0 .. k : i # 0 => g[i - 1] = f[i - 1]
        BY <2>2
    <2>4. \A i \in 0 .. (k - 1) : f[i] = IF i = 0 THEN w ELSE Attempt(run[i], f[i - 1])
        BY <2>1
    <2>5. \A i \in 0 .. k : g[i] = IF i = 0 THEN w ELSE Attempt(run[i], g[i - 1])
        BY <2>3, <2>4
    <2>6. Goes(g, k)
        <3>1. g = [i \in 0 .. k |-> g[i]]
            OBVIOUS
        <3> HIDE DEF g
        <3> QED
            BY <2>5, <3>1
    <2>7. \E h : Goes(h, k)
        <3> HIDE DEF Goes, g
        <3> QED
            BY <2>6
    <2> HIDE DEF Goes
    <2> QED
        BY <1>2, <2>7
<1>3. N \in S
    <2> HIDE DEF S
    <2>1. 0 .. N \subseteq S
        BY <1>1, <1>2, AllUpTo
    <2> QED
        BY <2>1
<1>4. Trail(run, w) = CHOOSE f : Goes(f, N)
    BY DEF Trail
<1>5. Goes(Trail(run, w), N)
    <2>1. \E f : Goes(f, N)
        BY <1>3
    <2> HIDE DEF Goes
    <2> QED
        BY <1>4, <2>1
<1> QED
    BY <1>5

\* The worlds between the effects, one after the other.
LEMMA AfterSteps ==
    ASSUME NEW run, Len(run) \in Nat, NEW w
    PROVE  /\ After(run, 0, w) = w
           /\ \A k \in 1 .. Len(run) : After(run, k, w) = Attempt(run[k], After(run, k - 1, w))
BY TrailDef DEF After

\* The effects of a list deal with resources among D.
AllFit(run, D) ==
    /\ Len(run) \in Nat /\ DOMAIN run = 1 .. Len(run)
    /\ \A k \in 1 .. Len(run) : Fits(run[k], D)

\* An effect that is applied or not.
LEMMA AttemptRespects ==
    ASSUME NEW D, NEW w \in [D -> Value], Systemd \in D, NEW e, Fits(e, D)
    PROVE  Respects(e, D, w, Attempt(e, w))
<1>1. Respects(e, D, w, w)
    BY DEF Respects
<1> QED
    BY <1>1, DoRespects DEF Attempt

\* Every world on the way assigns values to the same resources.
LEMMA AfterType ==
    ASSUME NEW D, Systemd \in D, NEW run, AllFit(run, D), NEW w \in [D -> Value],
           NEW k \in 0 .. Len(run)
    PROVE  After(run, k, w) \in [D -> Value]
<1> DEFINE S == {i \in 0 .. Len(run) : After(run, i, w) \in [D -> Value]}
<1>1. Len(run) \in Nat
    BY DEF AllFit
<1>2. 0 \in S
    BY <1>1, AfterSteps
<1>3. ASSUME NEW i \in 1 .. Len(run), i - 1 \in S
      PROVE  i \in S
    <2>1. Respects(run[i], D, After(run, i - 1, w), Attempt(run[i], After(run, i - 1, w)))
        BY <1>3, AttemptRespects DEF AllFit
    <2>2. After(run, i, w) = Attempt(run[i], After(run, i - 1, w))
        BY <1>1, AfterSteps
    <2> QED
        BY <1>3, <2>1, <2>2 DEF Respects
<1> HIDE DEF S
<1>4. 0 .. Len(run) \subseteq S
    BY <1>1, <1>2, <1>3, AllUpTo
<1> QED
    BY <1>4 DEF S

\* What is v after the first i effects is so after k of them if none in between may
\* turn it.
LEMMA AfterKeeps ==
    ASSUME NEW D, Systemd \in D, NEW run, AllFit(run, D), NEW w \in [D -> Value],
           NEW v \in {"there", "gone"}, NEW r \in D,
           NEW i \in 0 .. Len(run), NEW k \in i .. Len(run), Is(After(run, i, w)[r], v),
           \A m \in i + 1 .. k : r \notin MayTurn(run[m], Opposite(v))
    PROVE  Is(After(run, k, w)[r], v)
<1> DEFINE S == {n \in 0 .. k : n >= i => Is(After(run, n, w)[r], v)}
<1>1. Len(run) \in Nat /\ i \in Nat /\ k \in Nat /\ i <= k /\ k <= Len(run)
    BY DEF AllFit
<1>2. 0 \in S
    BY <1>1
<1>3. ASSUME NEW n \in 1 .. k, n - 1 \in S
      PROVE  n \in S
    <2>1. CASE n < i
        BY <1>1, <2>1
    <2>2. CASE n = i
        BY <1>1, <2>2
    <2>3. CASE n > i
        <3>1. n - 1 >= i /\ n \in i + 1 .. k /\ n \in 1 .. Len(run) /\ n - 1 \in 0 .. Len(run)
            BY <1>1, <2>3
        <3>2. Is(After(run, n - 1, w)[r], v) /\ r \notin MayTurn(run[n], Opposite(v))
            BY <1>3, <3>1
        <3>3. Respects(run[n], D, After(run, n - 1, w), Attempt(run[n], After(run, n - 1, w)))
            BY <3>1, AfterType, AttemptRespects DEF AllFit
        <3>4. After(run, n, w) = Attempt(run[n], After(run, n - 1, w))
            BY <1>1, <3>1, AfterSteps
        <3>5. Is(After(run, n, w)[r], v)
            BY <3>2, <3>3, <3>4 DEF Respects
        <3> QED
            BY <1>3, <3>5
    <2> QED
        BY <1>1, <2>1, <2>2, <2>3
<1> HIDE DEF S
<1>4. 0 .. k \subseteq S
    BY <1>1, <1>2, <1>3, AllUpTo
<1>5. k \in S
    BY <1>1, <1>4
<1> QED
    BY <1>1, <1>5 DEF S

\* Run gets as far as every effect can be applied, and no further.
LEMMA ReachIs ==
    ASSUME NEW run, Len(run) \in Nat, NEW w
    PROVE  /\ Reach(run, w) \in 0 .. Len(run)
           /\ \A i \in 1 .. Reach(run, w) : Can(run[i], After(run, i - 1, w))
           /\ Reach(run, w) < Len(run) =>
                  ~Can(run[Reach(run, w) + 1], After(run, Reach(run, w), w))
<1> DEFINE N == Len(run)
           P(k) == /\ \A i \in 1 .. k : Can(run[i], After(run, i - 1, w))
                   /\ k < N => ~Can(run[k + 1], After(run, k, w))
           M == {k \in 0 .. N - 1 : ~Can(run[k + 1], After(run, k, w))}
<1>1. \E k \in 0 .. N : P(k)
    <2>1. CASE M = {}
        <3>1. \A i \in 1 .. N : i - 1 \in 0 .. N - 1 /\ (i - 1) + 1 = i
            OBVIOUS
        <3>2. \A i \in 1 .. N : Can(run[i], After(run, i - 1, w))
            BY <2>1, <3>1
        <3>3. P(N)
            BY <3>2
        <3> QED
            BY <3>3
    <2>2. CASE M # {}
        <3>1. M \in SUBSET Nat
            OBVIOUS
        <3>2. PICK k \in M : \A m \in M : k <= m
            <4> HIDE DEF M
            <4> QED
                BY <2>2, <3>1, LeastNumber
        <3>3. \A i \in 1 .. k : i - 1 \in 0 .. N - 1 /\ (i - 1) + 1 = i /\ ~(k <= i - 1)
            BY <3>2
        <3>4. \A i \in 1 .. k : Can(run[i], After(run, i - 1, w))
            BY <3>2, <3>3
        <3>5. k \in 0 .. N /\ ~Can(run[k + 1], After(run, k, w))
            BY <3>2
        <3> QED
            BY <3>4, <3>5
    <2> QED
        BY <2>1, <2>2
<1>2. Reach(run, w) = CHOOSE k \in 0 .. N : P(k)
    BY DEF Reach
<1>3. Reach(run, w) \in 0 .. N /\ P(Reach(run, w))
    <2> HIDE DEF P
    <2> QED
        BY <1>1, <1>2
<1> QED
    BY <1>3

\* What effect i of a Run that reaches it makes or removes for certain stays so up to
\* effect k if none in between may turn it.
LEMMA TurnedKeeps ==
    ASSUME NEW D, Systemd \in D, NEW run, AllFit(run, D), NEW w \in [D -> Value],
           NEW v \in {"there", "gone"}, NEW i \in 1 .. Reach(run, w), NEW k \in i .. Len(run),
           NEW r \in MustTurn(run[i], v),
           \A m \in i + 1 .. k : r \notin MayTurn(run[m], Opposite(v))
    PROVE  r \in D /\ Is(After(run, k, w)[r], v)
<1>1. Len(run) \in Nat
    BY DEF AllFit
<1>2. i \in 1 .. Len(run) /\ i - 1 \in 0 .. Len(run) /\ Can(run[i], After(run, i - 1, w))
    BY <1>1, ReachIs
<1>3. After(run, i - 1, w) \in [D -> Value] /\ Fits(run[i], D)
    BY <1>2, AfterType DEF AllFit
<1>4. r \in D
    BY <1>3 DEF MustTurn, Fits
<1>5. After(run, i, w) = Do(run[i], After(run, i - 1, w))
    BY <1>1, <1>2, AfterSteps DEF Attempt
<1>6. Is(After(run, i, w)[r], v)
    BY <1>3, <1>5, DoTurns
<1>7. i \in 0 .. Len(run)
    BY <1>2
<1> QED
    BY <1>4, <1>6, <1>7, AfterKeeps

\* A step that has what it needs neither fails its Precheck nor starves in its Run.
LEMMA FedSteps ==
    ASSUME NEW D, Systemd \in D, NEW s, AllFit(s.run, D), NEW w \in [D -> Value],
           NEW N \in SUBSET D, FedBy(s, N), \A r \in N : w[r] # "absent"
    PROVE  ~Lost(s, w) /\ ~Starves(s.run, w)
<1>1. ~Lost(s, w)
    BY DEF Lost, FedBy, Present
<1>2. SUFFICES ASSUME Starves(s.run, w)
               PROVE  FALSE
    BY <1>1
<1> DEFINE run == s.run
           k == Reach(run, w) + 1
<1>3. /\ Len(run) \in Nat
      /\ k \in 1 .. Len(run)
      /\ k - 1 = Reach(run, w)
      /\ ~Can(run[k], After(run, k - 1, w))
    BY <1>2, ReachIs DEF Starves, AllFit
<1>4. PICK r \in run[k].from : After(run, k - 1, w)[r] = "absent"
    BY <1>3 DEF Can, Present
<1>5. k \in DOMAIN run
    BY <1>3 DEF AllFit
<1>6. PICK i \in 0 .. k - 1 :
              /\ IF i = 0 THEN r \in N ELSE r \in MustTurn(run[i], "there")
              /\ \A m \in i + 1 .. k - 1 : r \notin MayTurn(run[m], "gone")
    BY <1>5 DEF FedBy
<1>7. k - 1 \in i .. Len(run) /\ Opposite("there") = "gone"
    BY <1>3, <1>6 DEF Opposite
<1> HIDE DEF k
<1>8. CASE i = 0
    <2>1. After(run, 0, w) = w /\ 0 \in 0 .. Len(run)
        BY <1>3, AfterSteps
    <2>2. r \in D /\ Is(After(run, 0, w)[r], "there")
        BY <1>6, <1>8, <2>1 DEF Is
    <2>3. Is(After(run, k - 1, w)[r], "there")
        BY <1>6, <1>7, <1>8, <2>1, <2>2, AfterKeeps
    <2> QED
        BY <1>4, <2>3 DEF Is
<1>9. CASE i # 0
    <2>1. i \in 1 .. Reach(run, w)
        BY <1>3, <1>6, <1>9
    <2>2. Is(After(run, k - 1, w)[r], "there")
        BY <1>6, <1>7, <1>9, <2>1, TurnedKeeps
    <2> QED
        BY <1>4, <2>2 DEF Is
<1> QED
    BY <1>8, <1>9

\* What a step ensures is so when its Precheck finds it done, and after its Run.
LEMMA StepEnsures ==
    ASSUME NEW D, Systemd \in D, NEW s, AllFit(s.run, D), NEW w \in [D -> Value],
           NEW v \in {"there", "gone"}, NEW r \in Ensures(s, v)
    PROVE  /\ r \in D
           /\ IsDone(s, w) => Is(w[r], v)
           /\ ~Starves(s.run, w) => Is(After(s.run, Len(s.run), w)[r], v)
<1> DEFINE run == s.run
<1>1. PICK k \in DOMAIN run :
              /\ r \in MustTurn(run[k], v)
              /\ \A i \in k + 1 .. Len(run) : r \notin MayTurn(run[i], Opposite(v))
    BY DEF Ensures
<1>2. Len(run) \in Nat /\ k \in 1 .. Len(run) /\ Fits(run[k], D)
    BY <1>1 DEF AllFit
<1>3. r \in D
    BY <1>1, <1>2 DEF MustTurn, Fits
<1>4. ASSUME IsDone(s, w)
      PROVE  Is(w[r], v)
    <2>1. PICK a \in s.done : /\ Present(a.exist, w)
                              /\ \A q \in a.same : w[q] = "ok"
                              /\ \A q \in a.gone : w[q] = "absent"
        BY <1>4 DEF IsDone
    <2>2. r \in Shows(a, v)
        BY DEF Ensures
    <2> QED
        BY <2>1, <2>2 DEF Shows, Is, Present
<1>5. ASSUME ~Starves(run, w)
      PROVE  Is(After(run, Len(run), w)[r], v)
    <2>1. Reach(run, w) = Len(run)
        BY <1>2, <1>5, ReachIs DEF Starves
    <2>2. k \in 1 .. Reach(run, w) /\ Len(run) \in k .. Len(run)
        BY <1>2, <2>1
    <2> QED
        BY <1>1, <2>2, TurnedKeeps
<1> QED
    BY <1>3, <1>4, <1>5

\* u is what step s may make of w, however far it gets and whether it is rolled back.
Leads(s, D, w, u) ==
    /\ u \in [D -> Value]
    /\ \A v \in {"there", "gone"} : \A r \in D :
           Is(w[r], v) /\ r \notin Upsets(s, v) => Is(u[r], v)

\* The effects of a list that are among those of a step lead where the step may.
LEMMA ListLeads ==
    ASSUME NEW D, Systemd \in D, NEW s, NEW w \in [D -> Value], NEW u, Leads(s, D, w, u),
           NEW run, AllFit(run, D), Effects(run) \subseteq Effects(s.run) \cup Effects(s.undo),
           NEW k \in 0 .. Len(run)
    PROVE  Leads(s, D, w, After(run, k, u))
<1>1. u \in [D -> Value] /\ Len(run) \in Nat
    BY DEF Leads, AllFit
<1>2. After(run, 0, u) = u /\ After(run, k, u) \in [D -> Value]
    BY <1>1, AfterSteps, AfterType
<1>3. ASSUME NEW v \in {"there", "gone"}, NEW r \in D, Is(w[r], v), r \notin Upsets(s, v)
      PROVE  Is(After(run, k, u)[r], v)
    <2>1. Is(After(run, 0, u)[r], v)
        BY <1>2, <1>3 DEF Leads
    <2>2. \A m \in 0 + 1 .. k : run[m] \in Effects(run)
        BY <1>1 DEF Effects, AllFit
    <2>3. \A m \in 0 + 1 .. k : r \notin MayTurn(run[m], Opposite(v))
        BY <1>3, <2>2 DEF Upsets
    <2>4. 0 \in 0 .. Len(run) /\ k \in 0 .. Len(run)
        BY <1>1
    <2> QED
        BY <1>1, <2>1, <2>3, <2>4, AfterKeeps
<1> QED
    BY <1>2, <1>3 DEF Leads

\* A Run as far as it gets, a Run that is cut short, and a Rollback after either.
LEMMA StepLeads ==
    ASSUME NEW D, Systemd \in D, NEW s, AllFit(s.run, D), AllFit(s.undo, D),
           NEW w \in [D -> Value]
    PROVE  /\ \A k \in 0 .. Len(s.run) : Leads(s, D, w, After(s.run, k, w))
           /\ \A crash : \A u \in Interrupted(s.run, w, crash) : Leads(s, D, w, u)
           /\ \A u : Leads(s, D, w, u) => Leads(s, D, w, Undone(s.undo, u))
<1>1. Leads(s, D, w, w)
    BY DEF Leads
<1>2. \A k \in 0 .. Len(s.run) : Leads(s, D, w, After(s.run, k, w))
    BY <1>1, ListLeads
<1>3. ASSUME NEW crash, NEW u \in Interrupted(s.run, w, crash)
      PROVE  Leads(s, D, w, u)
    <2>1. PICK k \in 1 .. Reach(s.run, w) : u \in Partly(s.run[k], After(s.run, k - 1, w), crash)
        BY <1>3 DEF Interrupted
    <2>2. k \in 1 .. Len(s.run) /\ k - 1 \in 0 .. Len(s.run)
        BY <2>1, ReachIs DEF AllFit
    <2>3. Leads(s, D, w, After(s.run, k - 1, w)) /\ Fits(s.run[k], D)
        BY <1>2, <2>2 DEF AllFit
    <2>4. Respects(s.run[k], D, After(s.run, k - 1, w), u)
        BY <2>1, <2>3, PartlyRespects DEF Leads
    <2>5. s.run[k] \in Effects(s.run)
        BY <2>2 DEF Effects, AllFit
    <2> QED
        BY <2>3, <2>4, <2>5 DEF Leads, Respects, Upsets
<1>4. ASSUME NEW u, Leads(s, D, w, u)
      PROVE  Leads(s, D, w, Undone(s.undo, u))
    <2>1. Len(s.undo) \in 0 .. Len(s.undo)
        BY DEF AllFit
    <2> QED
        BY <1>4, <2>1, ListLeads DEF Undone
<1> QED
    BY <1>2, <1>3, <1>4

-----------------------------------------------------------------------------
(* What every plan is made of. *)

\* Jobs wait for jobs of nodes with numbers, and those of a node for the same and
\* together; the effects of a step deal with the resources it touches, which have
\* their spots in the world.
WellPlanned(plan) ==
    /\ Cardinality(plan.nodes) \in Nat
    /\ plan.before \in [plan.jobs -> SUBSET plan.jobs]
    /\ \A j \in plan.jobs : j[1] \in Nat /\ j[1] \in plan.nodes
    /\ \A i, j \in plan.jobs : i[1] = j[1] => /\ plan.step[i] = plan.step[j]
                                             /\ plan.touches[i] = plan.touches[j]
                                             /\ plan.before[i] = plan.before[j]
    /\ \A i, j, k \in plan.jobs : i[1] = j[1] /\ i \in plan.before[k] => j \in plan.before[k]
    /\ \A j \in plan.jobs :
           /\ Systemd \in plan.touches[j]
           /\ AllFit(plan.step[j].run, plan.touches[j])
           /\ AllFit(plan.step[j].undo, plan.touches[j])
           /\ \A r \in plan.touches[j] : Spot(j, plan.host[j], r) \in DOMAIN plan.fresh
    /\ plan.fresh \in [DOMAIN plan.fresh -> Value]
    /\ plan.earlier \in [DOMAIN plan.fresh -> Value]

\* A sequence of effects, each of which deals with resources among D.
LEMMA ListedFits ==
    ASSUME NEW run, Listed(run), NEW D, \A e \in Effects(run) : Fits(e, D)
    PROVE  AllFit(run, D)
<1>1. Len(run) \in Nat /\ DOMAIN run = 1 .. Len(run)
    BY DEF Listed
<1> QED
    BY <1>1 DEF AllFit, Effects

\* The resources of a step are those of its effects, and systemd.
LEMMA StepFits ==
    ASSUME NEW s, Listed(s.run), Listed(s.undo)
    PROVE  /\ Systemd \in Resources(s)
           /\ AllFit(s.run, Resources(s))
           /\ AllFit(s.undo, Resources(s))
<1>1. \A e \in Effects(s.run) : Fits(e, Resources(s))
    <2> TAKE e \in Effects(s.run)
    <2>1. e.from \subseteq RunReads(s) /\ e.uses \subseteq RunReads(s)
        BY DEF RunReads
    <2>2. e.to \subseteq Changes(s) /\ e.drops \subseteq Changes(s)
        BY DEF Changes
    <2>3. RunReads(s) \subseteq Resources(s) /\ Changes(s) \subseteq Resources(s)
        BY DEF Resources, Reads
    <2> QED
        BY <2>1, <2>2, <2>3 DEF Fits
<1>2. \A e \in Effects(s.undo) : Fits(e, Resources(s))
    <2> TAKE e \in Effects(s.undo)
    <2>1. e.to \subseteq Undoes(s) /\ e.drops \subseteq Undoes(s)
        BY DEF Undoes
    <2>2. Undoes(s) \subseteq Resources(s)
          /\ e.from \cup e.uses \subseteq Resources(s)
        BY DEF Resources
    <2> QED
        BY <2>1, <2>2 DEF Fits
<1>3. Systemd \in Resources(s)
    BY DEF Resources
<1> QED
    BY <1>1, <1>2, <1>3, ListedFits

\* What Planned gives for a case.
LEMMA PlansWell ==
    ASSUME NEW t \in DOMAIN Plans
    PROVE  WellPlanned(Plans[t])
<1> DEFINE case == Cases[t]
           plan == Planned(case)
           nodes == {n \in DOMAIN case.graph.nodes : case.graph.nodes[n].on # "controlPlane"}
           StepOf(j) == case.graph.nodes[j[1]].step
           Hosts(n) == case.layout[case.graph.nodes[n].on]
           jobs == UNION {{<<n, i>> : i \in DOMAIN Hosts(n)} : n \in nodes}
           Host(j) == Hosts(j[1])[j[2]]
           spots == UNION {{Spot(j, Host(j), r) : r \in Resources(StepOf(j))} : j \in jobs}
<1>1. t \in DOMAIN Cases /\ Plans[t] = plan
    BY DEF Plans
<1>2. /\ Listed(case.graph.nodes)
      /\ \A n \in nodes : /\ Listed(case.graph.nodes[n].step.run)
                          /\ Listed(case.graph.nodes[n].step.undo)
    BY <1>1, GraphAssumption
<1>3. Len(case.graph.nodes) \in Nat /\ nodes \subseteq 1 .. Len(case.graph.nodes)
    BY <1>2 DEF Listed
<1>4. Cardinality(nodes) \in Nat
    <2>1. IsFiniteSet(1 .. Len(case.graph.nodes))
        BY <1>3, FS_Interval
    <2>2. IsFiniteSet(nodes)
        BY <1>3, <2>1, FS_Subset
    <2> QED
        BY <2>2, FS_CardinalityType
<1>5. \A j \in jobs : j[1] \in nodes
    OBVIOUS
<1>6. /\ plan.nodes = nodes
      /\ plan.jobs = jobs
      /\ plan.step = [j \in jobs |-> StepOf(j)]
      /\ plan.host = [j \in jobs |-> Host(j)]
      /\ plan.touches = [j \in jobs |-> Resources(StepOf(j))]
      /\ plan.before = [j \in jobs |-> {i \in jobs : <<i[1], j[1]>> \in case.graph.edges}]
    BY DEF Planned
<1>7. DOMAIN plan.fresh = spots /\ plan.fresh \in [spots -> Value]
    BY DEF Planned, Value
<1>8. plan.earlier \in [spots -> Value]
    BY DEF Planned, Value
<1> HIDE DEF jobs, Host, spots, plan, nodes
<1>9. \A j \in jobs : \A r \in Resources(StepOf(j)) : Spot(j, Host(j), r) \in spots
    BY DEF spots
<1>10. \A j \in jobs : /\ Systemd \in Resources(StepOf(j))
                       /\ AllFit(StepOf(j).run, Resources(StepOf(j)))
                       /\ AllFit(StepOf(j).undo, Resources(StepOf(j)))
    BY <1>2, <1>5, StepFits DEF nodes
<1>11. \A j \in jobs : j[1] \in Nat
    <2>1. nodes \subseteq Nat
        BY <1>3
    <2> QED
        BY <1>5, <2>1
<1>12. \A i, j \in jobs : i[1] = j[1] => StepOf(i) = StepOf(j)
    OBVIOUS
<1> HIDE DEF StepOf
<1>13. \A i, j \in jobs : i[1] = j[1] => /\ plan.step[i] = plan.step[j]
                                        /\ plan.touches[i] = plan.touches[j]
                                        /\ plan.before[i] = plan.before[j]
    BY <1>6, <1>12
<1>14. \A i, j, k \in jobs : i[1] = j[1] /\ i \in plan.before[k] => j \in plan.before[k]
    BY <1>6
<1>15. plan.before \in [jobs -> SUBSET jobs]
    BY <1>6
<1> QED
    BY <1>1, <1>4, <1>5, <1>6, <1>7, <1>8, <1>9, <1>10, <1>11, <1>13, <1>14, <1>15
       DEF WellPlanned

-----------------------------------------------------------------------------
(* The edges of a plan. *)

\* Ancestors are gathered edge by edge.
LEMMA AncestorsUp ==
    ASSUME NEW plan, NEW j, Cardinality(plan.nodes) \in Nat
    PROVE  \E up : /\ up[0] = plan.before[j]
                   /\ \A n \in 1 .. Cardinality(plan.nodes) :
                          up[n] = up[n - 1] \cup UNION {plan.before[i] : i \in up[n - 1]}
                   /\ Ancestors(plan, j) = up[Cardinality(plan.nodes)]
<1> DEFINE More(X) == X \cup UNION {plan.before[i] : i \in X}
           Goes(f, n) == f = [i \in 0 .. n |-> IF i = 0 THEN plan.before[j] ELSE More(f[i - 1])]
           N == Cardinality(plan.nodes)
           S == {n \in 0 .. N : \E f : Goes(f, n)}
<1>1. Ancestors(plan, j) = (CHOOSE f : Goes(f, N))[N]
    BY DEF Ancestors
<1> HIDE DEF More
<1>2. 0 \in S
    <2>1. Goes([i \in 0 .. 0 |-> plan.before[j]], 0)
        OBVIOUS
    <2>2. \E f : Goes(f, 0)
        <3> HIDE DEF Goes
        <3> QED
            BY <2>1
    <2> HIDE DEF Goes
    <2> QED
        BY <2>2
<1>3. ASSUME NEW k \in 1 .. N, k - 1 \in S
      PROVE  k \in S
    <2>1. PICK f : Goes(f, k - 1)
        BY <1>3
    <2> DEFINE g == [i \in 0 .. k |-> IF i = k THEN More(f[k - 1]) ELSE f[i]]
    <2>2. \A i \in 0 .. k : i # 0 => i - 1 \in 0 .. (k - 1) /\ i - 1 # k
        OBVIOUS
    <2>3. \A i \in 0 .. k : i # 0 => g[i - 1] = f[i - 1]
        BY <2>2
    <2>4. \A i \in 0 .. (k - 1) : f[i] = IF i = 0 THEN plan.before[j] ELSE More(f[i - 1])
        BY <2>1
    <2>5. \A i \in 0 .. k : g[i] = IF i = 0 THEN plan.before[j] ELSE More(g[i - 1])
        BY <2>3, <2>4
    <2>6. Goes(g, k)
        <3>1. g = [i \in 0 .. k |-> g[i]]
            OBVIOUS
        <3> HIDE DEF g
        <3> QED
            BY <2>5, <3>1
    <2>7. \E h : Goes(h, k)
        <3> HIDE DEF Goes, g
        <3> QED
            BY <2>6
    <2> HIDE DEF Goes
    <2> QED
        BY <1>3, <2>7
<1>4. N \in S
    <2> HIDE DEF S
    <2>1. 0 .. N \subseteq S
        BY <1>2, <1>3, AllUpTo
    <2> QED
        BY <2>1
<1>5. PICK f : Goes(f, N) /\ Ancestors(plan, j) = f[N]
    <2>1. \E f : Goes(f, N)
        BY <1>4
    <2> HIDE DEF Goes
    <2> QED
        BY <1>1, <2>1
<1>6. /\ f[0] = plan.before[j]
      /\ \A n \in 1 .. N : f[n] = More(f[n - 1])
    BY <1>5
<1> QED
    BY <1>5, <1>6 DEF More

\* A job that has started has all jobs before it done.
InOrder ==
    /\ task \in DOMAIN Plans
    /\ status \in [Plans[task].jobs -> {"pending", "running", "done", "failed"}]
    /\ \A j \in Plans[task].jobs : status[j] # "pending" => Ready(Plans[task], j)

\* When a job can start or has started, all its ancestors are done.
LEMMA AncestorsDone ==
    ASSUME InOrder, NEW plan, plan = Plans[task],
           NEW j \in plan.jobs, Ready(plan, j), NEW i \in Ancestors(plan, j)
    PROVE  i \in plan.jobs /\ status[i] = "done"
<1> DEFINE Finished == {k \in plan.jobs : status[k] = "done"}
           N == Cardinality(plan.nodes)
<1>1. N \in Nat /\ plan.before \in [plan.jobs -> SUBSET plan.jobs]
    BY PlansWell DEF InOrder, WellPlanned
<1>2. plan.before[j] \subseteq Finished
    BY <1>1 DEF Ready
<1>3. \A k \in Finished : plan.before[k] \subseteq Finished
    BY <1>1 DEF InOrder, Ready
<1>4. PICK up : /\ up[0] = plan.before[j]
                /\ \A n \in 1 .. N : up[n] = up[n - 1] \cup UNION {plan.before[k] : k \in up[n - 1]}
                /\ Ancestors(plan, j) = up[N]
    BY <1>1, AncestorsUp
<1> DEFINE S == {n \in 0 .. N : up[n] \subseteq Finished}
<1> HIDE DEF N, Finished
<1>5. 0 \in S
    BY <1>1, <1>2, <1>4
<1>6. ASSUME NEW n \in 1 .. N, n - 1 \in S
      PROVE  n \in S
    BY <1>1, <1>3, <1>4, <1>6
<1> HIDE DEF S
<1>7. 0 .. N \subseteq S
    BY <1>1, <1>5, <1>6, AllUpTo
<1>8. up[N] \subseteq Finished
    BY <1>1, <1>7 DEF S
<1> QED
    BY <1>4, <1>8 DEF Finished

\* What waits for a job waits for all jobs of its node.
LEMMA AncestorsTogether ==
    ASSUME NEW plan, WellPlanned(plan), NEW i \in plan.jobs, NEW j \in plan.jobs,
           i[1] = j[1], NEW k \in plan.jobs, j \in Ancestors(plan, k)
    PROVE  i \in Ancestors(plan, k)
<1> DEFINE N == Cardinality(plan.nodes)
<1>1. N \in Nat /\ plan.before \in [plan.jobs -> SUBSET plan.jobs]
    BY DEF WellPlanned
<1>2. \A m \in plan.jobs : j \in plan.before[m] => i \in plan.before[m]
    BY DEF WellPlanned
<1>3. PICK up : /\ up[0] = plan.before[k]
                /\ \A n \in 1 .. N : up[n] = up[n - 1] \cup UNION {plan.before[m] : m \in up[n - 1]}
                /\ Ancestors(plan, k) = up[N]
    BY <1>1, AncestorsUp
<1> DEFINE S == {n \in 0 .. N : up[n] \subseteq plan.jobs /\ (j \in up[n] => i \in up[n])}
<1> HIDE DEF N
<1>4. 0 \in S
    BY <1>1, <1>2, <1>3
<1>5. ASSUME NEW n \in 1 .. N, n - 1 \in S
      PROVE  n \in S
    BY <1>1, <1>2, <1>3, <1>5
<1> HIDE DEF S
<1>6. 0 .. N \subseteq S
    BY <1>1, <1>4, <1>5, AllUpTo
<1>7. j \in up[N] => i \in up[N]
    BY <1>1, <1>6 DEF S
<1> QED
    BY <1>3, <1>7

\* The entries of a host that a node lists twice do the same to the same.
LEMMA TwinsAlike ==
    ASSUME NEW plan, WellPlanned(plan), NEW i \in plan.jobs, NEW j \in plan.jobs,
           i[1] = j[1], plan.host[i] = plan.host[j]
    PROVE  /\ plan.step[i] = plan.step[j] /\ plan.touches[i] = plan.touches[j]
           /\ \A r : Spot(i, plan.host[i], r) = Spot(j, plan.host[j], r)
           /\ \A v : /\ EnsuredBy(plan, i, v) = EnsuredBy(plan, j, v)
                    /\ UpsetBy(plan, i, v) = UpsetBy(plan, j, v)
           /\ Ancestors(plan, i) = Ancestors(plan, j)
<1>1. /\ plan.step[i] = plan.step[j] /\ plan.touches[i] = plan.touches[j]
      /\ plan.before[i] = plan.before[j]
    BY DEF WellPlanned
<1>2. \A r : Spot(i, plan.host[i], r) = Spot(j, plan.host[j], r)
    BY DEF Spot, LocatedAt
<1>3. ASSUME NEW v
      PROVE  /\ EnsuredBy(plan, i, v) = EnsuredBy(plan, j, v)
             /\ UpsetBy(plan, i, v) = UpsetBy(plan, j, v)
    BY <1>1, <1>2 DEF EnsuredBy, UpsetBy, At
<1>4. Ancestors(plan, i) = Ancestors(plan, j)
    BY <1>1, Zenon DEF Ancestors
<1> QED
    BY <1>1, <1>2, <1>3, <1>4

-----------------------------------------------------------------------------
(* What a job does to the world, however it ends. *)

\* The world W is what job j may make of the world.
Follows(plan, j, W) ==
    /\ W \in [DOMAIN plan.fresh -> Value]
    /\ \A v \in {"there", "gone"} : \A p \in DOMAIN plan.fresh :
           Is(world[p], v) /\ p \notin UpsetBy(plan, j, v) => Is(W[p], v)

\* The view of a step gives every resource the value of its spot.
LEMMA ViewType ==
    ASSUME NEW plan, WellPlanned(plan), world \in [DOMAIN plan.fresh -> Value],
           NEW j \in plan.jobs
    PROVE  View(plan, j) \in [plan.touches[j] -> Value]
BY DEF WellPlanned, View

\* What a step may make of its view is what its job may make of the world.
LEMMA StoredFollows ==
    ASSUME NEW plan, WellPlanned(plan), world \in [DOMAIN plan.fresh -> Value],
           NEW j \in plan.jobs, NEW u,
           Leads(plan.step[j], plan.touches[j], View(plan, j), u)
    PROVE  /\ Follows(plan, j, Stored(plan, j, u))
           /\ \A r \in plan.touches[j] :
                  Stored(plan, j, u)[Spot(j, plan.host[j], r)] = u[r]
<1> DEFINE D == plan.touches[j]
           W == Stored(plan, j, u)
           At1(r) == Spot(j, plan.host[j], r)
           Mine(p) == p[2] \in D /\ p = At1(p[2])
<1>1. u \in [D -> Value]
    BY DEF Leads
<1>2. \A r \in D : At1(r)[2] = r /\ At1(r) \in DOMAIN plan.fresh
    BY DEF Spot, WellPlanned
<1>3. W = [p \in DOMAIN plan.fresh |-> IF Mine(p) THEN u[p[2]] ELSE world[p]]
    BY <1>1 DEF Stored
<1>4. \A r \in D : View(plan, j)[r] = world[At1(r)]
    BY DEF View
<1> HIDE DEF At1, W
<1>5. W \in [DOMAIN plan.fresh -> Value]
    BY <1>1, <1>3
<1>6. \A r \in D : W[At1(r)] = u[r]
    BY <1>2, <1>3
<1>7. ASSUME NEW v \in {"there", "gone"}, NEW p \in DOMAIN plan.fresh,
             Is(world[p], v), p \notin UpsetBy(plan, j, v)
      PROVE  Is(W[p], v)
    <2>1. CASE Mine(p)
        <3>1. p[2] \in D /\ p = At1(p[2])
            BY <2>1
        <3>2. p[2] \notin Upsets(plan.step[j], v)
            BY <1>7, <3>1 DEF UpsetBy, At, At1
        <3>3. Is(View(plan, j)[p[2]], v)
            BY <1>4, <1>7, <3>1
        <3>4. Is(u[p[2]], v)
            BY <3>1, <3>2, <3>3 DEF Leads
        <3>5. W[p] = u[p[2]]
            BY <1>3, <2>1
        <3> QED
            BY <3>4, <3>5
    <2>2. CASE ~Mine(p)
        BY <1>3, <1>7, <2>2
    <2> QED
        BY <2>1, <2>2
<1> QED
    BY <1>5, <1>6, <1>7 DEF Follows, W, At1

\* A step that needs what is not there.
Missing(plan, j) ==
    \/ Lost(plan.step[j], View(plan, j))
    \/ Starves(plan.step[j].run, View(plan, j))

\* What all actions of a job have in common.
JobMoves(plan, j) ==
    /\ UNCHANGED <<task, old, round, kept>>
    /\ \/ status[j] = "pending" /\ Ready(plan, j) /\ world' = world
       \/ status[j] = "running"
    /\ \E x \in {"running", "done", "failed"} : status' = [status EXCEPT ![j] = x]
    /\ Follows(plan, j, world')
    /\ status'[j] = "done" =>
           \A v \in {"there", "gone"} : \A p \in EnsuredBy(plan, j, v) : Is(world'[p], v)
    /\ status'[j] = "done" /\ status[j] = "pending" =>
           IsDone(plan.step[j], View(plan, j)) /\ ~Lost(plan.step[j], View(plan, j))
    /\ status'[j] = "done" /\ status[j] = "running" =>
           ~Starves(plan.step[j].run, View(plan, j))
    /\ status'[j] = "running" => status[j] = "pending" /\ ~Lost(plan.step[j], View(plan, j))
    /\ starved' = starved \/ (starved' = TRUE /\ Missing(plan, j))
    /\ \/ faults' = faults
       \/ /\ Len(faults) < MaxFaults
          /\ \E fault \in Faults : faults' = Append(faults, fault)
    /\ down' \in BOOLEAN /\ cut' \in BOOLEAN
    /\ status'[j] = "failed" \/ down' =>
           \/ starved' = TRUE
           \/ \E fault : faults' = Append(faults, fault)
           \/ down
           \/ \E i \in plan.jobs : status[i] = "failed"

\* A job whose Run ends with u, at status x.
LEMMA RunMoves ==
    ASSUME NEW plan, WellPlanned(plan), world \in [DOMAIN plan.fresh -> Value],
           NEW j \in plan.jobs, j \in DOMAIN status, status[j] = "running",
           UNCHANGED <<task, old, round, kept>>,
           NEW x \in {"done", "failed"}, status' = [status EXCEPT ![j] = x],
           NEW u, Leads(plan.step[j], plan.touches[j], View(plan, j), u),
           world' = Stored(plan, j, u),
           x = "done" => /\ ~Starves(plan.step[j].run, View(plan, j))
                         /\ u = After(plan.step[j].run, Len(plan.step[j].run), View(plan, j)),
           starved' = starved \/ (starved' = TRUE /\ Missing(plan, j)),
           \/ faults' = faults
           \/ Len(faults) < MaxFaults /\ \E fault \in Faults : faults' = Append(faults, fault),
           down' \in BOOLEAN, cut' \in BOOLEAN,
           x = "failed" \/ down' => \/ starved' = TRUE
                                   \/ \E fault : faults' = Append(faults, fault)
                                   \/ down
                                   \/ \E i \in plan.jobs : status[i] = "failed"
    PROVE  JobMoves(plan, j)
<1> DEFINE s == plan.step[j]
           D == plan.touches[j]
           w == View(plan, j)
<1>1. Follows(plan, j, world') /\ \A r \in D : world'[Spot(j, plan.host[j], r)] = u[r]
    BY StoredFollows
<1>2. status'[j] = x
    OBVIOUS
<1>3. Systemd \in D /\ AllFit(s.run, D) /\ w \in [D -> Value]
    BY ViewType DEF WellPlanned
<1>4. ASSUME x = "done", NEW v \in {"there", "gone"}, NEW p \in EnsuredBy(plan, j, v)
      PROVE  Is(world'[p], v)
    <2>1. PICK r \in Ensures(s, v) : p = Spot(j, plan.host[j], r)
        BY <1>4 DEF EnsuredBy, At
    <2> HIDE DEF s, D, w
    <2>2. r \in D /\ Is(After(s.run, Len(s.run), w)[r], v)
        BY <1>3, <1>4, <2>1, StepEnsures DEF s, w
    <2> QED
        BY <1>1, <1>4, <2>1, <2>2 DEF s, w
<1>5. \E y \in {"running", "done", "failed"} : status' = [status EXCEPT ![j] = y]
    OBVIOUS
<1> QED
    BY <1>1, <1>2, <1>4, <1>5 DEF JobMoves

\* Precheck, and the ways a Run ends.
LEMMA JobActions ==
    ASSUME TypeOK, NEW plan, plan = Plans[task], NEW j \in plan.jobs,
           \/ Precheck(plan, j)
           \/ PrecheckCanceled(plan, j)
           \/ Run(plan, j)
           \/ RunStarves(plan, j)
           \/ RunFails(plan, j)
           \/ RunFailsLate(plan, j)
           \/ Crash(plan, j)
    PROVE  JobMoves(plan, j)
<1> DEFINE s == plan.step[j]
           D == plan.touches[j]
           w == View(plan, j)
<1>1. /\ WellPlanned(plan)
      /\ world \in [DOMAIN plan.fresh -> Value]
      /\ status \in [plan.jobs -> {"pending", "running", "done", "failed"}]
      /\ starved \in BOOLEAN /\ down \in BOOLEAN /\ cut \in BOOLEAN
    BY PlansWell DEF TypeOK
<1>2. /\ Systemd \in D
      /\ AllFit(s.run, D) /\ AllFit(s.undo, D)
      /\ w \in [D -> Value]
    BY <1>1, ViewType DEF WellPlanned
<1>3. /\ Len(s.run) \in 0 .. Len(s.run)
      /\ Reach(s.run, w) \in 0 .. Len(s.run)
    BY <1>2, ReachIs DEF AllFit
<1>4. /\ \A k \in 0 .. Len(s.run) : Leads(s, D, w, After(s.run, k, w))
      /\ \A crash : \A u \in Interrupted(s.run, w, crash) : Leads(s, D, w, u)
      /\ \A u : Leads(s, D, w, u) => Leads(s, D, w, Undone(s.undo, u))
    <2> HIDE DEF s, D, w
    <2> QED
        BY <1>2, StepLeads
<1>5. CASE Precheck(plan, j)
    <2>1. /\ UNCHANGED <<task, old, world, round, faults, down, cut, kept>>
          /\ status[j] = "pending" /\ Ready(plan, j)
          /\ status' = [status EXCEPT ![j] = IF Lost(s, w) THEN "failed"
                                             ELSE IF IsDone(s, w) THEN "done" ELSE "running"]
          /\ starved' = (starved \/ Lost(s, w))
        BY <1>5 DEF Precheck
    <2>2. Follows(plan, j, world')
        BY <1>1, <2>1 DEF Follows
    <2>3. status'[j] = IF Lost(s, w) THEN "failed" ELSE IF IsDone(s, w) THEN "done" ELSE "running"
        BY <1>1, <2>1
    <2>4. ASSUME status'[j] = "done", NEW v \in {"there", "gone"}, NEW p \in EnsuredBy(plan, j, v)
          PROVE  Is(world'[p], v)
        <3>1. PICK r \in Ensures(s, v) : p = Spot(j, plan.host[j], r)
            BY <2>4 DEF EnsuredBy, At
        <3>2. IsDone(s, w)
            BY <2>3, <2>4
        <3>3. r \in D /\ Is(w[r], v)
            <4> HIDE DEF s, D, w
            <4> QED
                BY <1>2, <3>1, <3>2, StepEnsures
        <3>4. w[r] = world[p]
            BY <3>1, <3>3 DEF View
        <3> QED
            BY <2>1, <3>3, <3>4
    <2>5. \E x \in {"running", "done", "failed"} : status' = [status EXCEPT ![j] = x]
        BY <2>1
    <2>6. starved' = starved \/ (starved' = TRUE /\ Missing(plan, j))
        BY <1>1, <2>1 DEF Missing
    <2>7. ASSUME status'[j] = "failed"
          PROVE  starved' = TRUE
        <3>1. Lost(s, w)
            BY <2>3, <2>7
        <3>2. (starved \/ Lost(s, w)) = TRUE
            BY <3>1
        <3> QED
            BY <2>1, <3>2
    <2>8. /\ status'[j] = "done" => IsDone(s, w) /\ ~Lost(s, w)
          /\ status'[j] = "running" => ~Lost(s, w)
        BY <2>3
    <2> QED
        BY <1>1, <2>1, <2>2, <2>4, <2>5, <2>6, <2>7, <2>8 DEF JobMoves
<1>6. CASE Run(plan, j)
    <2>1. /\ UNCHANGED <<task, old, round, faults, down, cut, starved, kept>>
          /\ status[j] = "running" /\ status' = [status EXCEPT ![j] = "done"]
          /\ ~Starves(s.run, w)
          /\ world' = Stored(plan, j, After(s.run, Len(s.run), w))
        BY <1>6 DEF Run
    <2>2. Leads(s, D, w, After(s.run, Len(s.run), w))
        BY <1>3, <1>4
    <2> QED
        BY <1>1, <2>1, <2>2, RunMoves
<1>7. CASE RunStarves(plan, j)
    <2>1. /\ UNCHANGED <<task, old, round, faults, down, cut, kept>>
          /\ status[j] = "running" /\ status' = [status EXCEPT ![j] = "failed"]
          /\ Starves(s.run, w) /\ starved' = TRUE
          /\ world' = Stored(plan, j, Undone(s.undo, After(s.run, Reach(s.run, w), w)))
        BY <1>7 DEF RunStarves
    <2>2. Leads(s, D, w, Undone(s.undo, After(s.run, Reach(s.run, w), w)))
        BY <1>3, <1>4
    <2>3. Missing(plan, j)
        BY <2>1 DEF Missing
    <2> QED
        BY <1>1, <2>1, <2>2, <2>3, RunMoves
<1>8. ASSUME CutShort(j), NEW u, Leads(s, D, w, u), world' = Stored(plan, j, u),
             down' \in BOOLEAN, cut' \in BOOLEAN,
             \/ \E fault : Fault(fault)
             \/ faults' = faults /\ (down \/ Canceled(plan, j))
      PROVE  JobMoves(plan, j)
    <2>1. /\ UNCHANGED <<task, old, round, starved, kept>>
          /\ status[j] = "running" /\ status' = [status EXCEPT ![j] = "failed"]
        BY <1>8 DEF CutShort
    <2>2. \/ faults' = faults
          \/ Len(faults) < MaxFaults /\ \E fault \in Faults : faults' = Append(faults, fault)
        BY <1>8 DEF Fault
    <2>3. \/ \E fault : faults' = Append(faults, fault)
          \/ down
          \/ \E i \in plan.jobs : status[i] = "failed"
        BY <1>8 DEF Fault, Canceled
    <2> QED
        BY <1>1, <1>8, <2>1, <2>2, <2>3, RunMoves
<1>9. CASE RunFails(plan, j)
    <2>1. CutShort(j) /\ Fault("error") /\ UNCHANGED <<down, cut>>
        BY <1>9 DEF RunFails
    <2>2. PICK u \in Interrupted(s.run, w, FALSE) : world' = Stored(plan, j, Undone(s.undo, u))
        BY <1>9 DEF RunFails
    <2> QED
        BY <1>1, <1>4, <1>8, <2>1, <2>2
<1>10. CASE RunFailsLate(plan, j) \/ Crash(plan, j)
    <2>1. PICK crash : \E u \in Interrupted(s.run, w, crash) : world' = Stored(plan, j, u)
        BY <1>10 DEF RunFailsLate, Crash
    <2>2. /\ CutShort(j) /\ down' \in BOOLEAN /\ cut' \in BOOLEAN
          /\ \/ \E fault : Fault(fault)
             \/ faults' = faults /\ (down \/ Canceled(plan, j))
        BY <1>1, <1>10 DEF RunFailsLate, Crash
    <2> QED
        BY <1>4, <1>8, <2>1, <2>2
<1>11. CASE PrecheckCanceled(plan, j)
    <2>1. /\ UNCHANGED <<task, old, world, round, faults, down, cut, starved, kept>>
          /\ status[j] = "pending" /\ Ready(plan, j)
          /\ \E i \in plan.jobs : status[i] = "failed"
          /\ status' = [status EXCEPT ![j] = "failed"] /\ status'[j] = "failed"
        BY <1>1, <1>11 DEF PrecheckCanceled, Canceled
    <2>2. Follows(plan, j, world')
        BY <1>1, <2>1 DEF Follows
    <2>3. \E x \in {"running", "done", "failed"} : status' = [status EXCEPT ![j] = x]
        BY <2>1
    <2> QED
        BY <1>1, <2>1, <2>2, <2>3 DEF JobMoves
<1> QED
    BY <1>5, <1>6, <1>7, <1>9, <1>10, <1>11

\* The result of an entry that failed is replaced by that of its twin.
Replaced(plan, j, i) ==
    /\ i \in plan.jobs /\ i # j /\ i[1] = j[1] /\ plan.host[i] = plan.host[j]
    /\ status[i] = "done" /\ status[j] = "failed"
    /\ status' = [status EXCEPT ![j] = "done"]
    /\ UNCHANGED <<task, old, world, round, faults, down, cut, starved, kept>>

\* A step of the specification is a move of a job, a replaced result, a new round, or
\* none.
LEMMA NextMoves ==
    ASSUME TypeOK, [Next]_vars, NEW plan, plan = Plans[task]
    PROVE  \/ \E j \in plan.jobs : JobMoves(plan, j)
           \/ \E j \in plan.jobs : \E i \in plan.jobs : Replaced(plan, j, i)
           \/ Rerun(plan)
           \/ UNCHANGED vars
<1>1. ASSUME NEW j \in plan.jobs, RecordLast(plan, j)
      PROVE  \E i \in plan.jobs : Replaced(plan, j, i)
    <2>1. PICK i \in plan.jobs : /\ i[1] = j[1] /\ plan.host[i] = plan.host[j]
                                /\ status[i] = "done"
        BY <1>1 DEF RecordLast
    <2>2. status[j] = "failed" /\ i # j
        BY <1>1, <2>1 DEF RecordLast
    <2> QED
        BY <1>1, <2>1, <2>2 DEF RecordLast, Replaced
<1> QED
    BY <1>1, JobActions DEF Next

-----------------------------------------------------------------------------
(* The invariant. Besides the types and the order of the jobs it says what the
   jobs that are done guarantee, whatever the others have done since. *)

\* p is what job i ensures it to be, as far as the jobs that are over may change it.
Unspoilt(plan, st, i, p, v) ==
    \A k \in plan.jobs : p \in UpsetBy(plan, k, v) /\ st[k] \notin {"pending", "running"} =>
                             k = i \/ k \in Ancestors(plan, i)

\* A job that is done has left what it ensures, and it is still so.
Guarded ==
    \A i \in Plans[task].jobs : \A v \in {"there", "gone"} :
        \A p \in EnsuredBy(Plans[task], i, v) :
            status[i] = "done" /\ Unspoilt(Plans[task], status, i, p, v) => Is(world[p], v)

\* What is given is there.
Steady == \A p \in DOMAIN Plans[task].fresh : Given(Plans[task], p) => world[p] # "absent"

\* A job fails, and the process ends, for a reason.
Caused ==
    down \/ (\E j \in Plans[task].jobs : status[j] = "failed") => starved \/ faults # <<>>

\* A job that has started is not among those it waits for.
Started ==
    \A j \in Plans[task].jobs : status[j] # "pending" => j \notin Ancestors(Plans[task], j)

\* No step of a plan that feeds them all is left without what it needs.
Fed == Feeds(Plans[task]) => ~starved

\* Job j insists on resource r, which nothing makes before j is done.
StuckAt(plan, j, r) ==
    /\ Insists(plan.step[j], r)
    /\ plan.fresh[Spot(j, plan.host[j], r)] = "absent"
    /\ \A k \in plan.jobs : Spot(j, plan.host[j], r) \in UpsetBy(plan, k, "gone") =>
                                j \in Ancestors(plan, k)

\* What the effects of a Run cannot be applied without.
RunNeeds(s) == UNION {e.from : e \in Effects(s.run)}

\* A job that insists on what comes into being after it is never done: it fails
\* before its Run, or in it.
Doomed ==
    ~old => \A j \in Plans[task].jobs : \A r \in Plans[task].touches[j] :
                StuckAt(Plans[task], j, r) =>
                    /\ status[j] # "done"
                    /\ status[j] = "running" => r \in RunNeeds(Plans[task].step[j])
                    /\ world[Spot(j, Plans[task].host[j], r)] = "absent"

\* A job step keeps the types.
LEMMA TypeNext ==
    ASSUME TypeOK, [Next]_vars
    PROVE  TypeOK'
<1>1. PICK plan : plan = Plans[task]
    OBVIOUS
<1>2. /\ task \in DOMAIN Plans
      /\ old \in BOOLEAN /\ down \in BOOLEAN /\ cut \in BOOLEAN /\ starved \in BOOLEAN
      /\ world \in [DOMAIN plan.fresh -> Value]
      /\ kept # <<>> => kept \in [DOMAIN plan.fresh -> Value]
      /\ status \in [plan.jobs -> {"pending", "running", "done", "failed"}]
      /\ round \in 1 .. MaxRounds
      /\ plan.fresh \in [DOMAIN plan.fresh -> Value]
    BY <1>1, PlansWell DEF TypeOK, WellPlanned
<1>3. PICK k \in 0 .. MaxFaults : faults \in [1 .. k -> Faults]
    BY DEF TypeOK
<1>4. ASSUME NEW j \in plan.jobs, JobMoves(plan, j)
      PROVE  TypeOK'
    <2>1. /\ UNCHANGED <<task, old, round, kept>>
          /\ starved' \in BOOLEAN /\ down' \in BOOLEAN /\ cut' \in BOOLEAN
        BY <1>2, <1>4 DEF JobMoves
    <2>2. world' \in [DOMAIN plan.fresh -> Value]
        BY <1>4 DEF JobMoves, Follows
    <2>3. status' \in [plan.jobs -> {"pending", "running", "done", "failed"}]
        BY <1>2, <1>4 DEF JobMoves
    <2>4. \E m \in 0 .. MaxFaults : faults' \in [1 .. m -> Faults]
        <3>1. CASE faults' = faults
            BY <1>3, <3>1
        <3>2. CASE faults' # faults
            <4>1. PICK fault \in Faults : Len(faults) < MaxFaults /\ faults' = Append(faults, fault)
                BY <1>4, <3>2 DEF JobMoves
            <4>2. k \in Nat /\ faults \in Seq(Faults) /\ Len(faults) = k
                BY <1>3, BoundAssumption
            <4>3. k + 1 \in 0 .. MaxFaults
                BY <4>1, <4>2, BoundAssumption
            <4>4. faults' \in Seq(Faults) /\ Len(faults') = k + 1
                BY <4>1, <4>2
            <4>5. faults' \in [1 .. k + 1 -> Faults]
                BY <4>4
            <4> QED
                BY <4>3, <4>5
        <3> QED
            BY <3>1, <3>2
    <2> QED
        BY <1>1, <1>2, <2>1, <2>2, <2>3, <2>4 DEF TypeOK
<1>5. ASSUME Rerun(plan)
      PROVE  TypeOK'
    <2>1. /\ UNCHANGED <<task, old, faults, cut, starved>> /\ down' = FALSE
          /\ status' = [j \in plan.jobs |-> "pending"]
          /\ round < MaxRounds /\ round' = round + 1
          /\ world' = [p \in DOMAIN world |-> IF InMemory(p[2]) THEN plan.fresh[p] ELSE world[p]]
          /\ kept' = world' \/ kept' = <<>>
        BY <1>5 DEF Rerun
    <2>2. world' \in [DOMAIN plan.fresh -> Value]
        BY <1>2, <2>1
    <2>3. round' \in 1 .. MaxRounds
        BY <1>2, <2>1, BoundAssumption
    <2> QED
        BY <1>1, <1>2, <1>3, <2>1, <2>2, <2>3 DEF TypeOK
<1>6. CASE UNCHANGED vars
    BY <1>6 DEF vars, TypeOK
<1>7. ASSUME NEW j \in plan.jobs, NEW i \in plan.jobs, Replaced(plan, j, i)
      PROVE  TypeOK'
    <2>1. /\ UNCHANGED <<task, old, world, round, faults, down, cut, starved, kept>>
          /\ status' \in [plan.jobs -> {"pending", "running", "done", "failed"}]
        BY <1>2, <1>7 DEF Replaced
    <2> QED
        BY <1>1, <1>2, <1>3, <2>1 DEF TypeOK
<1> QED
    BY <1>1, <1>4, <1>5, <1>6, <1>7, NextMoves

\* Precheck starts a job when those before it are done, no step of the engine
\* takes a done job back, and a new round starts all over.
LEMMA InOrderNext ==
    ASSUME TypeOK, InOrder, [Next]_vars
    PROVE  InOrder'
<1>1. PICK plan : plan = Plans[task]
    OBVIOUS
<1>2. /\ task \in DOMAIN Plans
      /\ status \in [plan.jobs -> {"pending", "running", "done", "failed"}]
      /\ plan.before \in [plan.jobs -> SUBSET plan.jobs]
      /\ \A j \in plan.jobs :
             status[j] # "pending" => \A i \in plan.before[j] : status[i] = "done"
    BY <1>1, PlansWell DEF InOrder, Ready, WellPlanned
<1>3. ASSUME task' = task,
             status' \in [plan.jobs -> {"pending", "running", "done", "failed"}],
             \A j \in plan.jobs :
                 status'[j] # "pending" => \A i \in plan.before[j] : status'[i] = "done"
      PROVE  InOrder'
    BY <1>1, <1>2, <1>3 DEF InOrder, Ready
<1>4. ASSUME NEW j \in plan.jobs, JobMoves(plan, j)
      PROVE  InOrder'
    <2>1. PICK x \in {"failed", "done", "running"} : status' = [status EXCEPT ![j] = x]
        BY <1>4 DEF JobMoves
    <2>2. /\ task' = task /\ status[j] \in {"pending", "running"}
          /\ \A i \in plan.before[j] : status[i] = "done"
        BY <1>2, <1>4 DEF JobMoves, Ready
    <2> QED
        BY <1>2, <1>3, <2>1, <2>2
<1>5. CASE Rerun(plan)
    <2>1. task' = task /\ status' = [j \in plan.jobs |-> "pending"]
        BY <1>5 DEF Rerun
    <2> QED
        BY <1>2, <1>3, <2>1
<1>6. CASE UNCHANGED vars
    BY <1>2, <1>3, <1>6 DEF vars
<1>7. ASSUME NEW j \in plan.jobs, NEW i \in plan.jobs, Replaced(plan, j, i)
      PROVE  InOrder'
    <2>1. /\ task' = task /\ status[j] = "failed"
          /\ status' = [status EXCEPT ![j] = "done"]
        BY <1>7 DEF Replaced
    <2> QED
        BY <1>2, <1>3, <2>1
<1> QED
    BY <1>1, <1>4, <1>5, <1>6, <1>7, NextMoves

\* A job that moves has its ancestors done and is not among them.
LEMMA MoverReady ==
    ASSUME InOrder, NEW plan, plan = Plans[task], NEW j \in plan.jobs, JobMoves(plan, j)
    PROVE  /\ status[j] \in {"pending", "running"}
           /\ Ready(plan, j)
           /\ j \notin Ancestors(plan, j)
<1>1. status[j] \in {"pending", "running"}
    BY DEF JobMoves
<1>2. Ready(plan, j)
    BY DEF JobMoves, InOrder
<1> QED
    BY <1>1, <1>2, AncestorsDone

\* So no job that has started waits for itself.
LEMMA StartedNext ==
    ASSUME TypeOK, InOrder, Started, [Next]_vars
    PROVE  Started'
<1>1. PICK plan : plan = Plans[task]
    OBVIOUS
<1>2. status \in [plan.jobs -> {"pending", "running", "done", "failed"}]
    BY <1>1 DEF TypeOK
<1>3. ASSUME NEW j \in plan.jobs, JobMoves(plan, j)
      PROVE  Started'
    <2>1. PICK x \in {"running", "done", "failed"} : status' = [status EXCEPT ![j] = x]
        BY <1>3 DEF JobMoves
    <2>2. task' = task
        BY <1>3 DEF JobMoves
    <2>3. j \notin Ancestors(plan, j)
        BY <1>1, <1>3, MoverReady
    <2> QED
        BY <1>1, <1>2, <2>1, <2>2, <2>3 DEF Started
<1>4. ASSUME NEW j \in plan.jobs, NEW i \in plan.jobs, Replaced(plan, j, i)
      PROVE  Started'
    <2>1. /\ task' = task /\ status[j] = "failed"
          /\ status' = [status EXCEPT ![j] = "done"]
        BY <1>4 DEF Replaced
    <2> QED
        BY <1>1, <1>2, <2>1 DEF Started
<1>5. CASE Rerun(plan)
    <2>1. task' = task /\ status' = [j \in plan.jobs |-> "pending"]
        BY <1>5 DEF Rerun
    <2> QED
        BY <1>1, <2>1 DEF Started
<1>6. CASE UNCHANGED vars
    BY <1>6 DEF vars, Started
<1> QED
    BY <1>1, <1>3, <1>4, <1>5, <1>6, NextMoves

\* What a step ensures is at spots of the world.
LEMMA EnsuredSpots ==
    ASSUME TypeOK, NEW plan, plan = Plans[task], NEW i \in plan.jobs,
           NEW v \in {"there", "gone"}, NEW p \in EnsuredBy(plan, i, v)
    PROVE  p \in DOMAIN plan.fresh
<1>1. PICK r \in Ensures(plan.step[i], v) : p = Spot(i, plan.host[i], r)
    BY DEF EnsuredBy, At
<1>2. WellPlanned(plan) /\ View(plan, i) \in [plan.touches[i] -> Value]
    BY PlansWell, ViewType DEF TypeOK
<1>3. r \in plan.touches[i]
    BY <1>2, StepEnsures DEF WellPlanned
<1> QED
    BY <1>1, <1>2, <1>3 DEF WellPlanned

\* A job that is over cannot spoil what a later one ensures, and one that spoils
\* what an earlier one ensured is no ancestor of it.
LEMMA GuardedNext ==
    ASSUME TypeOK, InOrder, Started, Guarded, [Next]_vars
    PROVE  Guarded'
<1>1. PICK plan : plan = Plans[task]
    OBVIOUS
<1>2. status \in [plan.jobs -> {"pending", "running", "done", "failed"}]
    BY <1>1 DEF TypeOK
<1>3. ASSUME NEW j \in plan.jobs, JobMoves(plan, j)
      PROVE  Guarded'
    <2>1. PICK x \in {"running", "done", "failed"} : status' = [status EXCEPT ![j] = x]
        BY <1>3 DEF JobMoves
    <2>2. task' = task /\ Follows(plan, j, world')
        BY <1>3 DEF JobMoves
    <2>3. status[j] \in {"pending", "running"} /\ Ready(plan, j)
        BY <1>1, <1>3, MoverReady
    <2>4. SUFFICES ASSUME NEW i \in plan.jobs, NEW v \in {"there", "gone"},
                          NEW p \in EnsuredBy(plan, i, v),
                          status'[i] = "done", Unspoilt(plan, status', i, p, v)
                   PROVE  Is(world'[p], v)
        BY <1>1, <2>2 DEF Guarded
    <2>5. CASE i = j
        BY <1>3, <2>4, <2>5 DEF JobMoves
    <2>6. CASE i # j
        <3>1. status[i] = "done"
            BY <1>2, <2>1, <2>4, <2>6
        <3>2. \A k \in plan.jobs : status[k] \notin {"pending", "running"} => status'[k] = status[k]
            BY <1>2, <2>1, <2>3
        <3>3. Unspoilt(plan, status, i, p, v)
            BY <2>4, <3>2 DEF Unspoilt
        <3>4. Is(world[p], v)
            BY <1>1, <3>1, <3>3 DEF Guarded
        <3>5. j \notin Ancestors(plan, i)
            <4>1. Ready(plan, i)
                BY <1>1, <3>1 DEF InOrder
            <4> QED
                BY <1>1, <2>3, <4>1, AncestorsDone
        <3>6. CASE x = "running"
            <4>1. world' = world
                BY <1>2, <1>3, <2>1, <3>6 DEF JobMoves
            <4> QED
                BY <3>4, <4>1
        <3>7. CASE x # "running"
            <4>1. status'[j] \notin {"pending", "running"}
                BY <1>2, <2>1, <3>7
            <4>2. p \notin UpsetBy(plan, j, v)
                BY <2>4, <2>6, <3>5, <4>1 DEF Unspoilt
            <4>3. p \in DOMAIN plan.fresh
                BY <1>1, EnsuredSpots
            <4> QED
                BY <2>2, <3>4, <4>2, <4>3 DEF Follows
        <3> QED
            BY <3>6, <3>7
    <2> QED
        BY <2>5, <2>6
<1>4. CASE Rerun(plan)
    <2>1. task' = task /\ status' = [j \in plan.jobs |-> "pending"]
        BY <1>4 DEF Rerun
    <2> QED
        BY <1>1, <2>1 DEF Guarded
<1>5. CASE UNCHANGED vars
    BY <1>5 DEF vars, Guarded
<1>6. ASSUME NEW j \in plan.jobs, NEW t \in plan.jobs, Replaced(plan, j, t)
      PROVE  Guarded'
    <2>1. /\ task' = task /\ world' = world
          /\ status' = [status EXCEPT ![j] = "done"]
          /\ status[j] = "failed" /\ status[t] = "done" /\ t # j
          /\ t[1] = j[1] /\ plan.host[t] = plan.host[j]
        BY <1>6 DEF Replaced
    <2>2. SUFFICES ASSUME NEW i \in plan.jobs, NEW v \in {"there", "gone"},
                          NEW p \in EnsuredBy(plan, i, v),
                          status'[i] = "done", Unspoilt(plan, status', i, p, v)
                   PROVE  Is(world[p], v)
        BY <1>1, <2>1 DEF Guarded
    <2>3. \A k \in plan.jobs : status[k] \notin {"pending", "running"} =>
                                  status'[k] \notin {"pending", "running"}
        BY <1>2, <2>1
    <2>4. Unspoilt(plan, status, i, p, v)
        BY <2>2, <2>3 DEF Unspoilt
    <2>5. CASE i # j
        <3>1. status[i] = "done"
            BY <1>2, <2>1, <2>2, <2>5
        <3> QED
            BY <1>1, <2>4, <3>1 DEF Guarded
    <2>6. CASE i = j
        <3>1. /\ EnsuredBy(plan, t, v) = EnsuredBy(plan, j, v)
              /\ UpsetBy(plan, t, v) = UpsetBy(plan, j, v)
              /\ Ancestors(plan, t) = Ancestors(plan, j)
            BY <1>1, <2>1, PlansWell, TwinsAlike DEF TypeOK
        <3>2. t \notin Ancestors(plan, j)
            BY <1>1, <2>1, <3>1 DEF Started
        <3>3. p \notin UpsetBy(plan, j, v)
            BY <2>1, <2>4, <2>6, <3>1, <3>2 DEF Unspoilt
        <3>4. Unspoilt(plan, status, t, p, v)
            BY <2>4, <2>6, <3>1, <3>3 DEF Unspoilt
        <3> QED
            BY <1>1, <2>1, <2>2, <2>6, <3>1, <3>4 DEF Guarded
    <2> QED
        BY <2>5, <2>6
<1> QED
    BY <1>1, <1>3, <1>4, <1>5, <1>6, NextMoves

\* No job takes away what is given, and a new round finds it again.
LEMMA SteadyNext ==
    ASSUME TypeOK, Steady, [Next]_vars
    PROVE  Steady'
<1>1. PICK plan : plan = Plans[task]
    OBVIOUS
<1>2. world \in [DOMAIN plan.fresh -> Value]
    BY <1>1 DEF TypeOK
<1>3. ASSUME NEW j \in plan.jobs, JobMoves(plan, j)
      PROVE  Steady'
    <2>1. task' = task /\ Follows(plan, j, world')
        BY <1>3 DEF JobMoves
    <2>2. SUFFICES ASSUME NEW p \in DOMAIN plan.fresh, Given(plan, p)
                   PROVE  world'[p] # "absent"
        BY <1>1, <2>1 DEF Steady
    <2>3. world[p] # "absent" /\ p \notin UpsetBy(plan, j, "there")
        BY <1>1, <2>2 DEF Steady, Given
    <2> QED
        BY <2>1, <2>3 DEF Follows, Is
<1>4. CASE Rerun(plan)
    <2>1. /\ task' = task
          /\ world' = [p \in DOMAIN world |-> IF InMemory(p[2]) THEN plan.fresh[p] ELSE world[p]]
        BY <1>4 DEF Rerun
    <2> QED
        BY <1>1, <1>2, <2>1 DEF Steady, Given
<1>5. CASE UNCHANGED vars
    BY <1>5 DEF vars, Steady
<1>6. ASSUME NEW j \in plan.jobs, NEW i \in plan.jobs, Replaced(plan, j, i)
      PROVE  Steady'
    BY <1>6 DEF Replaced, Steady
<1> QED
    BY <1>1, <1>3, <1>4, <1>5, <1>6, NextMoves

\* A job that is ready or running has all that its plan supplies it with.
LEMMA Supplied ==
    ASSUME TypeOK, InOrder, Guarded, Steady, NEW plan, plan = Plans[task],
           NEW j \in plan.jobs, status[j] \in {"pending", "running"}, Ready(plan, j),
           NEW r \in Supplies(plan, j)
    PROVE  r \in plan.touches[j] /\ View(plan, j)[r] # "absent"
<1> DEFINE p == Spot(j, plan.host[j], r)
<1>1. r \in plan.touches[j] /\ (Given(plan, p) \/ \E i \in plan.jobs : SuppliedBy(plan, i, j, p))
    BY DEF Supplies
<1>2. p \in DOMAIN plan.fresh
    BY <1>1, PlansWell DEF TypeOK, WellPlanned
<1>3. View(plan, j)[r] = world[p]
    BY <1>1 DEF View
<1> HIDE DEF p
<1>4. CASE Given(plan, p)
    BY <1>1, <1>2, <1>3, <1>4 DEF Steady
<1>5. ASSUME NEW i \in plan.jobs, SuppliedBy(plan, i, j, p)
      PROVE  world[p] # "absent"
    <2>1. /\ i \in Ancestors(plan, j)
          /\ p \in EnsuredBy(plan, i, "there")
          /\ \A k \in plan.jobs \ {i, j} :
                 p \in UpsetBy(plan, k, "there") => k \in Ancestors(plan, i) \/ j \in Ancestors(plan, k)
        BY <1>5 DEF SuppliedBy
    <2>2. status[i] = "done"
        BY <2>1, AncestorsDone
    <2>3. ASSUME NEW k \in plan.jobs, p \in UpsetBy(plan, k, "there"),
                 status[k] \notin {"pending", "running"}
          PROVE  k = i \/ k \in Ancestors(plan, i)
        <3>1. j \notin Ancestors(plan, k)
            <4>1. Ready(plan, k)
                BY <2>3 DEF InOrder
            <4> QED
                BY <4>1, AncestorsDone
        <3> QED
            BY <2>1, <2>3, <3>1
    <2>4. Unspoilt(plan, status, i, p, "there")
        BY <2>3 DEF Unspoilt
    <2>5. Is(world[p], "there")
        BY <2>1, <2>2, <2>4 DEF Guarded
    <2> QED
        BY <2>5 DEF Is
<1> QED
    BY <1>1, <1>3, <1>4, <1>5

\* So no step of a plan that feeds all its jobs misses anything.
LEMMA FedNext ==
    ASSUME TypeOK, InOrder, Guarded, Steady, Fed, [Next]_vars
    PROVE  Fed'
<1>1. PICK plan : plan = Plans[task]
    OBVIOUS
<1>2. ASSUME NEW j \in plan.jobs, JobMoves(plan, j)
      PROVE  Fed'
    <2>1. task' = task /\ (starved' = starved \/ (starved' = TRUE /\ Missing(plan, j)))
        BY <1>2 DEF JobMoves
    <2>2. SUFFICES ASSUME Feeds(plan)
                   PROVE  ~Missing(plan, j)
        BY <1>1, <2>1 DEF Fed
    <2> DEFINE s == plan.step[j]
               D == plan.touches[j]
               w == View(plan, j)
               N == Supplies(plan, j)
    <2>3. status[j] \in {"pending", "running"} /\ Ready(plan, j)
        BY <1>1, <1>2, MoverReady
    <2>4. \A r \in N : r \in D /\ w[r] # "absent"
        BY <1>1, <2>3, Supplied
    <2>5. Systemd \in D /\ AllFit(s.run, D) /\ w \in [D -> Value]
        BY <1>1, PlansWell, ViewType DEF TypeOK, WellPlanned
    <2>6. FedBy(s, N)
        BY <2>2 DEF Feeds
    <2>7. ~Lost(s, w) /\ ~Starves(s.run, w)
        <3> HIDE DEF s, D, w, N
        <3> QED
            BY <2>4, <2>5, <2>6, FedSteps
    <2> QED
        BY <2>7 DEF Missing
<1>3. CASE Rerun(plan)
    BY <1>3 DEF Rerun, Fed
<1>4. CASE UNCHANGED vars
    BY <1>4 DEF vars, Fed
<1>5. ASSUME NEW j \in plan.jobs, NEW i \in plan.jobs, Replaced(plan, j, i)
      PROVE  Fed'
    BY <1>5 DEF Replaced, Fed
<1> QED
    BY <1>1, <1>2, <1>3, <1>4, <1>5, NextMoves

\* A step without what it insists on fails before its Run or starves in it.
LEMMA InsistsOn ==
    ASSUME NEW D, Systemd \in D, NEW s, AllFit(s.run, D), NEW w \in [D -> Value],
           NEW r \in D, w[r] = "absent"
    PROVE  /\ Insists(s, r) => ~IsDone(s, w) \/ Lost(s, w)
           /\ Insists(s, r) /\ ~Lost(s, w) => r \in RunNeeds(s)
           /\ r \in RunNeeds(s) /\ r \notin Upsets(s, "gone") => Starves(s.run, w)
<1>1. ASSUME Insists(s, r), ~Lost(s, w)
      PROVE  ~IsDone(s, w) /\ r \in RunNeeds(s)
    <2>1. r \notin s.expects
        BY <1>1 DEF Lost, Present
    <2>2. r \in s.asks \cup RunNeeds(s) /\ \A a \in s.done : r \in a.exist \cup a.same
        BY <1>1, <2>1 DEF Insists, RunNeeds, Shows
    <2>3. ~IsDone(s, w)
        BY <2>2 DEF IsDone, Present
    <2>4. r \notin s.asks
        BY <1>1, <2>3 DEF Lost, Present
    <2> QED
        BY <2>2, <2>3, <2>4
<1>2. ASSUME r \in RunNeeds(s), r \notin Upsets(s, "gone"), ~Starves(s.run, w)
      PROVE  FALSE
    <2> DEFINE run == s.run
    <2>1. PICK k \in DOMAIN run : r \in run[k].from
        BY <1>2 DEF RunNeeds, Effects
    <2>2. Len(run) \in Nat /\ k \in 1 .. Len(run) /\ k - 1 \in 0 .. Len(run)
        BY <2>1 DEF AllFit
    <2>3. Reach(run, w) = Len(run)
        BY <1>2, <2>2, ReachIs DEF Starves
    <2>4. Can(run[k], After(run, k - 1, w))
        BY <2>2, <2>3, ReachIs
    <2>5. Leads(s, D, w, w)
        BY DEF Leads
    <2>6. Leads(s, D, w, After(run, k - 1, w))
        BY <2>2, <2>5, ListLeads
    <2>7. After(run, k - 1, w)[r] = "absent"
        BY <1>2, <2>6 DEF Leads, Is
    <2> QED
        BY <2>1, <2>4, <2>7 DEF Can, Present
<1> QED
    BY <1>1, <1>2

\* What a stuck job insists on stays absent: no job that could make it starts before
\* the stuck one is done.
LEMMA DoomedNext ==
    ASSUME TypeOK, InOrder, Doomed, [Next]_vars
    PROVE  Doomed'
<1>1. PICK plan : plan = Plans[task]
    OBVIOUS
<1>2. /\ status \in [plan.jobs -> {"pending", "running", "done", "failed"}]
      /\ world \in [DOMAIN plan.fresh -> Value]
      /\ WellPlanned(plan)
    BY <1>1, PlansWell DEF TypeOK
<1>3. ASSUME task' = task, old' = old, ~old, NEW j \in plan.jobs, NEW r \in plan.touches[j],
             StuckAt(plan, j, r)
      PROVE  /\ status[j] # "done"
             /\ status[j] = "running" => r \in RunNeeds(plan.step[j])
             /\ world[Spot(j, plan.host[j], r)] = "absent"
             /\ Spot(j, plan.host[j], r) \in DOMAIN plan.fresh
             /\ plan.fresh[Spot(j, plan.host[j], r)] = "absent"
    <2>1. Spot(j, plan.host[j], r) \in DOMAIN plan.fresh
        BY <1>2 DEF WellPlanned
    <2>2. plan.fresh[Spot(j, plan.host[j], r)] = "absent"
        BY <1>3 DEF StuckAt
    <2> QED
        BY <1>1, <1>3, <2>1, <2>2 DEF Doomed
<1>4. ASSUME NEW m \in plan.jobs, JobMoves(plan, m)
      PROVE  Doomed'
    <2>1. task' = task /\ old' = old /\ Follows(plan, m, world')
        BY <1>4 DEF JobMoves
    <2>2. PICK x \in {"running", "done", "failed"} : status' = [status EXCEPT ![m] = x]
        BY <1>4 DEF JobMoves
    <2>3. /\ status[m] \in {"pending", "running"}
          /\ Ready(plan, m)
          /\ m \notin Ancestors(plan, m)
        BY <1>1, <1>4, MoverReady
    <2>4. SUFFICES ASSUME ~old, NEW j \in plan.jobs, NEW r \in plan.touches[j],
                          StuckAt(plan, j, r)
                   PROVE  /\ status'[j] # "done"
                          /\ status'[j] = "running" => r \in RunNeeds(plan.step[j])
                          /\ world'[Spot(j, plan.host[j], r)] = "absent"
        BY <1>1, <2>1 DEF Doomed
    <2> DEFINE p == Spot(j, plan.host[j], r)
    <2>5. /\ status[j] # "done"
          /\ status[j] = "running" => r \in RunNeeds(plan.step[j])
          /\ world[p] = "absent" /\ p \in DOMAIN plan.fresh
        BY <1>3, <2>1, <2>4
    <2>6. p \notin UpsetBy(plan, m, "gone")
        <3>1. j \notin Ancestors(plan, m)
            BY <1>1, <2>3, <2>5, AncestorsDone
        <3> QED
            BY <2>4, <3>1 DEF StuckAt
    <2>7. world'[p] = "absent"
        BY <2>1, <2>5, <2>6 DEF Follows, Is
    <2>8. CASE m # j
        BY <1>2, <2>2, <2>5, <2>7, <2>8
    <2>9. CASE m = j
        <3> DEFINE s == plan.step[j]
                   D == plan.touches[j]
                   w == View(plan, j)
        <3>1. Systemd \in D /\ AllFit(s.run, D) /\ w \in [D -> Value]
            BY <1>2, ViewType DEF WellPlanned
        <3>2. w[r] = "absent"
            BY <2>5 DEF View
        <3>3. r \notin Upsets(s, "gone")
            BY <2>6, <2>9 DEF UpsetBy, At
        <3>4. Insists(s, r)
            BY <2>4 DEF StuckAt
        <3> HIDE DEF s, D, w
        <3>5. /\ ~IsDone(s, w) \/ Lost(s, w)
              /\ ~Lost(s, w) => r \in RunNeeds(s)
              /\ r \in RunNeeds(s) => Starves(s.run, w)
            BY <2>4, <3>1, <3>2, <3>3, <3>4, InsistsOn DEF D
        <3>6. /\ status'[j] = "done" /\ status[j] = "pending" => IsDone(s, w) /\ ~Lost(s, w)
              /\ status'[j] = "done" /\ status[j] = "running" => ~Starves(s.run, w)
              /\ status'[j] = "running" => ~Lost(s, w)
            BY <1>4, <2>9 DEF JobMoves, s, w
        <3> QED
            BY <2>3, <2>5, <2>7, <2>9, <3>5, <3>6 DEF s
    <2> QED
        BY <2>8, <2>9
<1>5. CASE Rerun(plan)
    <2>1. /\ task' = task /\ old' = old
          /\ status' = [j \in plan.jobs |-> "pending"]
          /\ world' = [p \in DOMAIN world |-> IF InMemory(p[2]) THEN plan.fresh[p] ELSE world[p]]
        BY <1>5 DEF Rerun
    <2>2. SUFFICES ASSUME ~old, NEW j \in plan.jobs, NEW r \in plan.touches[j],
                          StuckAt(plan, j, r)
                   PROVE  /\ status'[j] # "done"
                          /\ status'[j] = "running" => r \in RunNeeds(plan.step[j])
                          /\ world'[Spot(j, plan.host[j], r)] = "absent"
        BY <1>1, <2>1 DEF Doomed
    <2> DEFINE p == Spot(j, plan.host[j], r)
    <2>3. p \in DOMAIN plan.fresh /\ plan.fresh[p] = "absent" /\ world[p] = "absent"
        BY <1>3, <2>1, <2>2
    <2> HIDE DEF p
    <2>4. world'[p] = "absent"
        BY <1>2, <2>1, <2>3
    <2> QED
        BY <2>1, <2>4 DEF p
<1>6. CASE UNCHANGED vars
    BY <1>6 DEF vars, Doomed
<1>7. ASSUME NEW m \in plan.jobs, NEW t \in plan.jobs, Replaced(plan, m, t)
      PROVE  Doomed'
    <2>1. /\ task' = task /\ old' = old /\ world' = world
          /\ status' = [status EXCEPT ![m] = "done"]
          /\ status[m] = "failed" /\ status[t] = "done"
          /\ t[1] = m[1] /\ plan.host[t] = plan.host[m]
        BY <1>7 DEF Replaced
    <2>2. SUFFICES ASSUME ~old, NEW j \in plan.jobs, NEW r \in plan.touches[j],
                          StuckAt(plan, j, r)
                   PROVE  /\ status'[j] # "done"
                          /\ status'[j] = "running" => r \in RunNeeds(plan.step[j])
                          /\ world[Spot(j, plan.host[j], r)] = "absent"
        BY <1>1, <2>1 DEF Doomed
    <2>3. /\ status[j] # "done"
          /\ status[j] = "running" => r \in RunNeeds(plan.step[j])
          /\ world[Spot(j, plan.host[j], r)] = "absent"
        BY <1>3, <2>1, <2>2
    <2>4. j # m
        <3> SUFFICES ASSUME j = m
                     PROVE  FALSE
            OBVIOUS
        <3>1. /\ plan.step[t] = plan.step[j] /\ plan.touches[t] = plan.touches[j]
              /\ Spot(t, plan.host[t], r) = Spot(j, plan.host[j], r)
            <4>1. t[1] = j[1] /\ plan.host[t] = plan.host[j]
                BY <2>1
            <4> QED
                BY <1>2, <4>1, TwinsAlike
        <3>2. \A k \in plan.jobs : j \in Ancestors(plan, k) => t \in Ancestors(plan, k)
            BY <1>2, <2>1, AncestorsTogether
        <3>3. StuckAt(plan, t, r)
            BY <2>2, <3>1, <3>2 DEF StuckAt
        <3>4. r \in plan.touches[t]
            BY <2>2, <3>1
        <3>5. status[t] # "done"
            BY <1>3, <2>1, <2>2, <3>3, <3>4
        <3> QED
            BY <2>1, <3>5
    <2> QED
        BY <1>2, <2>1, <2>3, <2>4
<1> QED
    BY <1>1, <1>4, <1>5, <1>6, <1>7, NextMoves

\* A job fails because its step misses something or is cut short.
LEMMA CausedNext ==
    ASSUME TypeOK, Caused, [Next]_vars
    PROVE  Caused'
<1>1. PICK plan : plan = Plans[task]
    OBVIOUS
<1>2. /\ status \in [plan.jobs -> {"pending", "running", "done", "failed"}]
      /\ starved \in BOOLEAN
    BY <1>1 DEF TypeOK
<1>3. ASSUME NEW fault, faults' = Append(faults, fault)
      PROVE  faults' # <<>>
    <2>1. faults \in Seq(Faults)
        BY BoundAssumption DEF TypeOK
    <2>2. Len(Append(faults, fault)) = Len(faults) + 1 /\ Len(faults) \in Nat
        BY <2>1
    <2> QED
        BY <1>3, <2>2
<1>4. ASSUME NEW j \in plan.jobs, JobMoves(plan, j)
      PROVE  Caused'
    <2>1. PICK x \in {"running", "done", "failed"} : status' = [status EXCEPT ![j] = x]
        BY <1>4 DEF JobMoves
    <2>2. task' = task /\ (starved => starved') /\ (faults # <<>> => faults' # <<>>)
        BY <1>2, <1>3, <1>4 DEF JobMoves
    <2>3. status'[j] = "failed" \/ down' =>
              starved' \/ faults' # <<>> \/ down \/ \E i \in plan.jobs : status[i] = "failed"
        BY <1>3, <1>4 DEF JobMoves
    <2>4. \A i \in plan.jobs : i # j => status'[i] = status[i]
        BY <1>2, <2>1
    <2> QED
        BY <1>1, <2>2, <2>3, <2>4 DEF Caused
<1>5. CASE Rerun(plan)
    <2>1. task' = task /\ status' = [j \in plan.jobs |-> "pending"] /\ down' = FALSE
        BY <1>5 DEF Rerun
    <2> QED
        BY <1>1, <2>1 DEF Caused
<1>6. CASE UNCHANGED vars
    BY <1>6 DEF vars, Caused
<1>7. ASSUME NEW j \in plan.jobs, NEW i \in plan.jobs, Replaced(plan, j, i)
      PROVE  Caused'
    <2>1. /\ UNCHANGED <<task, faults, down, starved>>
          /\ status' = [status EXCEPT ![j] = "done"]
        BY <1>7 DEF Replaced
    <2> QED
        BY <1>1, <1>2, <2>1 DEF Caused
<1> QED
    BY <1>1, <1>4, <1>5, <1>6, <1>7, NextMoves

Inv == TypeOK /\ InOrder /\ Started /\ Guarded /\ Steady /\ Caused /\ Fed /\ Doomed

\* The invariant holds of every case, with any faults and any number of rounds.
LEMMA Invariant == Spec => []Inv
<1>1. Init => Inv
    <2> SUFFICES ASSUME Init
                 PROVE  Inv
        OBVIOUS
    <2>1. PICK plan : plan = Plans[task]
        OBVIOUS
    <2>2. /\ task \in DOMAIN Plans /\ old \in BOOLEAN
          /\ world = IF old THEN plan.earlier ELSE plan.fresh
          /\ status = [j \in plan.jobs |-> "pending"]
          /\ round = 1 /\ faults = <<>> /\ kept = <<>>
          /\ down = FALSE /\ cut = FALSE /\ starved = FALSE
        BY <2>1 DEF Init
    <2>3. WellPlanned(plan)
        BY <2>1, <2>2, PlansWell
    <2>4. world \in [DOMAIN plan.fresh -> Value]
        BY <2>2, <2>3 DEF WellPlanned
    <2>5. TypeOK
        <3>1. faults \in [1 .. 0 -> Faults] /\ 0 \in 0 .. MaxFaults /\ round \in 1 .. MaxRounds
            BY <2>2, BoundAssumption
        <3>2. down \in BOOLEAN /\ cut \in BOOLEAN /\ starved \in BOOLEAN
            BY <2>2
        <3>3. status \in [plan.jobs -> {"pending", "running", "done", "failed"}]
            BY <2>2
        <3> QED
            BY <2>1, <2>2, <2>4, <3>1, <3>2, <3>3 DEF TypeOK
    <2>6. InOrder /\ Started
        BY <2>1, <2>2 DEF InOrder, Started
    <2>7. Guarded
        BY <2>1, <2>2 DEF Guarded
    <2>8. Steady
        BY <2>1, <2>2 DEF Steady, Given
    <2>9. Caused /\ Fed
        BY <2>1, <2>2 DEF Caused, Fed
    <2>10. Doomed
        <3> SUFFICES ASSUME ~old, NEW j \in plan.jobs, NEW r \in plan.touches[j],
                            StuckAt(plan, j, r)
                     PROVE  status[j] = "pending" /\ world[Spot(j, plan.host[j], r)] = "absent"
            BY <2>1 DEF Doomed
        <3> QED
            BY <2>2 DEF StuckAt
    <2> QED
        BY <2>5, <2>6, <2>7, <2>8, <2>9, <2>10 DEF Inv
<1>2. Inv /\ [Next]_vars => Inv'
    BY TypeNext, InOrderNext, StartedNext, GuardedNext, SteadyNext, CausedNext, FedNext, DoomedNext DEF Inv
<1> QED
    BY <1>1, <1>2, PTL DEF Spec

-----------------------------------------------------------------------------
(* What a plan promises is what happens. *)

\* Every variable has its type, for any tasks, layouts, faults and bounds.
THEOREM TypeCorrect == Spec => []TypeOK
<1>1. Inv => TypeOK
    BY DEF Inv
<1> QED
    BY <1>1, Invariant, PTL

\* When the edges of a task's graph bring every step what it needs (Feeds), no step is
\* ever without it: in no order the engine may choose, on fresh hosts or over an
\* earlier installation, after any errors, rollbacks, late failures and crashes, in
\* no round.
THEOREM FedTasksNeverStarve ==
    Spec => [](Feeds(Plans[task]) => ~starved /\ NeedsMet)
<1>1. Inv => (Feeds(Plans[task]) => ~starved /\ NeedsMet)
    BY DEF Inv, Fed, NeedsMet
<1> QED
    BY <1>1, Invariant, PTL

\* What a job makes or removes, and nothing but its ancestors may turn back, is so
\* from the moment the job is done to the end of the round, whatever its step found,
\* and whatever other jobs do, fail at or roll back in the meantime.
THEOREM SettledStays ==
    Spec => [](\A i \in Plans[task].jobs, v \in {"there", "gone"} : \A p :
                   SettledBy(Plans[task], i, p, v) /\ status[i] = "done" => Is(world[p], v))
<1>1. ASSUME Inv, NEW i \in Plans[task].jobs, NEW v \in {"there", "gone"}, NEW p,
             SettledBy(Plans[task], i, p, v), status[i] = "done"
      PROVE  Is(world[p], v)
    <2>1. p \in EnsuredBy(Plans[task], i, v) /\ Unspoilt(Plans[task], status, i, p, v)
        BY <1>1 DEF SettledBy, Unspoilt
    <2> QED
        BY <1>1, <2>1 DEF Inv, Guarded
<1>2. Inv => \A i \in Plans[task].jobs, v \in {"there", "gone"} : \A p :
                 SettledBy(Plans[task], i, p, v) /\ status[i] = "done" => Is(world[p], v)
    BY <1>1
<1> QED
    BY <1>2, Invariant, PTL

\* All jobs of a plan are done when AllDone says so.
LEMMA AllDoneSettled ==
    ASSUME Inv, AllDone, NEW plan, plan = Plans[task], NEW i \in plan.jobs,
           NEW v \in {"there", "gone"}, NEW p, SettledBy(plan, i, p, v)
    PROVE  Is(world[p], v)
<1>1. status[i] = "done"
    BY DEF AllDone, Inv, TypeOK
<1>2. p \in EnsuredBy(plan, i, v) /\ Unspoilt(plan, status, i, p, v)
    BY DEF SettledBy, Unspoilt
<1> QED
    BY <1>1, <1>2 DEF Inv, Guarded

\* A task whose plan has every goal made for good by some job (Builds) leaves all it
\* is there to make whenever it succeeds, though an interrupted round or an earlier
\* installation left some of it and Prechecks skip what they find.
THEOREM BuildersDeploy ==
    Spec => [](Builds(Plans[task]) =>
                   Deployed /\ (AllDone => \A p \in Plans[task].goals : world[p] # "absent"))
<1>1. ASSUME Inv, Builds(Plans[task]), AllDone, NEW p \in Plans[task].goals
      PROVE  world[p] # "absent"
    <2>1. PICK i \in Plans[task].jobs : SettledBy(Plans[task], i, p, "there")
        BY <1>1 DEF Builds
    <2>2. Is(world[p], "there")
        BY <1>1, <2>1, AllDoneSettled
    <2> QED
        BY <2>2 DEF Is
<1>2. Inv => (Builds(Plans[task]) =>
                  Deployed /\ (AllDone => \A p \in Plans[task].goals : world[p] # "absent"))
    BY <1>1 DEF Deployed
<1> QED
    BY <1>2, Invariant, PTL

\* A task whose plan has all waste removed for good by some job (Clears) leaves
\* nothing of it whenever it succeeds.
THEOREM ClearersClean ==
    Spec => [](Clears(Plans[task]) =>
                   Cleaned /\ (AllDone => \A p \in Plans[task].waste : world[p] = "absent"))
<1>1. ASSUME Inv, Clears(Plans[task]), AllDone, NEW p \in Plans[task].waste
      PROVE  world[p] = "absent"
    <2>1. PICK i \in Plans[task].jobs : SettledBy(Plans[task], i, p, "gone")
        BY <1>1 DEF Clears
    <2>2. Is(world[p], "gone")
        BY <1>1, <2>1, AllDoneSettled
    <2> QED
        BY <2>2 DEF Is
<1>2. Inv => (Clears(Plans[task]) =>
                  Cleaned /\ (AllDone => \A p \in Plans[task].waste : world[p] = "absent"))
    BY <1>1 DEF Cleaned
<1> QED
    BY <1>2, Invariant, PTL

\* Of the jobs that are not done, one of a node with the least number is ready.
LEMMA SomeJobReady ==
    ASSUME InOrder, NEW plan, plan = Plans[task], Forward(plan), ~AllDone
    PROVE  \E j \in plan.jobs : status[j] # "done" /\ Ready(plan, j)
<1> DEFINE Left == {j \in plan.jobs : status[j] # "done"}
           M == {j[1] : j \in Left}
<1>1. WellPlanned(plan)
    BY PlansWell DEF InOrder
<1>2. M \in SUBSET Nat /\ M # {}
    BY <1>1 DEF WellPlanned, AllDone, InOrder
<1>3. PICK n \in M : \A m \in M : n <= m
    <2> HIDE DEF M
    <2> QED
        BY <1>2, LeastNumber
<1>4. PICK j \in Left : n = j[1]
    BY <1>3
<1>5. ASSUME NEW i \in plan.before[j], status[i] # "done"
      PROVE  FALSE
    <2>1. i \in plan.jobs /\ i[1] < j[1] /\ i[1] \in Nat /\ j[1] \in Nat
        BY <1>1, <1>4 DEF WellPlanned, Forward
    <2>2. i[1] \in M
        BY <1>5, <2>1
    <2> HIDE DEF M
    <2> QED
        BY <1>3, <1>4, <2>1, <2>2
<1> QED
    BY <1>4, <1>5 DEF Ready

\* A task that feeds all its steps, puts every node on some host and has only edges to
\* later nodes gets all its steps done: when nothing more can happen and no Run was
\* cut short, no job is left over, in any round and over any installation.
THEOREM FedTasksDeliver ==
    Spec => [](\A plan \in {Plans[task]} :
                   Feeds(plan) /\ Forward(plan) /\ Hosted(plan) =>
                       Delivers /\ (faults = <<>> /\ Settled(plan) => Delivered(plan)))
<1>1. ASSUME Inv, NEW plan, plan = Plans[task], Feeds(plan), Forward(plan), Hosted(plan),
             faults = <<>>, Settled(plan)
      PROVE  Delivered(plan)
    <2>1. ~starved /\ ~down /\ \A j \in plan.jobs : status[j] # "failed"
        BY <1>1 DEF Inv, Fed, Caused
    <2>2. status \in [plan.jobs -> {"pending", "running", "done", "failed"}]
        BY <1>1 DEF Inv, TypeOK
    <2>3. \A j \in plan.jobs : status[j] # "done" => ~Ready(plan, j)
        BY <1>1, <2>1, <2>2 DEF Settled
    <2>4. AllDone
        BY <1>1, <2>3, SomeJobReady DEF Inv
    <2> QED
        BY <1>1, <2>4 DEF Delivered, Hosted
<1>2. Inv => \A plan \in {Plans[task]} :
                 Feeds(plan) /\ Forward(plan) /\ Hosted(plan) =>
                     Delivers /\ (faults = <<>> /\ Settled(plan) => Delivered(plan))
    BY <1>1 DEF Delivers
<1> QED
    BY <1>2, Invariant, PTL

\* A task with a step that insists on what no step before it makes (Stuck), or with a
\* node that is planned for no host, never gets all its steps done on fresh hosts:
\* not in any order, and not by running it again.
THEOREM StuckTasksNeverDeliver ==
    Spec => [](Stuck(Plans[task]) \/ ~Hosted(Plans[task]) =>
                   NeverDelivers /\ (~old => ~Delivered(Plans[task])))
<1>1. ASSUME Inv, ~old, Stuck(Plans[task])
      PROVE  ~AllDone
    <2>1. PICK plan : plan = Plans[task]
        OBVIOUS
    <2>2. PICK j \in plan.jobs : \E r \in plan.touches[j] : StuckAt(plan, j, r)
        BY <1>1, <2>1 DEF Stuck, StuckAt
    <2>3. status[j] # "done" /\ j \in DOMAIN status
        BY <1>1, <2>1, <2>2 DEF Inv, Doomed, TypeOK
    <2> QED
        BY <2>3 DEF AllDone
<1>2. ASSUME Inv, ~old, Stuck(Plans[task]) \/ ~Hosted(Plans[task])
      PROVE  ~Delivered(Plans[task])
    BY <1>1, <1>2 DEF Delivered, Hosted
<1>3. Inv => (Stuck(Plans[task]) \/ ~Hosted(Plans[task]) =>
                  NeverDelivers /\ (~old => ~Delivered(Plans[task])))
    BY <1>2 DEF NeverDelivers
<1> QED
    BY <1>3, Invariant, PTL

\* A graph that orders every two jobs that clash, be it by a chain of edges, is free
\* of races, for any steps and hosts: the engine runs two nodes at a time only when
\* neither waits for the other, whatever failed or crashed in this round or before.
THEOREM OrderedClashesDoNotRace ==
    ASSUME \A t \in DOMAIN Plans : Keeps(Plans[t], "RaceFree") => ClashesOrdered(Plans[t])
    PROVE  Spec => []RaceFree
<1>1. Inv => RaceFree
    <2> SUFFICES ASSUME InOrder, NEW plan, plan = Plans[task], Keeps(plan, "RaceFree"),
                        NEW i \in plan.jobs, NEW j \in plan.jobs,
                        i # j, status[i] = "running", status[j] = "running",
                        Clash(plan, i, j) # {}
                 PROVE  FALSE
        BY DEF RaceFree, Inv
    <2>1. i \in Ancestors(plan, j) \/ j \in Ancestors(plan, i)
        BY DEF InOrder, ClashesOrdered
    <2>2. Ready(plan, i) /\ Ready(plan, j)
        BY DEF InOrder
    <2> QED
        BY <2>1, <2>2, AncestorsDone
<1> QED
    BY <1>1, Invariant, PTL

=============================================================================
