--------------------------- MODULE ConnectionPool ---------------------------
(***************************************************************************)
(* The SSH connection pool (internal/connector/pool.go) and the connectors *)
(* that use it (SSHConnector.Connect and Close, internal/connector/ssh.go) *)
(* from the goroutines that initialise hosts and check connectivity.       *)
(*                                                                         *)
(* One pool key: pools of different keys share nothing. Whether a          *)
(* connection is stale or unhealthy when it is looked at is a choice. A    *)
(* region under the pool's lock is one step; dialling is outside it.       *)
(***************************************************************************)
EXTENDS Integers, Sequences, FiniteSets

CONSTANTS
    Connector,      \* connectors sharing the key
    Conn,           \* pooled connections that can be dialled
    NoConn,         \* none of them
    MaxPerKey,      \* config.MaxPerKey
    MaxIdlePerKey   \* config.MaxIdlePerKey

ASSUME PoolAssumption ==
    /\ NoConn \notin Conn
    /\ MaxPerKey \in Nat \ {0}
    /\ MaxIdlePerKey \in Nat \ {0}
    /\ IsFiniteSet(Connector)

VARIABLES
    idle,       \* hcp.idle, oldest first
    numActive,  \* hcp.numActive
    conn,       \* per connection: "unused", "open" or "closed"
    pc,         \* per connector: what its connection is
    held,       \* the managed connection of a connector, NoConn for none
    stopped     \* Shutdown was called

vars == <<idle, numActive, conn, pc, held, stopped>>

Idle == {idle[k] : k \in DOMAIN idle}

Init ==
    /\ idle = <<>>
    /\ numActive = 0
    /\ conn = [x \in Conn |-> "unused"]
    /\ pc = [c \in Connector |-> "closed"]
    /\ held = [c \in Connector |-> NoConn]
    /\ stopped = FALSE

\* Mutant: connections are dropped and not closed.
ClosedNot(S) == conn
\* The connections of S are closed.
Closed(S) == [x \in Conn |-> IF x \in S THEN "closed" ELSE conn[x]]

\* The first k connections of the idle list.
Front(k) == {idle[j] : j \in 1..k}

-----------------------------------------------------------------------------
(* Connect *)

\* Mutant: the connection returned stays in the list.
IdleAfterKept(k) == SubSeq(idle, k, Len(idle))
IdleAfter(k) == SubSeq(idle, k + 1, Len(idle))

\* Get drops the first k connections as stale or unhealthy and returns the
\* next.
GetIdle(c, k) ==
    /\ ~stopped
    /\ pc[c] = "closed"
    /\ k + 1 \in DOMAIN idle
    /\ idle' = IdleAfter(k + 1)
    /\ numActive' = numActive - k
    /\ conn' = Closed(Front(k))
    /\ held' = [held EXCEPT ![c] = idle[k + 1]]
    /\ pc' = [pc EXCEPT ![c] = "pooled"]
    /\ UNCHANGED stopped

\* Mutant: one connection more than the limit.
ExhaustedLate(n) == n > MaxPerKey
Exhausted(n) == n >= MaxPerKey

\* Get drops all idle connections, then reserves a place and dials, or
\* returns ErrPoolExhausted and Connect dials for itself.
GetNew(c) ==
    /\ ~stopped
    /\ pc[c] = "closed"
    /\ LET n == numActive - Len(idle)
       IN  IF Exhausted(n)
           THEN numActive' = n /\ pc' = [pc EXCEPT ![c] = "direct"]
           ELSE numActive' = n + 1 /\ pc' = [pc EXCEPT ![c] = "dialing"]
    /\ idle' = <<>>
    /\ conn' = Closed(Idle)
    /\ UNCHANGED <<held, stopped>>

DialOk(c, x) ==
    /\ pc[c] = "dialing"
    /\ conn[x] = "unused"
    /\ conn' = [conn EXCEPT ![x] = "open"]
    /\ held' = [held EXCEPT ![c] = x]
    /\ pc' = [pc EXCEPT ![c] = "pooled"]
    /\ UNCHANGED <<idle, numActive, stopped>>

\* Mutants: the place is not given back; it is given back twice.
AfterDialFailureKept  == numActive
AfterDialFailureTwice == numActive - 2
AfterDialFailure == numActive - 1

\* The place is given back and Connect dials for itself.
DialFails(c) ==
    /\ pc[c] = "dialing"
    /\ numActive' = AfterDialFailure
    /\ pc' = [pc EXCEPT ![c] = "direct"]
    /\ UNCHANGED <<idle, conn, held, stopped>>

\* The connector's own dial; the pool knows nothing of it.
DirectDial(c, ok) ==
    /\ pc[c] = "direct"
    /\ pc' = [pc EXCEPT ![c] = IF ok THEN "own" ELSE "closed"]
    /\ UNCHANGED <<idle, numActive, conn, held, stopped>>

-----------------------------------------------------------------------------
(* Close *)

\* The counter never goes below zero.
Less(n) == IF numActive < n THEN 0 ELSE numActive - n

Keeps(healthy) == healthy /\ Len(idle) < MaxIdlePerKey

\* Put of a managed connection, healthy or not.
Put(c, healthy) ==
    /\ ~stopped
    /\ pc[c] = "pooled"
    /\ IF Keeps(healthy)
       THEN /\ idle' = Append(idle, held[c])
            /\ UNCHANGED <<numActive, conn>>
       ELSE /\ numActive' = Less(1)
            /\ conn' = Closed({held[c]})
            /\ UNCHANGED idle
    /\ held' = [held EXCEPT ![c] = NoConn]
    /\ pc' = [pc EXCEPT ![c] = "closed"]
    /\ UNCHANGED stopped

CloseOwn(c) ==
    /\ pc[c] = "own"
    /\ pc' = [pc EXCEPT ![c] = "closed"]
    /\ UNCHANGED <<idle, numActive, conn, held, stopped>>

-----------------------------------------------------------------------------
(* The pool itself *)

\* freshIdle: what is not in S, in the order it had.
FreshIdle(S) ==
    LET fresh  == {k \in DOMAIN idle : idle[k] \notin S}
        Nth(n) == CHOOSE k \in fresh : Cardinality({j \in fresh : j <= k}) = n
    IN  [n \in 1..Cardinality(fresh) |-> idle[Nth(n)]]

\* One visit of the scrubber: the connections of S are stale.
Scrub(S) ==
    /\ ~stopped
    /\ S # {} /\ S \subseteq Idle
    /\ idle' = FreshIdle(S)
    /\ numActive' = Less(Cardinality(S))
    /\ conn' = Closed(S)
    /\ UNCHANGED <<pc, held, stopped>>

\* cleanupFunc: no call is under way, the goroutines have been waited for.
Shutdown ==
    /\ ~stopped
    /\ \A c \in Connector : pc[c] \notin {"dialing", "direct"}
    /\ idle' = <<>>
    /\ numActive' = 0
    /\ conn' = Closed(Idle)
    /\ stopped' = TRUE
    /\ UNCHANGED <<pc, held>>

Connect(c) ==
    \/ \E k \in 0..(Len(idle) - 1) : GetIdle(c, k)
    \/ GetNew(c)
    \/ \E x \in Conn : DialOk(c, x)
    \/ DialFails(c)
    \/ \E ok \in BOOLEAN : DirectDial(c, ok)

Close(c) == CloseOwn(c) \/ \E healthy \in BOOLEAN : Put(c, healthy)

Next ==
    \/ \E c \in Connector : Connect(c) \/ Close(c)
    \/ \E S \in SUBSET Idle : Scrub(S)
    \/ Shutdown

Spec == Init /\ [][Next]_vars

-----------------------------------------------------------------------------
(* Properties *)

\* Type invariant of the pool and its connectors.
TypeOK ==
    /\ idle \in Seq(Conn)
    /\ numActive \in Nat
    /\ conn \in [Conn -> {"unused", "open", "closed"}]
    /\ pc \in [Connector -> {"closed", "dialing", "direct", "own", "pooled"}]
    /\ held \in [Connector -> Conn \cup {NoConn}]
    /\ stopped \in BOOLEAN

Dialing == {c \in Connector : pc[c] = "dialing"}
Pooled  == {c \in Connector : pc[c] = "pooled"}

\* numActive is the number of connections that are idle, held or being dialled:
\* no sequence of failures, evictions and returns makes the pool lose a place
\* or gain one.
Accounting ==
    ~stopped => numActive = Len(idle) + Cardinality(Dialing) + Cardinality(Pooled)

\* No connection is used by two connectors, or by one while the pool could
\* hand it to another or close it, or after it was closed.
Exclusive ==
    /\ \A c, d \in Pooled : c # d => held[c] # held[d]
    /\ \A c \in Pooled : held[c] \notin Idle /\ conn[held[c]] = "open"
    /\ Cardinality(Idle) = Len(idle)
    /\ \A x \in Idle : conn[x] = "open"

\* The pool never has more connections open than MaxPerKey, nor keeps more
\* than MaxIdlePerKey.
WithinLimits ==
    /\ Len(idle) <= MaxIdlePerKey
    /\ ~stopped => Cardinality({x \in Conn : conn[x] = "open"}) <= MaxPerKey

\* An open connection is idle or held by some connector: none is dropped
\* without being closed.
NoneLost ==
    \A x \in Conn : conn[x] = "open" => x \in Idle \/ \E c \in Pooled : held[c] = x
=============================================================================
