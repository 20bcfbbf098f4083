--------------------------- MODULE RequestLimiter ---------------------------
(***************************************************************************)
(* The limit on requests per minute: for every client and first path       *)
(* segment a queue of the times of its admitted requests, pruned only when *)
(* the next request of that pair arrives.  The decision runs under a lock  *)
(* and awaits nothing, so it is one step; time passes between requests.    *)
(***************************************************************************)
EXTENDS Naturals, Sequences, FiniteSets

CONSTANTS
  Callers,      \* pairs of a client and a protected path segment
  Limit,        \* rate_limit_per_minute
  Window,       \* the 60 seconds, in units of the clock
  MaxTime       \* bound: the last time the model reaches

ASSUME LimiterAssumption == Limit \in Nat /\ Window \in Nat /\ MaxTime \in Nat

VARIABLES
  clock,        \* time.monotonic()
  bucket,       \* per caller: the times kept, oldest first
  admitted,     \* history, per caller: the times of all admitted requests
  refused       \* history, per caller: the times of refused requests

limiterVars == <<clock, bucket, admitted, refused>>

LimiterInit ==
  /\ clock = 0
  /\ bucket = [c \in Callers |-> <<>>]
  /\ admitted = [c \in Callers |-> <<>>]
  /\ refused = [c \in Callers |-> {}]

\* Mutant: a request of just a minute ago is forgotten too late.
KeepsAMinute(b) ==
  LET old == {i \in DOMAIN b : \A j \in 1..i : b[j] + Window < clock}
  IN  SubSeq(b, Cardinality(old) + 1, Len(b))

\* The queue without the times a minute old or older at its head.
Recent(b) ==
  LET old == {i \in DOMAIN b : \A j \in 1..i : b[j] + Window <= clock}
  IN  SubSeq(b, Cardinality(old) + 1, Len(b))

Admit(c) ==
  /\ Len(Recent(bucket[c])) < Limit
  /\ bucket' = [bucket EXCEPT ![c] = Append(Recent(@), clock)]
  /\ admitted' = [admitted EXCEPT ![c] = Append(@, clock)]
  /\ UNCHANGED <<clock, refused>>

\* A refused request is not counted against the caller.
Refuse(c) ==
  /\ Len(Recent(bucket[c])) >= Limit
  /\ bucket' = [bucket EXCEPT ![c] = Recent(@)]
  /\ refused' = [refused EXCEPT ![c] = @ \cup {clock}]
  /\ UNCHANGED <<clock, admitted>>

Tick ==
  /\ clock < MaxTime
  /\ clock' = clock + 1
  /\ UNCHANGED <<bucket, admitted, refused>>

LimiterNext == Tick \/ \E c \in Callers : Admit(c) \/ Refuse(c)

LimiterSpec == LimiterInit /\ [][LimiterNext]_limiterVars

LimiterTypeOK ==
  /\ clock \in 0..MaxTime
  /\ bucket \in [Callers -> Seq(0..MaxTime)]
  /\ admitted \in [Callers -> Seq(0..MaxTime)]
  /\ refused \in [Callers -> SUBSET (0..MaxTime)]

\* Requests of c admitted in the minute that ends at t.
AdmittedBy(c, t) ==
  Cardinality({i \in DOMAIN admitted[c] :
                 admitted[c][i] <= t /\ t < admitted[c][i] + Window})

\* Whatever the bursts and the pauses, no minute holds more admitted requests
\* of a caller than the limit, although the queue is pruned only on demand;
\* and who is refused did have the whole limit in the minute before
\* (http_middleware.py:46-57).
LimitIsExact ==
  \A c \in Callers :
    /\ \A t \in 0..clock : AdmittedBy(c, t) <= Limit
    /\ \A t \in refused[c] : AdmittedBy(c, t) = Limit

\* The queue of c holds all admitted times but the first k, a minute old.
Kept(c, k) ==
  /\ Len(bucket[c]) = Len(admitted[c]) - k
  /\ \A i \in 1..Len(bucket[c]) : bucket[c][i] = admitted[c][k + i]
  /\ \A i \in 1..k : admitted[c][i] + Window <= clock

\* At t the n-th was the last admitted, and the last Limit were in the minute.
FullAt(c, t, n) ==
  \A i \in DOMAIN admitted[c] :
    /\ i <= n <=> admitted[c][i] <= t
    /\ i \in n - Limit + 1 .. n => t < admitted[c][i] + Window

LimiterInv ==
  /\ LimiterTypeOK
  /\ \A c \in Callers :
       /\ Len(bucket[c]) <= Limit
       /\ \E k \in 0..Len(admitted[c]) : Kept(c, k)
       /\ \A i \in DOMAIN admitted[c] : admitted[c][i] <= clock
       /\ \A i, j \in DOMAIN admitted[c] : i <= j => admitted[c][i] <= admitted[c][j]
       /\ \A i, j \in DOMAIN admitted[c] :
            i + Limit <= j => admitted[c][i] + Window <= admitted[c][j]
       /\ \A t \in refused[c] :
            t <= clock /\ \E n \in Limit..Len(admitted[c]) : FullAt(c, t, n)

=============================================================================
