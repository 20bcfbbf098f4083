---------------------------- MODULE AccessProofs ----------------------------
(***************************************************************************)
(* What is let in: requests under the limit for any number of callers, any *)
(* limit and window; readers of any places, grants, assets and computers;  *)
(* and imported files of any number of rows.                               *)
(***************************************************************************)
EXTENDS RequestLimiter, LocationScope, AssetImport, FiniteSetTheorems,
        SequenceTheorems, WellFoundedInduction, TLAPS

-----------------------------------------------------------------------------
(* The limit on requests. *)

LEMMA LeastOf ==
  ASSUME NEW S \in SUBSET Nat, S # {}
  PROVE  \E m \in S : \A k \in S : m <= k
<1>1. PICK m \in S : \A k \in S : <<k, m>> \notin OpToRel(<, Nat)
  BY NatLessThanWellFounded, WFMin, Zenon
<1>2. \A k \in S : ~ (k < m)
  BY <1>1 DEF OpToRel
<1> QED BY <1>2

\* Pruning drops the longest head of times that are a minute old.
LEMMA Pruning ==
  ASSUME NEW b \in Seq(Nat), clock \in Nat
  PROVE  \E k \in 0..Len(b) :
           /\ Recent(b) = SubSeq(b, k + 1, Len(b))
           /\ \A i \in 1..k : b[i] + Window <= clock
           /\ k < Len(b) => clock < b[k + 1] + Window
<1> USE LimiterAssumption
<1> DEFINE Stays == {i \in 1 .. Len(b) + 1 : i = Len(b) + 1 \/ clock < b[i] + Window}
           old == {i \in DOMAIN b : \A j \in 1..i : b[j] + Window <= clock}
<1>1. PICK m \in Stays : \A i \in Stays : m <= i
  <2>1. Stays \in SUBSET Nat /\ Len(b) + 1 \in Stays
    OBVIOUS
  <2> QED BY <2>1, LeastOf
<1>2. m - 1 \in 0..Len(b) /\ \A i \in 1 .. m - 1 : b[i] + Window <= clock
  <2>1. ASSUME NEW i \in 1 .. m - 1 PROVE b[i] + Window <= clock
    <3>1. i \notin Stays /\ i \in 1..Len(b) /\ b[i] \in Nat
      BY <1>1
    <3> QED BY <3>1
  <2> QED BY <1>1, <2>1
<1>3. m - 1 < Len(b) => clock < b[m] + Window
  BY <1>1
<1>4. old = 1 .. m - 1
  <2>1. ASSUME NEW i \in old PROVE i \in 1 .. m - 1
    <3>1. CASE i < m
      BY <3>1, <1>1
    <3>2. CASE i >= m
      <4>1. m \in 1..i /\ m < Len(b) + 1 /\ b[m] \in Nat
        BY <3>2, <1>1
      <4> QED BY <4>1, <1>1
    <3> QED BY <3>1, <3>2, <1>1
  <2>2. ASSUME NEW i \in 1 .. m - 1 PROVE i \in old
    BY <1>2
  <2> QED BY <2>1, <2>2
<1>5. m \in Nat /\ m >= 1 /\ Len(b) \in Nat
  BY <1>1
<1>6. Cardinality(1 .. m - 1) = m - 1
  <2>1. m - 1 \in Int /\ 1 \in Int
    BY <1>5
  <2>2. Cardinality(1 .. m - 1) = IF 1 > m - 1 THEN 0 ELSE (m - 1) - 1 + 1
    BY <2>1, FS_Interval, Zenon
  <2> QED BY <1>5, <2>2
<1>7. Recent(b) = SubSeq(b, (m - 1) + 1, Len(b))
  BY <1>4, <1>6 DEF Recent
<1>8. (m - 1) + 1 = m
  BY <1>5
<1> QED BY <1>2, <1>3, <1>7, <1>8

\* The same of a caller's queue: what is left of all the times admitted.
LEMMA QueueLeft ==
  ASSUME LimiterInv, NEW c \in Callers
  PROVE  \E k \in 0..Len(admitted[c]) :
           /\ Recent(bucket[c]) \in Seq(0..MaxTime)
           /\ Len(Recent(bucket[c])) = Len(admitted[c]) - k
           /\ Len(Recent(bucket[c])) <= Limit
           /\ \A i \in 1..Len(Recent(bucket[c])) :
                Recent(bucket[c])[i] = admitted[c][k + i]
           /\ \A i \in 1..k : admitted[c][i] + Window <= clock
           /\ k < Len(admitted[c]) => clock < admitted[c][k + 1] + Window
<1> USE LimiterAssumption
<1> DEFINE a == admitted[c]
           b == bucket[c]
           r == Recent(b)
<1>1. /\ clock \in Nat /\ a \in Seq(0..MaxTime) /\ b \in Seq(0..MaxTime) /\ b \in Seq(Nat)
      /\ Len(b) <= Limit
  BY DEF LimiterInv, LimiterTypeOK
<1>2. PICK k \in 0..Len(a) : Kept(c, k)
  BY DEF LimiterInv
<1>3. PICK h \in 0..Len(b) : /\ r = SubSeq(b, h + 1, Len(b))
                             /\ \A i \in 1..h : b[i] + Window <= clock
                             /\ h < Len(b) => clock < b[h + 1] + Window
  BY <1>1, Pruning
<1>4. /\ Len(b) = Len(a) - k /\ \A i \in 1..Len(b) : b[i] = a[k + i]
      /\ \A i \in 1..k : a[i] + Window <= clock
  BY <1>2 DEF Kept
<1>5. /\ r \in Seq(0..MaxTime) /\ Len(r) = Len(b) - h
      /\ \A i \in 1..Len(r) : r[i] = b[h + i]
  <2>1. \A i \in h + 1 .. Len(b) : b[i] \in 0..MaxTime
    <3>1. Len(b) \in Nat /\ h + 1 \in 1 .. Len(b) + 1
      BY <1>1
    <3>2. \A i \in 1..Len(b) : b[i] \in 0..MaxTime
      <4> HIDE DEF b
      <4> QED BY <1>1
    <3> QED BY <3>1, <3>2
  <2>2. h + 1 \in Int /\ Len(b) \in Int /\ Len(b) - (h + 1) + 1 = Len(b) - h
    BY <1>1
  <2> QED BY <1>1, <1>3, <2>1, <2>2, SubSeqProperties
<1>6. k + h \in 0..Len(a) /\ Len(r) = Len(a) - (k + h)
  BY <1>1, <1>2, <1>3, <1>4, <1>5
<1>7. \A i \in 1..Len(r) : r[i] = a[(k + h) + i]
  <2> SUFFICES ASSUME NEW i \in 1..Len(r) PROVE r[i] = a[(k + h) + i]
    OBVIOUS
  <2>1. h + i \in 1..Len(b) /\ k + (h + i) = (k + h) + i
    BY <1>1, <1>2, <1>3, <1>5
  <2> QED BY <2>1, <1>4, <1>5
<1>8. \A i \in 1 .. k + h : a[i] + Window <= clock
  <2> SUFFICES ASSUME NEW i \in 1 .. k + h PROVE a[i] + Window <= clock
    OBVIOUS
  <2>1. CASE i <= k
    BY <2>1, <1>2, <1>4
  <2>2. CASE i > k
    <3>1. i - k \in 1..h /\ i - k \in 1..Len(b) /\ k + (i - k) = i
      BY <2>2, <1>1
    <3> QED BY <3>1, <1>3, <1>4
  <2> QED BY <2>1, <2>2, <1>2, <1>3
<1>9. k + h < Len(a) => clock < a[(k + h) + 1] + Window
  <2> SUFFICES ASSUME k + h < Len(a) PROVE clock < a[(k + h) + 1] + Window
    OBVIOUS
  <2>1. h < Len(b) /\ h + 1 \in 1..Len(b) /\ k + (h + 1) = (k + h) + 1
    <3>1. Len(b) = Len(a) - k
      BY <1>4
    <3>2. k \in Nat /\ h \in Nat /\ Len(a) \in Nat
      BY <1>1
    <3> QED BY <3>1, <3>2
  <2>2. b[h + 1] = a[k + (h + 1)]
    BY <2>1, <1>4
  <2>3. clock < b[h + 1] + Window
    BY <2>1, <1>3
  <2> QED BY <2>1, <2>2, <2>3
<1> HIDE DEF a, b, r
<1>10. Len(r) <= Limit
  BY <1>1, <1>3, <1>5
<1> QED BY <1>5, <1>6, <1>7, <1>8, <1>9, <1>10 DEF a, b, r

LEMMA Admits == ASSUME LimiterInv, NEW d \in Callers, Admit(d) PROVE LimiterInv'
<1> USE LimiterAssumption
<1> DEFINE a == admitted[d]
           r == Recent(bucket[d])
<1>1. PICK k \in 0..Len(a) :
        /\ r \in Seq(0..MaxTime) /\ Len(r) = Len(a) - k
        /\ \A i \in 1..Len(r) : r[i] = a[k + i]
        /\ \A i \in 1..k : a[i] + Window <= clock
        /\ k < Len(a) => clock < a[k + 1] + Window
  BY QueueLeft
<1>2. /\ clock \in 0..MaxTime /\ a \in Seq(0..MaxTime)
      /\ Len(r) < Limit /\ UNCHANGED <<clock, refused>>
      /\ bucket' = [bucket EXCEPT ![d] = Append(r, clock)]
      /\ admitted' = [admitted EXCEPT ![d] = Append(a, clock)]
  BY DEF LimiterInv, LimiterTypeOK, Admit
<1>3. LimiterTypeOK'
  BY <1>1, <1>2 DEF LimiterInv, LimiterTypeOK
<1>4. /\ bucket'[d] = Append(r, clock) /\ admitted'[d] = Append(a, clock)
      /\ \A c \in Callers \ {d} : bucket'[c] = bucket[c] /\ admitted'[c] = admitted[c]
  BY <1>2 DEF LimiterInv, LimiterTypeOK
<1>5. /\ Len(admitted'[d]) = Len(a) + 1 /\ Len(bucket'[d]) = Len(r) + 1
      /\ \A i \in 1..Len(a) : admitted'[d][i] = a[i]
      /\ admitted'[d][Len(a) + 1] = clock
      /\ DOMAIN admitted'[d] = 1 .. Len(a) + 1 /\ DOMAIN a = 1..Len(a)
      /\ Len(a) \in Nat /\ Len(r) \in Nat
      /\ \A i \in 1..Len(r) : bucket'[d][i] = r[i]
      /\ bucket'[d][Len(r) + 1] = clock
      /\ \A i \in 1..Len(a) : a[i] \in 0..MaxTime
  <2>1. /\ Len(a) \in Nat /\ DOMAIN a = 1..Len(a)
        /\ \A i \in 1..Len(a) : a[i] \in 0..MaxTime
    BY <1>2
  <2>2. /\ Len(Append(a, clock)) = Len(a) + 1
        /\ DOMAIN Append(a, clock) = 1 .. Len(a) + 1
        /\ Append(a, clock)[Len(a) + 1] = clock
        /\ \A i \in 1..Len(a) : Append(a, clock)[i] = a[i]
    <3> HIDE DEF a
    <3> QED BY <1>2, AppendProperties
  <2>3. /\ Len(r) \in Nat /\ Len(Append(r, clock)) = Len(r) + 1
        /\ Append(r, clock)[Len(r) + 1] = clock
        /\ \A i \in 1..Len(r) : Append(r, clock)[i] = r[i]
    <3>1. r \in Seq(0..MaxTime) /\ clock \in 0..MaxTime
      BY <1>1, <1>2
    <3> HIDE DEF a, r
    <3> QED BY <3>1, AppendProperties
  <2> HIDE DEF a, r
  <2> QED BY <2>1, <2>2, <2>3, <1>4
<1>6. /\ \A i \in 1..Len(a) : a[i] <= clock
      /\ \A i, j \in 1..Len(a) : i <= j => a[i] <= a[j]
      /\ \A i, j \in 1..Len(a) : i + Limit <= j => a[i] + Window <= a[j]
      /\ \A t \in refused[d] : t <= clock /\ \E n \in Limit..Len(a) : FullAt(d, t, n)
  BY <1>5 DEF LimiterInv
<1> HIDE DEF a, r
<1>b. k \in Nat /\ k <= Len(a) /\ Len(a) \in Nat /\ Len(r) \in Nat /\ Len(r) = Len(a) - k
  BY <1>1, <1>5
<1>7. Kept(d, k)'
  <2>1. Len(bucket'[d]) = Len(admitted'[d]) - k
    BY <1>1, <1>5
  <2>2. ASSUME NEW i \in 1 .. Len(r) + 1 PROVE bucket'[d][i] = admitted'[d][k + i]
    <3>1. CASE i \in 1..Len(r)
      <4>1. k + i \in 1..Len(a)
        BY <3>1, <1>b
      <4> QED BY <3>1, <4>1, <1>1, <1>5
    <3>2. CASE i = Len(r) + 1
      <4>1. k + i = Len(a) + 1
        BY <3>2, <1>1, <1>5
      <4> QED BY <3>2, <4>1, <1>5
    <3> QED BY <3>1, <3>2, <1>5
  <2>3. ASSUME NEW i \in 1..k PROVE admitted'[d][i] + Window <= clock'
    <3>1. i \in 1..Len(a)
      BY <1>1, <1>5
    <3> QED BY <3>1, <1>1, <1>2, <1>5
  <2> QED BY <2>1, <2>2, <2>3, <1>5 DEF Kept
<1>8. \A i, j \in 1 .. Len(a) + 1 : i <= j => admitted'[d][i] <= admitted'[d][j]
  <2> SUFFICES ASSUME NEW i \in 1 .. Len(a) + 1, NEW j \in 1 .. Len(a) + 1, i <= j
               PROVE  admitted'[d][i] <= admitted'[d][j]
    OBVIOUS
  <2>1. CASE j \in 1..Len(a)
    <3>1. i \in 1..Len(a)
      BY <2>1, <1>b
    <3> QED BY <2>1, <3>1, <1>5, <1>6
  <2>2. CASE j = Len(a) + 1
    <3>1. CASE i \in 1..Len(a)
      BY <2>2, <3>1, <1>5, <1>6
    <3>2. CASE i = Len(a) + 1
      BY <2>2, <3>2, <1>2, <1>5
    <3> QED BY <3>1, <3>2, <1>b
  <2> QED BY <2>1, <2>2, <1>b
<1>9. \A i, j \in 1 .. Len(a) + 1 :
        i + Limit <= j => admitted'[d][i] + Window <= admitted'[d][j]
  <2> SUFFICES ASSUME NEW i \in 1 .. Len(a) + 1, NEW j \in 1 .. Len(a) + 1, i + Limit <= j
               PROVE  admitted'[d][i] + Window <= admitted'[d][j]
    OBVIOUS
  <2>1. Limit > 0 /\ i \in 1..Len(a)
    BY <1>2, <1>5
  <2>2. CASE j \in 1..Len(a)
    BY <2>1, <2>2, <1>5, <1>6
  <2>3. CASE j = Len(a) + 1
    <3>1. i \in 1..k
      BY <2>1, <2>3, <1>1, <1>2, <1>5
    <3> QED BY <3>1, <2>1, <2>3, <1>1, <1>5
  <2> QED BY <2>2, <2>3, <1>5
<1>10. ASSUME NEW t \in refused[d]
       PROVE  t <= clock /\ \E n \in Limit .. Len(a) + 1 : FullAt(d, t, n)'
  <2>1. PICK n \in Limit..Len(a) : FullAt(d, t, n)
    BY <1>6
  <2>2. t \in 0..MaxTime /\ t <= clock
    BY <1>6 DEF LimiterInv, LimiterTypeOK
  <2>3. \A i \in 1..Len(a) : /\ i <= n <=> a[i] <= t
                             /\ i \in n - Limit + 1 .. n => t < a[i] + Window
    BY <2>1, <1>5 DEF FullAt, a
  <2>4. t # clock
    <3> SUFFICES ASSUME t = clock PROVE FALSE
      OBVIOUS
    <3>1. Limit > 0 /\ k > n - Limit
      BY <1>1, <1>2, <1>5
    <3>2. n - Limit + 1 \in 1..k /\ n - Limit + 1 \in n - Limit + 1 .. n
      BY <3>1, <1>1, <1>2, <1>5
    <3>3. PICK i \in 1..Len(a) : i = n - Limit + 1
      BY <3>2, <1>1, <1>5
    <3>4. clock < a[i] + Window
      <4>1. i \in n - Limit + 1 .. n
        BY <3>2, <3>3
      <4> QED BY <4>1, <2>3
    <3>5. a[i] + Window <= clock
      BY <3>2, <3>3, <1>1
    <3>6. clock \in Nat /\ a[i] + Window \in Nat
      <4>1. clock \in Nat
        BY <1>2
      <4>2. a[i] \in 0..MaxTime
        BY <1>5
      <4> QED BY <4>1, <4>2
    <3> QED BY <3>4, <3>5, <3>6
  <2>5. \A i \in 1 .. Len(a) + 1 : /\ i <= n <=> admitted'[d][i] <= t
                                   /\ i \in n - Limit + 1 .. n => t < admitted'[d][i] + Window
    <3> SUFFICES ASSUME NEW i \in 1 .. Len(a) + 1
                 PROVE  /\ i <= n <=> admitted'[d][i] <= t
                        /\ i \in n - Limit + 1 .. n => t < admitted'[d][i] + Window
      OBVIOUS
    <3>1. CASE i \in 1..Len(a)
      <4>1. admitted'[d][i] = a[i]
        BY <3>1, <1>5
      <4>2. /\ i <= n <=> a[i] <= t
            /\ i \in n - Limit + 1 .. n => t < a[i] + Window
        BY <3>1, <2>3
      <4> QED BY <4>1, <4>2
    <3>2. CASE i = Len(a) + 1
      <4>1. admitted'[d][i] = clock /\ i > n
        BY <3>2, <1>5
      <4>2. ~ (clock <= t)
        BY <2>2, <2>4, <1>2
      <4> QED BY <4>1, <4>2
    <3> QED BY <3>1, <3>2, <1>5
  <2>6. FullAt(d, t, n)'
    <3>1. DOMAIN admitted'[d] = 1 .. Len(a) + 1
      BY <1>5
    <3> QED BY <2>5, <3>1 DEF FullAt
  <2> QED BY <2>2, <2>6, <1>5
<1>11. ASSUME NEW c \in Callers \ {d}
       PROVE  /\ \A h : Kept(c, h) <=> Kept(c, h)'
              /\ \A t, n : FullAt(c, t, n) <=> FullAt(c, t, n)'
  BY <1>2, <1>4 DEF Kept, FullAt
<1>12. ASSUME NEW c \in Callers
       PROVE  /\ Len(bucket'[c]) <= Limit
              /\ \E h \in 0..Len(admitted'[c]) : Kept(c, h)'
              /\ \A i \in DOMAIN admitted'[c] : admitted'[c][i] <= clock'
              /\ \A i, j \in DOMAIN admitted'[c] :
                   i <= j => admitted'[c][i] <= admitted'[c][j]
              /\ \A i, j \in DOMAIN admitted'[c] :
                   i + Limit <= j => admitted'[c][i] + Window <= admitted'[c][j]
              /\ \A t \in refused'[c] :
                   t <= clock' /\ \E n \in Limit..Len(admitted'[c]) : FullAt(c, t, n)'
  <2>1. CASE c = d
    <3>1. k \in 0..Len(admitted'[d]) /\ Len(bucket'[d]) <= Limit
      <4>1. Len(admitted'[d]) = Len(a) + 1 /\ Len(bucket'[d]) = Len(r) + 1
        BY <1>5
      <4>2. Len(r) < Limit
        BY <1>2
      <4> QED BY <4>1, <4>2, <1>b
    <3>2. \A i \in 1 .. Len(a) + 1 : admitted'[d][i] <= clock
      <4> SUFFICES ASSUME NEW i \in 1 .. Len(a) + 1 PROVE admitted'[d][i] <= clock
        OBVIOUS
      <4>1. CASE i \in 1..Len(a)
        BY <4>1, <1>5, <1>6
      <4>2. CASE i = Len(a) + 1
        BY <4>2, <1>2, <1>5
      <4> QED BY <4>1, <4>2, <1>b
    <3> QED BY <2>1, <3>1, <3>2, <1>2, <1>5, <1>7, <1>8, <1>9, <1>10
  <2>2. CASE c # d
    <3>1. bucket'[c] = bucket[c] /\ admitted'[c] = admitted[c]
      BY <2>2, <1>4
    <3>2. refused'[c] = refused[c] /\ clock' = clock
      BY <1>2
    <3>3. /\ \A h : Kept(c, h) <=> Kept(c, h)'
          /\ \A t, n : FullAt(c, t, n) <=> FullAt(c, t, n)'
      BY <2>2, <1>11
    <3> QED BY <3>1, <3>2, <3>3, Zenon DEF LimiterInv
  <2> QED BY <2>1, <2>2
<1> QED BY <1>3, <1>12 DEF LimiterInv

LEMMA LimiterStart == LimiterInit => LimiterInv
<1> SUFFICES ASSUME LimiterInit PROVE LimiterInv
  OBVIOUS
<1>1. \A c \in Callers : Kept(c, 0)
  BY LimiterAssumption DEF LimiterInit, Kept
<1> QED BY <1>1, LimiterAssumption DEF LimiterInit, LimiterInv, LimiterTypeOK

LEMMA Refuses == ASSUME LimiterInv, NEW d \in Callers, Refuse(d) PROVE LimiterInv'
<1> USE LimiterAssumption
<1> DEFINE a == admitted[d]
           r == Recent(bucket[d])
<1>1. PICK k \in 0..Len(a) :
        /\ r \in Seq(0..MaxTime) /\ Len(r) = Len(a) - k /\ Len(r) <= Limit
        /\ \A i \in 1..Len(r) : r[i] = a[k + i]
        /\ \A i \in 1..k : a[i] + Window <= clock
        /\ k < Len(a) => clock < a[k + 1] + Window
  BY QueueLeft
<1>2. /\ clock \in 0..MaxTime /\ a \in Seq(0..MaxTime)
      /\ Len(r) >= Limit /\ UNCHANGED <<clock, admitted>>
      /\ bucket' = [bucket EXCEPT ![d] = r]
      /\ refused' = [refused EXCEPT ![d] = @ \cup {clock}]
  BY DEF LimiterInv, LimiterTypeOK, Refuse
<1>3. LimiterTypeOK'
  BY <1>1, <1>2 DEF LimiterInv, LimiterTypeOK
<1>4. /\ bucket'[d] = r /\ refused'[d] = refused[d] \cup {clock}
      /\ \A c \in Callers \ {d} : bucket'[c] = bucket[c] /\ refused'[c] = refused[c]
  BY <1>2 DEF LimiterInv, LimiterTypeOK
<1>5. /\ Len(a) \in Nat /\ Len(r) \in Nat /\ DOMAIN a = 1..Len(a)
      /\ \A i \in 1..Len(a) : a[i] \in 0..MaxTime
  <2>1. Len(r) \in Nat
    <3>1. r \in Seq(0..MaxTime)
      BY <1>1
    <3> HIDE DEF r
    <3> QED BY <3>1
  <2> HIDE DEF r
  <2> QED BY <2>1, <1>2
<1>6. /\ \A i \in 1..Len(a) : a[i] <= clock
      /\ \A i, j \in 1..Len(a) : i <= j => a[i] <= a[j]
  BY <1>5 DEF LimiterInv
<1> HIDE DEF a, r
<1>7. k \in Nat /\ k <= Len(a) /\ Len(r) = Limit /\ Limit = Len(a) - k
  <2>1. k \in 0..Len(a) /\ Len(r) = Len(a) - k /\ Len(r) <= Limit
    BY <1>1
  <2>2. Len(r) >= Limit /\ Len(a) \in Nat /\ Len(r) \in Nat
    BY <1>2, <1>5
  <2> QED BY <2>1, <2>2
<1>8. Kept(d, k)'
  <2>1. Len(bucket'[d]) = Len(admitted'[d]) - k
    BY <1>1, <1>2, <1>4 DEF a
  <2>2. \A i \in 1..Len(bucket'[d]) : bucket'[d][i] = admitted'[d][k + i]
    BY <1>1, <1>2, <1>4 DEF a
  <2>3. \A i \in 1..k : admitted'[d][i] + Window <= clock'
    BY <1>1, <1>2 DEF a
  <2> QED BY <2>1, <2>2, <2>3 DEF Kept
<1>9. FullAt(d, clock, Len(a))
  <2>1. ASSUME NEW i \in 1..Len(a), i >= k + 1 PROVE clock < a[i] + Window
    <3>1. k + 1 \in 1..Len(a) /\ k < Len(a)
      BY <2>1, <1>5, <1>7
    <3>2. a[k + 1] <= a[i] /\ a[k + 1] \in 0..MaxTime /\ a[i] \in 0..MaxTime
      BY <2>1, <3>1, <1>5, <1>6
    <3>3. clock < a[k + 1] + Window /\ clock \in 0..MaxTime
      BY <3>1, <1>1, <1>2
    <3> QED BY <3>2, <3>3
  <2>2. Len(a) - Limit + 1 = k + 1
    BY <1>5, <1>7
  <2>3. \A i \in 1..Len(a) :
          /\ i <= Len(a) <=> a[i] <= clock
          /\ i \in Len(a) - Limit + 1 .. Len(a) => clock < a[i] + Window
    BY <2>1, <2>2, <1>5, <1>6
  <2> QED BY <2>3, <1>5 DEF FullAt, a
<1>10. ASSUME NEW c \in Callers, NEW t, NEW n, FullAt(c, t, n) PROVE FullAt(c, t, n)'
  BY <1>2, <1>10 DEF FullAt
<1>11. ASSUME NEW c \in Callers \ {d}, NEW h, Kept(c, h) PROVE Kept(c, h)'
  BY <1>2, <1>4, <1>11 DEF Kept
<1>12. ASSUME NEW c \in Callers
       PROVE  /\ Len(bucket'[c]) <= Limit
              /\ \E h \in 0..Len(admitted'[c]) : Kept(c, h)'
              /\ \A t \in refused'[c] :
                   t <= clock' /\ \E n \in Limit..Len(admitted'[c]) : FullAt(c, t, n)'
  <2>1. CASE c = d
    <3>1. Len(bucket'[d]) <= Limit /\ \E h \in 0..Len(admitted'[d]) : Kept(d, h)'
      <4>1. k \in 0..Len(admitted'[d])
        BY <1>2, <1>5, <1>7 DEF a
      <4>2. Len(bucket'[d]) <= Limit
        BY <1>4, <1>5, <1>7
      <4> QED BY <4>1, <4>2, <1>8
    <3>2. ASSUME NEW t \in refused'[d]
          PROVE  t <= clock' /\ \E n \in Limit..Len(admitted'[d]) : FullAt(d, t, n)'
      <4>1. CASE t = clock
        <5>1. Len(a) \in Limit..Len(admitted[d]) /\ t <= clock
          BY <4>1, <1>2, <1>5, <1>7 DEF a
        <5>2. \E n \in Limit..Len(admitted[d]) : FullAt(d, t, n)
          BY <4>1, <5>1, <1>9
        <5> QED BY <5>1, <5>2, <1>2, <1>10
      <4>2. CASE t # clock
        <5>1. t \in refused[d]
          BY <4>2, <1>4
        <5>2. t <= clock /\ \E n \in Limit..Len(admitted[d]) : FullAt(d, t, n)
          BY <5>1 DEF LimiterInv
        <5> QED BY <5>2, <1>2, <1>10
      <4> QED BY <4>1, <4>2
    <3> QED BY <2>1, <3>1, <3>2
  <2>2. CASE c # d
    <3>1. /\ Len(bucket[c]) <= Limit
          /\ \E h \in 0..Len(admitted[c]) : Kept(c, h)
          /\ \A t \in refused[c] :
               t <= clock /\ \E n \in Limit..Len(admitted[c]) : FullAt(c, t, n)
      BY DEF LimiterInv
    <3> QED BY <2>2, <3>1, <1>2, <1>4, <1>10, <1>11
  <2> QED BY <2>1, <2>2
<1>13. UNCHANGED <<clock, admitted>>
  BY <1>2
<1> QED BY <1>3, <1>12, <1>13 DEF LimiterInv

\* Time only adds to what is a minute old.
LEMMA TimePasses ==
  ASSUME LimiterInv, Tick \/ UNCHANGED limiterVars
  PROVE  LimiterInv'
<1> USE LimiterAssumption
<1>1. /\ clock' \in 0..MaxTime /\ clock \in 0..MaxTime /\ clock <= clock'
      /\ UNCHANGED <<bucket, admitted, refused>>
  BY DEF LimiterInv, LimiterTypeOK, Tick, limiterVars
<1>2. LimiterTypeOK'
  BY <1>1 DEF LimiterInv, LimiterTypeOK
<1>3. ASSUME NEW c \in Callers
      PROVE  /\ admitted[c] \in Seq(0..MaxTime) /\ refused[c] \subseteq 0..MaxTime
             /\ \A i \in DOMAIN admitted[c] : admitted[c][i] \in 0..MaxTime
             /\ DOMAIN admitted[c] = 1..Len(admitted[c])
  BY DEF LimiterInv, LimiterTypeOK
<1>4. ASSUME NEW c \in Callers, NEW k \in 0..Len(admitted[c]), Kept(c, k) PROVE Kept(c, k)'
  <2>1. ASSUME NEW i \in 1..k PROVE admitted[c][i] + Window <= clock'
    <3>1. admitted[c][i] + Window <= clock
      BY <1>4 DEF Kept
    <3>2. Len(admitted[c]) \in Nat /\ i \in 1..Len(admitted[c])
      BY <1>3
    <3>3. admitted[c][i] \in 0..MaxTime
      BY <3>2, <1>3
    <3> QED BY <3>1, <3>3, <1>1
  <2> QED BY <2>1, <1>1, <1>4 DEF Kept
<1>5. ASSUME NEW c \in Callers, NEW t, NEW n, FullAt(c, t, n) PROVE FullAt(c, t, n)'
  BY <1>1, <1>5 DEF FullAt
<1>6. ASSUME NEW c \in Callers
      PROVE  /\ \A i \in DOMAIN admitted[c] : admitted[c][i] <= clock'
             /\ \A t \in refused[c] : t <= clock'
  BY <1>1, <1>3 DEF LimiterInv
<1>7. ASSUME NEW c \in Callers
      PROVE  /\ \E k \in 0..Len(admitted[c]) : Kept(c, k)'
             /\ \A t \in refused[c] : \E n \in Limit..Len(admitted[c]) : FullAt(c, t, n)'
  BY <1>4, <1>5 DEF LimiterInv
<1> QED BY <1>1, <1>2, <1>6, <1>7 DEF LimiterInv

LEMMA LimiterStep == LimiterInv /\ [LimiterNext]_limiterVars => LimiterInv'
BY Admits, Refuses, TimePasses DEF LimiterNext

\* Two admitted requests of one minute are less than the limit apart.
LEMMA WithinAMinute ==
  ASSUME LimiterInv, NEW c \in Callers, NEW t \in Nat
  PROVE  AdmittedBy(c, t) <= Limit
<1> USE LimiterAssumption
<1> DEFINE a == admitted[c]
           S == {i \in DOMAIN a : a[i] <= t /\ t < a[i] + Window}
<1>1. /\ DOMAIN a = 1..Len(a) /\ Len(a) \in Nat
      /\ \A i \in 1..Len(a) : a[i] \in 0..MaxTime
      /\ \A i, j \in 1..Len(a) : i + Limit <= j => a[i] + Window <= a[j]
  <2>1. a \in Seq(0..MaxTime)
    BY DEF LimiterInv, LimiterTypeOK
  <2>2. \A i, j \in DOMAIN a : i + Limit <= j => a[i] + Window <= a[j]
    BY DEF LimiterInv
  <2> HIDE DEF a
  <2> QED BY <2>1, <2>2
<1>2. ASSUME NEW i \in S, NEW j \in S PROVE j < i + Limit
  <2>1. i \in 1..Len(a) /\ j \in 1..Len(a)
    BY <1>1
  <2>2. a[j] <= t /\ t < a[i] + Window
    OBVIOUS
  <2>3. a[i] \in Nat /\ a[j] \in Nat
    BY <2>1, <1>1
  <2>4. ~ (i + Limit <= j)
    <3>1. ~ (a[i] + Window <= a[j])
      BY <2>2, <2>3
    <3> QED BY <2>1, <3>1, <1>1
  <2> QED BY <2>1, <2>4, <1>1
<1>3. AdmittedBy(c, t) = Cardinality(S)
  BY DEF AdmittedBy
<1>4. CASE S = {}
  <2>1. Cardinality(S) = 0
    BY <1>4, FS_EmptySet
  <2> QED BY <2>1, <1>3
<1>5. CASE S # {}
  <2>1. S \in SUBSET Nat
    BY <1>1
  <2>2. PICK m \in S : \A i \in S : m <= i
    <3> HIDE DEF S
    <3> QED BY <2>1, <1>5, LeastOf
  <2>3. m \in Nat /\ S \in SUBSET (m .. m + Limit - 1)
    BY <1>2, <2>1, <2>2
  <2> HIDE DEF S
  <2>4. m \in Int /\ m + Limit - 1 \in Int /\ Limit > 0
    BY <2>2, <2>3, <1>2
  <2>5. /\ IsFiniteSet(m .. m + Limit - 1)
        /\ Cardinality(m .. m + Limit - 1) =
             IF m > m + Limit - 1 THEN 0 ELSE (m + Limit - 1) - m + 1
    <3>1. m \in Int /\ m + Limit - 1 \in Int
      BY <2>4
    <3> QED BY <3>1, FS_Interval, Zenon
  <2>6. Cardinality(m .. m + Limit - 1) = Limit
    BY <2>4, <2>5
  <2>7. Cardinality(S) <= Cardinality(m .. m + Limit - 1)
    BY <2>3, <2>5, FS_Subset
  <2> QED BY <2>6, <2>7, <1>3
<1> QED BY <1>4, <1>5

\* Who was refused had the whole limit in the minute before.
LEMMA RefusedWasFull ==
  ASSUME LimiterInv, NEW c \in Callers, NEW t \in refused[c]
  PROVE  AdmittedBy(c, t) = Limit
<1> USE LimiterAssumption
<1> DEFINE a == admitted[c]
           S == {i \in DOMAIN a : a[i] <= t /\ t < a[i] + Window}
<1>1. /\ DOMAIN a = 1..Len(a) /\ Len(a) \in Nat /\ t \in Nat
      /\ \A i \in 1..Len(a) : a[i] \in 0..MaxTime
      /\ \A i, j \in 1..Len(a) : i + Limit <= j => a[i] + Window <= a[j]
  <2>1. refused[c] \in SUBSET (0..MaxTime) /\ a \in Seq(0..MaxTime)
    BY DEF LimiterInv, LimiterTypeOK
  <2>2. t \in Nat /\ DOMAIN a = 1..Len(a) /\ Len(a) \in Nat
    BY <2>1
  <2>3. \A i, j \in DOMAIN a : i + Limit <= j => a[i] + Window <= a[j]
    BY DEF LimiterInv
  <2>4. \A i \in 1..Len(a) : a[i] \in 0..MaxTime
    BY <2>1
  <2> HIDE DEF a
  <2> QED BY <2>2, <2>3, <2>4
<1>2. PICK n \in Limit..Len(a) : FullAt(c, t, n)
  BY DEF LimiterInv
<1>3. \A i \in 1..Len(a) :
        /\ i <= n <=> a[i] <= t
        /\ i \in n - Limit + 1 .. n => t < a[i] + Window
  BY <1>1, <1>2 DEF FullAt
<1>4. n \in Nat /\ Limit <= n /\ n <= Len(a)
  BY <1>1
<1>5. S = n - Limit + 1 .. n
  <2>1. ASSUME NEW i \in S PROVE i \in n - Limit + 1 .. n
    <3>1. i \in 1..Len(a) /\ i <= n
      BY <1>1, <1>3
    <3>2. i + Limit > n
      <4> SUFFICES ASSUME i + Limit <= n PROVE FALSE
        BY <3>1, <1>4
      <4>1. n \in 1..Len(a) /\ a[n] <= t
        BY <3>1, <1>3, <1>4
      <4> QED BY <3>1, <4>1, <1>1
    <3> QED BY <3>1, <3>2, <1>4
  <2>2. ASSUME NEW i \in n - Limit + 1 .. n PROVE i \in S
    <3>1. i \in 1..Len(a) /\ i <= n
      BY <1>4
    <3> QED BY <3>1, <1>1, <1>3
  <2> QED BY <2>1, <2>2
<1>6. Cardinality(n - Limit + 1 .. n) =
        IF n - Limit + 1 > n THEN 0 ELSE n - (n - Limit + 1) + 1
  <2>1. n - Limit + 1 \in Int /\ n \in Int
    BY <1>4
  <2> QED BY <2>1, FS_Interval, Zenon
<1>7. Cardinality(n - Limit + 1 .. n) = Limit
  BY <1>4, <1>6
<1> QED BY <1>5, <1>7 DEF AdmittedBy

\* Whatever the bursts and pauses, no minute holds more admitted requests of a
\* caller than the limit, and who is refused had the whole limit in the minute
\* before (http_middleware.py:46-57).
THEOREM LimitsAreExact == LimiterSpec => []LimitIsExact
<1>1. LimiterInv => LimitIsExact
  <2> SUFFICES ASSUME LimiterInv, NEW c \in Callers
               PROVE  /\ \A t \in 0..clock : AdmittedBy(c, t) <= Limit
                      /\ \A t \in refused[c] : AdmittedBy(c, t) = Limit
    BY DEF LimitIsExact
  <2> QED BY WithinAMinute, RefusedWasFull
<1> QED BY <1>1, LimiterStart, LimiterStep, PTL DEF LimiterSpec

-----------------------------------------------------------------------------
(* What a user may enter. *)

LEMMA ScopeStart == ScopeInit => ScopeInv
<1> SUFFICES ASSUME ScopeInit PROVE ScopeInv
  OBVIOUS
<1>1. ScopeTypeOK
  BY DEF ScopeInit, ScopeTypeOK, Reading
<1>2. GrantsAtHome
  BY DEF ScopeInit, GrantsAtHome
<1> QED BY <1>1, <1>2 DEF ScopeInv

LEMMA GrantSet ==
  ASSUME ScopeInv, NEW u \in Users, NEW s \in Places, NEW p \in Reading \cup {"none"},
         SetGrant(u, s, p)
  PROVE  ScopeInv'
<1>1. /\ grant' = [grant EXCEPT ![u][s] = p] /\ (p # "none" => MayGrant(u, s))
      /\ UNCHANGED <<role, room, asset, deviceOrg, raw>>
  BY DEF SetGrant
<1>2. ScopeTypeOK'
  BY <1>1 DEF ScopeInv, ScopeTypeOK
<1>3. \A v \in Users, t \in Places :
        grant'[v][t] = IF v = u /\ t = s THEN p ELSE grant[v][t]
  BY <1>1 DEF ScopeInv, ScopeTypeOK
<1>4. GrantsAtHome'
  <2> SUFFICES ASSUME NEW v \in Users, NEW t \in Places, grant'[v][t] # "none"
               PROVE  UserOrg[v] \in {NoOrg, PlaceOrg(t)}
    BY DEF GrantsAtHome, PlaceOrg, RoomOrg
  <2>1. CASE v = u /\ t = s
    BY <2>1, <1>1, <1>3 DEF MayGrant
  <2>2. CASE ~ (v = u /\ t = s)
    BY <2>2, <1>3 DEF ScopeInv, GrantsAtHome
  <2> QED BY <2>1, <2>2
<1> QED BY <1>2, <1>4 DEF ScopeInv

LEMMA ScopeStep == ScopeInv /\ [ScopeNext]_scopeVars => ScopeInv'
<1> SUFFICES ASSUME ScopeInv, [ScopeNext]_scopeVars PROVE ScopeInv'
  OBVIOUS
<1>a. ASSUME UNCHANGED grant PROVE GrantsAtHome'
  BY <1>a DEF ScopeInv, GrantsAtHome, PlaceOrg, RoomOrg
<1>1. ASSUME NEW u \in Users, NEW r \in {"ADMIN", "VIEWER"}, SetRole(u, r) PROVE ScopeInv'
  BY <1>1, <1>a DEF SetRole, ScopeInv, ScopeTypeOK
<1>2. ASSUME NEW i \in Items, NEW r \in Rooms \cup {NoPlace}, PlaceAsset(i, r)
      PROVE  ScopeInv'
  BY <1>2, <1>a DEF PlaceAsset, ScopeInv, ScopeTypeOK
<1>3. ASSUME NEW i \in Items, NEW d \in Devices, LinkDevice(d, i) PROVE ScopeInv'
  <2>1. /\ asset' \in [Devices -> Items \cup {NoPlace}]
        /\ deviceOrg' \in [Devices -> {ItemOrg[j] : j \in Items} \cup {NoOrg}]
        /\ UNCHANGED <<role, grant, room, raw>>
    BY <1>3 DEF LinkDevice, ScopeInv, ScopeTypeOK
  <2> QED BY <2>1, <1>a DEF ScopeInv, ScopeTypeOK
<1>4. ASSUME NEW d \in Devices, AscribeRaw(d) PROVE ScopeInv'
  BY <1>4, <1>a DEF AscribeRaw, ScopeInv, ScopeTypeOK
<1>5. CASE UNCHANGED scopeVars
  BY <1>5, <1>a DEF scopeVars, ScopeInv, ScopeTypeOK
<1> QED BY <1>1, <1>2, <1>3, <1>4, <1>5, GrantSet DEF ScopeNext

\* The rooms of a grant are those that lie at or under its place.
LEMMA UnderIsAbove ==
  ASSUME NEW r \in Rooms, NEW s \in Places
  PROVE  /\ r \in RoomsUnder(s) <=> s \in {r, FloorOf[r], BuildingOf[FloorOf[r]]}
         /\ r \in RoomsUnder(s) => PlaceOrg(s) = RoomOrg(r)
<1>1. /\ FloorOf[r] \in Floors /\ BuildingOf[FloorOf[r]] \in Buildings
      /\ Rooms \cap Floors = {} /\ Rooms \cap Buildings = {} /\ Floors \cap Buildings = {}
  BY ScopeAssumption
<1>2. CASE s \in Rooms
  BY <1>1, <1>2 DEF RoomsUnder, PlaceOrg
<1>3. CASE s \in Floors
  BY <1>1, <1>3 DEF RoomsUnder, PlaceOrg, RoomOrg
<1>4. CASE s \in Buildings
  <2>1. s \notin Rooms /\ s \notin Floors
    BY <1>1, <1>4
  <2> QED BY <2>1, <1>1, <1>4 DEF RoomsUnder, PlaceOrg, RoomOrg
<1> QED BY <1>2, <1>3, <1>4 DEF Places

LEMMA PermittedAreRooms ==
  ASSUME NEW p, NEW permissions
  PROVE  NoPlace \notin PermittedRooms(p, permissions)
BY ScopeAssumption DEF PermittedRooms, RoomsUnder

LEMMA ListsShowWhatOpens ==
  ASSUME ScopeInv, NEW p
  PROVE  /\ ListedAssets(p) = {i \in Items : OpensAsset(p, i)}
         /\ ListedDevices(p) = {d \in Devices : OpensDevice(p, d)}
         /\ ScopedDevices(p) = ListedDevices(p)
         /\ ListedRooms(p) = {r \in Rooms : OpensRoom(p, r)}
         /\ ListsRaw(p) => OpensRaw(p)
         /\ OpensRaw(p) /\ raw # NoPlace => ListsRaw(p)
<1>1. /\ NoPlace \notin Rooms \cup Items \cup Devices
      /\ NoPlace \notin PermittedRooms(p, Reading)
  BY ScopeAssumption, PermittedAreRooms
<1>2. /\ asset \in [Devices -> Items \cup {NoPlace}] /\ raw \in Devices \cup {NoPlace}
  BY DEF ScopeInv, ScopeTypeOK
<1>3. ListedAssets(p) = {i \in Items : OpensAsset(p, i)}
  BY <1>1 DEF ListedAssets, OpensAsset, Enters
<1>4. ListedDevices(p) = {d \in Devices : OpensDevice(p, d)}
  BY <1>1 DEF ListedDevices, OpensDevice, Enters
<1>5. ScopedDevices(p) = ListedDevices(p)
  <2>1. \A d \in Devices :
          asset[d] \in {i \in Items : room[i] \in PermittedRooms(p, Reading)} <=>
            asset[d] # NoPlace /\ room[asset[d]] \in PermittedRooms(p, Reading)
    BY <1>1, <1>2
  <2> QED BY <2>1 DEF ScopedDevices, ListedDevices
<1>6. ListedRooms(p) = {r \in Rooms : OpensRoom(p, r)}
  BY <1>1 DEF ListedRooms, OpensRoom, Enters
<1>7. ASSUME raw # NoPlace PROVE ListsRaw(p) <=> OpensRaw(p)
  BY <1>2, <1>4, <1>5, <1>7 DEF ListsRaw, OpensRaw
<1>8. ASSUME raw = NoPlace PROVE ListsRaw(p) => OpensRaw(p)
  BY <1>8 DEF ListsRaw, OpensRaw
<1> QED BY <1>3, <1>4, <1>5, <1>6, <1>7, <1>8

\* A list shows a principal just what he can open, whatever is granted, placed
\* and linked (admin_assets.py:112-117, 279-347, resource_scope.py:14-30).
THEOREM ListsAndPagesAgree == ScopeSpec => []ListsMatchPages
<1>1. ScopeInv => ListsMatchPages
  BY ListsShowWhatOpens DEF ListsMatchPages
<1> QED BY <1>1, ScopeStart, ScopeStep, PTL DEF ScopeSpec

LEMMA LimitedUsersNeedGrants ==
  ASSUME ScopeInv, NEW u \in Users, NEW r \in Rooms,
         NEW p, p.user = u, p.org = UserOrg[u], p.role # "ADMIN"
  PROVE  LET above == {r, FloorOf[r], BuildingOf[FloorOf[r]]}
         IN  /\ OpensRoom(p, r) <=> \E s \in above : grant[p.user][s] # "none"
             /\ Edits(p, r) <=> \E s \in above : grant[p.user][s] = "EDITOR"
<1> DEFINE above == {r, FloorOf[r], BuildingOf[FloorOf[r]]}
<1>1. u # NoPlace /\ r # NoPlace /\ ~ Everywhere(p)
  BY ScopeAssumption DEF Everywhere
<1>2. above \subseteq Places
  BY ScopeAssumption DEF Places
<1>3. \A s \in Places : grant[u][s] \in Reading \cup {"none"}
  BY DEF ScopeInv, ScopeTypeOK
<1>4. ASSUME NEW permissions
      PROVE  r \in PermittedRooms(p, permissions) <=> \E s \in above : grant[u][s] \in permissions
  <2>1. r \in PermittedRooms(p, permissions) <=>
          \E s \in Places : grant[u][s] \in permissions /\ r \in RoomsUnder(s)
    BY DEF PermittedRooms
  <2> QED BY <2>1, <1>2, UnderIsAbove
<1>5. ASSUME NEW s \in above, grant[u][s] # "none" PROVE SameOrg(p, RoomOrg(r))
  <2>1. PlaceOrg(s) = RoomOrg(r) /\ s \in Places
    BY <1>2, <1>5, UnderIsAbove
  <2>2. UserOrg[u] \in {NoOrg, PlaceOrg(s)}
    BY <2>1, <1>5 DEF ScopeInv, GrantsAtHome
  <2> QED BY <2>1, <2>2 DEF SameOrg
<1>6. \A s \in above : grant[u][s] # "none" <=> grant[u][s] \in Reading
  BY <1>2, <1>3 DEF Reading
<1>7. OpensRoom(p, r) <=> \E s \in above : grant[u][s] # "none"
  <2>1. Enters(p, r) <=> \E s \in above : grant[u][s] \in Reading
    BY <1>1, <1>4 DEF Enters
  <2> HIDE DEF above
  <2> QED BY <2>1, <1>5, <1>6 DEF OpensRoom
<1>8. Edits(p, r) <=> \E s \in above : grant[u][s] = "EDITOR"
  BY <1>1, <1>4 DEF Edits
<1> QED BY <1>7, <1>8

\* A limited user reads or edits a room only through a grant on the room, its
\* floor or its building, never on a place of another organization
\* (location_access.py:11-34).
THEOREM GrantsAreNeeded == ScopeSpec => []GrantsReachDown
<1>1. ScopeInv => GrantsReachDown
  <2> SUFFICES ASSUME ScopeInv, NEW p \in Principals, p.role # "ADMIN", p.user # NoPlace,
                      NEW r \in Rooms
               PROVE  LET above == {r, FloorOf[r], BuildingOf[FloorOf[r]]}
                      IN  /\ OpensRoom(p, r) <=> \E s \in above : grant[p.user][s] # "none"
                          /\ Edits(p, r) <=> \E s \in above : grant[p.user][s] = "EDITOR"
    BY DEF GrantsReachDown
  <2>1. PICK u \in Users : p = [user |-> u, role |-> role[u], org |-> UserOrg[u]]
    BY DEF Principals
  <2>2. p.user = u /\ p.org = UserOrg[u]
    BY <2>1
  <2> QED BY <2>2, LimitedUsersNeedGrants
<1> QED BY <1>1, ScopeStart, ScopeStep, PTL DEF ScopeSpec

-----------------------------------------------------------------------------
(* What an imported file does. *)

Position ==
  [status : {"ACTIVE", "WRITTEN_OFF"}, quantity : 1..MaxQuantity,
   mode : {"INDIVIDUAL", "GROUPED"}, place : RoomNames \cup {NoValue},
   room : RoomNames \cup {NoValue}]

Registry == [Numbers -> {Absent} \cup Position]

LEMMA AbsentIsNoPosition == Absent.status = "absent" /\ Absent \notin Position
BY DEF Absent, Position

\* A number that is known has a position.
LEMMA KnownRows ==
  ASSUME NEW reg \in Registry, NEW n \in Numbers
  PROVE  /\ reg[n].status # "absent" <=> reg[n] \in Position
         /\ reg[n].mode \in {"INDIVIDUAL", "GROUPED"}
<1>1. reg[n] = Absent \/ reg[n] \in Position
  BY DEF Registry
<1>2. CASE reg[n] = Absent
  BY <1>2, AbsentIsNoPosition DEF Absent
<1>3. CASE reg[n] \in Position
  BY <1>3 DEF Position
<1> QED BY <1>1, <1>2, <1>3

LEMMA IndicesAreFinite ==
  ASSUME NEW n \in Nat, NEW indices \in SUBSET (1..n)
  PROVE  IsFiniteSet(indices)
<1>1. 1 \in Int /\ n \in Int
  OBVIOUS
<1>2. IsFiniteSet(1..n)
  BY <1>1, FS_Interval
<1> QED BY <1>2, FS_Subset

\* The k-th of the indices up to n, counted from the left: how many there are up
\* to i grows by one at each of them.
LEMMA NthIndex ==
  ASSUME NEW n \in Nat, NEW indices \in SUBSET (1..n), NEW k \in 1..Cardinality(indices)
  PROVE  \E i \in indices : Cardinality({j \in indices : j <= i}) = k
<1> DEFINE upto(i) == {j \in indices : j <= i}
           Enough == {i \in 0..n : Cardinality(upto(i)) >= k}
<1>0. \A j \in indices : j \in Nat /\ 1 <= j /\ j <= n
  OBVIOUS
<1>1. IsFiniteSet(indices)
  BY IndicesAreFinite
<1>2. \A i \in 0..n : IsFiniteSet(upto(i)) /\ Cardinality(upto(i)) \in Nat
  BY <1>1, FS_Subset, FS_CardinalityType
<1>3. upto(n) = indices
  BY <1>0
<1>4. Cardinality(indices) \in Nat /\ k \in Nat \ {0} /\ k <= Cardinality(indices)
  <2>1. Cardinality(indices) \in Nat
    BY <1>1, FS_CardinalityType
  <2> QED BY <2>1
<1>5. n \in Enough
  BY <1>3, <1>4
<1>6. PICK i \in Enough : \A m \in Enough : i <= m
  <2>1. Enough \in SUBSET Nat
    OBVIOUS
  <2> QED BY <1>5, <2>1, LeastOf
<1>7. Cardinality(upto(0)) = 0
  <2>1. \A j \in indices : ~ j <= 0
    BY <1>0
  <2>2. upto(0) = {}
    BY <2>1
  <2> QED BY <2>2, FS_EmptySet
<1>8. i \in 1..n /\ i - 1 \in 0..n
  BY <1>4, <1>6, <1>7
<1>9. Cardinality(upto(i - 1)) < k
  <2>1. ~ i <= i - 1
    BY <1>8
  <2>2. i - 1 \notin Enough
    BY <1>6, <2>1
  <2>3. ~ Cardinality(upto(i - 1)) >= k
    BY <1>8, <2>2
  <2> HIDE DEF upto
  <2> QED BY <1>2, <1>4, <1>8, <2>3
<1>10. Cardinality(upto(i)) >= k
  BY <1>6
<1>11. CASE i \notin indices
  <2>1. upto(i) = upto(i - 1)
    <3>1. \A j \in indices : j <= i <=> j <= i - 1
      BY <1>0, <1>8, <1>11
    <3> QED BY <3>1
  <2> HIDE DEF upto
  <2> QED BY <1>2, <1>4, <1>8, <1>9, <1>10, <2>1
<1>12. CASE i \in indices
  <2>1. upto(i) = upto(i - 1) \cup {i} /\ i \notin upto(i - 1)
    <3>1. \A j \in indices : j <= i <=> j = i \/ j <= i - 1
      BY <1>0, <1>8
    <3>2. ~ i <= i - 1
      BY <1>8
    <3> QED BY <1>12, <3>1, <3>2
  <2>2. Cardinality(upto(i)) = Cardinality(upto(i - 1)) + 1
    <3> HIDE DEF upto
    <3> QED BY <1>2, <1>8, <2>1, FS_AddElement
  <2>3. Cardinality(upto(i)) = k
    <3> HIDE DEF upto
    <3> QED BY <1>2, <1>4, <1>8, <1>9, <1>10, <2>2
  <2> QED BY <1>12, <2>3
<1> QED BY <1>11, <1>12

\* The first and the last of a set of indices.
LEMMA EndsOf ==
  ASSUME NEW n \in Nat, NEW S \in SUBSET (1..n), S # {}
  PROVE  Min(S) \in S /\ Max(S) \in S
<1>1. \E m \in S : \A k \in S : m <= k
  BY LeastOf
<1>2. \E m \in S : \A k \in S : m >= k
  <2> DEFINE rest == {n - k : k \in S}
  <2>1. rest \in SUBSET Nat /\ rest # {}
    <3>1. \A k \in S : n - k \in Nat
      OBVIOUS
    <3> QED BY <3>1
  <2>2. PICK d \in rest : \A e \in rest : d <= e
    BY <2>1, LeastOf
  <2>3. PICK m \in S : d = n - m
    BY <2>2
  <2>4. \A k \in S : n - m <= n - k
    BY <2>2, <2>3
  <2> QED BY <2>3, <2>4
<1> QED BY <1>1, <1>2 DEF Min, Max

\* What a row or an item holds, and a sequence of such.
Cells(r) ==
  /\ r.number \in Numbers \cup {NoValue}
  /\ r.status \in {"ACTIVE", "WRITTEN_OFF", NoValue}
  /\ r.place \in RoomNames \cup {NoValue}

HaveCells(s) == \E m \in Nat : DOMAIN s = 1..m /\ \A k \in 1..m : Cells(s[k])

\* What is taken of rows with cells, at any indices, are rows with cells.
LEMMA TakenCells ==
  ASSUME NEW n \in Nat, NEW all, \A i \in 1..n : Cells(all[i]), NEW some \in SUBSET (1..n)
  PROVE  HaveCells(RowsAt(all, some))
<1> DEFINE nth(k) == CHOOSE i \in some : Cardinality({j \in some : j <= i}) = k
           taken == [k \in 1..Cardinality(some) |-> all[nth(k)]]
<1>1. Cardinality(some) \in Nat
  BY IndicesAreFinite, FS_CardinalityType
<1>2. RowsAt(all, some) = taken
  BY DEF RowsAt
<1>3. ASSUME NEW k \in 1..Cardinality(some) PROVE nth(k) \in some
  BY NthIndex
<1> HIDE DEF nth
<1>4. ASSUME NEW k \in 1..Cardinality(some) PROVE Cells(taken[k])
  <2>1. taken[k] = all[nth(k)] /\ nth(k) \in 1..n
    BY <1>3
  <2> QED BY <2>1
<1>5. DOMAIN taken = 1..Cardinality(some)
  OBVIOUS
<1> HIDE DEF taken
<1> QED BY <1>1, <1>2, <1>4, <1>5 DEF HaveCells

\* An item holds the cells of a row of its file, or what its kind stands for.
LEMMA ItemsHoldCells ==
  ASSUME NEW f \in Files
  PROVE  HaveCells(FileItems(f))
<1> DEFINE full == {i \in DOMAIN f.rows : ~ f.rows[i].blank}
           rows == RowsAt(f.rows, full)
<1>1. HaveCells(rows)
  <2>1. HaveCells(f.rows)
    BY ImportAssumption DEF HaveCells, Cells
  <2>2. PICK m \in Nat : DOMAIN f.rows = 1..m /\ \A k \in 1..m : Cells(f.rows[k])
    BY <2>1 DEF HaveCells
  <2>3. full \in SUBSET (1..m)
    BY <2>2
  <2> HIDE DEF full
  <2> QED BY <2>2, <2>3, TakenCells
<1> HIDE DEF rows
<1>2. ASSUME NEW latest \in BOOLEAN PROVE HaveCells(OneEach(rows, latest))
  <2>1. PICK m \in Nat : DOMAIN rows = 1..m /\ \A k \in 1..m : Cells(rows[k])
    BY <1>1 DEF HaveCells
  <2> DEFINE same(i) == {j \in DOMAIN rows : rows[j].number = rows[i].number}
             kept == [i \in DOMAIN rows |-> rows[IF latest THEN Max(same(i)) ELSE Min(same(i))]]
             first == {i \in DOMAIN rows : i = Min(same(i))}
  <2>2. OneEach(rows, latest) = RowsAt(kept, first)
    BY DEF OneEach
  <2>3. ASSUME NEW i \in 1..m PROVE Cells(kept[i])
    <3>1. same(i) \in SUBSET (1..m) /\ i \in same(i)
      BY <2>1
    <3>2. Min(same(i)) \in 1..m /\ Max(same(i)) \in 1..m
      BY <3>1, EndsOf
    <3> HIDE DEF same
    <3> QED BY <2>1, <3>2
  <2>4. first \in SUBSET (1..m)
    BY <2>1
  <2> HIDE DEF kept, first
  <2> QED BY <2>2, <2>3, <2>4, TakenCells
<1> DEFINE Item(r) == [number |-> r.number, quantity |-> r.quantity, located |-> f.located,
                       mode |-> IF f.kind = "table" THEN r.mode ELSE "GROUPED",
                       status |-> IF f.kind = "table" THEN r.status ELSE "ACTIVE",
                       place |-> IF f.located THEN r.place ELSE NoValue,
                       unverified |-> f.kind # "table" /\ r.quantity = NoValue]
           kept == CASE f.kind = "table" -> rows
                     [] f.kind = "statement" -> OneEach(rows, TRUE)
                     [] f.kind = "scan" -> OneEach(rows, FALSE)
<1>3. FileItems(f) = [i \in DOMAIN kept |-> Item(kept[i])]
  BY DEF FileItems, rows
<1>4. f.kind \in {"table", "statement", "scan"}
  BY ImportAssumption
<1>5. kept \in {rows, OneEach(rows, TRUE), OneEach(rows, FALSE)}
  BY <1>4
<1> HIDE DEF kept
<1>6. PICK m \in Nat : DOMAIN kept = 1..m /\ \A k \in 1..m : Cells(kept[k])
  BY <1>1, <1>2, <1>5 DEF HaveCells
<1>7. ASSUME NEW k \in 1..m
      PROVE  Cells(Item(kept[k]))
  <2>1. Cells(kept[k])
    BY <1>6
  <2> QED BY <2>1 DEF Cells
<1>8. DOMAIN FileItems(f) = 1..m /\ \A k \in 1..m : FileItems(f)[k] = Item(kept[k])
  BY <1>3, <1>6
<1> HIDE DEF Item
<1> QED BY <1>7, <1>8 DEF HaveCells

\* The items of a file that is not refused.
LEMMA SoundItems ==
  ASSUME NEW f \in Files, NEW reg, NEW excluded, Accepted(reg, f, excluded),
         NEW i \in DOMAIN FileItems(f)
  PROVE  LET item == FileItems(f)[i]
         IN  /\ item.number \in Numbers
             /\ item.quantity \in 1..MaxQuantity \cup {NoValue}
             /\ item.status \in {"ACTIVE", "WRITTEN_OFF", NoValue} /\ item.status # "absent"
             /\ item.mode \in {"INDIVIDUAL", "GROUPED", NoValue}
             /\ item.place \in RoomNames \cup {NoValue}
<1>1. ValidRow(FileItems(f)[i])
  BY DEF Accepted
<1>2. /\ FileItems(f)[i].number \in Numbers \cup {NoValue}
      /\ FileItems(f)[i].status \in {"ACTIVE", "WRITTEN_OFF", NoValue}
      /\ FileItems(f)[i].place \in RoomNames \cup {NoValue}
  BY ItemsHoldCells DEF HaveCells, Cells
<1>3. NoValue # "absent"
  BY ImportAssumption
<1> QED BY <1>1, <1>2, <1>3 DEF ValidRow

\* What an item asks for is a position.
LEMMA PlannedPosition ==
  ASSUME NEW reg \in Registry, NEW item, item.number \in Numbers,
         item.quantity \in 1..MaxQuantity \cup {NoValue},
         item.status \in {"ACTIVE", "WRITTEN_OFF", NoValue}, item.status # "absent",
         item.mode \in {"INDIVIDUAL", "GROUPED", NoValue},
         item.place \in RoomNames \cup {NoValue}
  PROVE  Planned(reg, item) \in Position
<1> DEFINE row == reg[item.number]
           q == Given(item.quantity, IF Known(reg, item) THEN row.quantity ELSE 1)
           p == IF Known(reg, item) /\ ~ item.located THEN row.place ELSE item.place
<1>1. Known(reg, item) => row \in Position
  BY KnownRows DEF Known
<1>2. CASE Known(reg, item) /\ item.number \in accounted
  <2>1. Planned(reg, item) = [row EXCEPT !.room = row.place]
    BY <1>2 DEF Planned
  <2> HIDE DEF row
  <2> QED BY <1>1, <1>2, <2>1 DEF Position
<1>3. CASE ~ (Known(reg, item) /\ item.number \in accounted)
  <2>1. q \in 1..MaxQuantity
    BY <1>1, ImportAssumption DEF Given, Position
  <2>2. p \in RoomNames \cup {NoValue}
    BY <1>1 DEF Position
  <2>3. row.mode \in {"INDIVIDUAL", "GROUPED"}
    BY KnownRows
  <2>4. Given(item.mode, IF q > 1 THEN "GROUPED" ELSE row.mode) \in {"INDIVIDUAL", "GROUPED"}
    BY <2>3 DEF Given
  <2>5. Given(item.status, IF Known(reg, item) THEN row.status ELSE "ACTIVE")
          \in {"ACTIVE", "WRITTEN_OFF"}
    BY <1>1 DEF Given, Position
  <2>6. Planned(reg, item) =
          [status |-> Given(item.status, IF Known(reg, item) THEN row.status ELSE "ACTIVE"),
           quantity |-> q, place |-> p, room |-> p,
           mode |-> Given(item.mode, IF q > 1 THEN "GROUPED" ELSE row.mode)]
    BY <1>3 DEF Planned
  <2> HIDE DEF q, p
  <2> QED BY <2>1, <2>2, <2>4, <2>5, <2>6 DEF Position
<1> QED BY <1>2, <1>3

\* What an item asks for depends on the row of its number only, and to ask
\* again of a row that has been written changes nothing.
LEMMA PlannedOfRow ==
  ASSUME NEW reg, NEW other, NEW item, reg[item.number] = other[item.number]
  PROVE  Planned(reg, item) = Planned(other, item)
BY DEF Planned, Known

LEMMA PlannedAgain ==
  ASSUME NEW reg \in Registry, NEW other, NEW item, Planned(reg, item) \in Position,
         item.number \in Numbers, other[item.number] = Planned(reg, item)
  PROVE  Planned(other, item) = Planned(reg, item) /\ Known(other, item)
<1> DEFINE row == reg[item.number]
           q == Given(item.quantity, IF Known(reg, item) THEN row.quantity ELSE 1)
           p == IF Known(reg, item) /\ ~ item.located THEN row.place ELSE item.place
           w == Planned(reg, item)
<1>1. Known(other, item)
  BY DEF Known, Position
<1>2. w.room = w.place
  <2>1. CASE Known(reg, item) /\ item.number \in accounted
    <3>1. row \in Position
      BY <2>1, KnownRows DEF Known
    <3>2. w = [row EXCEPT !.room = row.place]
      BY <2>1 DEF Planned
    <3> HIDE DEF w, row
    <3> QED BY <3>1, <3>2 DEF Position
  <2>2. CASE ~ (Known(reg, item) /\ item.number \in accounted)
    BY <2>2 DEF Planned
  <2> QED BY <2>1, <2>2
<1>3. CASE item.number \in accounted
  <2>1. Planned(other, item) = [w EXCEPT !.room = w.place]
    BY <1>1, <1>3 DEF Planned
  <2>2. w \in Position
    OBVIOUS
  <2> HIDE DEF w
  <2>3. [w EXCEPT !.room = w.place] = w
    BY <1>2, <2>2 DEF Position
  <2> QED BY <1>1, <2>1, <2>3 DEF w
<1>4. CASE item.number \notin accounted
  <2>1. w = [status |-> Given(item.status, IF Known(reg, item) THEN row.status ELSE "ACTIVE"),
             quantity |-> q, place |-> p, room |-> p,
             mode |-> Given(item.mode, IF q > 1 THEN "GROUPED" ELSE row.mode)]
    BY <1>4 DEF Planned
  <2>2. /\ w.status = Given(item.status, IF Known(reg, item) THEN row.status ELSE "ACTIVE")
        /\ w.quantity = q /\ w.place = p
        /\ w.mode = Given(item.mode, IF q > 1 THEN "GROUPED" ELSE row.mode)
    BY <2>1
  <2>3. Planned(other, item) =
          [status |-> Given(item.status, w.status), quantity |-> Given(item.quantity, w.quantity),
           place |-> IF ~ item.located THEN w.place ELSE item.place,
           room |-> IF ~ item.located THEN w.place ELSE item.place,
           mode |-> Given(item.mode, IF Given(item.quantity, w.quantity) > 1
                                     THEN "GROUPED" ELSE w.mode)]
    BY <1>1, <1>4 DEF Planned
  <2>4. Given(item.status, w.status) = w.status
    BY <2>2 DEF Given
  <2>5. Given(item.quantity, w.quantity) = q
    BY <2>2 DEF Given
  <2>6. (IF ~ item.located THEN w.place ELSE item.place) = p
    BY <2>2
  <2>7. Given(item.mode, IF q > 1 THEN "GROUPED" ELSE w.mode) = w.mode
    BY <2>2 DEF Given
  <2> HIDE DEF w, q, p
  <2>8. Planned(other, item) = w
    BY <2>1, <2>2, <2>3, <2>4, <2>5, <2>6, <2>7
  <2> QED BY <1>1, <2>8 DEF w
<1> QED BY <1>3, <1>4

\* A file writes the row of each item it holds, and of no other number.
LEMMA WrittenRow ==
  ASSUME NEW reg, NEW f \in Files, NEW excluded, NoRepeats(f, excluded),
         NEW i \in Selected(f, excluded), NEW n \in Numbers, FileItems(f)[i].number = n
  PROVE  Applied(reg, f, excluded)[n] = Planned(reg, FileItems(f)[i])
<1> DEFINE of(m) == {j \in Selected(f, excluded) : FileItems(f)[j].number = m}
<1>1. Applied(reg, f, excluded) =
        [m \in Numbers |-> IF of(m) = {} THEN reg[m] ELSE Planned(reg, FileItems(f)[Max(of(m))])]
  BY DEF Applied
<1>2. of(n) = {i}
  BY DEF NoRepeats
<1>3. i \in Int
  BY ItemsHoldCells DEF HaveCells, Selected
<1>4. Max({i}) = i
  BY <1>3 DEF Max
<1> HIDE DEF of
<1> QED BY <1>1, <1>2, <1>4

LEMMA OtherRow ==
  ASSUME NEW reg, NEW f, NEW excluded, NEW n \in Numbers,
         \A i \in Selected(f, excluded) : FileItems(f)[i].number # n
  PROVE  Applied(reg, f, excluded)[n] = reg[n]
BY DEF Applied

LEMMA AppliedDomain ==
  ASSUME NEW reg, NEW f, NEW excluded
  PROVE  Applied(reg, f, excluded) = [n \in Numbers |-> Applied(reg, f, excluded)[n]]
BY DEF Applied

LEMMA AppliedIsRegistry ==
  ASSUME NEW reg \in Registry, NEW f \in Files, NEW excluded, Accepted(reg, f, excluded)
  PROVE  Applied(reg, f, excluded) \in Registry
<1>1. NoRepeats(f, excluded)
  BY DEF Accepted
<1>2. ASSUME NEW n \in Numbers PROVE Applied(reg, f, excluded)[n] \in {Absent} \cup Position
  <2>1. CASE \A i \in Selected(f, excluded) : FileItems(f)[i].number # n
    BY <2>1, OtherRow DEF Registry
  <2>2. CASE \E i \in Selected(f, excluded) : FileItems(f)[i].number = n
    <3>1. PICK i \in Selected(f, excluded) : FileItems(f)[i].number = n
      BY <2>2
    <3>2. i \in DOMAIN FileItems(f)
      BY DEF Selected
    <3>3. Planned(reg, FileItems(f)[i]) \in Position
      BY <3>2, SoundItems, PlannedPosition
    <3>4. Applied(reg, f, excluded)[n] = Planned(reg, FileItems(f)[i])
      BY <1>1, <3>1, WrittenRow
    <3> QED BY <3>3, <3>4
  <2> QED BY <2>1, <2>2
<1> QED BY <1>2, AppliedDomain DEF Registry

LEMMA ImportStart == ImportInit => ImportTypeOK
BY DEF ImportInit, ImportTypeOK

LEMMA ImportStep == ImportTypeOK /\ [ImportNext]_importVars => ImportTypeOK'
<1> SUFFICES ASSUME ImportTypeOK, [ImportNext]_importVars PROVE ImportTypeOK'
  OBVIOUS
<1>a. position \in Registry /\ accounted \subseteq Numbers /\ chosen \in Files \cup {NoValue}
  BY DEF ImportTypeOK, Registry, Position
<1>b. SUFFICES position' \in Registry /\ accounted' \subseteq Numbers
               /\ chosen' \in Files \cup {NoValue}
  BY DEF ImportTypeOK, Registry, Position
<1>1. ASSUME NEW f \in Files, Preview(f) PROVE <1>b!1
  BY <1>a, <1>1 DEF Preview
<1>2. ASSUME NEW excluded, Import(excluded) PROVE <1>b!1
  <2>1. chosen \in Files /\ Accepted(position, chosen, excluded)
    BY <1>a, <1>2 DEF Import
  <2>2. position' \in Registry
    BY <1>a, <1>2, <2>1, AppliedIsRegistry DEF Import
  <2> QED BY <1>a, <1>2, <2>2 DEF Import
<1>3. CASE GiveUp
  BY <1>a, <1>3 DEF GiveUp
<1>4. ASSUME NEW n \in Numbers, Account(n) \/ ClearPlace(n) PROVE <1>b!1
  <2>1. position[n] \in Position
    BY <1>a, <1>4, KnownRows DEF Account, ClearPlace, Known
  <2>2. position' \in Registry
    <3>1. CASE \E p \in RoomNames : position' = [position EXCEPT ![n].place = p, ![n].room = p]
      <4>1. PICK p \in RoomNames :
              position' = [position EXCEPT ![n] = [position[n] EXCEPT !.place = p, !.room = p]]
        BY <3>1
      <4>2. [position[n] EXCEPT !.place = p, !.room = p] \in Position
        BY <2>1 DEF Position
      <4> QED BY <1>a, <4>1, <4>2 DEF Registry
    <3>2. CASE position' = [position EXCEPT ![n].status = "WRITTEN_OFF", ![n].place = NoValue,
                                            ![n].room = NoValue]
      BY <1>a, <2>1, <3>2 DEF Registry, Position
    <3>3. CASE \/ position' = [position EXCEPT ![n].room = NoValue]
               \/ position' = [position EXCEPT ![n].place = NoValue]
      BY <1>a, <2>1, <3>3 DEF Registry, Position
    <3> QED BY <1>4, <3>1, <3>2, <3>3 DEF Account, ClearPlace
  <2> QED BY <1>a, <1>4, <2>2 DEF Account, ClearPlace
<1>5. CASE UNCHANGED importVars
  BY <1>a, <1>5 DEF importVars
<1> QED BY <1>1, <1>2, <1>3, <1>4, <1>5 DEF ImportNext

LEMMA FilesSettle ==
  ASSUME NEW reg \in Registry, NEW f \in Files, Accepted(reg, f, {}),
         NEW excluded \in SUBSET DOMAIN FileItems(f), Selected(f, excluded) # {}
  PROVE  LET whole == Applied(reg, f, {})
         IN  /\ Accepted(whole, f, excluded)
             /\ Applied(whole, f, excluded) = whole
             /\ Accepted(reg, f, excluded)
             /\ Applied(Applied(reg, f, excluded), f, {}) = whole
<1> DEFINE items == FileItems(f)
           whole == Applied(reg, f, {})
           part == Applied(reg, f, excluded)
<1>1. /\ \A i \in DOMAIN items : ValidRow(items[i])
      /\ NoRepeats(f, {}) /\ NoRepeats(f, excluded)
      /\ Selected(f, {}) = DOMAIN items /\ Selected(f, excluded) \subseteq DOMAIN items
      /\ \A i \in DOMAIN items :
           Planned(reg, items[i]).mode = "INDIVIDUAL" => Planned(reg, items[i]).quantity = 1
      /\ \A i \in DOMAIN items : items[i].unverified => Known(reg, items[i])
  BY DEF Accepted, NoRepeats, Selected
<1>2. \A i \in DOMAIN items :
        items[i].number \in Numbers /\ Planned(reg, items[i]) \in Position
  BY SoundItems, PlannedPosition
<1>3. \A i \in DOMAIN items : whole[items[i].number] = Planned(reg, items[i])
  BY <1>1, <1>2, WrittenRow
<1>4. \A i \in DOMAIN items :
        Planned(whole, items[i]) = Planned(reg, items[i]) /\ Known(whole, items[i])
  <2> HIDE DEF whole, items
  <2> QED BY <1>2, <1>3, PlannedAgain
<1>5. Accepted(whole, f, excluded)
  <2> HIDE DEF whole
  <2> QED BY <1>1, <1>4 DEF Accepted
<1>6. Accepted(reg, f, excluded)
  BY <1>1 DEF Accepted
<1>7. Applied(whole, f, excluded) = whole
  <2>1. ASSUME NEW n \in Numbers PROVE Applied(whole, f, excluded)[n] = whole[n]
    <3>1. CASE \A i \in Selected(f, excluded) : items[i].number # n
      BY <3>1, OtherRow
    <3>2. ASSUME NEW i \in Selected(f, excluded), items[i].number = n
          PROVE  Applied(whole, f, excluded)[n] = whole[n]
      <4>1. i \in DOMAIN items
        BY <1>1
      <4>2. Applied(whole, f, excluded)[n] = Planned(whole, items[i])
        BY <1>1, <3>2, WrittenRow
      <4> QED BY <1>3, <1>4, <3>2, <4>1, <4>2
    <3> QED BY <3>1, <3>2
  <2>2. /\ whole = [n \in Numbers |-> whole[n]]
        /\ Applied(whole, f, excluded) = [n \in Numbers |-> Applied(whole, f, excluded)[n]]
    BY AppliedDomain
  <2> HIDE DEF whole
  <2> QED BY <2>1, <2>2
<1>8. Applied(part, f, {}) = whole
  <2>1. ASSUME NEW n \in Numbers PROVE Applied(part, f, {})[n] = whole[n]
    <3>1. CASE \A i \in DOMAIN items : items[i].number # n
      <4>1. Applied(part, f, {})[n] = part[n] /\ whole[n] = reg[n]
        BY <1>1, <3>1, OtherRow
      <4>2. part[n] = reg[n]
        BY <1>1, <3>1, OtherRow
      <4> QED BY <4>1, <4>2
    <3>2. ASSUME NEW i \in DOMAIN items, items[i].number = n
          PROVE  Applied(part, f, {})[n] = whole[n]
      <4>1. Applied(part, f, {})[n] = Planned(part, items[i])
        BY <1>1, <3>2, WrittenRow
      <4>2. Planned(part, items[i]) = Planned(reg, items[i])
        <5>1. CASE i \in Selected(f, excluded)
          <6>1. part[items[i].number] = Planned(reg, items[i])
            BY <1>1, <1>2, <5>1, WrittenRow
          <6> HIDE DEF part, items
          <6> QED BY <1>2, <6>1, PlannedAgain
        <5>2. CASE i \notin Selected(f, excluded)
          <6>1. \A j \in Selected(f, excluded) : items[j].number # n
            BY <1>1, <3>2, <5>2 DEF NoRepeats
          <6>2. part[items[i].number] = reg[items[i].number]
            BY <3>2, <6>1, OtherRow
          <6> HIDE DEF part, items
          <6> QED BY <6>2, PlannedOfRow
        <5> QED BY <5>1, <5>2
      <4> QED BY <1>3, <3>2, <4>1, <4>2
    <3> QED BY <3>1, <3>2
  <2>2. /\ whole = [n \in Numbers |-> whole[n]]
        /\ Applied(part, f, {}) = [n \in Numbers |-> Applied(part, f, {})[n]]
    BY AppliedDomain
  <2> HIDE DEF whole, part
  <2> QED BY <2>1, <2>2
<1> QED BY <1>5, <1>6, <1>7, <1>8

\* Every reachable registry holds sound positions, whatever files were applied.
THEOREM RegistryTypeCorrect == ImportSpec => []ImportTypeOK
BY ImportStart, ImportStep, PTL DEF ImportSpec

\* A file applied once can be applied again, as a whole or in part, and
\* changes nothing more; to import a part first and then the whole comes to
\* the same (admin_assets.py:539-667).
THEOREM ImportsSettle == ImportSpec => []ImportSettles
<1>1. ImportTypeOK => ImportSettles
  <2> SUFFICES ASSUME ImportTypeOK, chosen # NoValue, Accepted(position, chosen, {})
               PROVE  ImportSettles
    BY DEF ImportSettles
  <2>1. position \in Registry /\ chosen \in Files
    BY DEF ImportTypeOK, Registry, Position
  <2> QED BY <2>1, FilesSettle DEF ImportSettles
<1> QED BY <1>1, RegistryTypeCorrect, PTL
=============================================================================
