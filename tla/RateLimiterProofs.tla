------------------------- MODULE RateLimiterProofs -------------------------
(***************************************************************************)
(* What the rate limiter admits and refuses, for any limit, window, number *)
(* of clients and timing of requests and cleanups.                         *)
(***************************************************************************)
EXTENDS RateLimiter, FiniteSetTheorems, SequenceTheorems, WellFoundedInduction, TLAPS

\* No bucket exists at first (newRateLimiter).
LEMMA InitInd == Init => IndInv
  <1> SUFFICES ASSUME Init PROVE IndInv
    OBVIOUS
  <1>1. TypeOK
    BY LimiterAssumption DEF Init, TypeOK, Time
  <1>2. ASSUME NEW c \in Clients
        PROVE  /\ Sorted(c)
               /\ \E opened \in SUBSET (1..Len(admitted[c])) : Windows(c, opened)
    <2>1. 1..Len(admitted[c]) = {} /\ buckets[c] = None
      BY DEF Init
    <2>2. Windows(c, {})
      BY <2>1 DEF Windows
    <2>3. QED
      BY <2>1, <2>2 DEF Sorted
  <1>3. QED
    BY <1>1, <1>2 DEF IndInv

\* The numbers behind the records and the clock.
LEMMA Types ==
    ASSUME TypeOK, NEW c \in Clients
    PROVE  /\ now \in Nat /\ now <= MaxTime
           /\ Len(admitted[c]) \in Nat
           /\ \A i \in 1..Len(admitted[c]) : admitted[c][i] \in Nat
           /\ buckets[c] # None =>
                /\ buckets[c] \in Bucket
                /\ buckets[c].count \in Nat /\ 1 <= buckets[c].count
                /\ buckets[c].count <= Limit
                /\ buckets[c].end \in Nat
  <1>1. now \in Nat /\ now <= MaxTime
    BY LimiterAssumption DEF TypeOK, Time
  <1>2. admitted[c] \in Seq(Time)
    BY DEF TypeOK
  <1>3. /\ Len(admitted[c]) \in Nat
        /\ \A i \in 1..Len(admitted[c]) : admitted[c][i] \in Time
    BY <1>2, ElementOfSeq
  <1>4. Time \subseteq Nat
    BY LimiterAssumption DEF Time
  <1>5. buckets[c] # None => buckets[c] \in Bucket
    BY DEF TypeOK
  <1>6. \A b \in Bucket : b.count \in Nat /\ 1 <= b.count /\ b.count <= Limit /\ b.end \in Nat
    BY LimiterAssumption DEF Bucket
  <1>7. QED
    BY <1>1, <1>3, <1>4, <1>5, <1>6

\* One more entry, in time, keeps the readings in order.
LEMMA AppendSorted ==
    ASSUME TypeOK, NEW c \in Clients, Sorted(c), now' = now,
           admitted'[c] = Append(admitted[c], now)
    PROVE  /\ Sorted(c)'
           /\ Len(admitted'[c]) = Len(admitted[c]) + 1
           /\ admitted'[c][Len(admitted[c]) + 1] = now
           /\ \A i \in 1..Len(admitted[c]) : admitted'[c][i] = admitted[c][i]
  <1>1. /\ now \in Nat /\ Len(admitted[c]) \in Nat
        /\ \A i \in 1..Len(admitted[c]) : admitted[c][i] \in Nat
    BY Types
  <1>2. admitted[c] \in Seq(Time) /\ now \in Time
    BY DEF TypeOK
  <1>3. /\ Len(admitted'[c]) = Len(admitted[c]) + 1
        /\ admitted'[c][Len(admitted[c]) + 1] = now
        /\ \A i \in 1..Len(admitted[c]) : admitted'[c][i] = admitted[c][i]
    BY <1>2, AppendProperties
  <1>4. \A i \in 1..Len(admitted'[c]) :
          i = Len(admitted[c]) + 1 \/ i \in 1..Len(admitted[c])
    BY <1>1, <1>3
  <1>5. ASSUME NEW i \in 1..Len(admitted'[c]) PROVE admitted'[c][i] <= now
    <2>1. CASE i = Len(admitted[c]) + 1
      BY <1>1, <1>3, <2>1
    <2>2. CASE i \in 1..Len(admitted[c])
      BY <1>3, <2>2 DEF Sorted
    <2>3. QED
      BY <1>4, <2>1, <2>2
  <1>6. ASSUME NEW i \in 1..Len(admitted'[c]), NEW j \in i..Len(admitted'[c])
        PROVE  admitted'[c][i] <= admitted'[c][j]
    <2>1. CASE j = Len(admitted[c]) + 1
      BY <1>3, <1>5, <2>1
    <2>2. CASE j # Len(admitted[c]) + 1
      <3>1. i \in 1..Len(admitted[c]) /\ j \in i..Len(admitted[c]) /\ j \in 1..Len(admitted[c])
        BY <1>1, <1>3, <2>2
      <3>2. QED
        BY <1>3, <3>1 DEF Sorted
    <2>3. QED
      BY <2>1, <2>2
  <1>7. QED
    BY <1>3, <1>5, <1>6 DEF Sorted

\* Once the bucket is gone or expired, so is every window.
LEMMA LastIsOver ==
    ASSUME TypeOK, NEW c \in Clients, Sorted(c),
           buckets[c] = None \/ now > buckets[c].end,
           NEW opened \in SUBSET (1..Len(admitted[c])), Windows(c, opened)
    PROVE  \A j \in opened : admitted[c][j] + Window < now
  <1>n. PICK n \in Nat : n = Len(admitted[c])
    BY Types
  <1>0. /\ now \in Nat /\ Window \in Nat
        /\ \A i \in 1..n : admitted[c][i] \in Nat
        /\ buckets[c] # None => buckets[c].count \in Nat /\ buckets[c].end \in Nat
    BY <1>n, Types, LimiterAssumption
  <1>1. CASE buckets[c] = None
    BY <1>1 DEF Windows
  <1>2. CASE buckets[c] # None
    <2> DEFINE first == n - buckets[c].count + 1
    <2>1. /\ first \in opened /\ admitted[c][first] = buckets[c].end - Window
          /\ \A j \in opened : j <= first
      BY <1>n, <1>2 DEF Windows
    <2> HIDE DEF first
    <2>2. \A j \in opened : admitted[c][j] <= admitted[c][first]
      <3>1. \A j \in opened : j \in 1..n /\ first \in j..n
        BY <1>n, <2>1
      <3>2. QED
        BY <1>n, <3>1 DEF Sorted
    <2>3. \A j \in opened : admitted[c][j] \in Nat
      BY <1>0, <1>n
    <2>4. QED
      BY <1>0, <1>2, <2>1, <2>2, <2>3
  <1>3. QED
    BY <1>1, <1>2

\* A request is admitted in the window of its bucket, or opens a new one after
\* the last (allow).
LEMMA AllowInd ==
    ASSUME IndInv, NEW c \in Clients, Allow(c)
    PROVE  IndInv'
  <1>0. TypeOK /\ Sorted(c)
    BY DEF IndInv
  <1>n. PICK n \in Nat : n = Len(admitted[c])
    BY <1>0, Types
  <1>b. PICK b : b = buckets'[c]
    OBVIOUS
  <1>1. /\ now' = now
        /\ admitted' = [admitted EXCEPT ![c] = Append(admitted[c], now)]
        /\ \/ /\ buckets[c] = None \/ now > buckets[c].end
              /\ buckets' = [buckets EXCEPT ![c] = [count |-> 1, end |-> now + Window]]
           \/ /\ buckets[c] # None /\ ~(now > buckets[c].end)
              /\ ~(buckets[c].count >= Limit)
              /\ buckets' = [buckets EXCEPT ![c] =
                    [buckets[c] EXCEPT !.count = buckets[c].count + 1]]
    BY DEF Allow, Admit, Expired, Full
  <1>2. /\ admitted'[c] = Append(admitted[c], now)
        /\ \A d \in Clients \ {c} : admitted'[d] = admitted[d] /\ buckets'[d] = buckets[d]
    BY <1>0, <1>1 DEF TypeOK
  <1>3. \/ /\ buckets[c] = None \/ now > buckets[c].end
           /\ b = [count |-> 1, end |-> now + Window]
        \/ /\ buckets[c] # None /\ ~(now > buckets[c].end)
           /\ ~(buckets[c].count >= Limit)
           /\ b = [buckets[c] EXCEPT !.count = buckets[c].count + 1]
    BY <1>0, <1>1, <1>b DEF TypeOK
  <1>4. b \in Bucket /\ b # None
    <2>1. [count |-> 1, end |-> now + Window] \in Bucket
      BY <1>0, Types, LimiterAssumption DEF Bucket
    <2>2. buckets[c] # None /\ ~(buckets[c].count >= Limit) =>
            [buckets[c] EXCEPT !.count = buckets[c].count + 1] \in Bucket
      BY <1>0, Types, LimiterAssumption DEF Bucket
    <2>3. QED
      BY <1>3, <2>1, <2>2, LimiterAssumption
  <1>c. b.count \in Nat /\ b.end \in Nat
    BY <1>4, LimiterAssumption DEF Bucket
  <1>5. TypeOK'
    <2>1. buckets' \in [Clients -> Bucket \cup {None}]
      BY <1>0, <1>1, <1>2, <1>4, <1>b DEF TypeOK
    <2>2. admitted' \in [Clients -> Seq(Time)]
      <3>1. Append(admitted[c], now) \in Seq(Time)
        BY <1>0, AppendProperties DEF TypeOK
      <3>2. QED
        BY <1>0, <1>1, <3>1 DEF TypeOK
    <2>3. QED
      BY <1>0, <1>1, <2>1, <2>2 DEF TypeOK
  <1>6. ASSUME NEW d \in Clients \ {c}
        PROVE  /\ Sorted(d)'
               /\ \E opened \in SUBSET (1..Len(admitted[d]))' : Windows(d, opened)'
    <2>1. admitted'[d] = admitted[d] /\ buckets'[d] = buckets[d] /\ now' = now
      BY <1>1, <1>2
    <2>2. Sorted(d)'
      BY <2>1 DEF IndInv, Sorted
    <2>3. PICK opened \in SUBSET (1..Len(admitted[d])) : Windows(d, opened)
      BY DEF IndInv
    <2>4. Windows(d, opened)'
      BY <2>1, <2>3 DEF Windows
    <2>5. QED
      BY <2>1, <2>2, <2>4
  <1>7. Sorted(c)'
    BY <1>0, <1>1, <1>2, AppendSorted
  <1>8. \E opened \in SUBSET (1..Len(admitted[c]))' : Windows(c, opened)'
    <2>1. PICK opened \in SUBSET (1..n) : Windows(c, opened)
      BY <1>n DEF IndInv
    <2>2. /\ Len(admitted'[c]) = n + 1
          /\ admitted'[c][n + 1] = now
          /\ \A i \in 1..n : admitted'[c][i] = admitted[c][i]
      BY <1>0, <1>1, <1>2, <1>n, AppendSorted
    <2>3. /\ n \in Nat /\ now \in Nat /\ Window \in Nat /\ Limit \in Nat \ {0}
          /\ \A i \in 1..n : admitted[c][i] \in Nat
          /\ buckets[c] # None => buckets[c].count \in 1..Limit /\ buckets[c].end \in Nat
      BY <1>0, <1>n, Types, LimiterAssumption
    <2>a. ASSUME NEW S \in SUBSET (1..(n + 1)),
                 \A i \in 1..(n + 1) : \E j \in S : i - Limit < j /\ j <= i,
                 b # None => n + 1 - b.count + 1 \in S
                          /\ admitted'[c][n + 1 - b.count + 1] = b.end - Window
                          /\ \A j \in S : j <= n + 1 - b.count + 1,
                 b # None,
                 \A j, k \in S : j < k => admitted'[c][j] + Window < admitted'[c][k]
          PROVE  Windows(c, S)'
      <3>1. /\ \A i \in 1..Len(admitted'[c]) : \E j \in S : i - Limit < j /\ j <= i
            /\ b # None =>
                 /\ Len(admitted'[c]) - b.count + 1 \in S
                 /\ admitted'[c][Len(admitted'[c]) - b.count + 1] = b.end - Window
                 /\ \A j \in S : j <= Len(admitted'[c]) - b.count + 1
        <4>1. Len(admitted'[c]) = n + 1
          BY <2>2
        <4>2. \A i \in 1..Len(admitted'[c]) : \E j \in S : i - Limit < j /\ j <= i
          BY <2>a, <4>1, Zenon
        <4>3. Len(admitted'[c]) - b.count + 1 = n + 1 - b.count + 1
          BY <1>c, <4>1
        <4>4. QED
          BY <2>a, <4>2, <4>3
      <3>2. QED
        BY <1>b, <2>a, <3>1 DEF Windows
    <2>4. CASE buckets[c] = None \/ now > buckets[c].end
      <3>0. PICK more : more = opened \cup {n + 1}
        OBVIOUS
      <3>1. \A j \in opened : admitted[c][j] + Window < now
        BY <1>0, <1>n, <2>1, <2>4, LastIsOver
      <3>2. \A i \in 1..(n + 1) : \E j \in more : i - Limit < j /\ j <= i
        <4>1. \A i \in 1..n : \E j \in opened : i - Limit < j /\ j <= i
          BY <1>n, <2>1 DEF Windows
        <4>2. n + 1 - Limit < n + 1
          BY <2>3
        <4>3. \A i \in 1..(n + 1) : i \in 1..n \/ i = n + 1
          BY <2>3
        <4>4. n + 1 \in more /\ opened \subseteq more /\ n + 1 <= n + 1
          BY <2>3, <3>0
        <4>5. ASSUME NEW i \in 1..(n + 1)
              PROVE  \E j \in more : i - Limit < j /\ j <= i
          <5>1. CASE i \in 1..n
            BY <2>3, <4>1, <4>4, <5>1
          <5>2. CASE i = n + 1
            BY <2>3, <4>2, <4>4, <5>2
          <5>3. QED
            BY <4>3, <5>1, <5>2
        <4>6. QED
          BY <4>5
      <3>3. ASSUME NEW j \in more, NEW k \in more, j < k
            PROVE  admitted'[c][j] + Window < admitted'[c][k]
        <4>1. j \in opened /\ j \in 1..n
          BY <2>3, <3>0, <3>3
        <4>2. CASE k = n + 1
          BY <2>2, <3>1, <4>1, <4>2
        <4>3. CASE k \in opened
          BY <2>1, <2>2, <3>3, <4>1, <4>3 DEF Windows
        <4>4. QED
          BY <3>0, <4>2, <4>3
      <3>4. b.count = 1 /\ b.end = now + Window
        BY <1>3, <2>4
      <3>5. /\ n + 1 - b.count + 1 = n + 1
            /\ b.end - Window = now
            /\ \A j \in more : j <= n + 1
        BY <2>3, <3>0, <3>4
      <3>6. n + 1 \in more
        BY <3>0
      <3>7. more \in SUBSET (1..(n + 1))
        <4>1. opened \subseteq 1..(n + 1)
          BY <2>3
        <4>2. n + 1 \in 1..(n + 1)
          BY <2>3
        <4>3. QED
          BY <3>0, <4>1, <4>2
      <3>8. Windows(c, more)'
        <4>1. /\ b # None => n + 1 - b.count + 1 \in more
                          /\ admitted'[c][n + 1 - b.count + 1] = b.end - Window
                          /\ \A j \in more : j <= n + 1 - b.count + 1
              /\ b # None
          BY <1>4, <2>2, <3>5, <3>6
        <4>2. \A j, k \in more : j < k => admitted'[c][j] + Window < admitted'[c][k]
          BY <3>3
        <4>3. QED
          BY <2>a, <3>2, <3>7, <4>1, <4>2
      <3>9. QED
        BY <2>2, <3>7, <3>8
    <2>5. CASE ~(buckets[c] = None \/ now > buckets[c].end)
      <3> DEFINE first == n - buckets[c].count + 1
      <3>1. b.count = buckets[c].count + 1 /\ b.end = buckets[c].end
        BY <1>0, <1>3, <2>5, Types DEF Bucket
      <3>2. /\ first \in opened /\ admitted[c][first] = buckets[c].end - Window
            /\ \A j \in opened : j <= first
        BY <1>n, <2>1, <2>5 DEF Windows
      <3>3. first \in 1..n /\ n + 1 - b.count + 1 = first
        BY <2>3, <2>5, <3>1, <3>2
      <3>4. n + 1 - Limit < first /\ first <= n + 1
        BY <1>3, <2>3, <2>5, <3>3
      <3> HIDE DEF first
      <3>5. \A i \in 1..(n + 1) : \E j \in opened : i - Limit < j /\ j <= i
        <4>1. \A i \in 1..n : \E j \in opened : i - Limit < j /\ j <= i
          BY <1>n, <2>1 DEF Windows
        <4>2. \A i \in 1..(n + 1) : i \in 1..n \/ i = n + 1
          BY <2>3
        <4>3. first <= n + 1 /\ first \in opened /\ n + 1 - Limit < first
          BY <3>2, <3>4
        <4>4. ASSUME NEW i \in 1..(n + 1)
              PROVE  \E j \in opened : i - Limit < j /\ j <= i
          <5>1. CASE i \in 1..n
            BY <2>3, <4>1, <5>1
          <5>2. CASE i = n + 1
            BY <2>3, <4>3, <5>2
          <5>3. QED
            BY <4>2, <5>1, <5>2
        <4>5. QED
          BY <4>4
      <3>6. ASSUME NEW j \in opened, NEW k \in opened, j < k
            PROVE  admitted'[c][j] + Window < admitted'[c][k]
        BY <2>1, <2>2, <3>6 DEF Windows
      <3>7. opened \in SUBSET (1..(n + 1))
        BY <2>3
      <3>8. admitted'[c][first] = b.end - Window
        BY <2>2, <3>1, <3>2, <3>3
      <3>9. Windows(c, opened)'
        <4>1. /\ b # None => n + 1 - b.count + 1 \in opened
                          /\ admitted'[c][n + 1 - b.count + 1] = b.end - Window
                          /\ \A j \in opened : j <= n + 1 - b.count + 1
              /\ b # None
          BY <1>4, <3>2, <3>3, <3>8
        <4>2. \A j, k \in opened : j < k => admitted'[c][j] + Window < admitted'[c][k]
          BY <3>6
        <4>3. QED
          BY <2>a, <3>5, <3>7, <4>1, <4>2
      <3>10. QED
        BY <2>2, <3>7, <3>9
    <2>6. QED
      BY <2>4, <2>5
  <1>9. QED
    BY <1>5, <1>6, <1>7, <1>8 DEF IndInv

\* Dropping a bucket loses nothing: its window is over (cleanup).
LEMMA CleanupInd ==
    ASSUME IndInv, Cleanup
    PROVE  IndInv'
  <1>1. /\ TypeOK /\ now' = now /\ admitted' = admitted
        /\ \A d \in Clients :
              buckets'[d] = IF buckets[d] # None /\ now > buckets[d].end
                            THEN None ELSE buckets[d]
    BY DEF IndInv, Cleanup, Expired
  <1>2. TypeOK'
    <2>1. buckets' \in [Clients -> Bucket \cup {None}]
      BY <1>1 DEF TypeOK, Cleanup
    <2>2. QED
      BY <1>1, <2>1 DEF TypeOK
  <1>3. ASSUME NEW d \in Clients
        PROVE  /\ Sorted(d)'
               /\ \E opened \in SUBSET (1..Len(admitted[d]))' : Windows(d, opened)'
    <2>1. Sorted(d) /\ Sorted(d)'
      BY <1>1 DEF IndInv, Sorted
    <2>2. PICK opened \in SUBSET (1..Len(admitted[d])) : Windows(d, opened)
      BY DEF IndInv
    <2>3. Windows(d, opened)'
      <3>1. CASE buckets'[d] = buckets[d]
        BY <1>1, <2>2, <3>1 DEF Windows
      <3>2. CASE buckets'[d] # buckets[d]
        <4>1. buckets[d] # None /\ now > buckets[d].end /\ buckets'[d] = None
          BY <1>1, <3>2
        <4>2. \A j \in opened : admitted[d][j] + Window < now
          BY <1>1, <2>1, <2>2, <4>1, LastIsOver
        <4>3. QED
          BY <1>1, <2>2, <4>1, <4>2 DEF Windows
      <3>3. QED
        BY <3>1, <3>2
    <2>4. QED
      BY <1>1, <2>1, <2>3
  <1>4. QED
    BY <1>2, <1>3 DEF IndInv

\* Time passing changes no bucket.
LEMMA TickInd ==
    ASSUME IndInv, Tick
    PROVE  IndInv'
  <1>1. /\ TypeOK /\ now' = now + 1 /\ now < MaxTime
        /\ admitted' = admitted /\ buckets' = buckets
    BY DEF IndInv, Tick
  <1>2. TypeOK'
    BY <1>1, LimiterAssumption DEF TypeOK, Time
  <1>3. ASSUME NEW d \in Clients
        PROVE  /\ Sorted(d)'
               /\ \E opened \in SUBSET (1..Len(admitted[d]))' : Windows(d, opened)'
    <2>0. /\ now \in Nat /\ Window \in Nat
          /\ \A i \in 1..Len(admitted[d]) : admitted[d][i] \in Nat
      BY <1>1, Types, LimiterAssumption
    <2>1. Sorted(d)'
      BY <1>1, <2>0 DEF IndInv, Sorted
    <2>2. PICK opened \in SUBSET (1..Len(admitted[d])) : Windows(d, opened)
      BY DEF IndInv
    <2>3. buckets[d] = None => \A j \in opened : admitted[d][j] + Window < now + 1
      <3>1. buckets[d] = None => \A j \in opened : admitted[d][j] + Window < now
        BY <2>2 DEF Windows
      <3>2. \A j \in opened : admitted[d][j] \in Nat
        BY <2>0
      <3>3. \A u \in Nat : u + Window < now => u + Window < now + 1
        BY <2>0
      <3>4. QED
        BY <3>1, <3>2, <3>3
    <2>4. Windows(d, opened)'
      BY <1>1, <2>2, <2>3 DEF Windows
    <2>5. QED
      BY <1>1, <2>1, <2>4
  <1>4. QED
    BY <1>2, <1>3 DEF IndInv

\* Whatever clients ask for and whenever cleanup runs, admitted requests fall
\* into windows that do not overlap and hold at most Limit of them each.
THEOREM Inductive == Spec => []IndInv
  <1>1. Init => IndInv
    BY InitInd
  <1>2. IndInv /\ [Next]_vars => IndInv'
    <2> SUFFICES ASSUME IndInv, [Next]_vars PROVE IndInv'
      OBVIOUS
    <2>1. CASE \E r \in Requests : Allow(realIP(r))
      BY <2>1, AllowInd, LimiterAssumption
    <2>2. CASE Cleanup
      BY <2>2, CleanupInd
    <2>3. CASE Tick
      BY <2>3, TickInd
    <2>4. CASE UNCHANGED vars
      BY <2>4 DEF IndInv, TypeOK, Sorted, Windows, vars
    <2>5. QED
      BY <2>1, <2>2, <2>3, <2>4 DEF Next
  <1>3. QED
    BY <1>1, <1>2, PTL DEF Spec

\* Every bucket has a count up to the limit and a reading of the clock.
THEOREM TypeCorrect == Spec => []TypeOK
  <1>1. IndInv => TypeOK
    BY DEF IndInv
  <1>2. QED
    BY <1>1, Inductive, PTL

----------------------------------------------------------------------------
\* A set of natural numbers that is not empty has a least one.
LEMMA Least ==
    ASSUME NEW S \in SUBSET Nat, S # {}
    PROVE  \E m \in S : \A k \in S : m <= k
  <1> DEFINE R == OpToRel(<, Nat)
  <1>1. IsWellFoundedOn(R, Nat)
    BY NatLessThanWellFounded
  <1>2. R = {ss \in Nat \X Nat : ss[1] < ss[2]}
    BY DEF OpToRel
  <1> HIDE DEF R
  <1>3. PICK m \in S : \A k \in S : ~(<<k, m>> \in R)
    BY <1>1, WFMin
  <1>4. ASSUME NEW k \in S PROVE m <= k
    <2>1. m \in Nat /\ k \in Nat /\ <<k, m>> \in Nat \X Nat /\ ~(<<k, m>> \in R)
      BY <1>3
    <2>2. ~(k < m)
      BY <1>2, <2>1
    <2>3. QED
      BY <2>1, <2>2
  <1>5. QED
    BY <1>4

\* Twice Limit requests later, a whole window has passed: two windows were
\* opened in between.
LEMMA TwoWindows ==
    ASSUME TypeOK, NEW c \in Clients, Sorted(c),
           NEW opened \in SUBSET (1..Len(admitted[c])), Windows(c, opened),
           NEW i \in 1..Len(admitted[c]), NEW k \in 1..Len(admitted[c]),
           i + 2 * Limit <= k
    PROVE  admitted[c][i] + Window < admitted[c][k]
  <1>n. PICK n \in Nat : n = Len(admitted[c])
    BY Types
  <1>0. /\ Window \in Nat /\ Limit \in Nat \ {0}
        /\ \A m \in 1..n : admitted[c][m] \in Nat
    BY <1>n, Types, LimiterAssumption
  <1>w. /\ \A m \in 1..n : \E j \in opened : m - Limit < j /\ j <= m
        /\ \A p, q \in opened : p < q => admitted[c][p] + Window < admitted[c][q]
    BY <1>n DEF Windows
  <1>s. \A p \in 1..n : \A q \in p..n : admitted[c][p] <= admitted[c][q]
    BY <1>n DEF Sorted
  <1>i. i \in 1..n /\ k \in 1..n /\ i + 2 * Limit <= k
    BY <1>n
  <1>1. i + Limit \in 1..n
    BY <1>0, <1>i
  <1>2. PICK p \in opened : (i + Limit) - Limit < p /\ p <= i + Limit
    BY <1>1, <1>w
  <1>3. p \in 1..n /\ i < p /\ p <= i + Limit
    BY <1>0, <1>i, <1>2, <1>n
  <1>4. PICK q \in opened : k - Limit < q /\ q <= k
    BY <1>i, <1>w
  <1>5. q \in 1..n /\ k - Limit < q /\ q <= k
    BY <1>4, <1>n
  <1>6. p < q /\ p \in i..n /\ k \in q..n
    BY <1>0, <1>i, <1>3, <1>5
  <1>7. admitted[c][p] + Window < admitted[c][q]
    BY <1>w, <1>2, <1>4, <1>6
  <1>8. admitted[c][i] <= admitted[c][p] /\ admitted[c][q] <= admitted[c][k]
    BY <1>s, <1>i, <1>5, <1>6
  <1>9. /\ admitted[c][i] \in Nat /\ admitted[c][p] \in Nat
        /\ admitted[c][q] \in Nat /\ admitted[c][k] \in Nat /\ Window \in Nat
    BY <1>0, <1>i, <1>3, <1>5
  <1>10. \A u, v, w, x, y \in Nat : u <= v /\ v + y < w /\ w <= x => u + y < x
    OBVIOUS
  <1>11. QED
    BY <1>7, <1>8, <1>9, <1>10

\* However the requests fall, no span as long as a window lets more than
\* twice the limit of one client through (allow, cleanup).
THEOREM Bounded == Spec => []AtMostTwice
  <1>1. IndInv => AtMostTwice
    <2> SUFFICES ASSUME IndInv, NEW c \in Clients, NEW t \in Time
                 PROVE  InWindow(c, t) <= 2 * Limit
      BY DEF AtMostTwice
    <2>1. TypeOK /\ Sorted(c)
      BY DEF IndInv
    <2>2. PICK opened \in SUBSET (1..Len(admitted[c])) : Windows(c, opened)
      BY DEF IndInv
    <2>n. PICK n \in Nat : n = Len(admitted[c])
      BY <2>1, Types
    <2>3. /\ Window \in Nat /\ Limit \in Nat \ {0} /\ t \in Nat
          /\ \A m \in 1..n : admitted[c][m] \in Nat
      BY <2>1, <2>n, Types, LimiterAssumption DEF Time
    <2>4. PICK S : S = {i \in 1..n : t <= admitted[c][i] /\ admitted[c][i] <= t + Window}
      OBVIOUS
    <2>5. InWindow(c, t) = Cardinality(S)
      BY <2>4, <2>n DEF InWindow
    <2>6. CASE S = {}
      BY <2>3, <2>5, <2>6, FS_EmptySet
    <2>7. CASE S # {}
      <3>1. S \in SUBSET Nat
        BY <2>4
      <3>2. PICK m \in S : \A k \in S : m <= k
        BY <2>7, <3>1, Least
      <3>h. PICK h : h = m + 2 * Limit - 1
        OBVIOUS
      <3>3. ASSUME NEW k \in S PROVE k \in m..h
        <4>1. /\ m \in 1..n /\ k \in 1..n /\ m <= k
              /\ t <= admitted[c][m] /\ admitted[c][k] <= t + Window
          BY <2>4, <3>2
        <4>2. admitted[c][m] \in Nat /\ admitted[c][k] \in Nat
          BY <2>3, <4>1
        <4>3. ~(m + 2 * Limit <= k)
          <5>1. m + 2 * Limit <= k => admitted[c][m] + Window < admitted[c][k]
            BY <2>1, <2>2, <2>n, <4>1, TwoWindows
          <5>2. QED
            BY <2>3, <4>1, <4>2, <5>1
        <4>4. QED
          BY <2>3, <3>h, <4>1, <4>3
      <3>4. m \in Int /\ h \in Int
        BY <2>3, <3>1, <3>h
      <3>5. /\ IsFiniteSet(m..h)
            /\ Cardinality(m..h) = 2 * Limit
        <4>1. /\ IsFiniteSet(m..h)
              /\ Cardinality(m..h) =
                    IF m > h THEN 0 ELSE h - m + 1
          BY <3>4, FS_Interval
        <4>2. QED
          BY <2>3, <3>4, <3>h, <4>1
      <3>6. Cardinality(S) <= Cardinality(m..h)
        BY <3>3, <3>5, FS_Subset
      <3>7. QED
        BY <2>5, <3>5, <3>6
    <2>8. QED
      BY <2>6, <2>7
  <1>2. QED
    BY <1>1, Inductive, PTL

\* A refused client has had its limit within the last window: cleanup, other
\* clients and earlier windows cost it nothing (allow returns false).
THEOREM Earned == Spec => []RefusalsEarned
  <1>1. IndInv => RefusalsEarned
    <2> SUFFICES ASSUME IndInv, NEW c \in Clients, Refuses(c)
                 PROVE  InWindow(c, now - Window) >= Limit
      BY DEF RefusalsEarned
    <2>1. TypeOK /\ Sorted(c)
      BY DEF IndInv
    <2>n. PICK n \in Nat : n = Len(admitted[c])
      BY <2>1, Types
    <2>2. PICK opened \in SUBSET (1..n) : Windows(c, opened)
      BY <2>n DEF IndInv
    <2>3. /\ Window \in Nat /\ Limit \in Nat \ {0} /\ now \in Nat
          /\ \A m \in 1..n : admitted[c][m] \in Nat
      BY <2>1, <2>n, Types, LimiterAssumption
    <2>4. /\ buckets[c] # None /\ buckets[c].end \in Nat
          /\ buckets[c].count = Limit /\ now <= buckets[c].end
      BY <2>1, <2>3, Types DEF Refuses, Expired, Full
    <2>5. PICK first : first = n - Limit + 1
      OBVIOUS
    <2>6. first \in 1..n /\ admitted[c][first] = buckets[c].end - Window
      BY <2>2, <2>4, <2>5, <2>n DEF Windows
    <2>7. PICK S : S = {i \in 1..n : now - Window <= admitted[c][i]
                                     /\ admitted[c][i] <= now - Window + Window}
      OBVIOUS
    <2>8. InWindow(c, now - Window) = Cardinality(S)
      BY <2>7, <2>n DEF InWindow
    <2>9. ASSUME NEW i \in first..n PROVE i \in S
      <3>1. i \in 1..n /\ admitted[c][i] \in Nat
        BY <2>3, <2>6
      <3>2. admitted[c][first] <= admitted[c][i] /\ admitted[c][i] <= now
        BY <2>1, <2>6, <2>n, <3>1 DEF Sorted
      <3>3. now - Window <= admitted[c][i] /\ admitted[c][i] <= now - Window + Window
        BY <2>3, <2>4, <2>6, <3>1, <3>2
      <3>4. QED
        BY <2>7, <3>1, <3>3
    <2>10. IsFiniteSet(S)
      <3>1. IsFiniteSet(1..n)
        BY FS_Interval
      <3>2. S \in SUBSET (1..n)
        BY <2>7
      <3>3. QED
        BY <3>1, <3>2, FS_Subset
    <2>11. Cardinality(first..n) <= Cardinality(S)
      BY <2>9, <2>10, FS_Subset
    <2>12. Cardinality(first..n) = Limit
      <3>1. Cardinality(first..n) = IF first > n THEN 0 ELSE n - first + 1
        BY <2>6, FS_Interval
      <3>2. QED
        BY <2>3, <2>5, <2>6, <3>1
    <2>13. Cardinality(S) \in Nat
      BY <2>10, FS_CardinalityType
    <2>14. QED
      BY <2>3, <2>8, <2>11, <2>12, <2>13
  <1>2. QED
    BY <1>1, Inductive, PTL

=============================================================================
