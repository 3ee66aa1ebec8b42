----------------------------- MODULE PagesProofs -----------------------------
(***************************************************************************)
(* What the pages show, for any number of users, vendors, items and        *)
(* purchases, and whatever the shop does between the queries of a page.    *)
(***************************************************************************)
EXTENDS Pages, FiniteSetTheorems, FunctionTheorems, SequenceTheorems,
        WellFoundedInduction, TLAPS

----------------------------------------------------------------------------
\* Sums.

\* Induction over the natural numbers, for a set.
LEMMA Induction ==
    ASSUME NEW S, 0 \in S, \A n \in Nat : n \in S => n + 1 \in S
    PROVE  Nat \subseteq S
<1> DEFINE T == Nat \ S
           R == OpToRel(<, Nat)
<1>1. SUFFICES ASSUME T # {} PROVE FALSE
  OBVIOUS
<1>2. IsWellFoundedOn(R, Nat)
  BY NatLessThanWellFounded
<1>3. R = {ss \in Nat \X Nat : ss[1] < ss[2]}
  BY DEF OpToRel
<1> HIDE DEF R
<1>4. T \subseteq Nat
  OBVIOUS
<1> HIDE DEF T
<1>5. PICK x \in T : \A y \in T : ~(<<y, x>> \in R)
  BY <1>1, <1>2, <1>4, WFMin
<1> USE DEF T
<1>6. x \in Nat /\ x # 0 /\ x - 1 \in Nat /\ x - 1 \in T
  OBVIOUS
<1>7. <<x - 1, x>> \in Nat \X Nat /\ x - 1 < x
  BY <1>6
<1>8. QED
  BY <1>3, <1>5, <1>6, <1>7

\* g holds the partial sums of f up to n.
Partial(g, f, n) == g = [k \in 0..n |-> IF k = 0 THEN 0 ELSE g[k - 1] + f[k]]

\* There are such partial sums.
LEMMA PartialExists ==
    ASSUME NEW f, NEW n \in Nat, \A k \in 1..n : f[k] \in Int
    PROVE  \E g \in [0..n -> Int] : Partial(g, f, n)
<1> DEFINE S == {m \in Nat : m <= n => \E g \in [0..m -> Int] : Partial(g, f, m)}
<1>1. 0 \in S
  <2>1. [k \in 0..0 |-> 0] \in [0..0 -> Int] /\ Partial([k \in 0..0 |-> 0], f, 0)
    BY DEF Partial
  <2>2. QED
    BY <2>1
<1>2. ASSUME NEW m \in Nat, m \in S PROVE m + 1 \in S
  <2>1. SUFFICES ASSUME m + 1 <= n
                 PROVE  \E g \in [0..(m + 1) -> Int] : Partial(g, f, m + 1)
    OBVIOUS
  <2>2. PICK g \in [0..m -> Int] : Partial(g, f, m)
    BY <1>2, <2>1
  <2>3. PICK h : h = [k \in 0..(m + 1) |-> IF k = m + 1 THEN g[m] + f[m + 1] ELSE g[k]]
    OBVIOUS
  <2>4. h \in [0..(m + 1) -> Int]
    <3>1. f[m + 1] \in Int /\ g[m] \in Int
      BY <2>1
    <3>2. \A k \in 0..(m + 1) : k = m + 1 \/ k \in 0..m
      OBVIOUS
    <3>3. QED
      BY <2>3, <3>1, <3>2
  <2>5. ASSUME NEW k \in 0..(m + 1)
        PROVE  h[k] = IF k = 0 THEN 0 ELSE h[k - 1] + f[k]
    <3>1. CASE k = m + 1
      <4>1. h[k] = g[m] + f[k] /\ k - 1 = m /\ h[m] = g[m] /\ k # 0
        BY <2>3, <3>1
      <4>2. QED
        BY <4>1
    <3>2. CASE k \in 0..m
      <4>1. h[k] = g[k] /\ (k # 0 => h[k - 1] = g[k - 1])
        BY <2>3, <3>2
      <4>2. g[k] = IF k = 0 THEN 0 ELSE g[k - 1] + f[k]
        BY <2>2, <3>2 DEF Partial
      <4>3. QED
        BY <4>1, <4>2
    <3>3. QED
      BY <3>1, <3>2
  <2>6. Partial(h, f, m + 1)
    BY <2>4, <2>5 DEF Partial
  <2>7. QED
    BY <2>4, <2>6
<1> HIDE DEF S
<1>3. Nat \subseteq S
  BY <1>1, <1>2, Induction
<1> USE DEF S
<1>4. QED
  BY <1>3

\* There is only one list of them.
LEMMA PartialUnique ==
    ASSUME NEW f, NEW n \in Nat, NEW g, NEW h, Partial(g, f, n), Partial(h, f, n)
    PROVE  g = h
<1> DEFINE S == {m \in Nat : m <= n => g[m] = h[m]}
<1>0. /\ \A k \in 0..n : g[k] = IF k = 0 THEN 0 ELSE g[k - 1] + f[k]
      /\ \A k \in 0..n : h[k] = IF k = 0 THEN 0 ELSE h[k - 1] + f[k]
  BY DEF Partial
<1>1. 0 \in S
  BY <1>0
<1>2. ASSUME NEW m \in Nat, m \in S PROVE m + 1 \in S
  <2>1. SUFFICES ASSUME m + 1 <= n PROVE g[m + 1] = h[m + 1]
    OBVIOUS
  <2>2. g[m] = h[m]
    BY <1>2, <2>1
  <2>3. m + 1 \in 0..n /\ m + 1 # 0 /\ m + 1 - 1 = m
    BY <2>1
  <2>4. g[m + 1] = g[m] + f[m + 1] /\ h[m + 1] = h[m] + f[m + 1]
    BY <1>0, <2>3
  <2>5. QED
    BY <2>2, <2>4
<1> HIDE DEF S
<1>3. Nat \subseteq S
  BY <1>1, <1>2, Induction
<1> USE DEF S
<1>4. \A k \in 0..n : g[k] = h[k]
  BY <1>3
<1>5. [k \in 0..n |-> IF k = 0 THEN 0 ELSE g[k - 1] + f[k]]
       = [k \in 0..n |-> IF k = 0 THEN 0 ELSE h[k - 1] + f[k]]
  <2>1. \A k \in 0..n : k # 0 => k - 1 \in 0..n
    OBVIOUS
  <2>2. QED
    BY <1>4, <2>1
<1>6. QED
  BY <1>5 DEF Partial

\* SumTo picks the last of the partial sums.
LEMMA SumIsPartial ==
    ASSUME NEW f, NEW n \in Nat, NEW g, Partial(g, f, n)
    PROVE  SumTo(f, n) = g[n]
<1> DEFINE h == CHOOSE x : Partial(x, f, n)
<1>1. SumTo(f, n) = h[n]
  BY DEF SumTo, Partial
<1>2. Partial(h, f, n)
  OBVIOUS
<1> HIDE DEF h
<1>3. h = g
  BY <1>2, PartialUnique
<1>4. QED
  BY <1>1, <1>3

\* The sum is a number that depends on the first n terms only.
LEMMA SumStep ==
    ASSUME NEW n \in Nat, NEW f, NEW h, \A k \in 1..n : f[k] \in Int /\ h[k] = f[k]
    PROVE  /\ SumTo(f, n) \in Int
           /\ SumTo(h, n) = SumTo(f, n)
           /\ h[n + 1] \in Int => SumTo(h, n + 1) = SumTo(f, n) + h[n + 1]
<1>1. PICK g \in [0..n -> Int] : Partial(g, f, n)
  BY PartialExists
<1>2. \A k \in 0..n : g[k] = IF k = 0 THEN 0 ELSE g[k - 1] + f[k]
  BY <1>1 DEF Partial
<1>3. \A k \in 0..n : g[k] = IF k = 0 THEN 0 ELSE g[k - 1] + h[k]
  BY <1>2
<1>4. Partial(g, h, n)
  BY <1>3 DEF Partial
<1>5. ASSUME h[n + 1] \in Int PROVE SumTo(h, n + 1) = g[n] + h[n + 1]
  <2>1. PICK e : e = [k \in 0..(n + 1) |-> IF k = n + 1 THEN g[n] + h[n + 1] ELSE g[k]]
    OBVIOUS
  <2>2. ASSUME NEW k \in 0..(n + 1)
        PROVE  e[k] = IF k = 0 THEN 0 ELSE e[k - 1] + h[k]
    <3>1. CASE k = n + 1
      <4>1. e[k] = g[n] + h[k] /\ k - 1 = n /\ e[n] = g[n] /\ k # 0
        BY <2>1, <3>1
      <4>2. QED
        BY <4>1
    <3>2. CASE k \in 0..n
      <4>1. e[k] = g[k] /\ (k # 0 => e[k - 1] = g[k - 1])
        BY <2>1, <3>2
      <4>2. QED
        BY <1>3, <3>2, <4>1
    <3>3. QED
      BY <3>1, <3>2
  <2>3. e = [k \in 0..(n + 1) |-> e[k]]
    BY <2>1
  <2>4. Partial(e, h, n + 1)
    BY <2>2, <2>3 DEF Partial
  <2>5. e[n + 1] = g[n] + h[n + 1]
    BY <2>1
  <2>6. QED
    BY <2>4, <2>5, SumIsPartial
<1>6. g[n] \in Int /\ SumTo(f, n) = g[n] /\ SumTo(h, n) = g[n]
  BY <1>1, <1>4, SumIsPartial
<1>7. QED
  BY <1>5, <1>6

\* Of no terms.
LEMMA SumNone ==
    ASSUME NEW f
    PROVE  SumTo(f, 0) = 0
<1>1. PICK g : g = [k \in 0..0 |-> 0]
  OBVIOUS
<1>2. Partial(g, f, 0) /\ g[0] = 0
  BY <1>1 DEF Partial
<1>3. QED
  BY <1>2, SumIsPartial

\* One more row adds its amount to a ledger and leaves earlier sums alone.
LEMMA TotalAppend ==
    ASSUME NEW s \in Seq(Int), NEW a \in Int
    PROVE  /\ Total(Append(s, a)) = Total(s) + a
           /\ \A n \in 0..Len(s) : SumTo(Append(s, a), n) = SumTo(s, n)
<1>1. PICK t : t = Append(s, a)
  OBVIOUS
<1>2. /\ Len(s) \in Nat /\ Len(t) = Len(s) + 1 /\ t[Len(s) + 1] = a
      /\ \A i \in 1..Len(s) : s[i] \in Int /\ t[i] = s[i]
  BY <1>1, AppendProperties, ElementOfSeq
<1>3. SumTo(t, Len(s) + 1) = SumTo(s, Len(s)) + a
  BY <1>2, SumStep
<1>4. ASSUME NEW n \in 0..Len(s) PROVE SumTo(t, n) = SumTo(s, n)
  <2>1. n \in Nat /\ \A i \in 1..n : s[i] \in Int /\ t[i] = s[i]
    BY <1>2
  <2>2. QED
    BY <2>1, SumStep
<1>5. QED
  BY <1>1, <1>2, <1>3, <1>4 DEF Total

\* The total of the oldest n rows.
LEMMA TotalPrefix ==
    ASSUME NEW s \in Seq(Int), NEW n \in 0..Len(s)
    PROVE  Total(SubSeq(s, 1, n)) = SumTo(s, n)
<1>1. PICK t : t = SubSeq(s, 1, n)
  OBVIOUS
<1>2. n \in Nat /\ \A i \in 1..n : s[i] \in Int
  BY ElementOfSeq
<1>3. /\ Len(t) = IF 1 <= n THEN n - 1 + 1 ELSE 0
      /\ \A i \in 1..(n - 1 + 1) : t[i] = s[1 + i - 1]
  BY <1>1, <1>2, SubSeqProperties
<1>4. Len(t) = n /\ \A i \in 1..n : t[i] = s[i]
  BY <1>2, <1>3
<1>5. SumTo(t, n) = SumTo(s, n)
  BY <1>2, <1>4, SumStep
<1>6. QED
  BY <1>1, <1>4, <1>5 DEF Total

----------------------------------------------------------------------------
\* A list with LIMIT n is all of a short sequence and n of a long one.
LEMMA NewestProperties ==
    ASSUME NEW S, NEW s \in Seq(S), NEW n \in Nat
    PROVE  /\ Newest(s, n) \in Seq(S)
           /\ Len(Newest(s, n)) <= n
           /\ Len(s) <= n => Newest(s, n) = s
           /\ \A i \in 1..Len(Newest(s, n)) : \E j \in 1..Len(s) :
                j = i + Len(s) - Len(Newest(s, n)) /\ Newest(s, n)[i] = s[j]
           /\ Len(s) > n => Len(Newest(s, n)) = n
<1>0. Len(s) \in Nat /\ \A i \in 1..Len(s) : s[i] \in S
  BY ElementOfSeq
<1>1. CASE Len(s) <= n
  <2>0. ~(Len(s) > n)
    BY <1>0, <1>1
  <2>1. Newest(s, n) = SubSeq(s, 1, Len(s))
    BY <2>0, Zenon DEF Newest
  <2>2. Newest(s, n) = s
    BY <2>1, SubSeqFull
  <2>3. \A i \in 1..Len(s) : i = i + Len(s) - Len(s)
    BY <1>0
  <2>4. QED
    BY <1>0, <1>1, <2>2, <2>3
<1>2. CASE Len(s) > n
  <2>1. PICK m, t : m = Len(s) - n + 1 /\ t = SubSeq(s, m, Len(s))
    OBVIOUS
  <2>2. m \in 1..(Len(s) + 1) /\ \A i \in m..Len(s) : s[i] \in S
    BY <1>0, <1>2, <2>1
  <2>3. /\ t \in Seq(S)
        /\ Len(t) = IF m <= Len(s) THEN Len(s) - m + 1 ELSE 0
        /\ \A i \in 1..(Len(s) - m + 1) : t[i] = s[m + i - 1]
    BY <1>0, <2>1, <2>2, SubSeqProperties
  <2>4. Len(t) = n
    BY <1>0, <1>2, <2>1, <2>3
  <2>5. ASSUME NEW i \in 1..n
        PROVE  \E j \in 1..Len(s) : j = i + Len(s) - n /\ t[i] = s[j]
    <3>1. PICK j : j = i + Len(s) - n
      OBVIOUS
    <3>2. j \in 1..Len(s) /\ i \in 1..(Len(s) - m + 1) /\ m + i - 1 = j
      BY <1>0, <1>2, <2>1, <3>1
    <3>3. QED
      BY <2>3, <3>1, <3>2
  <2>6. Newest(s, n) = t
    BY <1>2, <2>1 DEF Newest
  <2>7. QED
    <3>1. \A i \in 1..Len(t) : \E j \in 1..Len(s) : j = i + Len(s) - Len(t) /\ t[i] = s[j]
      BY <2>4, <2>5
    <3>2. Len(t) <= n /\ ~(Len(s) <= n)
      BY <1>0, <1>2, <2>4
    <3>3. QED
      BY <2>3, <2>4, <2>6, <3>1, <3>2
<1>3. QED
  BY <1>0, <1>1, <1>2

\* Of rows that differ, a list that is cut off shows as many as its LIMIT.
LEMMA NewestRows ==
    ASSUME NEW S, NEW s \in Seq(S), NEW n \in Nat,
           \A i, j \in 1..Len(s) : s[i] = s[j] => i = j
    PROVE  /\ ToSet(Newest(s, n)) \subseteq {s[i] : i \in 1..Len(s)}
           /\ Cardinality(ToSet(Newest(s, n))) < n =>
                ToSet(Newest(s, n)) = {s[i] : i \in 1..Len(s)}
<1>1. PICK t : t = Newest(s, n)
  OBVIOUS
<1>2. /\ t \in Seq(S) /\ Len(s) \in Nat /\ Len(t) \in Nat
      /\ Len(s) <= n => t = s
      /\ Len(s) > n => Len(t) = n
      /\ \A i \in 1..Len(t) : \E j \in 1..Len(s) :
            j = i + Len(s) - Len(t) /\ t[i] = s[j]
  <2>1. /\ t \in Seq(S)
        /\ Len(s) <= n => t = s
        /\ Len(s) > n => Len(t) = n
        /\ \A i \in 1..Len(t) : \E j \in 1..Len(s) :
              j = i + Len(s) - Len(t) /\ t[i] = s[j]
    BY <1>1, NewestProperties, Zenon
  <2>2. Len(s) \in Nat /\ Len(t) \in Nat
    BY <2>1, LenProperties
  <2>3. QED
    BY <2>1, <2>2, Zenon
<1>3. ToSet(t) = {t[i] : i \in 1..Len(t)} /\ ToSet(s) = {s[i] : i \in 1..Len(s)}
  <2>1. DOMAIN t = 1..Len(t) /\ DOMAIN s = 1..Len(s)
    BY <1>2, LenProperties
  <2>2. QED
    BY <2>1 DEF ToSet
<1>4. ToSet(t) \subseteq {s[i] : i \in 1..Len(s)}
  BY <1>2, <1>3
<1>5. CASE Len(s) <= n
  BY <1>1, <1>2, <1>3, <1>4, <1>5
<1>6. CASE Len(s) > n
  <2>1. Len(t) = n
    BY <1>2, <1>6
  <2>2. t \in [1..n -> ToSet(t)]
    BY <1>2, <1>3, <2>1, LenProperties
  <2>3. ASSUME NEW i \in 1..n, NEW j \in 1..n, t[i] = t[j] PROVE i = j
    <3>1. PICK k \in 1..Len(s) : k = i + Len(s) - n /\ t[i] = s[k]
      BY <1>2, <2>1
    <3>2. PICK m \in 1..Len(s) : m = j + Len(s) - n /\ t[j] = s[m]
      BY <1>2, <2>1
    <3>3. k = m
      BY <2>3, <3>1, <3>2
    <3>4. QED
      BY <1>2, <3>1, <3>2, <3>3
  <2>4. \A x \in ToSet(t) : \E i \in 1..n : t[i] = x
    BY <1>3, <2>1
  <2>5. t \in Bijection(1..n, ToSet(t))
    BY <2>2, <2>3, <2>4 DEF Bijection, Injection, Surjection, IsInjective
  <2>6. ExistsBijection(1..n, ToSet(t))
    BY <2>5 DEF ExistsBijection
  <2>7. IsFiniteSet(1..n) /\ Cardinality(1..n) = IF 1 > n THEN 0 ELSE n - 1 + 1
    BY FS_Interval
  <2>8. Cardinality(ToSet(t)) = Cardinality(1..n)
    BY <2>6, <2>7, FS_Bijection
  <2>9. ~(Cardinality(ToSet(t)) < n)
    BY <2>7, <2>8
  <2>10. QED
    BY <1>1, <1>4, <2>9
<1>7. QED
  BY <1>2, <1>5, <1>6

----------------------------------------------------------------------------
\* The shop.

\* A purchase or a renewal: the item i is paid for and booked under k.
Booked(k, i) ==
    /\ bought[k] = None /\ k[2] \in WalletUsers
    /\ balance' = [balance EXCEPT ![k[2]] = @ - Price[i]]
    /\ bought' = [bought EXCEPT ![k] = i]
    /\ tickets' = [tickets EXCEPT ![k] = 1]
    /\ Len(ledger[k[2]]) < MaxLedger
    /\ ledger' = [ledger EXCEPT ![k[2]] = Append(@, -Price[i])]
    /\ placed' = [placed EXCEPT ![k[2]] = Append(@, k)]
    /\ UNCHANGED <<services, listed>>

\* A top-up.
Paid(u, a) ==
    /\ balance' = [balance EXCEPT ![u] = @ + a]
    /\ Len(ledger[u]) < MaxLedger
    /\ ledger' = [ledger EXCEPT ![u] = Append(@, a)]
    /\ UNCHANGED <<bought, tickets, placed, services, listed>>

\* Rows that appear in the catalog and in the services.
Grown ==
    /\ UNCHANGED <<balance, bought, tickets, ledger, placed>>
    /\ services \subseteq services' /\ services' \subseteq Rows
    /\ \A k \in services' : k \in services \/ tickets[k] > 0
    /\ listed \subseteq listed' /\ listed' \subseteq Items

\* What the shop does between two queries is one of these.
LEMMA ShopEffect ==
    ASSUME TypeOK, ShopNext
    PROVE  \/ \E k \in Rows, i \in Items : Booked(k, i)
           \/ \E u \in WalletUsers, a \in TopUps : Paid(u, a)
           \/ Grown
<1>1. ASSUME NEW v \in Vendors, CreateVendor(v) PROVE Grown
  BY <1>1 DEF CreateVendor, Grown, purchases, TypeOK
<1>2. ASSUME NEW v \in Vendors, NEW status \in {"active", "suspended"}, SetVendor(v, status)
      PROVE  Grown
  BY <1>2 DEF SetVendor, Grown, purchases, TypeOK
<1>3. ASSUME NEW i \in Items, CreateItem(i) PROVE Grown
  BY <1>3 DEF CreateItem, Grown, purchases, TypeOK
<1>4. ASSUME NEW k \in CallerRows, NEW i \in Items, Buy(k, i) PROVE Booked(k, i)
  BY <1>4 DEF Buy, P!Buy, P!Pay, Order, Pays, Booked, catalog
<1>5. ASSUME NEW k0 \in Rows, NEW k \in Rows \ CallerRows, Renew(k0, k)
      PROVE  bought[k0] \in Items /\ Booked(k, bought[k0])
  <2>1. bought[k0] \in Items
    BY <1>5 DEF Renew, P!Renew, TypeOK
  <2>2. QED
    BY <1>5, <2>1 DEF Renew, P!Renew, P!Pay, Order, Pays, Booked, catalog
<1>6. ASSUME NEW u \in WalletUsers, NEW a \in TopUps, TopUp(u, a) PROVE Paid(u, a)
  BY <1>6 DEF TopUp, P!TopUp, Pays, Paid, catalog
<1>7. ASSUME NEW k \in Rows, Provisioned(k) PROVE Grown
  BY <1>7 DEF Provisioned, Grown, purchases, catalog, TypeOK
<1>8. QED
  BY <1>1, <1>2, <1>3, <1>4, <1>5, <1>6, <1>7, ShopAssumption DEF ShopNext

\* Tables keep their types.
LEMMA ShopTypes ==
    ASSUME TypeOK, ShopNext, UNCHANGED session
    PROVE  TypeOK'
<1>1. CASE Grown
  BY <1>1 DEF Grown, TypeOK, session
<1>2. ASSUME NEW k \in Rows, NEW i \in Items, Booked(k, i) PROVE TypeOK'
  <2>1. k[2] \in WalletUsers /\ k[2] \in Users /\ Price[i] \in Int /\ -Price[i] \in Int
    BY <1>2, ShopAssumption DEF Booked
  <2>2. /\ balance' \in [WalletUsers -> Int]
        /\ bought' \in [Rows -> Items \cup {None}]
        /\ tickets' \in [Rows -> {0, 1}]
    BY <1>2, <2>1 DEF Booked, TypeOK
  <2>3. /\ Append(ledger[k[2]], -Price[i]) \in Seq(Int)
        /\ Len(Append(ledger[k[2]], -Price[i])) = Len(ledger[k[2]]) + 1
    BY <2>1, AppendProperties DEF TypeOK
  <2>4. Len(ledger[k[2]]) \in Nat /\ Len(ledger[k[2]]) + 1 <= MaxLedger
    BY <1>2, <2>1, LenProperties, ShopAssumption DEF Booked, TypeOK
  <2>5. ledger' \in [Users -> Seq(Int)] /\ \A u \in Users : Len(ledger'[u]) <= MaxLedger
    BY <1>2, <2>1, <2>3, <2>4 DEF Booked, TypeOK
  <2>6. Append(placed[k[2]], k) \in Seq(Rows)
    BY <2>1, AppendProperties DEF TypeOK
  <2>7. placed' \in [Users -> Seq(Rows)]
    BY <1>2, <2>1, <2>6 DEF Booked, TypeOK
  <2>8. QED
    BY <1>2, <2>2, <2>5, <2>7 DEF Booked, TypeOK, session
<1>3. ASSUME NEW u \in WalletUsers, NEW a \in TopUps, Paid(u, a) PROVE TypeOK'
  <2>1. u \in Users /\ a \in Int
    BY ShopAssumption
  <2>2. balance' \in [WalletUsers -> Int]
    BY <1>3, <2>1 DEF Paid, TypeOK
  <2>3. /\ Append(ledger[u], a) \in Seq(Int)
        /\ Len(Append(ledger[u], a)) = Len(ledger[u]) + 1
    BY <2>1, AppendProperties DEF TypeOK
  <2>4. Len(ledger[u]) \in Nat /\ Len(ledger[u]) + 1 <= MaxLedger
    BY <1>3, <2>1, LenProperties, ShopAssumption DEF Paid, TypeOK
  <2>5. ledger' \in [Users -> Seq(Int)] /\ \A w \in Users : Len(ledger'[w]) <= MaxLedger
    BY <1>3, <2>1, <2>3, <2>4 DEF Paid, TypeOK
  <2>6. QED
    BY <1>3, <2>2, <2>5 DEF Paid, TypeOK, session
<1>4. QED
  BY <1>1, <1>2, <1>3, ShopEffect

\* Orders and purchases stay the same rows.
LEMMA ShopOrders ==
    ASSUME TypeOK, OrdersComplete, ShopNext
    PROVE  OrdersComplete'
<1>1. CASE Grown
  BY <1>1 DEF Grown, OrdersComplete, TypeOK
<1>2. ASSUME NEW u \in WalletUsers, NEW a \in TopUps, Paid(u, a) PROVE OrdersComplete'
  BY <1>2 DEF Paid, OrdersComplete
<1>3. ASSUME NEW k \in Rows, NEW i \in Items, Booked(k, i) PROVE OrdersComplete'
  <2>1. PICK u \in Users : u = k[2]
    BY ShopAssumption
  <2>2. PICK n \in Nat : n = Len(placed[u])
    BY LenProperties DEF TypeOK
  <2>3. /\ bought[k] = None /\ bought'[k] = i /\ i # None
        /\ \A j \in Rows \ {k} : bought'[j] = bought[j] /\ tickets'[j] = tickets[j]
        /\ services' = services
        /\ \A w \in Users \ {u} : placed'[w] = placed[w]
        /\ placed'[u] = Append(placed[u], k)
    BY <1>3, <2>1, ShopAssumption DEF Booked, TypeOK
  <2>4. /\ Len(placed'[u]) = n + 1 /\ placed'[u][n + 1] = k
        /\ \A j \in 1..n : placed'[u][j] = placed[u][j] /\ placed[u][j] \in Rows
    BY <2>2, <2>3, AppendProperties, ElementOfSeq DEF TypeOK
  <2>5. \A w \in Users : \A j \in 1..Len(placed[w]) : placed[w][j] \in Rows \ {k}
    <3>1. \A w \in Users : \A j \in 1..Len(placed[w]) : placed[w][j] \in Rows
      BY ElementOfSeq DEF TypeOK
    <3>2. QED
      BY <2>3, <3>1 DEF OrdersComplete
  <2>6. \A j \in Rows : j \in services' \/ tickets'[j] > 0 => bought'[j] # None
    BY <2>3 DEF OrdersComplete
  <2>7. ASSUME NEW j \in Rows, bought'[j] # None
        PROVE  \E m \in 1..Len(placed'[j[2]]) : placed'[j[2]][m] = j
    <3>1. CASE j = k
      <4>1. n + 1 \in 1..Len(placed'[u])
        BY <2>4
      <4>2. QED
        BY <2>1, <2>4, <3>1, <4>1
    <3>2. CASE j # k
      <4>1. PICK m \in 1..Len(placed[j[2]]) : placed[j[2]][m] = j
        BY <2>3, <2>7, <3>2 DEF OrdersComplete
      <4>2. CASE j[2] = u
        <5>1. m \in 1..n /\ m \in 1..Len(placed'[u])
          BY <2>2, <2>4, <4>2
        <5>2. QED
          BY <2>4, <4>1, <4>2, <5>1
      <4>3. CASE j[2] # u
        BY <2>3, <4>1, <4>3, ShopAssumption
      <4>4. QED
        BY <4>2, <4>3
    <3>3. QED
      BY <3>1, <3>2
  <2>8. ASSUME NEW w \in Users, NEW m \in 1..Len(placed'[w])
        PROVE  /\ bought'[placed'[w][m]] # None /\ placed'[w][m][2] = w
               /\ \A j \in 1..Len(placed'[w]) : placed'[w][m] = placed'[w][j] => m = j
    <3>1. CASE w # u
      BY <2>3, <2>5, <3>1 DEF OrdersComplete
    <3>2. CASE w = u
      <4>1. \A j \in 1..Len(placed'[u]) : j \in 1..n \/ j = n + 1
        BY <2>4
      <4>2. \A j \in 1..n : /\ placed'[u][j] \in Rows \ {k}
                            /\ bought'[placed'[u][j]] # None
                            /\ placed'[u][j][2] = u
        <5>1. \A j \in 1..n : /\ placed[u][j] \in Rows \ {k}
                              /\ bought[placed[u][j]] # None
                              /\ placed[u][j][2] = u
          BY <2>2, <2>5 DEF OrdersComplete
        <5>2. QED
          BY <2>3, <2>4, <5>1
      <4>3. \A j, l \in 1..n : placed'[u][j] = placed'[u][l] => j = l
        <5>1. \A j, l \in 1..n : placed[u][j] = placed[u][l] => j = l
          BY <2>2 DEF OrdersComplete
        <5>2. QED
          BY <2>4, <5>1
      <4>4. bought'[placed'[u][n + 1]] # None /\ placed'[u][n + 1][2] = u
        BY <2>1, <2>3, <2>4
      <4>5. QED
        BY <2>4, <3>2, <4>1, <4>2, <4>3, <4>4
    <3>3. QED
      BY <3>1, <3>2
  <2>9. QED
    BY <2>6, <2>7, <2>8 DEF OrdersComplete
<1>4. QED
  BY <1>1, <1>2, <1>3, ShopEffect

\* Balances move with the ledger, and sums of its oldest rows stay.
LEMMA ShopBalances ==
    ASSUME TypeOK, WalletsBalance, ShopNext
    PROVE  /\ WalletsBalance'
           /\ \A u \in Users : \A n \in 0..Len(ledger[u]) :
                n \in 0..Len(ledger'[u]) /\ SumTo(ledger'[u], n) = SumTo(ledger[u], n)
<1>0. WalletUsers \subseteq Users
  BY ShopAssumption
<1>1. CASE UNCHANGED <<balance, ledger>>
  BY <1>1 DEF WalletsBalance, Total
<1>2. ASSUME NEW u \in WalletUsers, NEW a \in Int,
             balance' = [balance EXCEPT ![u] = @ + a],
             ledger' = [ledger EXCEPT ![u] = Append(@, a)]
      PROVE  /\ WalletsBalance'
             /\ \A w \in Users : \A n \in 0..Len(ledger[w]) :
                  n \in 0..Len(ledger'[w]) /\ SumTo(ledger'[w], n) = SumTo(ledger[w], n)
  <2>1. /\ balance'[u] = balance[u] + a
        /\ \A w \in WalletUsers \ {u} : balance'[w] = balance[w]
        /\ ledger'[u] = Append(ledger[u], a)
        /\ \A w \in Users \ {u} : ledger'[w] = ledger[w]
    BY <1>0, <1>2 DEF TypeOK
  <2>2. ledger[u] \in Seq(Int)
    BY <1>0 DEF TypeOK
  <2>3. /\ Total(ledger'[u]) = Total(ledger[u]) + a
        /\ \A n \in 0..Len(ledger[u]) : SumTo(ledger'[u], n) = SumTo(ledger[u], n)
    BY <2>1, <2>2, TotalAppend
  <2>4. Len(ledger[u]) \in Nat /\ Len(ledger'[u]) = Len(ledger[u]) + 1
    BY <2>1, <2>2, AppendProperties, LenProperties
  <2>5. \A w \in WalletUsers : balance'[w] = Total(ledger'[w])
    BY <1>0, <2>1, <2>3 DEF WalletsBalance
  <2>6. WalletsBalance'
    BY <2>5 DEF WalletsBalance, Total
  <2>7. \A n \in 0..Len(ledger[u]) : n \in 0..Len(ledger'[u])
    BY <2>4
  <2>8. QED
    BY <2>1, <2>3, <2>6, <2>7
<1>3. CASE Grown
  BY <1>1, <1>3 DEF Grown
<1>4. ASSUME NEW k \in Rows, NEW i \in Items, Booked(k, i)
      PROVE  /\ k[2] \in WalletUsers /\ -Price[i] \in Int
             /\ balance' = [balance EXCEPT ![k[2]] = @ + (-Price[i])]
             /\ ledger' = [ledger EXCEPT ![k[2]] = Append(@, -Price[i])]
  <2>1. k[2] \in WalletUsers /\ Price[i] \in Int /\ balance[k[2]] \in Int
    BY <1>4, ShopAssumption DEF Booked, TypeOK
  <2>2. balance[k[2]] - Price[i] = balance[k[2]] + (-Price[i]) /\ -Price[i] \in Int
    BY <2>1
  <2>3. QED
    BY <1>4, <2>1, <2>2 DEF Booked
<1>5. ASSUME NEW u \in WalletUsers, NEW a \in TopUps, Paid(u, a)
      PROVE  /\ a \in Int
             /\ balance' = [balance EXCEPT ![u] = @ + a]
             /\ ledger' = [ledger EXCEPT ![u] = Append(@, a)]
  BY <1>5, ShopAssumption DEF Paid
<1>6. QED
  BY <1>2, <1>3, <1>4, <1>5, ShopEffect

----------------------------------------------------------------------------
\* Opening a page.

LEMMA FieldNames ==
    /\ Fields = {"balance", "services", "service", "orders", "order", "record",
                 "records", "ledger", "vendor", "item", "listing", "ok"}
    /\ Queries = {"balance", "services", "service", "orders", "order", "record",
                  "records", "ledger", "vendor", "item", "listing"}
<1>1. Fields = {"balance", "services", "service", "orders", "order", "record",
                "records", "ledger", "vendor", "item", "listing", "ok"}
  BY DEF Fields, Blank
<1>2. QED
  BY <1>1 DEF Queries

\* A page that lists orders or ledger rows is a user's own.
LEMMA Requests ==
    ASSUME NEW p \in Request
    PROVE  /\ p.kind \in {"summary", "services", "orders", "wallet", "detail", "order",
                          "get", "list", "products", "result", "product", "checkout"}
           /\ p.kind \in {"summary", "orders", "wallet"} => p.user \in Users
  BY DEF Request, Ask

\* What a page asks for.
LEMMA ReadsProperties ==
    ASSUME NEW p \in Request
    PROVE  /\ Reads[p.kind] \in Seq(Queries)
           /\ \A i \in 1..Len(Reads[p.kind]) :
                Reads[p.kind][i] \in {"orders", "ledger"} => p.user \in Users
<1>1. CASE p.kind = "summary"
  <2>1. Reads[p.kind] = <<"balance", "services", "orders">>
    BY <1>1 DEF Reads
  <2>2. QED
    BY <1>1, <2>1, Requests, FieldNames
<1>2. CASE p.kind = "services"
  <2>1. Reads[p.kind] = <<"services">>
    BY <1>2 DEF Reads
  <2>2. QED
    BY <2>1, FieldNames
<1>3. CASE p.kind = "detail"
  <2>1. Reads[p.kind] = <<"service">>
    BY <1>3 DEF Reads
  <2>2. QED
    BY <2>1, FieldNames
<1>4. CASE p.kind = "orders"
  <2>1. Reads[p.kind] = <<"orders">>
    BY <1>4 DEF Reads
  <2>2. QED
    BY <1>4, <2>1, Requests, FieldNames
<1>5. CASE p.kind = "wallet"
  <2>1. Reads[p.kind] = <<"balance", "ledger">>
    BY <1>5 DEF Reads
  <2>2. QED
    BY <1>5, <2>1, Requests, FieldNames
<1>6. CASE p.kind = "order"
  <2>1. Reads[p.kind] = <<"order">>
    BY <1>6 DEF Reads
  <2>2. QED
    BY <2>1, FieldNames
<1>7. CASE p.kind = "get"
  <2>1. Reads[p.kind] = <<"record">>
    BY <1>7 DEF Reads
  <2>2. QED
    BY <2>1, FieldNames
<1>8. CASE p.kind = "list"
  <2>1. Reads[p.kind] = <<"records">>
    BY <1>8 DEF Reads
  <2>2. QED
    BY <2>1, FieldNames
<1>9. CASE p.kind = "products"
  <2>1. Reads[p.kind] = <<"vendor", "listing">>
    BY <1>9 DEF Reads
  <2>2. QED
    BY <2>1, FieldNames
<1>10. CASE p.kind = "product"
  <2>1. Reads[p.kind] = <<"vendor", "item">>
    BY <1>10 DEF Reads
  <2>2. QED
    BY <2>1, FieldNames
<1>11. CASE p.kind = "checkout"
  <2>1. Reads[p.kind] = <<"vendor", "item", "balance">>
    BY <1>11 DEF Reads
  <2>2. QED
    BY <2>1, FieldNames
<1>12. CASE p.kind = "result"
  <2>1. Reads[p.kind] = <<"vendor">>
    BY <1>12 DEF Reads
  <2>2. QED
    BY <2>1, FieldNames
<1>13. QED
  BY <1>1, <1>2, <1>3, <1>4, <1>5, <1>6, <1>7, <1>8, <1>9, <1>10, <1>11, <1>12, Requests

\* A page without answers is an empty one.
LEMMA BlankTypes ==
    /\ Blank = [f \in Fields |-> Blank[f]] /\ Blank.ok \in BOOLEAN
    /\ Blank.balance \in Int
    /\ Blank.services \in SUBSET Rows /\ Blank.orders \in SUBSET Rows
    /\ Blank.ledger \in Seq(Int) /\ Len(Blank.ledger) <= WalletLimit
<1>1. Blank = [f \in Fields |-> Blank[f]]
  BY DEF Blank, Fields
<1>2. /\ Blank.ok = TRUE /\ Blank.balance = 0 /\ Blank.services = {}
      /\ Blank.orders = {} /\ Blank.ledger = <<>>
  BY DEF Blank
<1>3. 0 <= WalletLimit
  BY PagesAssumption
<1>4. Len(<<>>) = 0 /\ <<>> \in Seq(Int)
  OBVIOUS
<1>5. Blank.ok \in BOOLEAN
  BY <1>2, Zenon
<1>6. /\ Blank.balance \in Int
      /\ Blank.services \in SUBSET Rows /\ Blank.orders \in SUBSET Rows
      /\ Blank.ledger \in Seq(Int) /\ Len(Blank.ledger) <= WalletLimit
  BY <1>2, <1>3, <1>4
<1>7. QED
  BY <1>1, <1>5, <1>6, Zenon

\* No page is open at first.
LEMMA InitInd == Init => IndInv
<1> SUFFICES ASSUME Init PROVE IndInv
  OBVIOUS
<1>1. /\ balance = [u \in WalletUsers |-> 0]
      /\ bought = [k \in Rows |-> None] /\ tickets = [k \in Rows |-> 0]
      /\ services = {} /\ listed = {}
      /\ ledger = [u \in Users |-> <<>>] /\ placed = [u \in Users |-> <<>>]
      /\ page = None /\ todo = <<>> /\ view = Blank
  BY DEF Init, ShopInit, P!Init
<1>2. Len(<<>>) = 0 /\ <<>> \in Seq(Int) /\ <<>> \in Seq(Rows) /\ <<>> \in Seq(Queries)
  OBVIOUS
<1>3. TypeOK
  <2>1. ledger \in [Users -> Seq(Int)] /\ placed \in [Users -> Seq(Rows)]
    BY <1>1, <1>2
  <2>2. \A u \in Users : Len(ledger[u]) <= MaxLedger
    BY <1>1, <1>2, ShopAssumption
  <2>3. balance \in [WalletUsers -> Int] /\ tickets \in [Rows -> {0, 1}]
        /\ bought \in [Rows -> Items \cup {None}]
    BY <1>1
  <2>4. QED
    BY <1>1, <1>2, <2>1, <2>2, <2>3, BlankTypes DEF TypeOK
<1>4. OrdersComplete
  BY <1>1, <1>2 DEF OrdersComplete
<1>5. WalletsBalance
  <2>1. SumTo(<<>>, 0) = 0
    BY SumNone
  <2>2. QED
    BY <1>1, <1>2, <2>1, ShopAssumption DEF WalletsBalance, Total
<1>6. QED
  BY <1>1, <1>2, <1>3, <1>4, <1>5 DEF IndInv

\* A new page has read nothing (Router).
LEMMA OpenInd ==
    ASSUME IndInv, Open
    PROVE  IndInv'
<1>1. /\ page' \in Request /\ page' # None
      /\ todo' = Reads[page'.kind] /\ view' = Blank
      /\ UNCHANGED <<balance, bought, tickets, services, listed, ledger, placed>>
  BY PagesAssumption DEF Open, shop, purchases, catalog
<1>2. /\ todo' \in Seq(Queries)
      /\ \A i \in 1..Len(todo') : todo'[i] \in {"orders", "ledger"} => page'.user \in Users
  BY <1>1, ReadsProperties
<1>3. TypeOK'
  BY <1>1, <1>2, BlankTypes DEF IndInv, TypeOK
<1>4. OrdersComplete' /\ WalletsBalance'
  BY <1>1 DEF IndInv, OrdersComplete, WalletsBalance, Total
<1>5. /\ view'.services = {} /\ view'.orders = {} /\ view'.records = {}
      /\ view'.service = None /\ view'.order = None /\ view'.record = None
      /\ view'.item = None /\ view'.balance = 0
  BY <1>1 DEF Blank
<1>6. RowsOwned'
  BY <1>5 DEF RowsOwned
<1>7. ASSUME page'.kind = "summary" PROVE SummaryRead'
  <2>1. todo' = Reads.summary /\ todo' # <<>>
    BY <1>1, <1>7 DEF Reads
  <2>2. page'.user \in Users
    BY <1>1, <1>7, Requests
  <2>3. QED
    BY <1>5, <2>1, <2>2 DEF SummaryRead
<1>8. ASSUME page'.kind = "wallet" PROVE WalletRead'
  <2>1. todo' = Reads.wallet /\ todo' # <<>>
    BY <1>1, <1>8 DEF Reads
  <2>2. page'.user \in Users
    BY <1>1, <1>8, Requests
  <2>3. 0 \in 0..Len(ledger'[page'.user]) /\ SumTo(ledger'[page'.user], 0) = 0
    <3>1. Len(ledger'[page'.user]) \in Nat
      BY <1>3, <2>2, LenProperties DEF TypeOK
    <3>2. QED
      BY <3>1, SumNone
  <2>4. QED
    BY <1>5, <2>1, <2>2, <2>3 DEF WalletRead
<1>9. ASSUME page'.kind = "checkout" PROVE CheckoutRead'
  <2>1. todo' = Reads.checkout
    BY <1>1, <1>9 DEF Reads
  <2>2. QED
    BY <1>5, <2>1 DEF CheckoutRead
<1>10. QED
  BY <1>1, <1>2, <1>3, <1>4, <1>6, <1>7, <1>8, <1>9 DEF IndInv

\* What a page has read so far stays true while the shop goes on.
LEMMA ShopInd ==
    ASSUME IndInv, ShopNext, UNCHANGED session
    PROVE  IndInv'
<1>1. TypeOK /\ OrdersComplete /\ WalletsBalance
  BY DEF IndInv
<1>2. page' = page /\ todo' = todo /\ view' = view
  BY DEF session
<1>3. TypeOK' /\ OrdersComplete'
  BY <1>1, ShopTypes, ShopOrders
<1>4. /\ WalletsBalance'
      /\ \A u \in Users : \A n \in 0..Len(ledger[u]) :
           n \in 0..Len(ledger'[u]) /\ SumTo(ledger'[u], n) = SumTo(ledger[u], n)
  BY <1>1, ShopBalances
<1>5. services \subseteq services' /\ listed \subseteq listed'
  BY <1>1, ShopEffect DEF Booked, Paid, Grown
<1>6. RowsOwned => RowsOwned'
  BY <1>2 DEF RowsOwned
<1>7. SummaryRead => SummaryRead'
  BY <1>2, <1>5 DEF SummaryRead
<1>8. WalletRead => WalletRead'
  BY <1>2, <1>4 DEF WalletRead
<1>9. CheckoutRead => CheckoutRead'
  BY <1>2, <1>5 DEF CheckoutRead
<1>10. QED
  BY <1>2, <1>3, <1>4, <1>6, <1>7, <1>8, <1>9 DEF IndInv

----------------------------------------------------------------------------
\* The queries.

\* A row that is found is one of those looked for.
LEMMA TheMember ==
    ASSUME NEW S, The(S) # None
    PROVE  The(S) \in S
  BY DEF The

\* What the queries return.
LEMMA Answers ==
    ASSUME IndInv, todo # <<>>, NEW q, q = Head(todo)
    PROVE  /\ q = "balance" =>
                /\ Answer(q) \in Int
                /\ page.user \in WalletUsers => Answer(q) = balance[page.user]
                /\ page.user \notin WalletUsers => Answer(q) = 0
           /\ q = "services" => Answer(q) = {k \in services : k[2] = page.user}
           /\ q = "orders" =>
                /\ Answer(q) \in SUBSET Rows
                /\ \A k \in Answer(q) : k[2] = page.user
                /\ page.kind = "summary" /\ Cardinality(Answer(q)) < SummaryLimit =>
                     {k \in services : k[2] = page.user} \subseteq Answer(q)
           /\ q = "ledger" =>
                /\ Answer(q) \in Seq(Int) /\ Len(Answer(q)) <= WalletLimit
                /\ Len(Answer(q)) < WalletLimit => Answer(q) = ledger[page.user]
           /\ q = "service" /\ Answer(q) # None => Answer(q)[2] = page.user
           /\ q = "order" /\ Answer(q) # None /\ page.role = "user" =>
                Answer(q)[2] = page.user
           /\ q = "record" /\ Answer(q) # None => Answer(q)[1] = page.vendor
           /\ q = "records" => \A k \in Answer(q) : k[1] = page.vendor
           /\ q = "item" /\ Answer(q) # None =>
                Answer(q) \in listed \cap Active /\ ItemVendor[Answer(q)] = view.vendor
<1>0. TypeOK
  BY DEF IndInv
<1>u. q \in {"orders", "ledger"} => page.user \in Users
  <2>1. 1 \in 1..Len(todo) /\ todo[1] = q
    BY <1>0, EmptySeq DEF TypeOK
  <2>2. QED
    BY <2>1 DEF IndInv
<1>1. ASSUME q = "balance"
      PROVE  /\ Answer(q) \in Int
             /\ page.user \in WalletUsers => Answer(q) = balance[page.user]
             /\ page.user \notin WalletUsers => Answer(q) = 0
  BY <1>0, <1>1 DEF Answer, Balance, TypeOK
<1>2. q = "services" => Answer(q) = {k \in services : k[2] = page.user}
  BY DEF Answer, ListAllByUser
<1>3. ASSUME q = "orders"
      PROVE  /\ Answer(q) \in SUBSET Rows
             /\ \A k \in Answer(q) : k[2] = page.user
             /\ page.kind = "summary" /\ Cardinality(Answer(q)) < SummaryLimit =>
                  {k \in services : k[2] = page.user} \subseteq Answer(q)
  <2>1. PICK n : n = IF page.kind = "summary" THEN SummaryLimit ELSE OrdersLimit
    OBVIOUS
  <2>2. n \in Nat
    BY <2>1, PagesAssumption
  <2>3. PICK u \in Users, s \in Seq(Rows) : u = page.user /\ s = placed[u]
    BY <1>0, <1>3, <1>u DEF TypeOK
  <2>4. Answer(q) = ToSet(Newest(s, n))
    BY <1>3, <2>1, <2>3 DEF Answer, ListByUser
  <2>5. \A i, j \in 1..Len(s) : s[i] = s[j] => i = j
    BY <2>3 DEF IndInv, OrdersComplete
  <2>6. /\ ToSet(Newest(s, n)) \subseteq {s[i] : i \in 1..Len(s)}
        /\ Cardinality(ToSet(Newest(s, n))) < n =>
             ToSet(Newest(s, n)) = {s[i] : i \in 1..Len(s)}
    BY <2>2, <2>5, NewestRows
  <2>7. \A i \in 1..Len(s) : s[i] \in Rows /\ s[i][2] = u
    <3>1. \A i \in 1..Len(s) : s[i] \in Rows
      BY ElementOfSeq
    <3>2. \A i \in 1..Len(s) : s[i][2] = u
      BY <2>3 DEF IndInv, OrdersComplete
    <3>3. QED
      BY <3>1, <3>2
  <2>8. {k \in services : k[2] = u} \subseteq {s[i] : i \in 1..Len(s)}
    <3>1. ASSUME NEW k \in services, k[2] = u PROVE \E i \in 1..Len(s) : s[i] = k
      <4>1. k \in Rows /\ bought[k] # None
        BY <1>0 DEF IndInv, OrdersComplete, TypeOK
      <4>2. QED
        BY <2>3, <3>1, <4>1 DEF IndInv, OrdersComplete
    <3>2. QED
      BY <3>1
  <2>9. QED
    BY <2>1, <2>3, <2>4, <2>6, <2>7, <2>8
<1>4. ASSUME q = "ledger"
      PROVE  /\ Answer(q) \in Seq(Int) /\ Len(Answer(q)) <= WalletLimit
             /\ Len(Answer(q)) < WalletLimit => Answer(q) = ledger[page.user]
  <2>1. PICK s \in Seq(Int) : s = ledger[page.user]
    BY <1>0, <1>4, <1>u DEF TypeOK
  <2>2. Answer(q) = Newest(s, WalletLimit)
    BY <1>4, <2>1 DEF Answer, ListTransactions
  <2>3. WalletLimit \in Nat /\ Len(s) \in Nat
    BY PagesAssumption, LenProperties
  <2>4. /\ Newest(s, WalletLimit) \in Seq(Int)
        /\ Len(Newest(s, WalletLimit)) <= WalletLimit
        /\ Len(s) <= WalletLimit => Newest(s, WalletLimit) = s
        /\ Len(s) > WalletLimit => Len(Newest(s, WalletLimit)) = WalletLimit
    BY <2>3, NewestProperties, Zenon
  <2>5. Len(s) <= WalletLimit \/ Len(s) > WalletLimit
    BY <2>3
  <2>6. Len(Newest(s, WalletLimit)) = WalletLimit =>
          ~(Len(Newest(s, WalletLimit)) < WalletLimit)
    BY <2>3
  <2>7. QED
    BY <2>1, <2>2, <2>4, <2>5, <2>6, Zenon
<1>5. q = "service" /\ Answer(q) # None => Answer(q)[2] = page.user
  BY TheMember DEF Answer, ByIDForUser
<1>6. q = "order" /\ Answer(q) # None /\ page.role = "user" => Answer(q)[2] = page.user
  BY TheMember DEF Answer, GetOrder
<1>7. q = "record" /\ Answer(q) # None => Answer(q)[1] = page.vendor
  BY TheMember DEF Answer, ByID
<1>8. q = "records" => \A k \in Answer(q) : k[1] = page.vendor
  BY DEF Answer, ListByVendorAndUser
<1>9. ASSUME q = "item", Answer(q) # None
      PROVE  Answer(q) \in listed \cap Active /\ ItemVendor[Answer(q)] = view.vendor
  <2>1. Answer(q) = ActiveItem(view.vendor, page.item)
    BY <1>9 DEF Answer
  <2>2. PICK i : i = GetProduct(view.vendor, page.item)
    OBVIOUS
  <2>3. Answer(q) = i /\ i \in Active /\ i # None
    BY <1>9, <2>1, <2>2 DEF ActiveItem
  <2>4. i \in {x \in listed : ItemVendor[x] = view.vendor /\ Slug[x] = page.item
                              /\ page.item \in ValidSlugs}
    BY <2>2, <2>3, TheMember DEF GetProduct
  <2>5. QED
    BY <2>3, <2>4
<1>10. QED
  BY <1>1, <1>2, <1>3, <1>4, <1>5, <1>6, <1>7, <1>8, <1>9

\* The queries left after the next one.
LEMMA LeftOver ==
    ASSUME IndInv, todo # <<>>, todo' \in {<<>>, Tail(todo)}
    PROVE  /\ Head(todo) \in Queries /\ todo' \in Seq(Queries)
           /\ \A i \in 1..Len(todo') :
                todo'[i] \in {"orders", "ledger"} => page.user \in Users
<1>1. /\ Head(todo) \in Queries /\ Tail(todo) \in Seq(Queries)
      /\ Len(Tail(todo)) = Len(todo) - 1
      /\ \A i \in 1..Len(Tail(todo)) : Tail(todo)[i] = todo[i + 1]
  BY HeadTailProperties DEF IndInv, TypeOK
<1>2. Len(todo) \in Nat /\ Len(<<>>) = 0 /\ <<>> \in Seq(Queries)
  BY LenProperties DEF IndInv, TypeOK
<1>3. \A i \in 1..Len(Tail(todo)) : i + 1 \in 1..Len(todo)
  BY <1>1, <1>2
<1>4. \A i \in 1..Len(todo) : todo[i] \in {"orders", "ledger"} => page.user \in Users
  BY DEF IndInv
<1>5. \A i \in 1..Len(Tail(todo)) :
        Tail(todo)[i] \in {"orders", "ledger"} => page.user \in Users
  BY <1>1, <1>3, <1>4
<1>6. CASE todo' = <<>>
  BY <1>1, <1>2, <1>6
<1>7. CASE todo' = Tail(todo)
  BY <1>1, <1>5, <1>7
<1>8. QED
  BY <1>6, <1>7

\* An answer keeps the page sound (Router's handlers, query by query).
LEMMA QueryInd ==
    ASSUME IndInv, Query
    PROVE  IndInv'
<1>q. PICK q, a : q = Head(todo) /\ a = Answer(q)
  OBVIOUS
<1>1. /\ page' = page /\ page # None /\ todo # <<>>
      /\ UNCHANGED <<balance, bought, tickets, services, listed, ledger, placed>>
      /\ view' = [view EXCEPT ![q] = a]
      /\ todo' = IF \/ q \in Needed /\ view'[q] = None
                    \/ page.user = None /\ Tail(todo) = <<"balance">>
                 THEN <<>> ELSE Tail(todo)
  BY <1>q DEF Query, IndInv, shop, purchases, catalog
<1>2. /\ q \in Queries /\ todo' \in Seq(Queries)
      /\ \A i \in 1..Len(todo') :
           todo'[i] \in {"orders", "ledger"} => page.user \in Users
  BY <1>q, <1>1, LeftOver
<1>3. /\ \A f \in Fields : view'[f] = IF f = q THEN a ELSE view[f]
      /\ view' = [f \in Fields |-> view'[f]]
  BY <1>1, <1>2 DEF IndInv, TypeOK, Queries
<1>4. /\ view'.balance = IF q = "balance" THEN a ELSE view.balance
      /\ view'.services = IF q = "services" THEN a ELSE view.services
      /\ view'.orders = IF q = "orders" THEN a ELSE view.orders
      /\ view'.ledger = IF q = "ledger" THEN a ELSE view.ledger
      /\ view'.service = IF q = "service" THEN a ELSE view.service
      /\ view'.order = IF q = "order" THEN a ELSE view.order
      /\ view'.record = IF q = "record" THEN a ELSE view.record
      /\ view'.records = IF q = "records" THEN a ELSE view.records
      /\ view'.vendor = IF q = "vendor" THEN a ELSE view.vendor
      /\ view'.item = IF q = "item" THEN a ELSE view.item
  <2>1. /\ "balance" \in Fields /\ "services" \in Fields /\ "orders" \in Fields
        /\ "ledger" \in Fields /\ "service" \in Fields /\ "order" \in Fields
        /\ "record" \in Fields /\ "records" \in Fields
        /\ "vendor" \in Fields /\ "item" \in Fields
    BY FieldNames
  <2>2. /\ view'.balance = IF q = "balance" THEN a ELSE view.balance
        /\ view'.services = IF q = "services" THEN a ELSE view.services
        /\ view'.orders = IF q = "orders" THEN a ELSE view.orders
        /\ view'.ledger = IF q = "ledger" THEN a ELSE view.ledger
    BY <1>3, <2>1
  <2>3. /\ view'.service = IF q = "service" THEN a ELSE view.service
        /\ view'.order = IF q = "order" THEN a ELSE view.order
        /\ view'.record = IF q = "record" THEN a ELSE view.record
        /\ view'.records = IF q = "records" THEN a ELSE view.records
    BY <1>3, <2>1
  <2>4. /\ view'.vendor = IF q = "vendor" THEN a ELSE view.vendor
        /\ view'.item = IF q = "item" THEN a ELSE view.item
    BY <1>3, <2>1
  <2>5. QED
    BY <2>2, <2>3, <2>4
<1>5. view'.ok = view.ok
  BY <1>2, <1>3, FieldNames
<1>6. /\ q = "balance" =>
           /\ a \in Int
           /\ page.user \in WalletUsers => a = balance[page.user]
           /\ page.user \notin WalletUsers => a = 0
      /\ q = "services" => a = {k \in services : k[2] = page.user}
      /\ q = "orders" =>
           /\ a \in SUBSET Rows
           /\ \A k \in a : k[2] = page.user
           /\ page.kind = "summary" /\ Cardinality(a) < SummaryLimit =>
                {k \in services : k[2] = page.user} \subseteq a
      /\ q = "ledger" =>
           /\ a \in Seq(Int) /\ Len(a) <= WalletLimit
           /\ Len(a) < WalletLimit => a = ledger[page.user]
      /\ q = "service" /\ a # None => a[2] = page.user
      /\ q = "order" /\ a # None /\ page.role = "user" => a[2] = page.user
      /\ q = "record" /\ a # None => a[1] = page.vendor
      /\ q = "records" => \A k \in a : k[1] = page.vendor
      /\ q = "item" /\ a # None =>
           a \in listed \cap Active /\ ItemVendor[a] = view.vendor
  BY <1>q, <1>1, Answers, Zenon
<1>7. TypeOK'
  <2>1. view'.ok \in BOOLEAN
    BY <1>5 DEF IndInv, TypeOK
  <2>2. view'.balance \in Int
    BY <1>4, <1>6 DEF IndInv, TypeOK
  <2>3. view'.services \in SUBSET Rows /\ view'.orders \in SUBSET Rows
    BY <1>4, <1>6 DEF IndInv, TypeOK
  <2>4. view'.ledger \in Seq(Int) /\ Len(view'.ledger) <= WalletLimit
    BY <1>4, <1>6 DEF IndInv, TypeOK
  <2>5. QED
    BY <1>1, <1>2, <1>3, <2>1, <2>2, <2>3, <2>4 DEF IndInv, TypeOK
<1>8. OrdersComplete' /\ WalletsBalance'
  BY <1>1 DEF IndInv, OrdersComplete, WalletsBalance, Total
<1>9. RowsOwned'
  <2>1. RowsOwned
    BY <1>1 DEF IndInv
  <2>2. \A k \in view'.services \cup view'.orders : k[2] = page'.user
    BY <1>1, <1>4, <1>6, <2>1 DEF RowsOwned
  <2>3. /\ view'.service # None => view'.service[2] = page'.user
        /\ view'.order # None /\ page'.role = "user" => view'.order[2] = page'.user
    BY <1>1, <1>4, <1>6, <2>1 DEF RowsOwned
  <2>4. /\ \A k \in view'.records : k[1] = page'.vendor
        /\ view'.record # None => view'.record[1] = page'.vendor
    BY <1>1, <1>4, <1>6, <2>1 DEF RowsOwned
  <2>5. QED
    BY <2>2, <2>3, <2>4 DEF RowsOwned
<1>n. \A u \in Users : u # None
  BY ShopAssumption
<1>10. ASSUME page.kind = "summary" PROVE SummaryRead'
  <2>1. SummaryRead
    BY <1>1, <1>10 DEF IndInv
  <2>2. page.user \in Users /\ page.user # None /\ view.services \subseteq services
    BY <1>n, <2>1 DEF SummaryRead
  <2>3. view'.services \subseteq services
    BY <1>4, <1>6, <2>2
  <2>4. CASE todo = <<"balance", "services", "orders">>
    <3>1. q = "balance" /\ Tail(todo) = <<"services", "orders">>
      BY <1>q, <2>4
    <3>2. todo' = <<"services", "orders">> /\ todo' # <<>>
      BY <1>1, <2>2, <3>1 DEF Needed
    <3>3. QED
      BY <1>1, <2>2, <2>3, <3>2 DEF SummaryRead
  <2>5. CASE todo = <<"services", "orders">>
    <3>1. q = "services" /\ Tail(todo) = <<"orders">>
      BY <1>q, <2>5
    <3>2. todo' = <<"orders">> /\ todo' # <<>>
      BY <1>1, <2>2, <3>1 DEF Needed
    <3>3. QED
      BY <1>1, <2>2, <2>3, <3>2 DEF SummaryRead
  <2>6. CASE todo = <<"orders">>
    <3>1. q = "orders" /\ Tail(todo) = <<>>
      BY <1>q, <2>6
    <3>2. todo' = <<>> /\ view'.orders = a /\ view'.services = view.services
      BY <1>1, <1>4, <3>1
    <3>3. \A k \in view.services : k[2] = page.user
      BY <1>1 DEF IndInv, RowsOwned
    <3>4. Cardinality(view'.orders) < SummaryLimit => view'.services \subseteq view'.orders
      BY <1>6, <1>10, <2>2, <3>1, <3>2, <3>3
    <3>5. QED
      BY <1>1, <2>2, <2>3, <3>2, <3>4 DEF SummaryRead
  <2>7. QED
    BY <1>1, <2>1, <2>4, <2>5, <2>6 DEF SummaryRead, Reads
<1>11. ASSUME page.kind = "wallet" PROVE WalletRead'
  <2>1. WalletRead
    BY <1>1, <1>11 DEF IndInv
  <2>2. PICK u \in Users : u = page.user /\ u # None
    BY <1>n, <2>1 DEF WalletRead
  <2>3. CASE todo = <<"balance", "ledger">>
    <3>1. q = "balance" /\ Tail(todo) = <<"ledger">>
      BY <1>q, <2>3
    <3>2. todo' = <<"ledger">> /\ todo' # <<>> /\ view'.balance = a
      BY <1>1, <1>4, <2>2, <3>1 DEF Needed
    <3>3. Len(ledger[u]) \in Nat
      BY LenProperties DEF IndInv, TypeOK
    <3>4. \E n \in 0..Len(ledger[u]) : a = SumTo(ledger[u], n)
      <4>1. CASE u \in WalletUsers
        <5>1. a = SumTo(ledger[u], Len(ledger[u]))
          BY <1>6, <2>2, <3>1, <4>1 DEF IndInv, WalletsBalance, Total
        <5>2. Len(ledger[u]) \in 0..Len(ledger[u])
          BY <3>3
        <5>3. QED
          BY <5>1, <5>2
      <4>2. CASE u \notin WalletUsers
        <5>1. a = SumTo(ledger[u], 0)
          BY <1>6, <2>2, <3>1, <4>2, SumNone
        <5>2. 0 \in 0..Len(ledger[u])
          BY <3>3
        <5>3. QED
          BY <5>1, <5>2
      <4>3. QED
        BY <4>1, <4>2
    <3>5. QED
      BY <1>1, <2>2, <3>2, <3>4 DEF WalletRead
  <2>4. CASE todo = <<"ledger">>
    <3>1. q = "ledger" /\ Tail(todo) = <<>> /\ todo # <<>>
      BY <1>q, <2>4
    <3>2. todo' = <<>> /\ view'.ledger = a /\ view'.balance = view.balance
      BY <1>1, <1>4, <3>1
    <3>3. \E n \in 0..Len(ledger[u]) : view.balance = SumTo(ledger[u], n)
      BY <2>1, <2>2, <3>1 DEF WalletRead
    <3>4. Len(a) < WalletLimit => a = ledger[u]
      BY <1>6, <2>2, <3>1
    <3>5. QED
      BY <1>1, <2>2, <3>2, <3>3, <3>4 DEF WalletRead
  <2>5. QED
    BY <1>1, <2>1, <2>3, <2>4 DEF WalletRead, Reads
<1>12. ASSUME page.kind = "checkout" PROVE CheckoutRead'
  <2>1. CheckoutRead
    BY <1>1, <1>12 DEF IndInv
  <2>2. page.user \notin WalletUsers => view'.balance = 0
    BY <1>4, <1>6, <2>1 DEF CheckoutRead
  <2>3. CASE todo = <<"vendor", "item", "balance">>
    <3>1. q = "vendor" /\ Tail(todo) = <<"item", "balance">>
      BY <1>q, <2>3
    <3>2. todo' \in {<<"item", "balance">>, <<>>} /\ view'.item = view.item
      BY <1>1, <1>4, <3>1
    <3>3. todo \notin {<<"balance">>, <<>>}
      BY <2>3
    <3>4. view'.item = None
      BY <2>1, <3>2, <3>3 DEF CheckoutRead
    <3>5. QED
      BY <1>1, <2>2, <3>2, <3>4 DEF CheckoutRead
  <2>4. CASE todo = <<"item", "balance">>
    <3>1. q = "item" /\ Tail(todo) = <<"balance">>
      BY <1>q, <2>4
    <3>2. /\ todo' \in {<<"balance">>, <<>>}
          /\ view'.item = a /\ view'.vendor = view.vendor
      BY <1>1, <1>4, <3>1
    <3>3. view'.item # None =>
            view'.item \in listed \cap Active /\ ItemVendor[view'.item] = view'.vendor
      BY <1>6, <3>1, <3>2
    <3>4. QED
      BY <1>1, <2>2, <3>2, <3>3 DEF CheckoutRead
  <2>5. CASE todo = <<"balance">>
    <3>1. q = "balance" /\ Tail(todo) = <<>>
      BY <1>q, <2>5
    <3>2. todo' = <<>> /\ view'.item = view.item /\ view'.vendor = view.vendor
      BY <1>1, <1>4, <3>1
    <3>3. QED
      BY <1>1, <2>1, <2>2, <3>2 DEF CheckoutRead
  <2>6. QED
    BY <1>1, <2>1, <2>3, <2>4, <2>5 DEF CheckoutRead, Reads
<1>13. QED
  BY <1>1, <1>2, <1>7, <1>8, <1>9, <1>10, <1>11, <1>12 DEF IndInv

\* A failed query leaves its value zero, or ends the page.
LEMMA QueryFailsInd ==
    ASSUME IndInv, QueryFails
    PROVE  IndInv'
<1>1. /\ page' = page /\ page # None /\ todo # <<>>
      /\ UNCHANGED <<balance, bought, tickets, services, listed, ledger, placed>>
      /\ view' = [view EXCEPT !.ok = FALSE]
      /\ todo' \in {<<>>, Tail(todo)}
  BY DEF QueryFails, IndInv, shop, purchases, catalog
<1>2. /\ todo' \in Seq(Queries)
      /\ \A i \in 1..Len(todo') :
           todo'[i] \in {"orders", "ledger"} => page.user \in Users
  BY <1>1, LeftOver
<1>3. /\ view' = [f \in Fields |-> view'[f]]
      /\ view'.ok = FALSE
      /\ \A f \in Fields \ {"ok"} : view'[f] = view[f]
  BY <1>1, FieldNames DEF IndInv, TypeOK
<1>4. /\ view'.balance = view.balance /\ view'.services = view.services
      /\ view'.orders = view.orders /\ view'.ledger = view.ledger
      /\ view'.service = view.service /\ view'.order = view.order
      /\ view'.record = view.record /\ view'.records = view.records
      /\ view'.vendor = view.vendor /\ view'.item = view.item
  BY <1>3, FieldNames
<1>5. TypeOK'
  <2>1. view'.ok \in BOOLEAN
    BY <1>3, Zenon
  <2>2. QED
    BY <1>1, <1>2, <1>3, <1>4, <2>1 DEF IndInv, TypeOK
<1>6. OrdersComplete' /\ WalletsBalance'
  BY <1>1 DEF IndInv, OrdersComplete, WalletsBalance, Total
<1>7. RowsOwned'
  BY <1>1, <1>4 DEF IndInv, RowsOwned
<1>8. ~view'.ok
  BY <1>3, Zenon
<1>9. ASSUME page.kind = "summary" PROVE SummaryRead'
  <2>1. SummaryRead
    BY <1>1, <1>9 DEF IndInv
  <2>2. todo' \in {<<"services", "orders">>, <<"orders">>, <<>>}
    <3>1. todo \in {<<"balance", "services", "orders">>, <<"services", "orders">>,
                    <<"orders">>}
      BY <1>1, <2>1 DEF SummaryRead, Reads
    <3>2. /\ Tail(<<"balance", "services", "orders">>) = <<"services", "orders">>
          /\ Tail(<<"services", "orders">>) = <<"orders">>
          /\ Tail(<<"orders">>) = <<>>
      OBVIOUS
    <3>3. QED
      BY <1>1, <3>1, <3>2
  <2>3. QED
    BY <1>1, <1>4, <1>8, <2>1, <2>2 DEF SummaryRead
<1>10. ASSUME page.kind = "wallet" PROVE WalletRead'
  <2>1. WalletRead
    BY <1>1, <1>10 DEF IndInv
  <2>2. todo' \in {<<"ledger">>, <<>>}
    <3>1. todo \in {<<"balance", "ledger">>, <<"ledger">>}
      BY <1>1, <2>1 DEF WalletRead, Reads
    <3>2. /\ Tail(<<"balance", "ledger">>) = <<"ledger">>
          /\ Tail(<<"ledger">>) = <<>>
      OBVIOUS
    <3>3. QED
      BY <1>1, <3>1, <3>2
  <2>3. QED
    BY <1>1, <1>4, <1>8, <2>1, <2>2 DEF WalletRead
<1>11. ASSUME page.kind = "checkout" PROVE CheckoutRead'
  <2>1. CheckoutRead
    BY <1>1, <1>11 DEF IndInv
  <2>2. todo' \in {<<"item", "balance">>, <<"balance">>, <<>>}
    <3>1. todo \in {<<"vendor", "item", "balance">>, <<"item", "balance">>, <<"balance">>}
      BY <1>1, <2>1 DEF CheckoutRead, Reads
    <3>2. /\ Tail(<<"vendor", "item", "balance">>) = <<"item", "balance">>
          /\ Tail(<<"item", "balance">>) = <<"balance">>
          /\ Tail(<<"balance">>) = <<>>
      OBVIOUS
    <3>3. QED
      BY <1>1, <3>1, <3>2
  <2>3. view.item # None => todo' = <<>>
    <3>1. view.item # None => todo = <<"balance">>
      BY <1>1, <2>1 DEF CheckoutRead
    <3>2. Tail(<<"balance">>) = <<>>
      OBVIOUS
    <3>3. QED
      BY <1>1, <3>1, <3>2
  <2>4. QED
    BY <1>1, <1>4, <2>1, <2>2, <2>3 DEF CheckoutRead
<1>12. QED
  BY <1>1, <1>2, <1>5, <1>6, <1>7, <1>9, <1>10, <1>11 DEF IndInv

----------------------------------------------------------------------------
\* Whatever the shop does between the queries, and whichever of them fail.
THEOREM Inductive == Spec => []IndInv
<1>1. Init => IndInv
  BY InitInd
<1>2. IndInv /\ [Next]_vars => IndInv'
  <2> SUFFICES ASSUME IndInv, [Next]_vars PROVE IndInv'
    OBVIOUS
  <2>1. CASE Open
    BY <2>1, OpenInd
  <2>2. CASE Query
    BY <2>2, QueryInd
  <2>3. CASE QueryFails
    BY <2>3, QueryFailsInd
  <2>4. CASE ShopNext /\ UNCHANGED session
    BY <2>4, ShopInd
  <2>5. CASE UNCHANGED vars
    <3>1. UNCHANGED <<balance, bought, tickets, services, listed, ledger, placed,
                      page, todo, view>>
      BY <2>5 DEF vars, shop, purchases, catalog, session
    <3>2. QED
      BY <3>1 DEF IndInv, TypeOK, OrdersComplete, WalletsBalance, Total, RowsOwned,
         SummaryRead, WalletRead, CheckoutRead
  <2>6. QED
    BY <2>1, <2>2, <2>3, <2>4, <2>5 DEF Next
<1>3. QED
  BY <1>1, <1>2, PTL DEF Spec

\* The tables and what a page shows of them have their types, LIMITs included.
THEOREM TypeCorrect == Spec => []TypeOK
<1>1. IndInv => TypeOK
  BY DEF IndInv
<1>2. QED
  BY <1>1, Inductive, PTL

\* A page whose list is not cut off makes sense although its queries see
\* different states, and shows nobody else's rows (dashboard Router, the order
\* and the service queries).
THEOREM Coherent == Spec => []PagesCoherent
<1>1. IndInv => PagesCoherent
  <2> SUFFICES ASSUME IndInv PROVE PagesCoherent
    OBVIOUS
  <2>1. Shows("summary") /\ Cardinality(view.orders) < SummaryLimit =>
          view.services \subseteq view.orders
    BY DEF IndInv, Shows, SummaryRead
  <2>2. ASSUME Shows("wallet"), Len(view.ledger) < WalletLimit
        PROVE  \E n \in 0..Len(view.ledger) :
                 view.balance = Total(SubSeq(view.ledger, 1, n))
    <3>1. PICK n \in 0..Len(view.ledger) : view.balance = SumTo(view.ledger, n)
      BY <2>2 DEF IndInv, Shows, WalletRead
    <3>2. view.ledger \in Seq(Int)
      BY DEF IndInv, TypeOK
    <3>3. QED
      BY <3>1, <3>2, TotalPrefix
  <2>3. page # None => RowsOwned
    BY DEF IndInv
  <2>4. QED
    BY <2>1, <2>2, <2>3 DEF PagesCoherent, RowsOwned
<1>2. QED
  BY <1>1, Inductive, PTL

\* What the checkout page says about the product it shows is what an order of
\* it meets, as long as the wallet has not changed and the product has its row
\* in service_catalog (storefront Router).
THEOREM Checkout == Spec => []CheckoutSound
<1>1. IndInv => CheckoutSound
  <2> SUFFICES ASSUME IndInv, page # None, page.kind = "checkout", todo = <<>>,
                      view.item # None, page.user # None
               PROVE  /\ /\ view.item \in ServiceCatalog
                         /\ \/ page.user \in WalletUsers
                               /\ balance[page.user] >= view.balance
                            \/ page.user \notin WalletUsers /\ Price[view.item] > 0
                         => (view.balance >= Price[view.item] =>
                               CanBuy(view.vendor, page.user, view.item))
                      /\ page.user \in WalletUsers /\ balance[page.user] <= view.balance
                         /\ view.ok =>
                           (~(view.balance >= Price[view.item]) =>
                               ~CanBuy(view.vendor, page.user, view.item))
    BY DEF CheckoutSound
  <2>1. /\ view.item \in listed /\ view.item \in Active
        /\ ItemVendor[view.item] = view.vendor
        /\ page.user \notin WalletUsers => view.balance = 0
    BY DEF IndInv, CheckoutRead
  <2>2. PICK p \in Int : p = Price[view.item]
    BY <2>1, ShopAssumption DEF IndInv, TypeOK
  <2>3. PICK b \in Int : b = view.balance
    BY DEF IndInv, TypeOK
  <2>4. page.user \in WalletUsers => balance[page.user] \in Int
    BY DEF IndInv, TypeOK
  <2>5. QED
    BY <2>1, <2>2, <2>3, <2>4 DEF CanBuy
<1>2. QED
  BY <1>1, Inductive, PTL

=============================================================================
