----------------------------- MODULE ServiceProofs -----------------------------
(***************************************************************************)
(* What is proved about the audit log, the browser sessions, the fair      *)
(* scheduler and the queue.  The components share nothing, and their       *)
(* modules no name.                                                        *)
(***************************************************************************)
EXTENDS AuditLog, BrowserSessions, FairScheduler, JobQueue,
        FiniteSetTheorems, WellFoundedInduction, TLAPS

--------------------------------------------------------------------------------
(* Numbers *)

(* Induction, from the least number of a set that has one.                 *)
LEMMA LeastNumber ==
  ASSUME NEW S \in SUBSET Nat, S # {}
  PROVE  \E n \in S : \A m \in S : n <= m
<1>1. PICK n \in S : \A m \in S : ~(<<m, n>> \in OpToRel(<, Nat))
  BY WFMin, NatLessThanWellFounded
<1>2. \A m \in S : ~(m < n)
  BY <1>1 DEF OpToRel
<1>3. QED BY <1>2

LEMMA SetInduction ==
  ASSUME NEW S, S \subseteq Nat, 0 \in S, \A n \in S : n + 1 \in S
  PROVE  S = Nat
<1> SUFFICES ASSUME Nat \ S # {} PROVE FALSE
  OBVIOUS
<1>1. PICK n \in Nat \ S : \A m \in Nat \ S : n <= m
  BY LeastNumber
<1>2. n # 0 /\ n - 1 \in Nat
  BY <1>1
<1>3. n - 1 \in S
  BY <1>1, <1>2
<1>4. n - 1 + 1 \in S
  BY <1>3
<1>5. QED BY <1>1, <1>4

(* What falls from each to the next falls from each to all later ones.     *)
LEMMA FallsThroughout ==
  ASSUME NEW N \in Nat, NEW v \in [1..N -> Nat], \A n \in 1..N - 1 : v[n] >= v[n + 1]
  PROVE  \A m, n \in 1..N : m <= n => v[m] >= v[n]
<1> DEFINE S == {k \in Nat : \A m \in 1..N : m + k \in 1..N => v[m] >= v[m + k]}
<1>1. 0 \in S
  OBVIOUS
<1>2. ASSUME NEW k \in S PROVE k + 1 \in S
  <2> SUFFICES ASSUME NEW m \in 1..N, m + (k + 1) \in 1..N PROVE v[m] >= v[m + (k + 1)]
    OBVIOUS
  <2>1. k \in Nat /\ m + k \in 1..N /\ m + k \in 1..N - 1 /\ m + (k + 1) = (m + k) + 1
    OBVIOUS
  <2>2. v[m] >= v[m + k] /\ v[m + k] >= v[(m + k) + 1]
    BY <2>1
  <2>3. v[m] \in Nat /\ v[m + k] \in Nat /\ v[(m + k) + 1] \in Nat
    BY <2>1
  <2> HIDE DEF S
  <2>4. QED BY <2>1, <2>2, <2>3
<1>3. S \subseteq Nat
  OBVIOUS
<1>4. S = Nat
  <2> HIDE DEF S
  <2> QED BY <1>1, <1>2, <1>3, SetInduction
<1>5. QED
  <2> SUFFICES ASSUME NEW m \in 1..N, NEW n \in 1..N, m <= n PROVE v[m] >= v[n]
    OBVIOUS
  <2>1. n - m \in Nat /\ m + (n - m) = n
    OBVIOUS
  <2>2. n - m \in S
    BY <1>4, <2>1
  <2>3. QED BY <2>1, <2>2

LEMMA FirstNumbers ==
  ASSUME NEW n \in Nat
  PROVE  IsFiniteSet(1..n) /\ Cardinality(1..n) = n
<1>1. 1 \in Int /\ n \in Int
  OBVIOUS
<1>2. IsFiniteSet(1..n) /\ Cardinality(1..n) = IF 1 > n THEN 0 ELSE n - 1 + 1
  BY <1>1, FS_Interval
<1>3. QED BY <1>2

--------------------------------------------------------------------------------
(* Sets in an order *)

(* Strictly ordered: any two members, one way, and no way around.          *)
Ordered(S, R) ==
  /\ \A x \in S : <<x, x>> \notin R
  /\ \A x, y \in S : x # y => <<x, y>> \in R \/ <<y, x>> \in R
  /\ \A x, y, z \in S : <<x, y>> \in R /\ <<y, z>> \in R => <<x, z>> \in R

Lower(S, R, x) == {y \in S : <<y, x>> \in R}

(* A member has fewer members below it than one above it, and each number   *)
(* of them below the size of the set is that of one member.                 *)
LEMMA RanksAreFilled ==
  ASSUME NEW S, IsFiniteSet(S), NEW R, Ordered(S, R)
  PROVE  /\ \A x \in S : Cardinality(Lower(S, R, x)) + 1 \in 1..Cardinality(S)
         /\ \A x, y \in S : <<x, y>> \in R =>
              Cardinality(Lower(S, R, x)) < Cardinality(Lower(S, R, y))
         /\ \A n \in 1..Cardinality(S) : \E x \in S : Cardinality(Lower(S, R, x)) + 1 = n
<1>1. Cardinality(S) \in Nat
  BY FS_CardinalityType
<1>2. \A x \in S : /\ IsFiniteSet(Lower(S, R, x))
                   /\ Cardinality(Lower(S, R, x)) \in Nat
                   /\ Cardinality(Lower(S, R, x)) < Cardinality(S)
  <2> TAKE x \in S
  <2>1. Lower(S, R, x) \in SUBSET S /\ x \notin Lower(S, R, x)
    BY DEF Lower, Ordered
  <2>2. /\ IsFiniteSet(Lower(S, R, x)) /\ Cardinality(Lower(S, R, x)) <= Cardinality(S)
        /\ Cardinality(S) = Cardinality(Lower(S, R, x)) => S = Lower(S, R, x)
    BY <2>1, FS_Subset
  <2>3. Cardinality(Lower(S, R, x)) \in Nat
    BY <2>2, FS_CardinalityType
  <2>4. QED BY <1>1, <2>1, <2>2, <2>3
<1>3. ASSUME NEW x \in S, NEW y \in S, <<x, y>> \in R
      PROVE  Cardinality(Lower(S, R, x)) < Cardinality(Lower(S, R, y))
  <2>1. Lower(S, R, x) \in SUBSET Lower(S, R, y)
    BY <1>3 DEF Lower, Ordered
  <2>2. x \in Lower(S, R, y) /\ x \notin Lower(S, R, x)
    BY <1>3 DEF Lower, Ordered
  <2>3. /\ Cardinality(Lower(S, R, x)) <= Cardinality(Lower(S, R, y))
        /\ Cardinality(Lower(S, R, y)) = Cardinality(Lower(S, R, x))
             => Lower(S, R, y) = Lower(S, R, x)
    BY <1>2, <2>1, FS_Subset
  <2>4. QED BY <1>2, <2>2, <2>3
<1> DEFINE rank == [x \in S |-> Cardinality(Lower(S, R, x)) + 1]
<1>4. rank \in [S -> 1..Cardinality(S)]
  BY <1>1, <1>2
<1>5. \A x, y \in S : rank[x] = rank[y] => x = y
  <2> SUFFICES ASSUME NEW x \in S, NEW y \in S, rank[x] = rank[y], x # y PROVE FALSE
    OBVIOUS
  <2>1. <<x, y>> \in R \/ <<y, x>> \in R
    BY DEF Ordered
  <2>2. Cardinality(Lower(S, R, x)) = Cardinality(Lower(S, R, y))
    BY <1>2
  <2>3. QED BY <1>2, <1>3, <2>1, <2>2
<1>6. rank \in Injection(S, 1..Cardinality(S))
  <2> HIDE DEF rank
  <2> QED BY <1>4, <1>5 DEF Injection, IsInjective
<1>7. IsFiniteSet(1..Cardinality(S)) /\ Cardinality(1..Cardinality(S)) = Cardinality(S)
  BY <1>1, FS_Interval
<1>8. rank \in Surjection(S, 1..Cardinality(S))
  <2> HIDE DEF rank
  <2> QED BY <1>6, <1>7, FS_Injection
<1>9. \A n \in 1..Cardinality(S) : \E x \in S : rank[x] = n
  <2> HIDE DEF rank
  <2> QED BY <1>8 DEF Surjection
<1>10. QED
  BY <1>2, <1>3, <1>4, <1>9

InRank(S, R) ==
  [n \in 1..Cardinality(S) |-> CHOOSE x \in S : Cardinality(Lower(S, R, x)) + 1 = n]

(* How a member is found by its rank.                                      *)
LEMMA RankOf ==
  ASSUME NEW S, IsFiniteSet(S), NEW R, Ordered(S, R)
  PROVE  /\ Cardinality(S) \in Nat /\ InRank(S, R) \in [1..Cardinality(S) -> S]
         /\ \A n \in 1..Cardinality(S) :
              /\ Cardinality(Lower(S, R, InRank(S, R)[n])) + 1 = n
              /\ \A x \in S : Cardinality(Lower(S, R, x)) + 1 = n => InRank(S, R)[n] = x
<1> DEFINE rank(x) == Cardinality(Lower(S, R, x)) + 1
<1> DEFINE s == InRank(S, R)
<1>1. Cardinality(S) \in Nat
  BY FS_CardinalityType
<1>2. \A n \in 1..Cardinality(S) : s[n] \in S /\ rank(s[n]) = n
  <2> TAKE n \in 1..Cardinality(S)
  <2>1. \E x \in S : rank(x) = n
    BY RanksAreFilled
  <2>2. s[n] = CHOOSE x \in S : rank(x) = n
    BY DEF InRank
  <2> HIDE DEF s, rank
  <2>3. QED BY <2>1, <2>2
<1>3. s \in [1..Cardinality(S) -> S]
  BY <1>2 DEF InRank
<1>4. \A x, y \in S : <<x, y>> \in R =>
        Cardinality(Lower(S, R, x)) < Cardinality(Lower(S, R, y))
  BY RanksAreFilled
<1>5. \A x \in S : Cardinality(Lower(S, R, x)) \in Nat
  <2>1. \A x \in S : Lower(S, R, x) \in SUBSET S
    BY DEF Lower
  <2>2. \A x \in S : IsFiniteSet(Lower(S, R, x))
    BY <2>1, FS_Subset
  <2>3. QED BY <2>2, FS_CardinalityType
<1>6. \A x, y \in S : x # y => rank(x) # rank(y)
  <2> TAKE x, y \in S
  <2> HAVE x # y
  <2>1. <<x, y>> \in R \/ <<y, x>> \in R
    BY DEF Ordered
  <2>2. \/ Cardinality(Lower(S, R, x)) < Cardinality(Lower(S, R, y))
        \/ Cardinality(Lower(S, R, y)) < Cardinality(Lower(S, R, x))
    BY <1>4, <2>1
  <2>3. QED BY <1>5, <2>2
<1> HIDE DEF s
<1>7. QED
  BY <1>1, <1>2, <1>3, <1>6 DEF s

(* The members by their ranks: a sequence that has each of them, in order. *)
LEMMA InRankIsInOrder ==
  ASSUME NEW S, IsFiniteSet(S), NEW R, Ordered(S, R)
  PROVE  LET s == InRank(S, R)
         IN  /\ s \in Seq(S) /\ Len(s) = Cardinality(S) /\ Cardinality(S) \in Nat
             /\ \A x \in S : \E n \in 1..Len(s) : s[n] = x
             /\ \A m, n \in 1..Len(s) : m < n => <<s[m], s[n]>> \in R
<1> DEFINE s == InRank(S, R)
<1>1. Cardinality(S) \in Nat /\ s \in [1..Cardinality(S) -> S]
  BY RankOf
<1>2. \A n \in 1..Cardinality(S) :
        /\ s[n] \in S /\ Cardinality(Lower(S, R, s[n])) + 1 = n
        /\ \A x \in S : Cardinality(Lower(S, R, x)) + 1 = n => s[n] = x
  BY <1>1, RankOf
<1> HIDE DEF s
<1>3. s \in Seq(S) /\ Len(s) = Cardinality(S)
  BY <1>1
<1>4. /\ \A x \in S : Cardinality(Lower(S, R, x)) + 1 \in 1..Cardinality(S)
      /\ \A x, y \in S : <<x, y>> \in R =>
           Cardinality(Lower(S, R, x)) < Cardinality(Lower(S, R, y))
  BY RanksAreFilled
<1>5. \A x \in S : \E n \in 1..Len(s) : s[n] = x
  BY <1>2, <1>3, <1>4
<1>6. ASSUME NEW m \in 1..Len(s), NEW n \in 1..Len(s), m < n
      PROVE  <<s[m], s[n]>> \in R
  <2>1. /\ s[m] \in S /\ Cardinality(Lower(S, R, s[m])) + 1 = m
        /\ s[n] \in S /\ Cardinality(Lower(S, R, s[n])) + 1 = n
    BY <1>2, <1>3
  <2>2. /\ IsFiniteSet(Lower(S, R, s[m])) /\ IsFiniteSet(Lower(S, R, s[n]))
    <3>1. Lower(S, R, s[m]) \in SUBSET S /\ Lower(S, R, s[n]) \in SUBSET S
      BY DEF Lower
    <3>2. QED BY <3>1, FS_Subset
  <2>3. Cardinality(Lower(S, R, s[m])) \in Nat /\ Cardinality(Lower(S, R, s[n])) \in Nat
    BY <2>2, FS_CardinalityType
  <2>4. s[m] # s[n]
    BY <1>6, <2>1
  <2>5. <<s[m], s[n]>> \in R \/ <<s[n], s[m]>> \in R
    BY <2>1, <2>4 DEF Ordered
  <2>6. <<s[n], s[m]>> \notin R
    BY <1>4, <1>6, <2>1, <2>3
  <2>7. QED BY <2>5, <2>6
<1>7. QED
  BY <1>1, <1>3, <1>5, <1>6 DEF s

(* One to one, and with the order kept.                                    *)
OrderKept(h, S, R, T, Q) ==
  /\ h \in [S -> T]
  /\ \A y \in T : \E x \in S : h[x] = y
  /\ \A x, y \in S : h[x] = h[y] => x = y
  /\ \A x, y \in S : <<x, y>> \in R <=> <<h[x], h[y]>> \in Q

(* An image that keeps the order has the images of the sequence.           *)
LEMMA ImageInRank ==
  ASSUME NEW S, IsFiniteSet(S), NEW R, Ordered(S, R),
         NEW T, NEW Q, Ordered(T, Q), NEW h, OrderKept(h, S, R, T, Q)
  PROVE  /\ Cardinality(T) = Cardinality(S) /\ IsFiniteSet(T)
         /\ \A n \in 1..Cardinality(S) : InRank(T, Q)[n] = h[InRank(S, R)[n]]
<1> USE DEF OrderKept
<1>1. h \in Injection(S, T) /\ h \in Surjection(S, T)
  BY DEF Injection, IsInjective, Surjection
<1>2. h \in Bijection(S, T)
  BY <1>1 DEF Bijection
<1>3. IsFiniteSet(T) /\ Cardinality(T) = Cardinality(S)
  BY <1>2, FS_Bijection DEF ExistsBijection
<1>4. ASSUME NEW x \in S
      PROVE  Cardinality(Lower(T, Q, h[x])) = Cardinality(Lower(S, R, x))
  <2> DEFINE L == Lower(S, R, x)
             M == Lower(T, Q, h[x])
             g == [y \in L |-> h[y]]
  <2>1. L \in SUBSET S /\ M \in SUBSET T
    BY DEF Lower
  <2>2. IsFiniteSet(L)
    BY <2>1, FS_Subset
  <2>3. \A y \in L : h[y] \in M
    BY DEF Lower
  <2>4. \A z \in M : \E y \in L : h[y] = z
    <3> TAKE z \in M
    <3>1. z \in T /\ <<z, h[x]>> \in Q
      BY DEF Lower
    <3>2. PICK y \in S : h[y] = z
      BY <3>1
    <3>3. y \in L
      BY <3>1, <3>2 DEF Lower
    <3>4. QED BY <3>2, <3>3
  <2> HIDE DEF L, M
  <2>5. g \in [L -> M] /\ \A y \in L : g[y] = h[y]
    BY <2>3
  <2>6. /\ \A y, z \in L : g[y] = g[z] => y = z
        /\ \A z \in M : \E y \in L : g[y] = z
    BY <2>1, <2>4, <2>5
  <2> HIDE DEF g
  <2>7. g \in Injection(L, M) /\ g \in Surjection(L, M)
    BY <2>5, <2>6 DEF Injection, IsInjective, Surjection
  <2>8. ExistsBijection(L, M)
    BY <2>7 DEF ExistsBijection, Bijection
  <2>9. QED BY <2>2, <2>8, FS_Bijection DEF L, M
<1>5. ASSUME NEW n \in 1..Cardinality(S)
      PROVE  InRank(T, Q)[n] = h[InRank(S, R)[n]]
  <2> DEFINE x == InRank(S, R)[n]
  <2>1. x \in S /\ Cardinality(Lower(S, R, x)) + 1 = n
    BY RankOf
  <2> HIDE DEF x
  <2>2. h[x] \in T /\ Cardinality(Lower(T, Q, h[x])) + 1 = n
    BY <1>4, <2>1
  <2>3. QED BY <1>3, <2>2, RankOf DEF x
<1>6. QED BY <1>3, <1>5

(* A sequence in order that has each member is that of the ranks.          *)
Sorts(s, N, T, Q) ==
  /\ s \in [1..N -> T] /\ \A y \in T : \E n \in 1..N : s[n] = y
  /\ \A m, n \in 1..N : m < n => <<s[m], s[n]>> \in Q

LEMMA SortedIsInRank ==
  ASSUME NEW T, NEW Q, Ordered(T, Q), NEW N \in Nat, NEW s, Sorts(s, N, T, Q)
  PROVE  s = InRank(T, Q) /\ Cardinality(T) = N
<1> USE DEF Sorts
<1> DEFINE S == 1..N
           R == {p \in S \X S : p[1] < p[2]}
<1>1. IsFiniteSet(S) /\ Cardinality(S) = N
  BY FirstNumbers
<1>2. \A m, n \in S : <<m, n>> \in R <=> m < n
  OBVIOUS
<1>3. Ordered(S, R)
  <2> HIDE DEF R
  <2> QED BY <1>2 DEF Ordered
<1>4. \A m, n \in S : m < n => s[m] # s[n] /\ <<s[n], s[m]>> \notin Q
  <2> TAKE m, n \in S
  <2> HAVE m < n
  <2>1. s[m] \in T /\ s[n] \in T /\ <<s[m], s[n]>> \in Q
    OBVIOUS
  <2>2. <<s[m], s[m]>> \notin Q
    BY <2>1 DEF Ordered
  <2>3. <<s[n], s[m]>> \in Q => <<s[m], s[m]>> \in Q
    BY <2>1 DEF Ordered
  <2>4. QED BY <2>1, <2>2, <2>3
<1>5. \A m, n \in S : m < n \/ m = n \/ n < m
  OBVIOUS
<1>6. \A m, n \in S : s[m] = s[n] => m = n
  BY <1>4, <1>5
<1>7. \A n \in S : <<s[n], s[n]>> \notin Q
  BY DEF Ordered
<1>8. \A m, n \in S : <<m, n>> \in R <=> <<s[m], s[n]>> \in Q
  <2> HIDE DEF R
  <2> QED BY <1>2, <1>4, <1>5, <1>7
<1> HIDE DEF R
<1>9. /\ Cardinality(T) = N /\ IsFiniteSet(T)
      /\ \A n \in 1..N : InRank(T, Q)[n] = s[InRank(S, R)[n]]
  <2>1. s \in [S -> T] /\ \A y \in T : \E x \in S : s[x] = y
    OBVIOUS
  <2>2. /\ Cardinality(T) = Cardinality(S) /\ IsFiniteSet(T)
        /\ \A n \in 1..Cardinality(S) : InRank(T, Q)[n] = s[InRank(S, R)[n]]
    <3> HIDE DEF S
    <3>1. OrderKept(s, S, R, T, Q)
      BY <1>6, <1>8, <2>1 DEF OrderKept
    <3>2. QED BY <1>1, <1>3, <3>1, ImageInRank
  <2>3. QED BY <1>1, <2>2
<1>10. \A n \in S : Cardinality(Lower(S, R, n)) + 1 = n
  <2> TAKE n \in S
  <2>1. Lower(S, R, n) = 1..(n - 1)
    BY <1>2 DEF Lower
  <2>2. n - 1 \in Nat /\ (n - 1) + 1 = n
    OBVIOUS
  <2>3. QED BY <2>1, <2>2, FirstNumbers
<1>11. \A n \in S : InRank(S, R)[n] = n
  BY <1>1, <1>3, <1>10, RankOf
<1>12. InRank(T, Q) \in [1..N -> T]
  BY <1>9, RankOf
<1>13. \A n \in 1..N : InRank(T, Q)[n] = s[n]
  BY <1>9, <1>11
<1>14. QED BY <1>9, <1>12, <1>13

(* A finite set of numbers has a highest one.                              *)
LEMMA HighestNumber ==
  ASSUME NEW S \in SUBSET Nat, IsFiniteSet(S), S # {}
  PROVE  \E x \in S : \A y \in S : x >= y
<1> DEFINE R == {p \in S \X S : p[1] < p[2]}
           N == Cardinality(S)
<1>1. \A m, n \in S : <<m, n>> \in R <=> m < n
  OBVIOUS
<1>2. Ordered(S, R)
  <2> HIDE DEF R
  <2> QED BY <1>1 DEF Ordered
<1> HIDE DEF R
<1>3. N \in Nat /\ N # 0
  BY FS_CardinalityType, FS_EmptySet
<1>4. /\ \A x \in S : \E n \in 1..N : InRank(S, R)[n] = x
      /\ InRank(S, R) \in Seq(S) /\ Len(InRank(S, R)) = N
      /\ \A m, n \in 1..N : m < n => <<InRank(S, R)[m], InRank(S, R)[n]>> \in R
  BY <1>2, InRankIsInOrder
<1> DEFINE x == InRank(S, R)[N]
<1>5. x \in S
  BY <1>3, <1>4
<1>6. ASSUME NEW y \in S PROVE x >= y
  <2>1. PICK n \in 1..N : InRank(S, R)[n] = y
    BY <1>4
  <2>2. n = N \/ <<y, x>> \in R
    BY <1>3, <1>4, <2>1
  <2> HIDE DEF x
  <2>3. y = x \/ y < x
    BY <1>1, <1>5, <2>1, <2>2 DEF x
  <2>4. x \in Nat /\ y \in Nat
    BY <1>5
  <2>5. QED BY <2>3, <2>4
<1>7. QED
  <2> HIDE DEF x
  <2> QED BY <1>5, <1>6

(* Two sequences of the same members, both falling in a weight, have the    *)
(* same weights.                                                            *)
LEMMA NoHeavier ==
  ASSUME NEW N \in Nat, NEW S, NEW w \in [S -> Nat],
         NEW f \in [1..N -> S], NEW g \in [1..N -> S],
         \A m, n \in 1..N : f[m] = f[n] => m = n,
         \A x \in S : \E n \in 1..N : g[n] = x,
         \A m, n \in 1..N : m <= n => w[f[m]] >= w[f[n]],
         \A m, n \in 1..N : m <= n => w[g[m]] >= w[g[n]]
  PROVE  \A n \in 1..N : w[f[n]] <= w[g[n]]
<1> SUFFICES ASSUME NEW n \in 1..N, ~(w[f[n]] <= w[g[n]]) PROVE FALSE
  OBVIOUS
<1>1. w[f[n]] > w[g[n]] /\ w[f[n]] \in Nat /\ w[g[n]] \in Nat
  BY SMT
<1>2. ASSUME NEW m \in 1..n PROVE \E k \in 1..(n - 1) : g[k] = f[m]
  <2>1. m \in 1..N /\ m <= n
    OBVIOUS
  <2>2. PICK k \in 1..N : g[k] = f[m]
    BY <2>1
  <2>3. w[f[m]] >= w[f[n]] /\ w[f[m]] \in Nat
    BY <2>1
  <2>4. CASE n <= k
    <3>1. w[g[n]] >= w[g[k]]
      BY <2>2, <2>4
    <3>2. w[g[k]] = w[f[m]]
      BY <2>2
    <3>3. QED BY <1>1, <2>3, <3>1, <3>2
  <2>5. QED BY SMTT(30), <2>2, <2>4
<1> DEFINE h == [m \in 1..n |-> CHOOSE k \in 1..(n - 1) : g[k] = f[m]]
<1>3. \A m \in 1..n : h[m] \in 1..(n - 1) /\ g[h[m]] = f[m]
  BY <1>2
<1>4. h \in [1..n -> 1..(n - 1)]
  BY <1>3
<1> HIDE DEF h
<1>5. /\ IsFiniteSet(1..n) /\ Cardinality(1..n) = n
      /\ IsFiniteSet(1..(n - 1)) /\ Cardinality(1..(n - 1)) = n - 1
  <2>1. n \in Nat /\ n - 1 \in Nat
    OBVIOUS
  <2>2. QED BY <2>1, FirstNumbers
<1>6. \E x, y \in 1..n : x # y /\ h[x] = h[y]
  <2>1. Cardinality(1..(n - 1)) < Cardinality(1..n)
    BY <1>5
  <2> DEFINE A == 1..n
             B == 1..(n - 1)
  <2>2. IsFiniteSet(A) /\ IsFiniteSet(B) /\ Cardinality(B) < Cardinality(A) /\ h \in [A -> B]
    BY <1>4, <1>5, <2>1
  <2>3. \E x, y \in A : x # y /\ h[x] = h[y]
    <3> HIDE DEF A, B
    <3> SUFFICES ASSUME \A x, y \in A : h[x] = h[y] => x = y PROVE FALSE
      OBVIOUS
    <3>1. h \in Injection(A, B)
      BY <2>2 DEF Injection, IsInjective
    <3>2. Cardinality(A) <= Cardinality(B)
      BY <2>2, <3>1, FS_Injection
    <3>3. Cardinality(A) \in Nat /\ Cardinality(B) \in Nat
      BY <2>2, FS_CardinalityType
    <3>4. QED BY <2>2, <3>2, <3>3
  <2>4. QED BY <2>3
<1>7. PICK x \in 1..n, y \in 1..n : x # y /\ h[x] = h[y]
  BY <1>6
<1>8. g[h[x]] = f[x] /\ g[h[y]] = f[y]
  BY <1>3
<1>9. f[x] = f[y]
  BY <1>7, <1>8, Zenon
<1>10. \A m \in 1..n : m \in 1..N
  OBVIOUS
<1>11. QED BY <1>7, <1>9, <1>10, Zenon

OneToOne(h, S) == h \in [S -> S] /\ \A x, y \in S : h[x] = h[y] => x = y

LEMMA OntoItself ==
  ASSUME NEW S, IsFiniteSet(S), NEW h, OneToOne(h, S)
  PROVE  \A y \in S : \E x \in S : h[x] = y
<1>1. h \in Injection(S, S)
  BY DEF OneToOne, Injection, IsInjective
<1>2. h \in Surjection(S, S)
  BY <1>1, FS_Injection
<1>3. QED BY <1>2 DEF Surjection

--------------------------------------------------------------------------------
(* The audit log *)

LEMMA SetOfAppend ==
  ASSUME NEW S, NEW q \in Seq(S), NEW e \in S
  PROVE  ToSet(Append(q, e)) = ToSet(q) \cup {e}
<1> DEFINE a == Append(q, e)
<1>1. /\ a \in Seq(S) /\ Len(a) = Len(q) + 1 /\ Len(q) \in Nat
      /\ DOMAIN a = 1..Len(q) + 1 /\ DOMAIN q = 1..Len(q)
      /\ a[Len(q) + 1] = e /\ \A n \in 1..Len(q) : a[n] = q[n]
  OBVIOUS
<1> HIDE DEF a
<1>2. ASSUME NEW x PROVE x \in ToSet(a) <=> x \in ToSet(q) \cup {e}
  <2>1. x \in ToSet(a) <=> \E n \in 1..Len(q) + 1 : x = a[n]
    BY <1>1 DEF ToSet
  <2>2. x \in ToSet(q) <=> \E n \in 1..Len(q) : x = q[n]
    BY <1>1 DEF ToSet
  <2>3. QED BY <1>1, <2>1, <2>2
<1>3. QED BY <1>2 DEF a

LEMMA SetOfTail ==
  ASSUME NEW S, NEW q \in Seq(S), q # <<>>
  PROVE  ToSet(q) = ToSet(Tail(q)) \cup {Head(q)}
<1> DEFINE t == Tail(q)
<1>1. /\ Len(q) \in Nat \ {0} /\ DOMAIN q = 1..Len(q) /\ DOMAIN t = 1..Len(q) - 1
      /\ Head(q) = q[1] /\ \A n \in 1..Len(q) - 1 : t[n] = q[n + 1]
  OBVIOUS
<1> HIDE DEF t
<1>2. ASSUME NEW x PROVE x \in ToSet(q) <=> x \in ToSet(t) \cup {Head(q)}
  <2>1. x \in ToSet(t) <=> \E n \in 1..Len(q) - 1 : x = t[n]
    BY <1>1 DEF ToSet
  <2>2. x \in ToSet(q) <=> \E n \in 1..Len(q) : x = q[n]
    BY <1>1 DEF ToSet
  <2>3. ASSUME x \in ToSet(q) PROVE x \in ToSet(t) \cup {Head(q)}
    <3>1. PICK n \in 1..Len(q) : x = q[n] BY <2>2, <2>3
    <3>2. CASE n = 1 BY <1>1, <3>1, <3>2
    <3>3. CASE n # 1
      <4>1. n - 1 \in 1..Len(q) - 1 /\ t[n - 1] = q[n] BY <1>1, <3>3
      <4>2. QED BY <2>1, <3>1, <4>1
    <3>4. QED BY <3>2, <3>3
  <2>4. ASSUME x \in ToSet(t) \cup {Head(q)} PROVE x \in ToSet(q)
    <3>1. CASE x = Head(q) BY <1>1, <2>2, <3>1
    <3>2. CASE x \in ToSet(t)
      <4>1. PICK n \in 1..Len(q) - 1 : x = t[n] BY <2>1, <3>2
      <4>2. n + 1 \in 1..Len(q) /\ x = q[n + 1] BY <1>1, <4>1
      <4>3. QED BY <2>2, <4>2
    <3>3. QED BY <2>4, <3>1, <3>2
  <2>5. QED BY <2>3, <2>4
<1>3. QED BY <1>2 DEF t

(* Events of which no two have one id are ordered by Before.               *)
LEMMA EventsAreOrdered ==
  ASSUME AuditAssumption, NEW S \in SUBSET Events, \A d, e \in S : d.id = e.id => d = e
  PROVE  Ordered(S, {p \in S \X S : Before(p[1], p[2])})
<1> DEFINE R == {p \in S \X S : Before(p[1], p[2])}
<1>1. \A d, e \in S : <<d, e>> \in R <=> Before(d, e)
  OBVIOUS
<1>2. \A e \in S : e.at \in Nat /\ e.id \in Nat
  BY DEF Events, AuditAssumption
<1> HIDE DEF R
<1>3. \A e \in S : <<e, e>> \notin R
  BY <1>1, <1>2 DEF Before
<1>4. \A d, e \in S : d # e => <<d, e>> \in R \/ <<e, d>> \in R
  BY <1>1, <1>2 DEF Before
<1>5. \A d, e, f \in S : <<d, e>> \in R /\ <<e, f>> \in R => <<d, f>> \in R
  BY <1>1, <1>2 DEF Before
<1>6. QED BY <1>3, <1>4, <1>5 DEF Ordered, R

(* The first n of them: in order, and before all the others.               *)
LEMMA FirstAreFirst ==
  ASSUME AuditAssumption, NEW S \in SUBSET Events, IsFiniteSet(S),
         \A d, e \in S : d.id = e.id => d = e, NEW n \in Nat \ {0}
  PROVE  LET q == FirstOf(S, n)
         IN  /\ q \in Seq(S)
             /\ \A i, j \in 1..Len(q) : i < j => Before(q[i], q[j])
             /\ \A e \in S : \/ e \in ToSet(q)
                             \/ q # <<>> /\ Before(q[Len(q)], e)
             /\ Cardinality(S) \in Nat
             /\ Cardinality(S) <= n => S \subseteq ToSet(q)
<1> DEFINE R == {p \in S \X S : Before(p[1], p[2])}
<1> DEFINE s == InOrder(S)
<1> DEFINE q == FirstOf(S, n)
<1> DEFINE k == IF Len(s) < n THEN Len(s) ELSE n
<1>1. Ordered(S, R)
  BY EventsAreOrdered
<1>2. s = InRank(S, R)
  <2>1. \A e \in S : Rank(e, S) = Cardinality(Lower(S, R, e)) + 1
    <3> TAKE e \in S
    <3>1. Lower(S, R, e) = {d \in S : Before(d, e)}
      BY DEF Lower
    <3>2. Rank(e, S) = Cardinality({d \in S : Before(d, e)}) + 1
      BY DEF Rank
    <3> HIDE DEF R
    <3>3. QED BY <3>1, <3>2
  <2>2. \A m \in 1..Cardinality(S) :
          (CHOOSE e \in S : Rank(e, S) = m)
            = (CHOOSE e \in S : Cardinality(Lower(S, R, e)) + 1 = m)
    <3> HIDE DEF R
    <3> QED BY <2>1
  <2>3. s = [m \in 1..Cardinality(S) |-> CHOOSE e \in S : Rank(e, S) = m]
    BY DEF InOrder
  <2>4. InRank(S, R) = [m \in 1..Cardinality(S) |->
                          CHOOSE e \in S : Cardinality(Lower(S, R, e)) + 1 = m]
    BY DEF InRank
  <2> HIDE DEF R, s
  <2>5. QED BY <2>2, <2>3, <2>4
<1>3. /\ s \in Seq(S) /\ Len(s) = Cardinality(S) /\ Cardinality(S) \in Nat
      /\ \A e \in S : \E m \in 1..Len(s) : s[m] = e
      /\ \A i, j \in 1..Len(s) : i < j => <<s[i], s[j]>> \in R
  <2> HIDE DEF R, s
  <2> QED BY <1>1, <1>2, InRankIsInOrder
<1>4. \A i, j \in 1..Len(s) : i < j => Before(s[i], s[j])
  <2> TAKE i, j \in 1..Len(s)
  <2> HAVE i < j
  <2>1. <<s[i], s[j]>> \in R BY <1>3
  <2>2. QED BY <2>1
<1>5. q = SubSeq(s, 1, k)
  BY DEF FirstOf
<1>6. k \in 0..Len(s) /\ k <= n /\ (k < Len(s) => k = n)
  BY <1>3
<1> HIDE DEF s, k, R
<1>7. /\ q \in Seq(S) /\ Len(q) = k /\ DOMAIN q = 1..k
      /\ \A i \in 1..k : q[i] = s[i]
  <2> HIDE DEF q
  <2> QED BY <1>3, <1>5, <1>6
<1> HIDE DEF q
<1>8. \A i, j \in 1..Len(q) : i < j => Before(q[i], q[j])
  BY <1>3, <1>4, <1>6, <1>7
<1>9. ASSUME NEW e \in S
      PROVE  e \in ToSet(q) \/ (q # <<>> /\ Before(q[Len(q)], e) /\ n < Cardinality(S))
  <2>1. PICK m \in 1..Len(s) : s[m] = e BY <1>3
  <2>2. CASE m <= k
    BY <1>3, <1>6, <1>7, <2>1, <2>2 DEF ToSet
  <2>3. CASE k < m
    <3>1. k = n /\ n < Len(s) BY <1>3, <1>6, <2>3
    <3>2. k \in 1..Len(s) /\ q[k] = s[k] BY <1>3, <1>7, <3>1
    <3>3. Before(s[k], s[m]) BY <1>4, <2>3, <3>2
    <3>4. q # <<>> BY <1>7, <3>1
    <3>5. QED BY <1>3, <1>7, <2>1, <3>1, <3>2, <3>3, <3>4
  <2>4. QED BY <1>3, <1>6, <2>2, <2>3
<1>10. QED
  BY <1>3, <1>7, <1>8, <1>9 DEF q

AuditTypes ==
  /\ AuditTypeOK
  /\ writer \in [Replica -> Writers]
  /\ denied \in [Replica -> SUBSET Events]
  /\ IsFiniteSet(log)
  /\ sweep.at <= now

(* Events that there are, wherever they have come to.                      *)
Pending(r) == ToSet(writer[r].queue) \cup writer[r].taken
Made == log \cup change \cup UNION {Pending(r) : r \in Replica}

(* They have the period of the policy and an identifier of their own.      *)
MadeInv ==
  /\ \A e \in Made : e.expires = e.at + Period /\ e.id \notin fresh
  /\ \A d, e \in Made : d.id = e.id => d = e

Lost(r) == {e \in denied[r] : e.id \notin written} \ Pending(r)

LossInv ==
  \A r \in Replica :
    /\ \A d, e \in writer[r].taken : d = e
    /\ IsFiniteSet(denied[r])
    /\ Cardinality(Lost(r)) <= writer[r].failed + writer[r].overloaded

(* What is owed stands in the log and can be read, and is either exported   *)
(* or after the last one that is, unless the export has ended.              *)
ExportInv ==
  /\ export.owed \subseteq log
  /\ \A e \in export.owed : Readable(access, export.project, e)
  /\ \A e \in export.owed :
       e \in ToSet(export.got) \/ (export.at # "ended" /\ After(e, export.got))
  /\ \A m, n \in DOMAIN export.got : m < n => Before(export.got[m], export.got[n])

AuditInv == AuditTypes /\ MadeInv /\ LossInv /\ ExportInv

LEMMA AuditInitially ==
  ASSUME AuditAssumption, AuditInit
  PROVE  AuditInv
<1> USE DEF AuditAssumption, AuditInit
<1>1. Started \in Writers
  BY DEF Started, Writers
<1>2. writer \in [Replica -> Writers] /\ \A r \in Replica : writer[r] = Started
  BY <1>1
<1>3. export \in Exports
  BY DEF NoExport, Exports
<1>4. sweep \in Sweeps /\ sweep.at = 0
  BY DEF NoSweep, Sweeps
<1>5. \A r \in Replica : writer[r].queue = <<>> /\ writer[r].taken = {}
                         /\ writer[r].failed = 0 /\ writer[r].overloaded = 0
  BY <1>2 DEF Started
<1>6. \A r \in Replica : Pending(r) = {}
  BY <1>5 DEF Pending, ToSet
<1>7. AuditTypes
  <2>1. AuditTypeOK
    BY <1>2, <1>3, <1>4, <1>5 DEF AuditTypeOK, Writers, All
  <2>2. IsFiniteSet(log)
    BY FS_EmptySet
  <2>3. QED BY <1>2, <1>4, <2>1, <2>2 DEF AuditTypes
<1>8. MadeInv
  BY <1>6 DEF MadeInv, Made
<1>9. LossInv
  <2>1. \A r \in Replica : denied[r] = {} /\ Lost(r) = {}
    BY DEF Lost
  <2>2. \A r \in Replica : IsFiniteSet(denied[r]) /\ Cardinality(Lost(r)) = 0
    BY <2>1, FS_EmptySet
  <2>3. QED BY <1>5, <2>2 DEF LossInv
<1>10. ExportInv
  BY DEF ExportInv, NoExport
<1>11. QED BY <1>7, <1>8, <1>9, <1>10 DEF AuditInv

LEMMA EventTyped ==
  ASSUME AuditAssumption, AuditTypeOK, NEW i \in Id, NEW p \in Project \cup {None},
         NEW held \in {0, now + Period + 1}
  PROVE  LET e == Event(i, p, held)
         IN  e \in Events /\ e.id = i /\ e.expires = e.at + Period
BY DEF AuditAssumption, AuditTypeOK, Event, Events

(* A writer's step, as the record that it leaves.                          *)
LEMMA WriterTyped ==
  ASSUME AuditTypes, NEW r \in Replica, NEW w \in Writers, Len(w.queue) <= Capacity,
         writer' = [writer EXCEPT ![r] = w]
  PROVE  /\ writer' \in [Replica -> Writers]
         /\ \A x \in Replica : writer'[x] \in Writers /\ Len(writer'[x].queue) <= Capacity
         /\ writer'[r] = w /\ \A x \in Replica \ {r} : writer'[x] = writer[x]
BY DEF AuditTypes, AuditTypeOK, Writers

(* What the steps of a writer do to what is pending and to its counters.   *)
LEMMA Denying ==
  ASSUME AuditAssumption, AuditTypes, NEW r \in Replica, NEW i \in Id, Deny(r, i)
  PROVE  \E e \in Events :
           /\ e.id = i /\ e.expires = e.at + Period
           /\ denied' = [denied EXCEPT ![r] = @ \cup {e}]
           /\ writer' \in [Replica -> Writers]
           /\ \A x \in Replica : Len(writer'[x].queue) <= Capacity
           /\ \A x \in Replica \ {r} : writer'[x] = writer[x]
           /\ writer'[r].taken = writer[r].taken /\ writer'[r].failed = writer[r].failed
           /\ \/ /\ Pending(r)' = Pending(r) \cup {e}
                 /\ writer'[r].overloaded = writer[r].overloaded
              \/ /\ Pending(r)' = Pending(r)
                 /\ writer'[r].overloaded = writer[r].overloaded + 1
<1> DEFINE e == Event(i, None, 0)
<1> DEFINE w == writer[r]
<1>1. e \in Events /\ e.id = i /\ e.expires = e.at + Period
  BY EventTyped DEF AuditTypes
<1>2. w \in Writers /\ Len(w.queue) <= Capacity
  BY DEF AuditTypes, AuditTypeOK
<1> HIDE DEF e
<1>3. /\ w.queue \in Seq(Events) /\ w.taken \in SUBSET Events
      /\ w.failed \in Nat /\ w.overloaded \in Nat
  BY <1>2 DEF Writers
<1>4. CASE Len(w.queue) < Capacity
  <2> DEFINE v == [w EXCEPT !.queue = Append(@, e)]
  <2>1. writer' = [writer EXCEPT ![r] = v]
    BY <1>4 DEF Deny, e
  <2>2. /\ v.queue = Append(w.queue, e) /\ v.taken = w.taken
        /\ v.failed = w.failed /\ v.overloaded = w.overloaded
    BY <1>2 DEF Writers
  <2>3. Append(w.queue, e) \in Seq(Events) /\ Len(Append(w.queue, e)) = Len(w.queue) + 1
    BY <1>1, <1>3
  <2>4. v \in Writers /\ Len(v.queue) <= Capacity
    <3>1. v \in Writers BY <1>1, <1>2, <2>3 DEF Writers
    <3>2. Len(w.queue) \in Nat /\ Capacity \in Nat BY <1>3 DEF AuditAssumption
    <3>3. QED BY <1>4, <2>2, <2>3, <3>1, <3>2
  <2> HIDE DEF v
  <2>5. /\ writer' \in [Replica -> Writers]
        /\ \A x \in Replica : Len(writer'[x].queue) <= Capacity
        /\ writer'[r] = v /\ \A x \in Replica \ {r} : writer'[x] = writer[x]
    BY <2>1, <2>4, WriterTyped
  <2>6. Pending(r)' = Pending(r) \cup {e}
    <3>1. ToSet(v.queue) = ToSet(w.queue) \cup {e}
      BY <1>1, <1>3, <2>2, SetOfAppend
    <3>2. QED BY <2>2, <2>5, <3>1 DEF Pending
  <2>7. denied' = [denied EXCEPT ![r] = @ \cup {e}]
    BY DEF Deny, e
  <2>8. QED BY <1>1, <2>2, <2>5, <2>6, <2>7
<1>5. CASE ~(Len(w.queue) < Capacity)
  <2> DEFINE v == [w EXCEPT !.overloaded = @ + 1]
  <2>1. writer' = [writer EXCEPT ![r] = v]
    BY <1>5 DEF Deny, e
  <2>2. /\ v.queue = w.queue /\ v.taken = w.taken
        /\ v.failed = w.failed /\ v.overloaded = w.overloaded + 1
    BY <1>2 DEF Writers
  <2>3. v \in Writers /\ Len(v.queue) <= Capacity
    BY <1>2, <1>3, <2>2 DEF Writers
  <2> HIDE DEF v
  <2>4. /\ writer' \in [Replica -> Writers]
        /\ \A x \in Replica : Len(writer'[x].queue) <= Capacity
        /\ writer'[r] = v /\ \A x \in Replica \ {r} : writer'[x] = writer[x]
    BY <2>1, <2>3, WriterTyped
  <2>5. Pending(r)' = Pending(r)
    BY <2>2, <2>4 DEF Pending
  <2>6. denied' = [denied EXCEPT ![r] = @ \cup {e}]
    BY DEF Deny, e
  <2>7. QED BY <1>1, <2>2, <2>4, <2>5, <2>6
<1>6. QED BY <1>4, <1>5

LEMMA Taking ==
  ASSUME AuditAssumption, AuditTypes, NEW r \in Replica, Take(r)
  PROVE  /\ writer' \in [Replica -> Writers]
         /\ \A x \in Replica : Len(writer'[x].queue) <= Capacity
         /\ \A x \in Replica \ {r} : writer'[x] = writer[x]
         /\ \A d, e \in writer'[r].taken : d = e
         /\ writer'[r].failed = writer[r].failed
         /\ writer'[r].overloaded = writer[r].overloaded
         /\ Pending(r)' = Pending(r)
<1> DEFINE w == writer[r]
<1> DEFINE v == [w EXCEPT !.taken = {Head(w.queue)}, !.queue = Tail(@)]
<1>1. w \in Writers /\ Len(w.queue) <= Capacity /\ w.queue # <<>> /\ w.taken = {}
  BY DEF AuditTypes, AuditTypeOK, Take
<1>2. /\ w.queue \in Seq(Events) /\ w.failed \in Nat /\ w.overloaded \in Nat
  BY <1>1 DEF Writers
<1>3. /\ v.queue = Tail(w.queue) /\ v.taken = {Head(w.queue)}
      /\ v.failed = w.failed /\ v.overloaded = w.overloaded
  BY <1>1 DEF Writers
<1>4. /\ Tail(w.queue) \in Seq(Events) /\ Len(Tail(w.queue)) = Len(w.queue) - 1
      /\ Head(w.queue) \in Events /\ Len(w.queue) \in Nat
  BY <1>1, <1>2
<1>5. v \in Writers /\ Len(v.queue) <= Capacity
  <2>1. v \in Writers
    BY <1>1, <1>4 DEF Writers
  <2>2. Capacity \in Nat
    BY DEF AuditAssumption
  <2>3. QED BY <1>1, <1>3, <1>4, <2>1, <2>2
<1>6. writer' = [writer EXCEPT ![r] = v]
  BY <1>1 DEF Take, AuditTypes, Writers
<1> HIDE DEF v
<1>7. /\ writer' \in [Replica -> Writers]
      /\ \A x \in Replica : Len(writer'[x].queue) <= Capacity
      /\ writer'[r] = v /\ \A x \in Replica \ {r} : writer'[x] = writer[x]
  BY <1>5, <1>6, WriterTyped
<1>8. Pending(r)' = Pending(r)
  <2>1. ToSet(w.queue) = ToSet(Tail(w.queue)) \cup {Head(w.queue)}
    BY <1>1, <1>2, SetOfTail
  <2>2. QED BY <1>1, <1>3, <1>7, <2>1 DEF Pending
<1>9. QED BY <1>3, <1>7, <1>8

LEMMA Writing ==
  ASSUME AuditAssumption, AuditTypes, NEW r \in Replica, WriteTaken(r)
  PROVE  \E e \in writer[r].taken :
           /\ e \in Events
           /\ writer' \in [Replica -> Writers]
           /\ \A x \in Replica : Len(writer'[x].queue) <= Capacity
           /\ \A x \in Replica \ {r} : writer'[x] = writer[x]
           /\ writer'[r].taken = {} /\ writer'[r].overloaded = writer[r].overloaded
           /\ Pending(r)' = ToSet(writer[r].queue)
           /\ \/ /\ log' = log \cup {e} /\ written' = written \cup {e.id}
                 /\ writer'[r].failed \in {writer[r].failed, writer[r].failed + 1}
              \/ /\ log' = log /\ written' = written
                 /\ writer'[r].failed = writer[r].failed + 1
<1> DEFINE w == writer[r]
<1>1. w \in Writers /\ Len(w.queue) <= Capacity
  BY DEF AuditTypes, AuditTypeOK
<1>2. /\ w.queue \in Seq(Events) /\ w.taken \in SUBSET Events
      /\ w.failed \in Nat /\ w.overloaded \in Nat
  BY <1>1 DEF Writers
<1>3. ASSUME NEW v, \/ v = [w EXCEPT !.taken = {}, !.failed = @ + 1]
                    \/ v = [w EXCEPT !.taken = {}],
             writer' = [writer EXCEPT ![r] = v]
      PROVE  /\ writer' \in [Replica -> Writers]
             /\ \A x \in Replica : Len(writer'[x].queue) <= Capacity
             /\ \A x \in Replica \ {r} : writer'[x] = writer[x]
             /\ writer'[r] = v
             /\ v.taken = {} /\ v.overloaded = w.overloaded
             /\ Pending(r)' = ToSet(w.queue)
  <2>1. v.queue = w.queue /\ v.taken = {} /\ v.overloaded = w.overloaded
    BY <1>1, <1>3 DEF Writers
  <2>2. v \in Writers /\ Len(v.queue) <= Capacity
    <3>1. CASE v = [w EXCEPT !.taken = {}, !.failed = @ + 1]
      <4>1. w.failed + 1 \in Nat
        BY <1>2
      <4>2. v \in Writers
        BY <1>1, <3>1, <4>1 DEF Writers
      <4>3. QED BY <1>1, <2>1, <4>2
    <3>2. CASE v = [w EXCEPT !.taken = {}]
      BY <1>1, <1>2, <2>1, <3>2 DEF Writers
    <3>3. QED BY <1>3, <3>1, <3>2
  <2>3. /\ writer' \in [Replica -> Writers]
        /\ \A x \in Replica : Len(writer'[x].queue) <= Capacity
        /\ writer'[r] = v /\ \A x \in Replica \ {r} : writer'[x] = writer[x]
    BY <1>3, <2>2, WriterTyped
  <2>4. QED BY <2>1, <2>3 DEF Pending
<1> DEFINE failed == [w EXCEPT !.taken = {}, !.failed = @ + 1]
<1> DEFINE done == [w EXCEPT !.taken = {}]
<1>4. failed.failed = w.failed + 1 /\ done.failed = w.failed
  BY <1>1 DEF Writers
<1>5. PICK e \in w.taken :
        \/ Appended(e) /\ (Fail(r) \/ writer' = [writer EXCEPT ![r].taken = {}])
        \/ UNCHANGED <<log, written>> /\ Fail(r)
  BY DEF WriteTaken
<1>6. e \in Events
  BY <1>2
<1>7. Fail(r) => writer' = [writer EXCEPT ![r] = failed]
  BY DEF Fail, AuditTypes, Writers
<1>8. writer' = [writer EXCEPT ![r].taken = {}] => writer' = [writer EXCEPT ![r] = done]
  OBVIOUS
<1> HIDE DEF failed, done
<1>9. CASE Appended(e) /\ Fail(r)
  BY <1>3, <1>4, <1>6, <1>7, <1>9 DEF Appended, failed
<1>10. CASE Appended(e) /\ writer' = [writer EXCEPT ![r].taken = {}]
  BY <1>3, <1>4, <1>6, <1>8, <1>10 DEF Appended, done
<1>11. CASE UNCHANGED <<log, written>> /\ Fail(r)
  BY <1>3, <1>4, <1>6, <1>7, <1>11 DEF failed
<1>12. QED BY <1>5, <1>9, <1>10, <1>11

LEMMA Restarting ==
  ASSUME AuditAssumption, AuditTypes, NEW r \in Replica, Restart(r)
  PROVE  /\ writer' \in [Replica -> Writers]
         /\ \A x \in Replica : Len(writer'[x].queue) <= Capacity
         /\ \A x \in Replica \ {r} : writer'[x] = writer[x]
         /\ writer'[r].taken = {} /\ writer'[r].failed = 0 /\ writer'[r].overloaded = 0
         /\ Pending(r)' = {}
<1>1. /\ Started \in Writers /\ Started.queue = <<>> /\ Started.taken = {}
      /\ Started.failed = 0 /\ Started.overloaded = 0
  BY DEF Started, Writers
<1>2. Len(Started.queue) <= Capacity
  BY <1>1 DEF AuditAssumption
<1>3. writer' = [writer EXCEPT ![r] = Started]
  BY DEF Restart
<1>4. /\ writer' \in [Replica -> Writers]
      /\ \A x \in Replica : Len(writer'[x].queue) <= Capacity
      /\ writer'[r] = Started /\ \A x \in Replica \ {r} : writer'[x] = writer[x]
  BY <1>1, <1>2, <1>3, WriterTyped
<1>5. Pending(r)' = {}
  BY <1>1, <1>4 DEF Pending, ToSet
<1>6. QED BY <1>1, <1>4, <1>5

LEMMA AuditTypesKept ==
  ASSUME AuditAssumption, AuditTypes, MadeInv, [AuditNext]_auditVars
  PROVE  AuditTypes'
<1> DEFINE Logged == /\ log' \subseteq Events /\ IsFiniteSet(log')
                     /\ change' \subseteq Events /\ written' \subseteq Id
<1> DEFINE Writes == /\ writer' \in [Replica -> Writers]
                     /\ \A x \in Replica : Len(writer'[x].queue) <= Capacity
                     /\ denied' \in [Replica -> SUBSET Events]
<1> DEFINE Others == /\ export' \in Exports /\ access' \in {All} \cup SUBSET Project
                     /\ fresh' \subseteq Id /\ now' \in 1..MaxTime
                     /\ sweep' \in Sweeps /\ sweep'.at <= now'
<1>1. /\ log \subseteq Events /\ IsFiniteSet(log)
      /\ change \subseteq Events /\ written \subseteq Id
  BY DEF AuditTypes, AuditTypeOK
<1>2. /\ writer \in [Replica -> Writers] /\ denied \in [Replica -> SUBSET Events]
      /\ \A x \in Replica : Len(writer[x].queue) <= Capacity
  BY DEF AuditTypes, AuditTypeOK
<1>3. /\ export \in Exports /\ access \in {All} \cup SUBSET Project
      /\ fresh \subseteq Id /\ now \in 1..MaxTime
      /\ sweep \in Sweeps /\ sweep.at <= now
  BY DEF AuditTypes, AuditTypeOK
<1>4. MaxTime \in Nat
  BY DEF AuditAssumption
<1>5. \A e \in Events : IsFiniteSet(log \cup {e}) /\ e.id \in Id
  BY <1>1, FS_AddElement DEF Events
<1> SUFFICES Logged /\ Writes /\ Others
  BY DEF AuditTypes, AuditTypeOK, Writers
<1>6. ASSUME NEW i \in Id, BeginChange(i) PROVE Logged /\ Writes /\ Others
  <2>1. PICK p \in Project \cup {None}, held \in {0, now + Period + 1} :
          change' = change \cup {Event(i, p, held)}
    BY <1>6 DEF BeginChange
  <2>2. Event(i, p, held) \in Events
    BY EventTyped DEF AuditTypes
  <2>3. QED BY <1>1, <1>2, <1>3, <1>6, <2>1, <2>2 DEF BeginChange
<1>7. ASSUME NEW i \in Id, NEW r \in Replica, Deny(r, i) PROVE Logged /\ Writes /\ Others
  <2>1. Writes
    <3> HIDE DEF Logged, Others
    <3>1. PICK e \in Events :
            /\ denied' = [denied EXCEPT ![r] = @ \cup {e}]
            /\ writer' \in [Replica -> Writers]
            /\ \A x \in Replica : Len(writer'[x].queue) <= Capacity
      BY <1>7, Denying
    <3>2. QED BY <1>2, <3>1
  <2>2. Logged /\ Others
    BY <1>1, <1>3, <1>7 DEF Deny
  <2>3. QED BY <2>1, <2>2
<1>8. ASSUME NEW e \in change, EndChange(e) PROVE Logged /\ Writes /\ Others
  <2>1. e \in Events
    BY <1>1
  <2>2. Logged
    BY <1>1, <1>5, <1>8, <2>1 DEF EndChange, Appended
  <2>3. Writes /\ Others
    BY <1>2, <1>3, <1>8 DEF EndChange
  <2>4. QED BY <2>2, <2>3
<1>9. ASSUME NEW r \in Replica, Take(r) PROVE Logged /\ Writes /\ Others
  <2>1. Writes
    BY <1>2, <1>9, Taking DEF Take
  <2>2. Logged /\ Others
    BY <1>1, <1>3, <1>9 DEF Take
  <2>3. QED BY <2>1, <2>2
<1>10. ASSUME NEW r \in Replica, WriteTaken(r) PROVE Logged /\ Writes /\ Others
  <2>1. PICK e \in writer[r].taken :
           /\ e \in Events
           /\ writer' \in [Replica -> Writers]
           /\ \A x \in Replica : Len(writer'[x].queue) <= Capacity
           /\ \/ log' = log \cup {e} /\ written' = written \cup {e.id}
              \/ log' = log /\ written' = written
    BY <1>10, Writing
  <2>2. UNCHANGED <<change, export, access, sweep, fresh, denied, now>>
    BY <1>10 DEF WriteTaken
  <2>3. Logged
    BY <1>1, <1>5, <2>1, <2>2
  <2>4. QED BY <1>2, <1>3, <2>1, <2>2, <2>3
<1>11. ASSUME NEW r \in Replica, Restart(r) PROVE Logged /\ Writes /\ Others
  <2>1. Writes
    BY <1>2, <1>11, Restarting DEF Restart
  <2>2. Logged /\ Others
    BY <1>1, <1>3, <1>11 DEF Restart
  <2>3. QED BY <2>1, <2>2
<1>12. ASSUME SelectAuditRetentionCandidates PROVE Logged /\ Writes /\ Others
  <2> DEFINE found == {e \in log : Removable(e, now)}
  <2>1. found \in SUBSET Events /\ IsFiniteSet(found)
    BY <1>1, FS_Subset
  <2>2. \A d, e \in found : d.id = e.id => d = e
    BY DEF MadeInv, Made
  <2>3. FirstOf(found, PageSize) \in Seq(found)
    <3>1. PageSize \in Nat \ {0} BY DEF AuditAssumption
    <3> HIDE DEF found
    <3>2. QED BY <2>1, <2>2, <3>1, FirstAreFirst
  <2>4. sweep' = [at |-> now, selected |-> {e.id : e \in ToSet(FirstOf(found, PageSize))}]
    BY <1>12 DEF SelectAuditRetentionCandidates
  <2> HIDE DEF found
  <2>5. ToSet(FirstOf(found, PageSize)) \subseteq Events
    BY <2>1, <2>3 DEF ToSet
  <2>6. {e.id : e \in ToSet(FirstOf(found, PageSize))} \in SUBSET Id
    BY <1>5, <2>5
  <2>7. sweep' \in Sweeps /\ sweep'.at = now
    BY <1>3, <1>4, <2>4, <2>6 DEF Sweeps
  <2>8. UNCHANGED <<log, change, writer, export, access, fresh, denied, written, now>>
    BY <1>12 DEF SelectAuditRetentionCandidates
  <2>9. QED BY <1>1, <1>2, <1>3, <1>4, <2>7, <2>8
<1>13. ASSUME DeleteAuditRetentionCandidates PROVE Logged /\ Writes /\ Others
  <2>1. log' \in SUBSET log
    BY <1>13 DEF DeleteAuditRetentionCandidates
  <2>2. IsFiniteSet(log')
    BY <1>1, <2>1, FS_Subset
  <2>3. UNCHANGED <<change, writer, access, fresh, denied, written, now>>
    BY <1>13 DEF DeleteAuditRetentionCandidates
  <2>4. sweep' \in Sweeps /\ sweep'.at = 0
    BY <1>13 DEF DeleteAuditRetentionCandidates, NoSweep, Sweeps
  <2>5. export' \in Exports
    <3>1. export' = [export EXCEPT !.owed = @ \cap log']
      BY <1>13 DEF DeleteAuditRetentionCandidates
    <3>2. QED BY <1>3, <3>1 DEF Exports
  <2>6. QED BY <1>1, <1>2, <1>3, <1>4, <2>1, <2>2, <2>3, <2>4, <2>5
<1>14. ASSUME BeginExport PROVE Logged /\ Writes /\ Others
  <2>1. PICK p \in Project \cup {None} :
          export' = [NoExport EXCEPT !.at = "paging", !.project = p,
                       !.owed = {e \in log : Readable(access, p, e)}]
    BY <1>14 DEF BeginExport
  <2> DEFINE owed == {e \in log : Readable(access, p, e)}
  <2>2. owed \in SUBSET Events
    BY <1>1
  <2>3. export' = [at |-> "paging", project |-> p, got |-> <<>>, owed |-> owed]
    BY <2>1 DEF NoExport
  <2> HIDE DEF owed
  <2>4. <<>> \in Seq(Events)
    OBVIOUS
  <2>5. export' \in Exports
    BY <2>2, <2>3, <2>4 DEF Exports
  <2>6. QED BY <1>1, <1>2, <1>3, <1>14, <2>5 DEF BeginExport
<1>15. ASSUME ExportPage PROVE Logged /\ Writes /\ Others
  <2> DEFINE found == {e \in log : Readable(access, export.project, e)
                                   /\ After(e, export.got)}
  <2> DEFINE at == IF Cardinality(found) > PageSize THEN "paging" ELSE "ended"
  <2>1. found \in SUBSET Events /\ IsFiniteSet(found)
    BY <1>1, FS_Subset
  <2>2. \A d, e \in found : d.id = e.id => d = e
    BY DEF MadeInv, Made
  <2>3. FirstOf(found, PageSize) \in Seq(found)
    <3>1. PageSize \in Nat \ {0} BY DEF AuditAssumption
    <3> HIDE DEF found
    <3>2. QED BY <2>1, <2>2, <3>1, FirstAreFirst
  <2>4. export' = [export EXCEPT !.got = @ \o FirstOf(found, PageSize), !.at = at]
    BY <1>15 DEF ExportPage
  <2>5. at \in {"paging", "ended"}
    OBVIOUS
  <2>6. export' \in Exports
    <3> HIDE DEF found, at
    <3>1. FirstOf(found, PageSize) \in Seq(Events)
      BY <2>1, <2>3
    <3>2. export.got \o FirstOf(found, PageSize) \in Seq(Events)
      BY <1>3, <3>1 DEF Exports
    <3>3. QED BY <1>3, <2>4, <2>5, <3>2 DEF Exports
  <2>7. UNCHANGED <<log, change, writer, access, sweep, fresh, denied, written, now>>
    BY <1>15 DEF ExportPage
  <2>8. QED BY <1>1, <1>2, <1>3, <2>6, <2>7
<1>16. ASSUME ExportRefused PROVE Logged /\ Writes /\ Others
  <2>1. export' \in Exports
    BY <1>3, <1>16 DEF ExportRefused, Exports
  <2>2. QED BY <1>1, <1>2, <1>3, <1>16, <2>1 DEF ExportRefused
<1>17. ASSUME NextExport PROVE Logged /\ Writes /\ Others
  <2>1. export' \in Exports
    BY <1>17 DEF NextExport, NoExport, Exports
  <2>2. QED BY <1>1, <1>2, <1>3, <1>17, <2>1 DEF NextExport
<1>18. ASSUME ChangeAccess PROVE Logged /\ Writes /\ Others
  <2>1. export' = [export EXCEPT !.owed = {e \in @ : Readable(access', export.project, e)}]
    BY <1>18 DEF ChangeAccess
  <2>2. export' \in Exports
    BY <1>3, <2>1 DEF Exports
  <2>3. QED BY <1>1, <1>2, <1>3, <1>18, <2>2 DEF ChangeAccess
<1>19. ASSUME Tick PROVE Logged /\ Writes /\ Others
  <2>1. sweep.at \in Nat
    BY <1>3 DEF Sweeps
  <2>2. QED BY <1>1, <1>2, <1>3, <1>4, <1>19, <2>1 DEF Tick
<1>20. ASSUME UNCHANGED auditVars PROVE Logged /\ Writes /\ Others
  BY <1>1, <1>2, <1>3, <1>20 DEF auditVars
<1>21. QED
  <2> HIDE DEF Logged, Writes, Others
  <2> QED BY <1>6, <1>7, <1>8, <1>9, <1>10, <1>11, <1>12, <1>13, <1>14, <1>15, <1>16, <1>17,
             <1>18, <1>19, <1>20 DEF AuditNext

LEMMA MadeFewer ==
  ASSUME MadeInv, Made' \subseteq Made, fresh' \subseteq fresh
  PROVE  MadeInv'
BY DEF MadeInv

LEMMA MadeOneMore ==
  ASSUME MadeInv, NEW e, e.id \in fresh, e.expires = e.at + Period,
         Made' \subseteq Made \cup {e}, fresh' = fresh \ {e.id}
  PROVE  MadeInv'
BY DEF MadeInv

LEMMA MadeKept ==
  ASSUME AuditAssumption, AuditTypes, MadeInv, [AuditNext]_auditVars
  PROVE  MadeInv'
<1>1. ASSUME writer' = writer PROVE \A r \in Replica : Pending(r)' = Pending(r)
  BY <1>1 DEF Pending
<1>2. ASSUME log' \subseteq log, UNCHANGED <<change, writer, fresh>> PROVE MadeInv'
  <2>1. Made' \subseteq Made
    BY <1>1, <1>2 DEF Made
  <2>2. QED BY <1>2, <2>1, MadeFewer
<1>3. ASSUME NEW r \in Replica, \A x \in Replica \ {r} : writer'[x] = writer[x]
      PROVE  \A x \in Replica \ {r} : Pending(x)' = Pending(x)
  BY <1>3 DEF Pending
<1>4. ASSUME NEW r \in Replica, \A x \in Replica \ {r} : Pending(x)' = Pending(x),
             Pending(r)' \subseteq Pending(r), log' \subseteq log \cup Pending(r),
             UNCHANGED <<change, fresh>>
      PROVE  MadeInv'
  <2>1. Made' \subseteq Made
    BY <1>4 DEF Made
  <2>2. QED BY <1>4, <2>1, MadeFewer
<1>5. ASSUME NEW i \in Id, BeginChange(i) PROVE MadeInv'
  <2>1. PICK p \in Project \cup {None}, held \in {0, now + Period + 1} :
          change' = change \cup {Event(i, p, held)}
    BY <1>5 DEF BeginChange
  <2> DEFINE e == Event(i, p, held)
  <2>2. e.id = i /\ e.expires = e.at + Period
    BY EventTyped DEF AuditTypes
  <2>3. i \in fresh /\ fresh' = fresh \ {i} /\ log' = log /\ writer' = writer
    BY <1>5 DEF BeginChange
  <2> HIDE DEF e
  <2>4. Made' \subseteq Made \cup {e}
    BY <1>1, <2>1, <2>3 DEF Made, e
  <2>5. QED BY <2>2, <2>3, <2>4, MadeOneMore
<1>6. ASSUME NEW i \in Id, NEW r \in Replica, Deny(r, i) PROVE MadeInv'
  <2>1. PICK e \in Events :
          /\ e.id = i /\ e.expires = e.at + Period
          /\ \A x \in Replica \ {r} : writer'[x] = writer[x]
          /\ Pending(r)' \subseteq Pending(r) \cup {e}
    BY <1>6, Denying
  <2>2. i \in fresh /\ fresh' = fresh \ {i} /\ log' = log /\ change' = change
    BY <1>6 DEF Deny
  <2>3. Made' \subseteq Made \cup {e}
    BY <1>3, <2>1, <2>2 DEF Made
  <2>4. QED BY <2>1, <2>2, <2>3, MadeOneMore
<1>7. ASSUME NEW e \in change, EndChange(e) PROVE MadeInv'
  <2>1. /\ log' \subseteq log \cup {e} /\ change' \subseteq change
        /\ fresh' = fresh /\ writer' = writer
    BY <1>7 DEF EndChange, Appended
  <2>2. Made' \subseteq Made
    BY <1>1, <2>1 DEF Made
  <2>3. QED BY <2>1, <2>2, MadeFewer
<1>8. ASSUME NEW r \in Replica, Take(r) PROVE MadeInv'
  <2>1. (\A x \in Replica \ {r} : writer'[x] = writer[x]) /\ Pending(r)' = Pending(r)
    BY <1>8, Taking
  <2>2. UNCHANGED <<log, change, fresh>>
    BY <1>8 DEF Take
  <2>3. QED BY <1>3, <1>4, <2>1, <2>2
<1>9. ASSUME NEW r \in Replica, WriteTaken(r) PROVE MadeInv'
  <2>1. PICK e \in writer[r].taken :
          /\ \A x \in Replica \ {r} : writer'[x] = writer[x]
          /\ Pending(r)' = ToSet(writer[r].queue)
          /\ log' \subseteq log \cup {e}
    BY <1>9, Writing
  <2>2. UNCHANGED <<change, fresh>>
    BY <1>9 DEF WriteTaken
  <2>3. Pending(r)' \subseteq Pending(r) /\ e \in Pending(r)
    BY <2>1 DEF Pending
  <2>4. QED BY <1>3, <1>4, <2>1, <2>2, <2>3
<1>10. ASSUME NEW r \in Replica, Restart(r) PROVE MadeInv'
  <2>1. (\A x \in Replica \ {r} : writer'[x] = writer[x]) /\ Pending(r)' = {}
    BY <1>10, Restarting
  <2>2. UNCHANGED <<log, change, fresh>>
    BY <1>10 DEF Restart
  <2>3. QED BY <1>3, <1>4, <2>1, <2>2
<1>11. ASSUME SelectAuditRetentionCandidates PROVE MadeInv'
  BY <1>2, <1>11 DEF SelectAuditRetentionCandidates
<1>12. ASSUME DeleteAuditRetentionCandidates PROVE MadeInv'
  <2>1. log' \subseteq log /\ UNCHANGED <<change, writer, fresh>>
    BY <1>12 DEF DeleteAuditRetentionCandidates
  <2>2. QED BY <1>2, <2>1
<1>13. ASSUME BeginExport \/ ExportPage \/ ExportRefused \/ NextExport \/ ChangeAccess
       PROVE  MadeInv'
  <2>1. UNCHANGED <<log, change, writer, fresh>>
    BY <1>13 DEF BeginExport, ExportPage, ExportRefused, NextExport, ChangeAccess
  <2>2. QED BY <1>2, <2>1
<1>14. ASSUME Tick PROVE MadeInv'
  BY <1>2, <1>14 DEF Tick
<1>15. ASSUME UNCHANGED auditVars PROVE MadeInv'
  BY <1>2, <1>15 DEF auditVars
<1>16. QED
  BY <1>5, <1>6, <1>7, <1>8, <1>9, <1>10, <1>11, <1>12, <1>13, <1>14, <1>15 DEF AuditNext

(* Nothing more is lost when no more was denied, and what was pending is    *)
(* still so or was written.                                                 *)
LEMMA LossFewer ==
  ASSUME LossInv, NEW r \in Replica, AuditTypes,
         Lost(r)' \subseteq Lost(r),
         writer'[r].failed + writer'[r].overloaded >= writer[r].failed + writer[r].overloaded,
         writer'[r].failed + writer'[r].overloaded \in Nat
  PROVE  Cardinality(Lost(r)') <= writer'[r].failed + writer'[r].overloaded
<1>1. IsFiniteSet(Lost(r))
  BY FS_Subset DEF LossInv, Lost
<1>2. /\ Cardinality(Lost(r)) \in Nat /\ Cardinality(Lost(r)') \in Nat
      /\ Cardinality(Lost(r)') <= Cardinality(Lost(r))
  BY <1>1, FS_Subset, FS_CardinalityType
<1>3. writer[r].failed + writer[r].overloaded \in Nat
  BY DEF AuditTypes, Writers
<1>4. QED BY <1>2, <1>3 DEF LossInv

LEMMA LossOneMore ==
  ASSUME LossInv, NEW r \in Replica, AuditTypes, NEW e,
         Lost(r)' \subseteq Lost(r) \cup {e},
         writer'[r].failed + writer'[r].overloaded = writer[r].failed + writer[r].overloaded + 1
  PROVE  Cardinality(Lost(r)') <= writer'[r].failed + writer'[r].overloaded
<1>1. IsFiniteSet(Lost(r))
  BY FS_Subset DEF LossInv, Lost
<1>2. /\ IsFiniteSet(Lost(r) \cup {e})
      /\ Cardinality(Lost(r) \cup {e}) \in {Cardinality(Lost(r)), Cardinality(Lost(r)) + 1}
  BY <1>1, FS_AddElement
<1>3. /\ Cardinality(Lost(r)) \in Nat /\ Cardinality(Lost(r)') \in Nat
      /\ Cardinality(Lost(r)') <= Cardinality(Lost(r) \cup {e})
  BY <1>1, <1>2, FS_Subset, FS_CardinalityType
<1>4. writer[r].failed + writer[r].overloaded \in Nat
  BY DEF AuditTypes, Writers
<1>5. QED BY <1>2, <1>3, <1>4 DEF LossInv

(* A step of which the writer of r has no part.                            *)
LEMMA LossElsewhere ==
  ASSUME AuditTypes, LossInv, NEW r \in Replica, writer'[r] = writer[r],
         denied'[r] = denied[r], written \subseteq written'
  PROVE  /\ \A d, e \in writer'[r].taken : d = e
         /\ IsFiniteSet(denied'[r])
         /\ Cardinality(Lost(r)') <= writer'[r].failed + writer'[r].overloaded
<1>1. Lost(r)' \subseteq Lost(r)
  BY DEF Lost, Pending
<1>2. writer[r].failed \in Nat /\ writer[r].overloaded \in Nat
  BY DEF AuditTypes, Writers
<1>3. Cardinality(Lost(r)') <= writer'[r].failed + writer'[r].overloaded
  BY <1>1, <1>2, LossFewer
<1>4. QED BY <1>3 DEF LossInv

LEMMA LossKept ==
  ASSUME AuditAssumption, AuditTypes, LossInv, [AuditNext]_auditVars
  PROVE  LossInv'
<1> DEFINE Counted(r) == /\ \A d, e \in writer'[r].taken : d = e
                         /\ IsFiniteSet(denied'[r])
                         /\ Cardinality(Lost(r)') <= writer'[r].failed + writer'[r].overloaded
<1>1. SUFFICES \A r \in Replica : Counted(r)
  BY DEF LossInv
<1>2. \A r \in Replica : /\ writer[r].failed \in Nat /\ writer[r].overloaded \in Nat
                         /\ IsFiniteSet(denied[r]) /\ denied[r] \subseteq Events
                         /\ \A d, e \in writer[r].taken : d = e
  BY DEF AuditTypes, Writers, LossInv
<1>3. ASSUME writer' = writer, denied' = denied, written \subseteq written'
      PROVE  \A r \in Replica : Counted(r)
  BY <1>3, LossElsewhere
<1>4. ASSUME NEW r \in Replica, \A x \in Replica \ {r} : writer'[x] = writer[x],
             \A x \in Replica \ {r} : denied'[x] = denied[x], written \subseteq written'
      PROVE  \A x \in Replica \ {r} : Counted(x)
  BY <1>4, LossElsewhere
<1>5. ASSUME NEW i \in Id, NEW r \in Replica, Deny(r, i) PROVE \A x \in Replica : Counted(x)
  <2>1. PICK e \in Events :
          /\ denied' = [denied EXCEPT ![r] = @ \cup {e}]
          /\ \A x \in Replica \ {r} : writer'[x] = writer[x]
          /\ writer'[r].taken = writer[r].taken /\ writer'[r].failed = writer[r].failed
          /\ \/ /\ Pending(r)' = Pending(r) \cup {e}
                /\ writer'[r].overloaded = writer[r].overloaded
             \/ /\ Pending(r)' = Pending(r)
                /\ writer'[r].overloaded = writer[r].overloaded + 1
    BY <1>5, Denying
  <2>2. written' = written
    BY <1>5 DEF Deny
  <2>3. denied'[r] = denied[r] \cup {e} /\ \A x \in Replica \ {r} : denied'[x] = denied[x]
    BY <2>1 DEF AuditTypes
  <2>4. IsFiniteSet(denied'[r])
    <3>1. IsFiniteSet(denied[r])
      BY <1>2
    <3>2. IsFiniteSet(denied[r] \cup {e})
      BY <3>1, FS_AddElement
    <3>3. QED BY <2>3, <3>2
  <2>5. Cardinality(Lost(r)') <= writer'[r].failed + writer'[r].overloaded
    <3>1. CASE /\ Pending(r)' = Pending(r) \cup {e}
               /\ writer'[r].overloaded = writer[r].overloaded
      <4>1. Lost(r)' \subseteq Lost(r)
        BY <2>2, <2>3, <3>1 DEF Lost
      <4>2. QED BY <1>2, <2>1, <3>1, <4>1, LossFewer
    <3>2. CASE /\ Pending(r)' = Pending(r)
               /\ writer'[r].overloaded = writer[r].overloaded + 1
      <4>1. Lost(r)' \subseteq Lost(r) \cup {e}
        BY <2>2, <2>3, <3>2 DEF Lost
      <4>2. writer'[r].failed + writer'[r].overloaded = writer[r].failed + writer[r].overloaded + 1
        BY <1>2, <2>1, <3>2
      <4>3. QED BY <4>1, <4>2, LossOneMore
    <3>3. QED BY <2>1, <3>1, <3>2
  <2>6. Counted(r)
    BY <1>2, <2>1, <2>4, <2>5
  <2>7. QED
    <3> HIDE DEF Counted
    <3> QED BY <1>4, <2>1, <2>2, <2>3, <2>6
<1>6. ASSUME NEW r \in Replica, Take(r) PROVE \A x \in Replica : Counted(x)
  <2>1. /\ \A x \in Replica \ {r} : writer'[x] = writer[x]
        /\ \A d, e \in writer'[r].taken : d = e
        /\ writer'[r].failed = writer[r].failed /\ writer'[r].overloaded = writer[r].overloaded
        /\ Pending(r)' = Pending(r)
    BY <1>6, Taking
  <2>2. denied' = denied /\ written' = written
    BY <1>6 DEF Take
  <2>3. Lost(r)' \subseteq Lost(r)
    BY <2>1, <2>2 DEF Lost
  <2>4. Cardinality(Lost(r)') <= writer'[r].failed + writer'[r].overloaded
    BY <1>2, <2>1, <2>3, LossFewer
  <2>5. Counted(r)
    BY <1>2, <2>1, <2>2, <2>4
  <2>6. QED
    <3> HIDE DEF Counted
    <3> QED BY <1>4, <2>1, <2>2, <2>5
<1>7. ASSUME NEW r \in Replica, WriteTaken(r) PROVE \A x \in Replica : Counted(x)
  <2>1. PICK e \in writer[r].taken :
          /\ \A x \in Replica \ {r} : writer'[x] = writer[x]
          /\ writer'[r].taken = {} /\ writer'[r].overloaded = writer[r].overloaded
          /\ Pending(r)' = ToSet(writer[r].queue)
          /\ \/ /\ written' = written \cup {e.id}
                /\ writer'[r].failed \in {writer[r].failed, writer[r].failed + 1}
             \/ /\ written' = written
                /\ writer'[r].failed = writer[r].failed + 1
    BY <1>7, Writing
  <2>2. denied' = denied
    BY <1>7 DEF WriteTaken
  <2>3. Pending(r) = Pending(r)' \cup {e}
    BY <1>2, <2>1 DEF Pending
  <2>4. Cardinality(Lost(r)') <= writer'[r].failed + writer'[r].overloaded
    <3>1. CASE /\ written' = written \cup {e.id}
               /\ writer'[r].failed \in {writer[r].failed, writer[r].failed + 1}
      <4>1. Lost(r)' \subseteq Lost(r)
        BY <2>2, <2>3, <3>1 DEF Lost
      <4>2. QED BY <1>2, <2>1, <3>1, <4>1, LossFewer
    <3>2. CASE /\ written' = written
               /\ writer'[r].failed = writer[r].failed + 1
      <4>1. Lost(r)' \subseteq Lost(r) \cup {e}
        BY <2>2, <2>3, <3>2 DEF Lost
      <4>2. writer'[r].failed + writer'[r].overloaded = writer[r].failed + writer[r].overloaded + 1
        BY <1>2, <2>1, <3>2
      <4>3. QED BY <4>1, <4>2, LossOneMore
    <3>3. QED BY <2>1, <3>1, <3>2
  <2>5. Counted(r)
    BY <1>2, <2>1, <2>2, <2>4
  <2>6. written \subseteq written'
    BY <2>1
  <2>7. QED
    <3> HIDE DEF Counted
    <3> QED BY <1>4, <2>1, <2>2, <2>5, <2>6
<1>8. ASSUME NEW r \in Replica, Restart(r) PROVE \A x \in Replica : Counted(x)
  <2>1. /\ \A x \in Replica \ {r} : writer'[x] = writer[x]
        /\ writer'[r].taken = {} /\ writer'[r].failed = 0 /\ writer'[r].overloaded = 0
    BY <1>8, Restarting
  <2>2. denied' = [denied EXCEPT ![r] = {}] /\ written' = written
    BY <1>8 DEF Restart
  <2>3. denied'[r] = {} /\ \A x \in Replica \ {r} : denied'[x] = denied[x]
    BY <2>2 DEF AuditTypes
  <2>4. Lost(r)' = {}
    BY <2>3 DEF Lost
  <2>5. Counted(r)
    BY <2>1, <2>3, <2>4, FS_EmptySet
  <2>6. QED
    <3> HIDE DEF Counted
    <3> QED BY <1>4, <2>1, <2>2, <2>3, <2>5
<1>9. ASSUME NEW e \in change, EndChange(e) PROVE \A r \in Replica : Counted(r)
  <2>1. writer' = writer /\ denied' = denied /\ written \subseteq written'
    BY <1>9 DEF EndChange, Appended
  <2>2. QED BY <1>3, <2>1
<1>10. ASSUME \/ \E i \in Id : BeginChange(i)
              \/ SelectAuditRetentionCandidates \/ DeleteAuditRetentionCandidates
              \/ BeginExport \/ ExportPage \/ ExportRefused \/ NextExport
              \/ ChangeAccess \/ Tick \/ UNCHANGED auditVars
       PROVE  \A r \in Replica : Counted(r)
  <2>1. writer' = writer /\ denied' = denied /\ written' = written
    BY <1>10 DEF BeginChange, SelectAuditRetentionCandidates,
                 DeleteAuditRetentionCandidates, BeginExport, ExportPage,
                 ExportRefused, NextExport, ChangeAccess, Tick, auditVars
  <2>2. QED BY <1>3, <2>1
<1>11. QED
  <2> HIDE DEF Counted
  <2> QED BY <1>5, <1>6, <1>7, <1>8, <1>9, <1>10 DEF AuditNext

(* The order of events is transitive.                                      *)
LEMMA BeforeAndBefore ==
  ASSUME AuditAssumption, NEW d \in Events, NEW e \in Events, NEW f \in Events,
         Before(d, e), Before(e, f)
  PROVE  Before(d, f)
<1>1. \A x \in {d, e, f} : x.at \in Nat /\ x.id \in Nat
  BY DEF Events, AuditAssumption
<1>2. QED
  BY <1>1 DEF Before

(* A page goes on where the export is, and leaves out nothing before its end. *)
LEMMA PageGoesOn ==
  ASSUME AuditAssumption, AuditTypes, MadeInv, ExportInv, ExportPage
  PROVE  ExportInv'
<1> DEFINE found == {e \in log : Readable(access, export.project, e)
                                 /\ After(e, export.got)}
<1> DEFINE got == export.got
<1> DEFINE q == FirstOf(found, PageSize)
<1> DEFINE at == IF Cardinality(found) > PageSize THEN "paging" ELSE "ended"
<1>1. /\ log' = log /\ access' = access /\ export \in Exports
      /\ export' = [export EXCEPT !.got = got \o q, !.at = at] /\ export.at = "paging"
  BY DEF ExportPage, AuditTypes, AuditTypeOK
<1>2. /\ export'.got = got \o q /\ export'.at = at
      /\ export'.owed = export.owed /\ export'.project = export.project
  <2> HIDE DEF q, at
  <2> QED BY <1>1 DEF Exports
<1>3. PageSize \in Nat \ {0}
  BY DEF AuditAssumption
<1>4. found \in SUBSET Events /\ IsFiniteSet(found)
  BY FS_Subset DEF AuditTypes, AuditTypeOK
<1>5. \A d, e \in found : d.id = e.id => d = e
  BY DEF MadeInv, Made
<1>6. \A e \in found : After(e, got)
  OBVIOUS
<1>7. \A e \in export.owed : e \in ToSet(got) \/ e \in found
  BY <1>1 DEF ExportInv
<1>8. /\ q \in Seq(found)
      /\ \A i, j \in 1..Len(q) : i < j => Before(q[i], q[j])
      /\ \A e \in found : e \in ToSet(q) \/ (q # <<>> /\ Before(q[Len(q)], e))
      /\ Cardinality(found) \in Nat
      /\ Cardinality(found) <= PageSize => found \subseteq ToSet(q)
  <2> HIDE DEF found
  <2> QED BY <1>3, <1>4, <1>5, FirstAreFirst
<1> HIDE DEF found, q
<1> DEFINE more == got \o q
<1>9. /\ got \in Seq(Events) /\ q \in Seq(Events)
       /\ \A m \in 1..Len(q) : q[m] \in found
  BY <1>1, <1>4, <1>8 DEF Exports
<1>10. /\ more \in Seq(Events) /\ Len(more) = Len(got) + Len(q)
       /\ Len(got) \in Nat /\ Len(q) \in Nat
       /\ DOMAIN got = 1..Len(got) /\ DOMAIN q = 1..Len(q) /\ DOMAIN more = 1..Len(got) + Len(q)
       /\ \A m \in 1..Len(got) : more[m] = got[m]
       /\ \A m \in 1..Len(q) : more[Len(got) + m] = q[m]
  BY <1>9
<1> HIDE DEF got, more
<1>11. \A m \in Len(got) + 1..Len(got) + Len(q) :
         m - Len(got) \in 1..Len(q) /\ more[m] = q[m - Len(got)]
  <2> TAKE m \in Len(got) + 1..Len(got) + Len(q)
  <2>1. m - Len(got) \in 1..Len(q) /\ Len(got) + (m - Len(got)) = m
    BY <1>10
  <2>2. QED BY <1>10, <2>1
<1>12. ToSet(got) \subseteq ToSet(more) /\ ToSet(q) \subseteq ToSet(more)
  <2>1. \A m \in 1..Len(got) : m \in DOMAIN more /\ got[m] = more[m]
    BY <1>10
  <2>2. \A m \in 1..Len(q) : Len(got) + m \in DOMAIN more /\ q[m] = more[Len(got) + m]
    BY <1>10
  <2>3. QED BY <1>10, <2>1, <2>2 DEF ToSet
<1>13. ASSUME NEW m \in DOMAIN more, NEW n \in DOMAIN more, m < n
       PROVE  Before(more[m], more[n])
  <2>1. CASE n <= Len(got)
    <3>1. m \in 1..Len(got) /\ n \in 1..Len(got)
      BY <1>10, <1>13, <2>1
    <3>2. Before(got[m], got[n])
      BY <1>10, <1>13, <3>1 DEF ExportInv, got
    <3>3. QED BY <1>10, <3>1, <3>2
  <2>2. CASE Len(got) < m
    <3>1. /\ m - Len(got) \in 1..Len(q) /\ more[m] = q[m - Len(got)]
          /\ n - Len(got) \in 1..Len(q) /\ more[n] = q[n - Len(got)]
          /\ m - Len(got) < n - Len(got)
      <4>1. m \in Len(got) + 1..Len(got) + Len(q) /\ n \in Len(got) + 1..Len(got) + Len(q)
        BY <1>10, <1>13, <2>2
      <4>2. QED BY <1>10, <1>11, <1>13, <4>1
    <3>2. QED BY <1>8, <3>1
  <2>3. CASE m <= Len(got) /\ Len(got) < n
    <3>1. m \in 1..Len(got) /\ more[m] = got[m] /\ got # <<>>
      BY <1>10, <1>13, <2>3
    <3>2. n - Len(got) \in 1..Len(q) /\ more[n] = q[n - Len(got)]
      <4>1. n \in Len(got) + 1..Len(got) + Len(q)
        BY <1>10, <2>3
      <4>2. QED BY <1>11, <4>1
    <3>3. more[n] \in found
      BY <1>9, <3>2
    <3>4. Before(got[Len(got)], more[n])
      <4>1. After(more[n], got)
        BY <1>6, <3>3
      <4>2. QED BY <3>1, <4>1 DEF After, Last
    <3>5. got[m] \in Events /\ got[Len(got)] \in Events /\ more[n] \in Events
      BY <1>4, <1>9, <1>10, <3>1, <3>3
    <3>6. CASE m = Len(got)
      BY <3>1, <3>4, <3>6
    <3>7. CASE m < Len(got)
      <4>1. Len(got) \in DOMAIN got /\ m \in DOMAIN got
        BY <1>10, <3>1
      <4>2. Before(got[m], got[Len(got)])
        BY <3>7, <4>1 DEF ExportInv, got
      <4>3. QED BY <3>1, <3>4, <3>5, <4>2, BeforeAndBefore
    <3>8. QED BY <1>10, <3>1, <3>6, <3>7
  <2>4. QED BY <1>10, <1>13, <2>1, <2>2, <2>3
<1>14. ASSUME NEW e \in export.owed
       PROVE  e \in ToSet(more) \/ (at # "ended" /\ After(e, more))
  <2>1. CASE e \in ToSet(got) \/ e \in ToSet(q)
    BY <1>12, <2>1
  <2>2. CASE e \in found /\ e \notin ToSet(q)
    <3>1. q # <<>> /\ Before(q[Len(q)], e)
      BY <1>8, <2>2
    <3>2. ~(Cardinality(found) <= PageSize)
      BY <1>8, <2>2
    <3>3. at = "paging"
      BY <1>3, <1>8, <3>2
    <3>4. more[Len(more)] = q[Len(q)]
      <4>1. Len(q) \in 1..Len(q)
        BY <1>9, <3>1
      <4>2. QED BY <1>10, <4>1
    <3>5. After(e, more)
      BY <3>1, <3>4 DEF After, Last
    <3>6. QED BY <3>3, <3>5
  <2>3. QED BY <1>7, <2>1, <2>2 DEF got
<1>15. export'.got = more /\ export'.at = at
  BY <1>2 DEF got, more
<1>16. /\ export.owed \subseteq log
       /\ \A e \in export.owed : Readable(access, export.project, e)
  BY DEF ExportInv
<1> HIDE DEF at
<1>17. QED
  BY <1>1, <1>2, <1>13, <1>14, <1>15, <1>16 DEF ExportInv, Readable

LEMMA ExportKept ==
  ASSUME AuditAssumption, AuditTypes, MadeInv, ExportInv, [AuditNext]_auditVars
  PROVE  ExportInv'
<1>1. export \in Exports
  BY DEF AuditTypes, AuditTypeOK
<1>2. ASSUME log \subseteq log', export' = export, access' = access PROVE ExportInv'
  BY <1>2 DEF ExportInv, Readable
<1>3. ASSUME DeleteAuditRetentionCandidates PROVE ExportInv'
  <2>1. /\ export'.owed = export.owed \cap log' /\ export'.at = export.at
        /\ export'.project = export.project /\ export'.got = export.got /\ access' = access
    BY <1>1, <1>3 DEF DeleteAuditRetentionCandidates, Exports
  <2>2. QED BY <2>1 DEF ExportInv, Readable
<1>4. ASSUME BeginExport PROVE ExportInv'
  <2>1. PICK p \in Project \cup {None} :
          export' = [NoExport EXCEPT !.at = "paging", !.project = p,
                       !.owed = {e \in log : Readable(access, p, e)}]
    BY <1>4 DEF BeginExport
  <2>2. /\ export'.owed = {e \in log : Readable(access, p, e)} /\ export'.at = "paging"
        /\ export'.project = p /\ export'.got = <<>>
    BY <2>1 DEF NoExport
  <2>3. log' = log /\ access' = access
    BY <1>4 DEF BeginExport
  <2>4. QED BY <2>2, <2>3 DEF ExportInv, After, Readable
<1>5. ASSUME ExportPage PROVE ExportInv'
  BY <1>5, PageGoesOn
<1>6. ASSUME ExportRefused PROVE ExportInv'
  <2>1. /\ export'.owed = export.owed /\ export'.at = "refused" /\ export.at = "paging"
        /\ export'.project = export.project /\ export'.got = export.got
        /\ access' = access /\ log' = log
    BY <1>1, <1>6 DEF ExportRefused, Exports
  <2>2. QED BY <2>1 DEF ExportInv, Readable
<1>7. ASSUME NextExport PROVE ExportInv'
  <2>1. export'.owed = {} /\ export'.got = <<>>
    BY <1>7 DEF NextExport, NoExport
  <2>2. QED BY <2>1 DEF ExportInv
<1>8. ASSUME ChangeAccess PROVE ExportInv'
  <2>1. export' = [export EXCEPT !.owed = {e \in @ : Readable(access', export.project, e)}]
    BY <1>8 DEF ChangeAccess
  <2>2. /\ export'.owed = {e \in export.owed : Readable(access', export.project, e)}
        /\ export'.at = export.at
        /\ export'.project = export.project /\ export'.got = export.got /\ log' = log
    BY <1>1, <1>8, <2>1 DEF ChangeAccess, Exports
  <2>3. QED BY <2>2 DEF ExportInv, Readable
<1>9. ASSUME NEW i \in Id, BeginChange(i) \/ \E r \in Replica : Deny(r, i) PROVE ExportInv'
  BY <1>2, <1>9 DEF BeginChange, Deny
<1>10. ASSUME NEW e \in change, EndChange(e) PROVE ExportInv'
  BY <1>2, <1>10 DEF EndChange, Appended
<1>11. ASSUME NEW r \in Replica, Take(r) \/ WriteTaken(r) \/ Restart(r) PROVE ExportInv'
  <2>1. export' = export /\ access' = access /\ log \subseteq log'
    BY <1>11 DEF Take, WriteTaken, Restart, Appended
  <2>2. QED BY <1>2, <2>1
<1>12. ASSUME SelectAuditRetentionCandidates \/ Tick \/ UNCHANGED auditVars PROVE ExportInv'
  BY <1>2, <1>12 DEF SelectAuditRetentionCandidates, Tick, auditVars
<1>13. QED
  BY <1>3, <1>4, <1>5, <1>6, <1>7, <1>8, <1>9, <1>10, <1>11, <1>12 DEF AuditNext

LEMMA AuditInvariant ==
  ASSUME AuditAssumption
  PROVE  AuditSpec => []AuditInv
<1>1. AuditInit => AuditInv
  BY AuditInitially
<1>2. AuditInv /\ [AuditNext]_auditVars => AuditInv'
  BY AuditTypesKept, MadeKept, LossKept, ExportKept DEF AuditInv
<1>3. QED BY <1>1, <1>2, PTL DEF AuditSpec

(* An export that ends has all that stood in the log and could be read      *)
(* since it began, in order and each event once, whatever the pages, the    *)
(* retention and the writers did meanwhile (ExportPage, ReadAuditEvents).   *)
THEOREM ExportsAreComplete ==
  ASSUME AuditAssumption
  PROVE  AuditSpec => []ExportIsComplete
<1>1. AuditInv => ExportIsComplete
  BY DEF AuditInv, ExportInv, ExportIsComplete
<1>2. QED BY <1>1, AuditInvariant, PTL

(* Denials that a writer was to write, and that are neither in the log nor  *)
(* still to be written, are no more than it counted (TryAppend, Run).       *)
THEOREM LossesAreCounted ==
  ASSUME AuditAssumption
  PROVE  AuditSpec => []DenialLossIsCounted
<1>1. AuditInv => DenialLossIsCounted
  <2> SUFFICES ASSUME AuditInv, NEW r \in Replica
               PROVE  Cardinality({e \in denied[r] : e.id \notin written}
                        \ (ToSet(writer[r].queue) \cup writer[r].taken))
                      <= writer[r].failed + writer[r].overloaded
    BY DEF DenialLossIsCounted
  <2> QED BY DEF AuditInv, LossInv, Lost, Pending
<1>2. QED BY <1>1, AuditInvariant, PTL

(* The retention removes nothing that the decision on a single event would  *)
(* keep (SelectAuditRetentionCandidates, DeleteAuditRetentionCandidates).   *)
THEOREM RemovalsAreDecided ==
  ASSUME AuditAssumption
  PROVE  AuditSpec => RemovalIsDecided
<1>1. AuditInv /\ [AuditNext]_auditVars =>
        [\A e \in log \ log' : DecideRetention(e, now) = "ELIGIBLE_FOR_DELETE"]_auditVars
  <2> SUFFICES ASSUME AuditInv, AuditNext, NEW e \in log \ log'
               PROVE  DecideRetention(e, now) = "ELIGIBLE_FOR_DELETE"
    OBVIOUS
  <2>1. DeleteAuditRetentionCandidates
    BY DEF AuditNext, BeginChange, Deny, EndChange, Appended, Take, WriteTaken,
           Restart, SelectAuditRetentionCandidates, BeginExport, ExportPage,
           ExportRefused, NextExport, ChangeAccess, Tick
  <2>2. Removable(e, sweep.at)
    BY <2>1 DEF DeleteAuditRetentionCandidates
  <2>3. /\ e.at \in Nat /\ e.expires = e.at + Period /\ e.held \in Nat
        /\ sweep.at \in Nat /\ now \in Nat /\ sweep.at <= now
    BY DEF AuditInv, AuditTypes, AuditTypeOK, Events, Sweeps, MadeInv, Made
  <2>4. Period \in Nat
    BY DEF AuditAssumption
  <2>5. QED BY <2>2, <2>3, <2>4 DEF DecideRetention, Removable
<1>2. QED BY <1>1, AuditInvariant, PTL DEF AuditSpec, RemovalIsDecided

--------------------------------------------------------------------------------
(* Browser sessions *)

Reads == [token : 0..MaxToken, written : 0..MaxToken]

\* Where a request works with a session that it read.
Asking == {"touch", "logout", "refresh", "refreshed", "rejected"}

SessionRequests ==
  [at : {"idle", "consuming", "logging in"} \cup Asking, session : Session \cup {Absent},
   for : {"none", "use", "refresh", "logout"}, read : Reads \cup {Absent},
   time : Nat, token : 0..MaxToken]

SessionTypes ==
  /\ clock \in Nat
  /\ attempt \in Attempts \cup {Absent}
  /\ sessions \in [Session -> Opened \cup {Absent}]
  /\ granted \in [Session -> 0..MaxToken]
  /\ request \in [Request -> SessionRequests]

(* One callback has used the attempt, and it has not yet made a session.   *)
AttemptInv ==
  /\ \A r \in Request : request[r].at \in {"consuming", "logging in"} => attempt \in Attempts
  /\ \A r \in Request :
       request[r].at = "logging in" => attempt.consumed /\ attempt.sessions = {}
  /\ \A q, r \in Request :
       request[q].at = "logging in" /\ request[r].at = "logging in" => q = r
  /\ attempt # Absent /\ attempt.sessions # {} => attempt.consumed
  /\ AttemptMakesOneSession

(* A session holds no token later than the one the provider takes.         *)
InBounds(row, grant) ==
  /\ row.idle <= row.used + IdleLifetime /\ row.idle <= row.absolute
  /\ grant = 0 \/ row.token <= grant

RowInv == \A s \in Session : sessions[s] # Absent => InBounds(sessions[s], granted[s])

(* What was read is what the row is, or was before a later write.          *)
WasRead(read, row, grant) ==
  /\ read \in Reads
  /\ read.written <= row.written
  /\ read.written = row.written => read.token = row.token
  /\ grant = 0 \/ read.token <= grant

Sound(q, row, grant) ==
  /\ row \in Opened
  /\ q.at \in {"refresh", "refreshed", "rejected"} => q.for = "refresh"
  /\ q.at = "touch" => q.for \in {"use", "refresh", "logout"}
  /\ q.for = "refresh" => WasRead(q.read, row, grant)
  /\ q.at = "refreshed" => /\ q.read.token <= q.token /\ q.read.written < MaxToken
                           /\ grant = 0 \/ q.token <= grant
  /\ q.at = "rejected" => q.read.token # 0 /\ (grant = 0 \/ q.read.token < grant)

AskingInv ==
  \A r \in Request : request[r].at \in Asking =>
    /\ request[r].session \in Session
    /\ Sound(request[r], sessions[request[r].session], granted[request[r].session])

SessionInv == SessionTypes /\ AttemptInv /\ RowInv /\ AskingInv

(* How rows and grants change: never back, but for a grant that is withdrawn. *)
GoesOn(row, after) ==
  /\ row.written <= after.written
  /\ row.written = after.written => row.token = after.token
GrantGoesOn(grant, after) == after = 0 \/ (grant # 0 /\ grant <= after)

LEMMA SoundGoesOn ==
  ASSUME SessionAssumption, NEW q \in SessionRequests, NEW row, NEW grant \in 0..MaxToken,
         Sound(q, row, grant),
         NEW row2 \in Opened, NEW grant2 \in 0..MaxToken, GoesOn(row, row2),
         grant2 = grant \/ GrantGoesOn(grant, grant2)
  PROVE  Sound(q, row2, grant2)
<1>1. row \in Opened /\ MaxToken \in Nat
  BY DEF Sound, SessionAssumption
<1>2. row.written \in Nat /\ row2.written \in Nat
  BY <1>1 DEF Opened
<1>3. q.read \in Reads => q.read.written \in Nat /\ q.read.token \in Nat
  BY <1>1 DEF Reads
<1>4. q.token \in 0..MaxToken
  BY DEF SessionRequests
<1>5. grant \in Nat /\ grant2 \in Nat /\ q.token \in Nat
  BY <1>1, <1>4
<1>6. q.for = "refresh" => WasRead(q.read, row2, grant2)
  BY <1>2, <1>3, <1>5 DEF Sound, WasRead, GoesOn, GrantGoesOn
<1>7. q.at = "refreshed" => /\ q.read.token <= q.token /\ q.read.written < MaxToken
                            /\ grant2 = 0 \/ q.token <= grant2
  BY <1>5 DEF Sound, GrantGoesOn
<1>8. q.at = "rejected" => q.read.token # 0 /\ (grant2 = 0 \/ q.read.token < grant2)
  BY <1>3, <1>5 DEF Sound, GrantGoesOn, WasRead
<1>9. QED BY <1>6, <1>7, <1>8 DEF Sound

(* A step of one request with its session, and of the others with theirs.  *)
LEMMA AskingKept ==
  ASSUME SessionAssumption, SessionTypes, AskingInv,
         \A s \in Session : sessions[s] \in Opened =>
            sessions'[s] \in Opened /\ GoesOn(sessions[s], sessions'[s]),
         granted' \in [Session -> 0..MaxToken],
         \A s \in Session : sessions[s] \in Opened =>
            granted'[s] = granted[s] \/ GrantGoesOn(granted[s], granted'[s]),
         NEW R \in SUBSET Request,
         \A r \in Request \ R : request'[r] = request[r],
         \A r \in R : request'[r].at \in Asking =>
            /\ request'[r].session \in Session
            /\ Sound(request'[r], sessions'[request'[r].session], granted'[request'[r].session])
  PROVE  AskingInv'
<1> SUFFICES ASSUME NEW r \in Request \ R, request[r].at \in Asking
             PROVE  /\ request[r].session \in Session
                    /\ Sound(request[r], sessions'[request[r].session],
                             granted'[request[r].session])
  BY DEF AskingInv
<1> DEFINE s == request[r].session
<1>1. s \in Session /\ Sound(request[r], sessions[s], granted[s])
  BY DEF AskingInv
<1>2. sessions[s] \in Opened
  BY <1>1 DEF Sound
<1>3. request[r] \in SessionRequests /\ granted[s] \in 0..MaxToken /\ granted'[s] \in 0..MaxToken
  BY <1>1 DEF SessionTypes
<1>4. sessions'[s] \in Opened /\ GoesOn(sessions[s], sessions'[s])
  BY <1>1, <1>2
<1>5. granted'[s] = granted[s] \/ GrantGoesOn(granted[s], granted'[s])
  BY <1>1, <1>2
<1> HIDE DEF s
<1>6. Sound(request[r], sessions'[s], granted'[s])
  BY <1>1, <1>3, <1>4, <1>5, SoundGoesOn
<1>7. QED BY <1>1, <1>6 DEF s

LEMMA SameGoesOn ==
  ASSUME SessionAssumption, NEW row \in Opened
  PROVE  /\ GoesOn(row, row) /\ GoesOn(row, [row EXCEPT !.revoked = TRUE])
         /\ [row EXCEPT !.revoked = TRUE] \in Opened
<1> DEFINE after == [row EXCEPT !.revoked = TRUE]
<1>1. after \in Opened /\ after.written = row.written /\ after.token = row.token
  BY DEF Opened
<1>2. row.written \in Nat
  BY DEF Opened, SessionAssumption
<1>3. QED BY <1>1, <1>2 DEF GoesOn

LEMMA SessionsInitially ==
  ASSUME SessionAssumption, SessionInit
  PROVE  SessionInv
<1>1. Idle \in SessionRequests /\ Idle.at = "idle"
  BY DEF Idle, SessionRequests, SessionAssumption
<1>2. SessionTypes
  BY <1>1 DEF SessionInit, SessionTypes, SessionAssumption
<1>3. \A r \in Request : request[r].at = "idle"
  BY <1>1 DEF SessionInit
<1>4. AttemptInv
  BY <1>3 DEF AttemptInv, SessionInit, AttemptMakesOneSession
<1>5. RowInv
  BY DEF RowInv, SessionInit
<1>6. AskingInv
  BY <1>3 DEF AskingInv, Asking
<1>7. QED BY <1>2, <1>4, <1>5, <1>6 DEF SessionInv

(* A step of one request with its session, of which no login has a part.   *)
LEMMA SessionStep ==
  ASSUME SessionAssumption, SessionInv, NEW r \in Request, NEW n \in SessionRequests,
         request' = [request EXCEPT ![r] = n], n.at \notin {"consuming", "logging in"},
         clock' = clock, attempt' = attempt,
         sessions' \in [Session -> Opened \cup {Absent}], granted' \in [Session -> 0..MaxToken],
         \A s \in Session : sessions[s] \in Opened =>
            sessions'[s] \in Opened /\ GoesOn(sessions[s], sessions'[s]),
         \A s \in Session : granted'[s] = granted[s] \/ GrantGoesOn(granted[s], granted'[s]),
         RowInv',
         n.at \in Asking => n.session \in Session /\ Sound(n, sessions'[n.session], granted'[n.session])
  PROVE  SessionInv'
<1>1. request' \in [Request -> SessionRequests] /\ request'[r] = n
      /\ \A q \in Request \ {r} : request'[q] = request[q]
  BY DEF SessionInv, SessionTypes
<1>2. SessionTypes'
  BY <1>1 DEF SessionInv, SessionTypes
<1>3. AttemptInv'
  BY <1>1 DEF SessionInv, AttemptInv, AttemptMakesOneSession
<1>4. AskingInv'
  <2> DEFINE R == {r}
  <2>1. \A q \in R : request'[q].at \in Asking =>
            /\ request'[q].session \in Session
            /\ Sound(request'[q], sessions'[request'[q].session], granted'[request'[q].session])
    BY <1>1
  <2>2. R \in SUBSET Request /\ \A q \in Request \ R : request'[q] = request[q]
    BY <1>1
  <2>3. SessionTypes /\ AskingInv
    BY DEF SessionInv
  <2> HIDE DEF R
  <2>4. QED BY <2>1, <2>2, <2>3, AskingKept
<1>5. QED BY <1>2, <1>3, <1>4 DEF SessionInv

(* The row of one session is written, its grant stays.                     *)
LEMMA OneRowWritten ==
  ASSUME SessionAssumption, SessionInv, NEW s \in Session, NEW row \in Opened,
         sessions[s] \in Opened, GoesOn(sessions[s], row), InBounds(row, granted[s]),
         sessions' = [sessions EXCEPT ![s] = row], granted' = granted
  PROVE  /\ sessions' \in [Session -> Opened \cup {Absent}]
         /\ granted' \in [Session -> 0..MaxToken]
         /\ sessions'[s] = row /\ \A u \in Session \ {s} : sessions'[u] = sessions[u]
         /\ \A u \in Session : sessions[u] \in Opened =>
              sessions'[u] \in Opened /\ GoesOn(sessions[u], sessions'[u])
         /\ RowInv'
<1>1. /\ sessions' \in [Session -> Opened \cup {Absent}]
      /\ granted' \in [Session -> 0..MaxToken]
      /\ sessions'[s] = row /\ \A u \in Session \ {s} : sessions'[u] = sessions[u]
  BY DEF SessionInv, SessionTypes
<1>2. \A u \in Session : sessions[u] \in Opened =>
        sessions'[u] \in Opened /\ GoesOn(sessions[u], sessions'[u])
  BY <1>1, SameGoesOn
<1>3. RowInv'
  BY <1>1 DEF SessionInv, RowInv
<1>4. QED BY <1>1, <1>2, <1>3

(* Nothing is written but the request.                                     *)
LEMMA RequestStep ==
  ASSUME SessionAssumption, SessionInv, NEW r \in Request, NEW n \in SessionRequests,
         request' = [request EXCEPT ![r] = n], n.at \notin {"consuming", "logging in"},
         UNCHANGED <<clock, attempt, sessions, granted>>,
         n.at \in Asking => n.session \in Session /\ Sound(n, sessions[n.session], granted[n.session])
  PROVE  SessionInv'
<1>1. \A s \in Session : sessions[s] \in Opened =>
            sessions'[s] \in Opened /\ GoesOn(sessions[s], sessions'[s])
  BY SameGoesOn
<1>2. RowInv'
  BY DEF SessionInv, RowInv
<1>3. /\ sessions' \in [Session -> Opened \cup {Absent}]
      /\ granted' \in [Session -> 0..MaxToken]
  BY DEF SessionInv, SessionTypes
<1>4. QED BY <1>1, <1>2, <1>3, SessionStep

LEMMA IdleRequest == Idle.at = "idle" /\ (SessionAssumption => Idle \in SessionRequests)
BY DEF Idle, SessionRequests, SessionAssumption

LEMMA WhatIsAsked ==
  ASSUME SessionInv, NEW r \in Request, request[r].at \in Asking
  PROVE  LET q == request[r]
         IN  /\ q \in SessionRequests /\ q.session \in Session
             /\ sessions[q.session] \in Opened
             /\ granted[q.session] \in 0..MaxToken
             /\ Sound(q, sessions[q.session], granted[q.session])
BY DEF SessionInv, SessionTypes, AskingInv, Sound

LEMMA CurrentKeeps ==
  ASSUME SessionAssumption, SessionInv, NEW r \in Request, NEW s \in Session,
         NEW purpose \in {"use", "refresh", "logout"}, Current(r, s, purpose)
  PROVE  SessionInv'
<1> DEFINE row == sessions[s]
<1> DEFINE read == IF purpose = "refresh"
                   THEN [token |-> row.token, written |-> row.written] ELSE Absent
<1> DEFINE found(at, time) == [at |-> at, session |-> s, for |-> purpose, read |-> read,
                               time |-> time, token |-> 0]
<1>1. row \in Opened /\ clock \in Nat /\ granted[s] \in 0..MaxToken /\ InBounds(row, granted[s])
  BY DEF Current, Usable, SessionInv, SessionTypes, RowInv
<1>2. \/ request' = [request EXCEPT ![r] = found("touch", clock)]
      \/ request' = [request EXCEPT ![r] = found(purpose, 0)] /\ purpose # "use"
  BY DEF Current, Idle
<1>3. read \in Reads \cup {Absent} /\ (purpose = "refresh" => WasRead(read, row, granted[s]))
  <2>1. row.token \in 0..MaxToken /\ row.written \in 0..MaxToken
    BY <1>1 DEF Opened
  <2>2. QED BY <1>1, <2>1 DEF Reads, WasRead, InBounds
<1>4. MaxToken \in Nat
  BY DEF SessionAssumption
<1> HIDE DEF read, row
<1>5. \A at \in {"touch", "refresh", "logout"}, time \in Nat : found(at, time) \in SessionRequests
  <2> TAKE at \in {"touch", "refresh", "logout"}, time \in Nat
  <2>1. 0 \in 0..MaxToken /\ s \in Session \cup {Absent}
    BY <1>4
  <2>2. at \in {"idle", "consuming", "logging in"} \cup Asking
    BY DEF Asking
  <2>3. purpose \in {"none", "use", "refresh", "logout"}
    OBVIOUS
  <2>4. QED BY <1>3, <2>1, <2>2, <2>3 DEF SessionRequests
<1>6. ASSUME NEW at \in {"touch", "refresh", "logout"}, NEW time \in Nat, at \in {"touch", purpose},
             request' = [request EXCEPT ![r] = found(at, time)]
      PROVE  SessionInv'
  <2> DEFINE n == found(at, time)
  <2>1. n \in SessionRequests /\ n.at = at /\ n.session = s
    BY <1>5
  <2>2. Sound(n, row, granted[s])
    BY <1>1, <1>3, <1>6 DEF Sound
  <2>3. UNCHANGED <<clock, attempt, sessions, granted>>
    BY DEF Current
  <2>4. request' = [request EXCEPT ![r] = n]
    BY <1>6
  <2>5. n.at \notin {"consuming", "logging in"}
    BY <2>1
  <2> HIDE DEF n
  <2>6. Sound(n, sessions[n.session], granted[n.session])
    BY <2>1, <2>2 DEF row
  <2>7. QED BY <2>1, <2>3, <2>4, <2>5, <2>6, RequestStep
<1>7. QED BY <1>1, <1>2, <1>6

LEMMA TouchKeeps ==
  ASSUME SessionAssumption, SessionInv, NEW r \in Request, TouchBrowserSession(r)
  PROVE  SessionInv'
<1> DEFINE q == request[r]
<1> DEFINE s == q.session
<1> DEFINE row == sessions[s]
<1> DEFINE time == q.time
<1>1. q.at = "touch" /\ q.at \in Asking
  BY DEF TouchBrowserSession, Asking
<1>2. /\ q \in SessionRequests /\ s \in Session /\ row \in Opened
      /\ granted[s] \in 0..MaxToken /\ Sound(q, row, granted[s])
  BY <1>1, WhatIsAsked
<1>3. InBounds(row, granted[s])
  BY <1>2 DEF SessionInv, RowInv, SessionAssumption
<1>4. CASE Touchable(row, time)
  <2> DEFINE after == Touched(row, time)
  <2> DEFINE n == IF q.for = "use" THEN Idle ELSE [q EXCEPT !.at = q.for, !.time = 0]
  <2>1. time \in Nat /\ q.for \in {"use", "refresh", "logout"}
    BY <1>1, <1>2 DEF SessionRequests, Sound
  <2>2. /\ row.used \in Nat /\ row.idle \in Nat /\ row.absolute \in Nat
        /\ row.token \in 0..MaxToken /\ row.written \in 0..MaxToken /\ MaxToken \in Nat
        /\ IdleLifetime \in Nat
    BY <1>2 DEF Opened, SessionAssumption
  <2>3. /\ after.used = time /\ after.idle = Earlier(time + IdleLifetime, row.absolute)
        /\ after.absolute = row.absolute /\ after.token = row.token
        /\ after.written = row.written /\ after.revoked = row.revoked
    BY <1>2 DEF Touched, Opened
  <2>4. Earlier(time + IdleLifetime, row.absolute) \in Nat
        /\ Earlier(time + IdleLifetime, row.absolute) <= time + IdleLifetime
        /\ Earlier(time + IdleLifetime, row.absolute) <= row.absolute
    BY <2>1, <2>2 DEF Earlier
  <2>5. after \in Opened
    BY <1>2, <2>1, <2>4 DEF Touched, Opened
  <2>6. GoesOn(row, after) /\ InBounds(after, granted[s])
    BY <1>3, <2>2, <2>3, <2>4 DEF GoesOn, InBounds
  <2>7. sessions' = [sessions EXCEPT ![s] = after] /\ granted' = granted
        /\ clock' = clock /\ attempt' = attempt /\ request' = [request EXCEPT ![r] = n]
    BY <1>4 DEF TouchBrowserSession, Accepted
  <2>8. n \in SessionRequests /\ n.at \in {"idle", "refresh", "logout"}
    <3>1. CASE q.for = "use"
      BY <3>1, IdleRequest
    <3>2. CASE q.for # "use"
      BY <1>2, <2>1, <3>2 DEF SessionRequests, Asking
    <3>3. QED BY <3>1, <3>2
  <2>9. n.at \in Asking => n.session = s /\ n.for = q.for /\ n.read = q.read /\ n.at = q.for
    <3>1. CASE q.for = "use"
      BY <3>1, IdleRequest DEF Asking
    <3>2. CASE q.for # "use"
      BY <1>2, <3>2 DEF SessionRequests
    <3>3. QED BY <3>1, <3>2
  <2> HIDE DEF after, n, s, row, time
  <2>10. n.at \in Asking => Sound(n, row, granted[s])
    BY <1>2, <2>1, <2>8, <2>9 DEF Sound
  <2>11. n.at \in Asking => Sound(n, after, granted[s])
    BY <1>2, <2>5, <2>6, <2>8, <2>10, SoundGoesOn
  <2>12. /\ sessions' \in [Session -> Opened \cup {Absent}]
         /\ granted' \in [Session -> 0..MaxToken] /\ sessions'[s] = after
         /\ \A u \in Session : sessions[u] \in Opened =>
              sessions'[u] \in Opened /\ GoesOn(sessions[u], sessions'[u])
         /\ RowInv'
    BY <1>2, <2>5, <2>6, <2>7, OneRowWritten DEF row
  <2>13. n.at \in Asking => n.session \in Session /\ Sound(n, sessions'[n.session], granted'[n.session])
    BY <1>2, <2>7, <2>9, <2>11, <2>12
  <2>14. n.at \notin {"consuming", "logging in"}
    BY <2>8
  <2>15. \A u \in Session : granted'[u] = granted[u] \/ GrantGoesOn(granted[u], granted'[u])
    BY <2>7
  <2>16. QED BY <2>7, <2>8, <2>12, <2>13, <2>14, <2>15, SessionStep
<1>5. CASE ~Touchable(row, time)
  <2>1. request' = [request EXCEPT ![r] = Idle] /\ UNCHANGED <<clock, attempt, sessions, granted>>
    BY <1>5 DEF TouchBrowserSession
  <2>2. Idle \in SessionRequests /\ Idle.at \notin Asking
        /\ Idle.at \notin {"consuming", "logging in"}
    BY IdleRequest DEF Asking
  <2>3. QED BY <2>1, <2>2, RequestStep
<1>6. QED BY <1>4, <1>5

(* A request that ends, and may have written to its row.                   *)
LEMMA EndingKeeps ==
  ASSUME SessionAssumption, SessionInv, NEW r \in Request, NEW s \in Session, NEW row \in Opened,
         sessions[s] \in Opened, GoesOn(sessions[s], row), InBounds(row, granted[s]),
         sessions' = [sessions EXCEPT ![s] = row] \/ sessions' = sessions,
         request' = [request EXCEPT ![r] = Idle], UNCHANGED <<clock, attempt, granted>>
  PROVE  SessionInv'
<1>1. Idle \in SessionRequests /\ Idle.at \notin Asking /\ Idle.at \notin {"consuming", "logging in"}
  BY IdleRequest DEF Asking
<1>2. CASE sessions' = sessions
  BY <1>1, <1>2, RequestStep
<1>3. CASE sessions' = [sessions EXCEPT ![s] = row]
  <2>1. /\ sessions' \in [Session -> Opened \cup {Absent}]
        /\ granted' \in [Session -> 0..MaxToken]
        /\ \A u \in Session : sessions[u] \in Opened =>
             sessions'[u] \in Opened /\ GoesOn(sessions[u], sessions'[u])
        /\ RowInv'
    BY <1>3, OneRowWritten
  <2>2. \A u \in Session : granted'[u] = granted[u] \/ GrantGoesOn(granted[u], granted'[u])
    OBVIOUS
  <2>3. QED BY <1>1, <2>1, <2>2, SessionStep
<1>4. QED BY <1>2, <1>3

LEMMA RevokingKeeps ==
  ASSUME SessionAssumption, SessionInv, NEW r \in Request, request[r].at \in Asking,
         \/ sessions' = [sessions EXCEPT ![request[r].session].revoked = TRUE]
         \/ sessions' = sessions,
         request' = [request EXCEPT ![r] = Idle], UNCHANGED <<clock, attempt, granted>>
  PROVE  SessionInv'
<1> DEFINE s == request[r].session
<1> DEFINE row == [sessions[s] EXCEPT !.revoked = TRUE]
<1>1. s \in Session /\ sessions[s] \in Opened
  BY WhatIsAsked
<1>2. row \in Opened /\ GoesOn(sessions[s], row)
  BY <1>1, SameGoesOn
<1>3. InBounds(sessions[s], granted[s])
  BY <1>1 DEF SessionInv, RowInv, SessionAssumption
<1>4. InBounds(row, granted[s])
  BY <1>1, <1>3 DEF InBounds, Opened
<1>5. sessions' = [sessions EXCEPT ![s] = row] \/ sessions' = sessions
  OBVIOUS
<1> HIDE DEF s, row
<1>6. QED BY <1>1, <1>2, <1>4, <1>5, EndingKeeps

LEMMA UpdatingKeeps ==
  ASSUME SessionAssumption, SessionInv, NEW r \in Request, UpdateBrowserSessionTokens(r)
  PROVE  SessionInv'
<1> DEFINE q == request[r]
<1> DEFINE s == q.session
<1> DEFINE old == sessions[s]
<1>1. q.at = "refreshed" /\ q.at \in Asking
  BY DEF UpdateBrowserSessionTokens, Asking
<1>2. /\ q \in SessionRequests /\ s \in Session /\ old \in Opened
      /\ granted[s] \in 0..MaxToken /\ Sound(q, old, granted[s])
  BY <1>1, WhatIsAsked
<1>3. InBounds(old, granted[s])
  BY <1>2 DEF SessionInv, RowInv, SessionAssumption
<1>4. request' = [request EXCEPT ![r] = Idle] /\ UNCHANGED <<clock, attempt, granted>>
  BY DEF UpdateBrowserSessionTokens
<1>5. CASE Unchanged(old, q.read)
  <2> DEFINE row == [old EXCEPT !.token = q.token, !.written = @ + 1]
  <2>1. /\ q.token \in 0..MaxToken /\ q.read \in Reads
        /\ old.written = q.read.written /\ q.read.written < MaxToken /\ MaxToken \in Nat
        /\ granted[s] = 0 \/ q.token <= granted[s]
    BY <1>1, <1>2, <1>5 DEF SessionRequests, Sound, WasRead, Unchanged, SessionAssumption
  <2>2. old.written \in Nat /\ old.written + 1 \in 0..MaxToken
    BY <2>1 DEF Reads
  <2>3. /\ row.token = q.token /\ row.written = old.written + 1 /\ row.idle = old.idle
        /\ row.absolute = old.absolute /\ row.used = old.used
    BY <1>2 DEF Opened
  <2>4. row \in Opened
    BY <1>2, <2>1, <2>2 DEF Opened
  <2>5. GoesOn(old, row)
    BY <2>2, <2>3 DEF GoesOn
  <2>6. InBounds(row, granted[s])
    BY <1>3, <2>1, <2>3 DEF InBounds
  <2>7. sessions' = [sessions EXCEPT ![s] = row]
    BY <1>5 DEF UpdateBrowserSessionTokens
  <2> HIDE DEF row, s
  <2>8. QED BY <1>2, <1>4, <2>4, <2>5, <2>6, <2>7, EndingKeeps
<1>6. CASE ~Unchanged(old, q.read)
  <2>1. sessions' = sessions
    BY <1>6 DEF UpdateBrowserSessionTokens
  <2>2. QED BY <1>1, <1>4, <2>1, RevokingKeeps
<1>7. QED BY <1>5, <1>6

LEMMA RefreshingKeeps ==
  ASSUME SessionAssumption, SessionInv, NEW r \in Request, ProviderRefreshes(r)
  PROVE  SessionInv'
<1> DEFINE q == request[r]
<1> DEFINE s == q.session
<1> DEFINE token == q.read.token
<1>1. q.at = "refresh" /\ q.at \in Asking /\ token # 0 /\ token = granted[s]
      /\ q.read.written < MaxToken /\ UNCHANGED <<clock, attempt, sessions>>
  BY DEF ProviderRefreshes, Asking
<1>2. /\ q \in SessionRequests /\ s \in Session /\ sessions[s] \in Opened
      /\ granted[s] \in 0..MaxToken /\ Sound(q, sessions[s], granted[s])
  BY <1>1, WhatIsAsked
<1>3. PICK next \in {token, token + 1} \cap 0..MaxToken :
        /\ granted' = [granted EXCEPT ![s] = next]
        /\ request' = [request EXCEPT ![r].at = "refreshed", ![r].token = next]
  BY DEF ProviderRefreshes
<1>4. MaxToken \in Nat /\ token \in Nat /\ next \in Nat /\ token <= next /\ next # 0
  BY <1>1, <1>2 DEF SessionAssumption
<1> DEFINE n == [q EXCEPT !.at = "refreshed", !.token = next]
<1>5. request' = [request EXCEPT ![r] = n]
  BY <1>3 DEF SessionInv, SessionTypes, SessionRequests
<1>6. n \in SessionRequests /\ n.at = "refreshed" /\ n.session = s /\ n.for = q.for
      /\ n.read = q.read /\ n.token = next
  BY <1>2 DEF SessionRequests, Asking
<1>7. /\ granted' \in [Session -> 0..MaxToken] /\ granted'[s] = next
      /\ \A u \in Session \ {s} : granted'[u] = granted[u]
  BY <1>2, <1>3 DEF SessionInv, SessionTypes
<1>8. GrantGoesOn(granted[s], next)
  BY <1>1, <1>4 DEF GrantGoesOn
<1> HIDE DEF n, s, token
<1>9. Sound(q, sessions[s], next)
  BY <1>2, <1>8, SameGoesOn, SoundGoesOn
<1>10. q.for = "refresh"
  BY <1>1, <1>2 DEF Sound
<1>11. Sound(n, sessions[s], next)
  BY <1>1, <1>4, <1>6, <1>9, <1>10 DEF Sound, token
<1>12. RowInv'
  <2> SUFFICES ASSUME NEW u \in Session, sessions[u] # Absent
               PROVE  InBounds(sessions[u], granted'[u])
    BY <1>1 DEF RowInv
  <2>1. InBounds(sessions[u], granted[u])
    BY DEF SessionInv, RowInv
  <2>2. CASE u # s
    BY <1>7, <2>1, <2>2
  <2>3. CASE u = s
    <3>1. sessions[s].token \in 0..MaxToken
      BY <1>2 DEF Opened
    <3>2. sessions[s].token <= next
      BY <1>1, <1>4, <2>1, <2>3, <3>1 DEF InBounds
    <3>3. QED BY <1>7, <2>1, <2>3, <3>2 DEF InBounds
  <2>4. QED BY <2>2, <2>3
<1>13. /\ sessions' \in [Session -> Opened \cup {Absent}]
       /\ \A u \in Session : sessions[u] \in Opened =>
             sessions'[u] \in Opened /\ GoesOn(sessions[u], sessions'[u])
  BY <1>1, SameGoesOn DEF SessionInv, SessionTypes
<1>14. \A u \in Session : granted'[u] = granted[u] \/ GrantGoesOn(granted[u], granted'[u])
  BY <1>7, <1>8
<1>15. n.at \in Asking => n.session \in Session /\ Sound(n, sessions'[n.session], granted'[n.session])
  BY <1>1, <1>2, <1>6, <1>7, <1>11
<1>16. n.at \notin {"consuming", "logging in"}
  BY <1>6
<1>17. QED
  BY <1>1, <1>5, <1>6, <1>7, <1>12, <1>13, <1>14, <1>15, <1>16, SessionStep

LEMMA AskedAndEnded ==
  ASSUME SessionAssumption, SessionInv, NEW r \in Request,
         \/ RevokeBrowserSession(r)
         \/ RevokeBrowserSessionIfRefreshToken(r)
         \/ RefreshEnds(r)
  PROVE  SessionInv'
<1>1. /\ request[r].at \in Asking
      /\ \/ sessions' = [sessions EXCEPT ![request[r].session].revoked = TRUE]
         \/ sessions' = sessions
      /\ request' = [request EXCEPT ![r] = Idle] /\ UNCHANGED <<clock, attempt, granted>>
  BY DEF RevokeBrowserSession, RevokeBrowserSessionIfRefreshToken, RefreshEnds, Asking
<1>2. QED BY <1>1, RevokingKeeps

LEMMA RejectingKeeps ==
  ASSUME SessionAssumption, SessionInv, NEW r \in Request, ProviderRejects(r)
  PROVE  SessionInv'
<1> DEFINE q == request[r]
<1> DEFINE n == [q EXCEPT !.at = "rejected"]
<1>1. /\ q.at = "refresh" /\ q.at \in Asking /\ q.read.token \notin {0, granted[q.session]}
      /\ UNCHANGED <<clock, attempt, sessions, granted>>
  BY DEF ProviderRejects, Asking
<1>2. /\ q \in SessionRequests /\ q.session \in Session
      /\ granted[q.session] \in 0..MaxToken /\ Sound(q, sessions[q.session], granted[q.session])
  BY <1>1, WhatIsAsked
<1>3. request' = [request EXCEPT ![r] = n]
  BY DEF ProviderRejects
<1>4. n \in SessionRequests /\ n.at = "rejected" /\ n.session = q.session /\ n.for = q.for
      /\ n.read = q.read
  BY <1>2 DEF SessionRequests, Asking
<1>5. /\ q.for = "refresh" /\ q.read \in Reads /\ MaxToken \in Nat
      /\ granted[q.session] = 0 \/ q.read.token <= granted[q.session]
  BY <1>1, <1>2 DEF Sound, WasRead, SessionAssumption
<1>6. q.read.token # 0
      /\ (granted[q.session] = 0 \/ q.read.token < granted[q.session])
  BY <1>1, <1>2, <1>5 DEF Reads
<1> HIDE DEF n
<1>7. Sound(n, sessions[n.session], granted[n.session])
  BY <1>2, <1>4, <1>5, <1>6 DEF Sound
<1>8. n.at \notin {"consuming", "logging in"}
  BY <1>4
<1>9. QED BY <1>1, <1>2, <1>3, <1>4, <1>7, <1>8, RequestStep

(* A step after which the requests that it concerns work with no session.  *)
LEMMA NobodyAsks ==
  ASSUME SessionAssumption, SessionInv, SessionTypes', AttemptInv', RowInv',
         \A s \in Session : sessions[s] \in Opened =>
            sessions'[s] \in Opened /\ GoesOn(sessions[s], sessions'[s]),
         \A s \in Session : sessions[s] \in Opened =>
            granted'[s] = granted[s] \/ GrantGoesOn(granted[s], granted'[s]),
         NEW R \in SUBSET Request,
         \A r \in Request \ R : request'[r] = request[r],
         \A r \in R : request'[r].at \notin Asking
  PROVE  SessionInv'
<1>1. SessionTypes /\ AskingInv /\ granted' \in [Session -> 0..MaxToken]
  BY DEF SessionInv, SessionTypes
<1>2. \A r \in R : request'[r].at \in Asking =>
        /\ request'[r].session \in Session
        /\ Sound(request'[r], sessions'[request'[r].session], granted'[request'[r].session])
  OBVIOUS
<1>3. AskingInv'
  BY <1>1, <1>2, AskingKept
<1>4. QED BY <1>3 DEF SessionInv

LEMMA RowsStay ==
  ASSUME SessionAssumption, SessionInv, UNCHANGED <<sessions, granted>>
  PROVE  /\ RowInv'
         /\ \A s \in Session : sessions[s] \in Opened =>
              sessions'[s] \in Opened /\ GoesOn(sessions[s], sessions'[s])
BY SameGoesOn DEF SessionInv, RowInv

LEMMA AttemptCreated ==
  ASSUME SessionAssumption, SessionInv, CreateOAuthLoginAttempt
  PROVE  SessionInv'
<1>1. UNCHANGED <<clock, sessions, granted, request>>
  BY DEF CreateOAuthLoginAttempt
<1>2. SessionTypes' /\ AttemptInv'
  <2>1. CASE attempt = Absent
    <3>1. attempt' = [expires |-> clock + 1, consumed |-> FALSE, pruned |-> FALSE,
                      sessions |-> {}]
      BY <2>1 DEF CreateOAuthLoginAttempt
    <3>2. attempt' \in Attempts /\ attempt'.sessions = {}
      BY <3>1 DEF Attempts, SessionInv, SessionTypes
    <3>3. \A r \in Request : request[r].at \notin {"consuming", "logging in"}
      BY <2>1 DEF SessionInv, AttemptInv, SessionAssumption
    <3>4. QED
      BY <1>1, <3>2, <3>3 DEF SessionInv, AttemptInv, SessionTypes, AttemptMakesOneSession
  <2>2. CASE attempt # Absent
    <3>1. attempt \in Attempts /\ attempt' = [attempt EXCEPT !.pruned = TRUE]
      BY <2>2 DEF CreateOAuthLoginAttempt, SessionInv, SessionTypes
    <3>2. attempt' \in Attempts /\ attempt'.sessions = attempt.sessions
          /\ attempt'.consumed = attempt.consumed
      BY <3>1 DEF Attempts
    <3>3. QED
      BY <1>1, <2>2, <3>2 DEF SessionInv, AttemptInv, SessionTypes, AttemptMakesOneSession
  <2>3. QED BY <2>1, <2>2
<1>3. {} \in SUBSET Request
  OBVIOUS
<1>4. QED BY <1>1, <1>2, <1>3, RowsStay, NobodyAsks

LEMMA AttemptRead ==
  ASSUME SessionAssumption, SessionInv, NEW r \in Request, ReadAttempt(r)
  PROVE  SessionInv'
<1> DEFINE n == [Idle EXCEPT !.at = "consuming"]
<1>1. n \in SessionRequests /\ n.at = "consuming"
  BY IdleRequest DEF SessionRequests, Asking
<1>2. /\ request' = [request EXCEPT ![r] = n] /\ UNCHANGED <<clock, attempt, sessions, granted>>
      /\ attempt \in Attempts
  BY DEF ReadAttempt, SessionInv, SessionTypes
<1> HIDE DEF n
<1>3. request' \in [Request -> SessionRequests] /\ request'[r] = n
      /\ \A q \in Request \ {r} : request'[q] = request[q]
  BY <1>1, <1>2 DEF SessionInv, SessionTypes
<1>4. SessionTypes' /\ AttemptInv'
  BY <1>1, <1>2, <1>3 DEF SessionInv, SessionTypes, AttemptInv, AttemptMakesOneSession
<1>5. \A q \in {r} : request'[q].at \notin Asking
  BY <1>1, <1>3 DEF Asking
<1>6. {r} \in SUBSET Request
  OBVIOUS
<1>7. QED BY <1>2, <1>3, <1>4, <1>5, <1>6, RowsStay, NobodyAsks

(* The statement that consumes finds the attempt consumed for all but one. *)
LEMMA AttemptConsumed ==
  ASSUME SessionAssumption, SessionInv, NEW r \in Request, ConsumeOAuthLoginAttempt(r)
  PROVE  SessionInv'
<1> DEFINE n == [request[r] EXCEPT !.at = "logging in"]
<1>1. n \in SessionRequests /\ n.at = "logging in"
  BY DEF SessionInv, SessionTypes, SessionRequests
<1>2. UNCHANGED <<clock, sessions, granted>> /\ request[r].at = "consuming"
      /\ attempt \in Attempts
  BY DEF ConsumeOAuthLoginAttempt, SessionInv, AttemptInv
<1>3. CASE attempt.consumed \/ attempt.pruned
  <2>1. request' = [request EXCEPT ![r] = Idle] /\ attempt' = attempt
    BY <1>3 DEF ConsumeOAuthLoginAttempt
  <2>2. Idle \in SessionRequests /\ Idle.at \notin Asking \cup {"consuming", "logging in"}
    BY IdleRequest DEF Asking
  <2>3. QED BY <1>2, <2>1, <2>2, RequestStep
<1>4. CASE ~(attempt.consumed \/ attempt.pruned)
  <2>1. request' = [request EXCEPT ![r] = n] /\ attempt' = [attempt EXCEPT !.consumed = TRUE]
    BY <1>4 DEF ConsumeOAuthLoginAttempt
  <2>2. attempt' \in Attempts /\ attempt'.consumed /\ attempt'.sessions = attempt.sessions
    BY <1>2, <2>1 DEF Attempts
  <2>3. attempt # Absent /\ attempt' # Absent
    BY <1>2, <2>2 DEF SessionAssumption
  <2>4. attempt.sessions = {} /\ \A q \in Request : request[q].at # "logging in"
    BY <1>4, <2>3 DEF SessionInv, AttemptInv
  <2> HIDE DEF n
  <2>5. request' \in [Request -> SessionRequests] /\ request'[r] = n
        /\ \A q \in Request \ {r} : request'[q] = request[q]
    BY <1>1, <2>1 DEF SessionInv, SessionTypes
  <2>6. SessionTypes' /\ AttemptInv'
    BY <1>1, <1>2, <2>2, <2>4, <2>5
    DEF SessionInv, SessionTypes, AttemptInv, AttemptMakesOneSession
  <2>7. \A q \in {r} : request'[q].at \notin Asking
    BY <1>1, <2>5 DEF Asking
  <2>8. {r} \in SUBSET Request
    OBVIOUS
  <2>9. QED BY <1>2, <2>5, <2>6, <2>7, <2>8, RowsStay, NobodyAsks
<1>5. QED BY <1>3, <1>4

(* A session is inserted, and with it an earlier one of the browser revoked. *)
LEMMA InsertedGoesOn ==
  ASSUME SessionAssumption, SessionInv, NEW s \in Session, NEW token \in {0, 1},
         NEW rotated \in SUBSET Session, sessions[s] = Absent,
         sessions' = Inserted(s, token, rotated),
         granted' \in [Session -> 0..MaxToken],
         \A u \in Session \ {s} : granted'[u] = granted[u],
         token <= granted'[s]
  PROVE  /\ sessions' \in [Session -> Opened \cup {Absent}] /\ RowInv'
         /\ \A u \in Session : sessions[u] \in Opened =>
              sessions'[u] \in Opened /\ GoesOn(sessions[u], sessions'[u])
<1>1. /\ IdleLifetime \in Nat /\ AbsoluteLifetime \in Nat /\ IdleLifetime <= AbsoluteLifetime
      /\ MaxToken \in Nat \ {0} /\ clock \in Nat
  <2>1. Second \in Nat \ {0}
    BY TextAssumption
  <2>2. /\ {IdleLifetime, AbsoluteLifetime, MaxToken} \subseteq Nat \ {0}
        /\ IdleLifetime = AbsoluteLifetime \/ IdleLifetime + Second <= AbsoluteLifetime
    BY DEF SessionAssumption
  <2>3. IdleLifetime <= AbsoluteLifetime
    BY ONLY <2>1, <2>2
  <2>4. clock \in Nat
    BY DEF SessionAssumption, SessionInv, SessionTypes
  <2>5. QED BY <2>2, <2>3, <2>4
<1>2. NewRow(token) \in Opened /\ InBounds(NewRow(token), granted'[s])
  BY <1>1 DEF NewRow, Opened, InBounds
<1>3. \A u \in Session : sessions[u] \in Opened \cup {Absent}
  BY DEF SessionInv, SessionTypes
<1>4. ASSUME NEW u \in Session \ {s}
      PROVE  \/ sessions'[u] = sessions[u]
             \/ /\ sessions[u] \in Opened
                /\ sessions'[u] = [sessions[u] EXCEPT !.revoked = TRUE]
  BY <1>3 DEF Inserted
<1>5. sessions'[s] = NewRow(token) /\ Absent \notin Opened
  BY DEF Inserted, SessionAssumption
<1>6. \A u \in Session : sessions[u] \in Opened =>
        sessions'[u] \in Opened /\ GoesOn(sessions[u], sessions'[u])
  BY <1>4, <1>5, SameGoesOn
<1>7. \A u \in Session : sessions'[u] \in Opened \cup {Absent}
  BY <1>2, <1>3, <1>4, <1>5, SameGoesOn
<1>8. sessions' \in [Session -> Opened \cup {Absent}]
  BY <1>7 DEF Inserted
<1>9. RowInv'
  <2> SUFFICES ASSUME NEW u \in Session, sessions'[u] # Absent
               PROVE  InBounds(sessions'[u], granted'[u])
    BY DEF RowInv
  <2>1. CASE u = s
    BY <1>2, <1>5, <2>1
  <2>2. CASE u # s /\ sessions'[u] = sessions[u]
    BY <2>2 DEF SessionInv, RowInv
  <2>3. CASE u # s /\ sessions[u] \in Opened
                   /\ sessions'[u] = [sessions[u] EXCEPT !.revoked = TRUE]
    <3>1. InBounds(sessions[u], granted[u])
      BY <1>5, <2>3 DEF SessionInv, RowInv
    <3>2. QED BY <2>3, <3>1 DEF InBounds, Opened
  <2>4. QED BY <1>4, <2>1, <2>2, <2>3
<1>10. QED BY <1>6, <1>8, <1>9

LEMMA LoginCreatesSession ==
  ASSUME SessionAssumption, SessionInv, NEW r \in Request, CreateOIDCSession(r)
  PROVE  SessionInv'
<1>1. PICK s \in Session, token \in {0, 1}, rotated \in SUBSET Session :
        /\ request[r].at = "logging in"
        /\ sessions[s] = Absent
        /\ sessions' = Inserted(s, token, rotated)
        /\ granted' = [granted EXCEPT ![s] = token]
        /\ attempt' = [attempt EXCEPT !.sessions = @ \cup {s}]
        /\ request' = [request EXCEPT ![r] = Idle]
        /\ clock' = clock
  BY DEF CreateOIDCSession
<1>2. attempt \in Attempts /\ attempt.consumed /\ attempt.sessions = {}
      /\ \A q \in Request \ {r} : request[q].at # "logging in"
  BY <1>1 DEF SessionInv, AttemptInv
<1>3. attempt' \in Attempts /\ attempt'.consumed /\ attempt'.sessions = {s}
  BY <1>1, <1>2 DEF Attempts
<1>4. Idle \in SessionRequests /\ Idle.at \notin Asking \cup {"consuming", "logging in"}
  BY IdleRequest DEF Asking
<1>5. request' \in [Request -> SessionRequests] /\ request'[r] = Idle
      /\ \A q \in Request \ {r} : request'[q] = request[q]
  BY <1>1, <1>4 DEF SessionInv, SessionTypes
<1>6. token \in 0..MaxToken
  BY DEF SessionAssumption
<1>7. /\ granted' \in [Session -> 0..MaxToken] /\ token <= granted'[s]
      /\ \A u \in Session \ {s} : granted'[u] = granted[u]
  <2>1. granted \in [Session -> 0..MaxToken] /\ token <= token
    BY <1>6 DEF SessionInv, SessionTypes
  <2>2. QED BY <1>1, <1>6, <2>1
<1>8. /\ sessions' \in [Session -> Opened \cup {Absent}] /\ RowInv'
      /\ \A u \in Session : sessions[u] \in Opened =>
            sessions'[u] \in Opened /\ GoesOn(sessions[u], sessions'[u])
  BY <1>1, <1>7, InsertedGoesOn
<1>9. SessionTypes' /\ AttemptInv'
  <2>1. SessionTypes'
    BY <1>1, <1>3, <1>5, <1>7, <1>8 DEF SessionInv, SessionTypes
  <2>2. AttemptMakesOneSession'
    BY <1>3 DEF AttemptMakesOneSession
  <2>3. QED BY <1>2, <1>3, <1>4, <1>5, <2>1, <2>2 DEF AttemptInv
<1>10. \A u \in Session : sessions[u] \in Opened =>
         granted'[u] = granted[u] \/ GrantGoesOn(granted[u], granted'[u])
  BY <1>1, <1>7 DEF SessionAssumption
<1>11. \A q \in {r} : request'[q].at \notin Asking
  BY <1>4, <1>5
<1>12. {r} \in SUBSET Request
  OBVIOUS
<1>13. QED BY <1>5, <1>8, <1>9, <1>10, <1>11, <1>12, NobodyAsks

(* Steps of no request.                                                    *)
LEMMA OthersKeep ==
  ASSUME SessionAssumption, SessionInv,
         \/ CreateLocalSession
         \/ RevokeSessions
         \/ \E s \in Session : ProviderWithdraws(s)
         \/ ClockTick
         \/ UNCHANGED sessionVars
  PROVE  SessionInv'
<1>1. SessionTypes /\ AttemptInv /\ RowInv
  BY DEF SessionInv
<1>2. UNCHANGED <<attempt, request>>
  BY DEF CreateLocalSession, RevokeSessions, ProviderWithdraws, ClockTick, sessionVars
<1>3. AttemptInv'
  BY <1>1, <1>2 DEF AttemptInv, AttemptMakesOneSession
<1>4. clock' \in Nat
  BY <1>1 DEF CreateLocalSession, RevokeSessions, ProviderWithdraws, ClockTick, sessionVars,
              SessionTypes
<1>5. /\ sessions' \in [Session -> Opened \cup {Absent}]
      /\ granted' \in [Session -> 0..MaxToken] /\ RowInv'
      /\ \A s \in Session : granted'[s] = granted[s] \/ granted'[s] = 0
      /\ \A s \in Session : sessions[s] \in Opened =>
            sessions'[s] \in Opened /\ GoesOn(sessions[s], sessions'[s])
  <2>1. CASE CreateLocalSession
    <3>1. PICK s \in Session, rotated \in SUBSET Session :
            sessions[s] = Absent /\ sessions' = Inserted(s, 0, rotated)
      BY <2>1 DEF CreateLocalSession
    <3>2. granted' = granted
      BY <2>1 DEF CreateLocalSession
    <3>3. /\ granted' \in [Session -> 0..MaxToken] /\ 0 <= granted'[s]
          /\ \A u \in Session : granted'[u] = granted[u]
      BY <1>1, <3>2 DEF SessionTypes
    <3>4. 0 \in {0, 1}
      OBVIOUS
    <3>5. QED BY <3>1, <3>3, <3>4, InsertedGoesOn
  <2>2. CASE RevokeSessions
    <3>1. granted' = granted /\ sessions' = [s \in Session |->
            IF sessions[s] = Absent THEN Absent ELSE [sessions[s] EXCEPT !.revoked = TRUE]]
      BY <2>2 DEF RevokeSessions
    <3>2. \A s \in Session : \/ sessions[s] = Absent /\ sessions'[s] = Absent
                            \/ /\ sessions[s] \in Opened
                               /\ sessions'[s] = [sessions[s] EXCEPT !.revoked = TRUE]
      BY <1>1, <3>1 DEF SessionTypes
    <3>3. \A s \in Session : sessions[s] \in Opened =>
            sessions'[s] \in Opened /\ GoesOn(sessions[s], sessions'[s])
      BY <3>2, SameGoesOn DEF SessionAssumption
    <3>4. sessions' \in [Session -> Opened \cup {Absent}]
      BY <3>1, <3>2, SameGoesOn
    <3>5. RowInv'
      BY <1>1, <3>1, <3>2 DEF RowInv, InBounds, Opened
    <3>6. QED BY <1>1, <3>1, <3>3, <3>4, <3>5 DEF SessionTypes
  <2>3. CASE \E s \in Session : ProviderWithdraws(s)
    <3>1. PICK s \in Session : granted' = [granted EXCEPT ![s] = 0]
      BY <2>3 DEF ProviderWithdraws
    <3>2. sessions' = sessions /\ 0 \in 0..MaxToken
      BY <2>3 DEF ProviderWithdraws, SessionAssumption
    <3>3. /\ granted' \in [Session -> 0..MaxToken]
          /\ \A u \in Session : granted'[u] = granted[u] \/ granted'[u] = 0
      BY <1>1, <3>1, <3>2 DEF SessionTypes
    <3>4. RowInv'
      BY <1>1, <3>2, <3>3 DEF RowInv, InBounds
    <3>5. QED BY <1>1, <3>2, <3>3, <3>4, SameGoesOn DEF SessionTypes
  <2>4. CASE ClockTick \/ UNCHANGED sessionVars
    <3>1. UNCHANGED <<sessions, granted>>
      BY <2>4 DEF ClockTick, sessionVars
    <3>2. QED BY <1>1, <3>1, RowsStay DEF SessionTypes
  <2>5. QED BY <2>1, <2>2, <2>3, <2>4
<1>6. SessionTypes'
  BY <1>1, <1>2, <1>4, <1>5 DEF SessionTypes
<1>7. \A s \in Session : granted'[s] = granted[s] \/ GrantGoesOn(granted[s], granted'[s])
  BY <1>5 DEF GrantGoesOn
<1>8. {} \in SUBSET Request
  OBVIOUS
<1>9. QED BY <1>2, <1>3, <1>5, <1>6, <1>7, <1>8, NobodyAsks

LEMMA SessionInvariant ==
  ASSUME SessionAssumption
  PROVE  SessionSpec => []SessionInv
<1>1. SessionInit => SessionInv
  BY SessionsInitially
<1>2. SessionInv /\ [SessionNext]_sessionVars => SessionInv'
  BY AttemptCreated, AttemptRead, AttemptConsumed, LoginCreatesSession, CurrentKeeps,
     TouchKeeps, AskedAndEnded, RefreshingKeeps, RejectingKeeps, UpdatingKeeps, OthersKeep
  DEF SessionNext
<1>3. QED BY <1>1, <1>2, PTL DEF SessionSpec

(* However many callbacks come with the state of a login, they make one     *)
(* session (ConsumeOAuthLoginAttempt).                                      *)
THEOREM AttemptsMakeOneSession ==
  ASSUME SessionAssumption
  PROVE  SessionSpec => []AttemptMakesOneSession
<1>1. SessionInv => AttemptMakesOneSession
  BY DEF SessionInv, AttemptInv
<1>2. QED BY <1>1, SessionInvariant, PTL

LEMMA TicksOfSeconds ==
  ASSUME NEW t \in Nat
  PROVE  /\ SecondOf(t) \in Nat /\ t % Second \in 0..Second - 1
         /\ t = Second * SecondOf(t) + (t % Second)
BY TextAssumption DEF SecondOf

LEMMA MoreSeconds ==
  ASSUME NEW p \in Nat, NEW q \in Nat
  PROVE  Second * p \in Nat /\ (p <= q => Second * p <= Second * q)
BY TextAssumption

(* A later text is that of no earlier second.                              *)
LEMMA LaterText ==
  ASSUME NEW s \in Nat, NEW t \in Nat, TextAfter(t, s)
  PROVE  TextSlack \in Nat /\ SecondOf(t) >= SecondOf(s) /\ s <= t + TextSlack
<1>1. Second \in Nat \ {0}
  BY TextAssumption
<1>2. PICK p \in Nat, a \in 0..Second - 1 : p = SecondOf(s) /\ s = Second * p + a
  BY TicksOfSeconds
<1>3. PICK q \in Nat, b \in 0..Second - 1 : q = SecondOf(t) /\ t = Second * q + b
  BY TicksOfSeconds
<1>4. p <= q
  BY <1>2, <1>3 DEF TextAfter
<1>5. PICK m \in Nat : m = Second * p
  BY MoreSeconds
<1>6. PICK n \in Nat : n = Second * q
  BY MoreSeconds
<1>7. m <= n
  BY <1>4, <1>5, <1>6, MoreSeconds
<1>8. s = m + a /\ t = n + b
  BY <1>2, <1>3, <1>5, <1>6
<1>9. s <= t + (Second - 1)
  BY ONLY <1>1, <1>7, <1>8, m \in Nat, n \in Nat, a \in 0..Second - 1, b \in 0..Second - 1
<1>10. QED BY <1>1, <1>2, <1>3, <1>4, <1>9 DEF TextSlack

(* Whoever writes to the row of a session, its last use never goes back to  *)
(* an earlier second nor its idle expiry by a second, its token never goes  *)
(* back, and a revoked row is not written                                   *)
(* (TouchBrowserSession, UpdateBrowserSessionTokens).                       *)
THEOREM SessionsGoForward ==
  ASSUME SessionAssumption
  PROVE  SessionSpec => SessionGoesForward
<1> DEFINE Forward(s) ==
      /\ SecondOf(sessions'[s].used) >= SecondOf(sessions[s].used)
      /\ sessions'[s].idle + TextSlack >= sessions[s].idle
      /\ sessions'[s].token >= sessions[s].token
      /\ sessions[s].revoked => sessions'[s] = sessions[s]
<1>1. ASSUME SessionInv, SessionNext, NEW s \in Session, sessions[s] # Absent
      PROVE  Forward(s)
  <2>1. /\ sessions[s] \in Opened /\ sessions[s].used \in Nat /\ sessions[s].idle \in Nat
        /\ sessions[s].absolute \in Nat
        /\ sessions[s].token \in Nat /\ MaxToken \in Nat /\ IdleLifetime \in Nat
        /\ TextSlack \in Nat /\ SecondOf(sessions[s].used) \in Nat
    <3>1. /\ sessions[s] \in Opened /\ sessions[s].used \in Nat /\ sessions[s].idle \in Nat
          /\ sessions[s].absolute \in Nat
          /\ sessions[s].token \in Nat /\ MaxToken \in Nat /\ IdleLifetime \in Nat
      BY <1>1 DEF SessionInv, SessionTypes, Opened, SessionAssumption
    <3>2. TextSlack \in Nat
      BY TextAssumption DEF TextSlack
    <3>3. QED BY <3>1, <3>2, TicksOfSeconds
  <2>2. CASE sessions'[s] = sessions[s]
    BY <2>1, <2>2
  <2>3. CASE sessions'[s] = [sessions[s] EXCEPT !.revoked = TRUE]
    <3> DEFINE row == sessions[s]
    <3>1. /\ sessions'[s].used = row.used /\ sessions'[s].idle = row.idle
          /\ sessions'[s].token = row.token
      BY <2>1, <2>3 DEF Opened
    <3>2. ASSUME row.revoked PROVE sessions'[s] = row
      BY <2>1, <2>3, <3>2 DEF Opened
    <3>3. QED BY <2>1, <3>1, <3>2
  <2>4. ASSUME NEW r \in Request, TouchBrowserSession(r), sessions' # sessions
        PROVE  Forward(s)
    <3> DEFINE q == request[r]
    <3>1. q.at \in Asking /\ Touchable(sessions[q.session], q.time)
          /\ sessions' = [sessions EXCEPT ![q.session] = Touched(@, q.time)]
      BY <2>4 DEF TouchBrowserSession, Asking
    <3>2. q \in SessionRequests /\ q.time \in Nat /\ q.session \in Session
      BY <1>1, <3>1, WhatIsAsked DEF SessionRequests
    <3>3. CASE q.session # s
      BY <1>1, <2>2, <3>1, <3>3 DEF SessionInv, SessionTypes
    <3>4. CASE q.session = s
      <4>1. sessions'[s] = Touched(sessions[s], q.time)
        BY <1>1, <3>1, <3>4 DEF SessionInv, SessionTypes
      <4>2. /\ sessions'[s].used = q.time /\ sessions'[s].token = sessions[s].token
            /\ sessions'[s].idle = Earlier(q.time + IdleLifetime, sessions[s].absolute)
        BY <2>1, <4>1 DEF Touched, Opened
      <4>3. TextAfter(q.time, sessions[s].used) /\ ~sessions[s].revoked
        BY <3>1, <3>4 DEF Touchable
      <4>4. /\ sessions[s].idle <= sessions[s].used + IdleLifetime
            /\ sessions[s].idle <= sessions[s].absolute
        BY <1>1 DEF SessionInv, RowInv, InBounds
      <4>5. /\ SecondOf(q.time) >= SecondOf(sessions[s].used)
            /\ sessions[s].used <= q.time + TextSlack
        BY <2>1, <3>2, <4>3, LaterText
      <4>6. PICK u \in Nat, i \in Nat, a \in Nat, n \in Nat, l \in Nat, k \in Nat :
              /\ u = sessions[s].used /\ i = sessions[s].idle /\ a = sessions[s].absolute
              /\ n = q.time /\ l = IdleLifetime /\ k = TextSlack
        BY <2>1, <3>2
      <4>7. i <= u + l /\ i <= a /\ u <= n + k
        BY <4>4, <4>5, <4>6
      <4>8. Earlier(n + l, a) + k >= i
        BY ONLY <4>7, u \in Nat, i \in Nat, a \in Nat, n \in Nat, l \in Nat, k \in Nat
        DEF Earlier
      <4>9. sessions'[s].idle + TextSlack >= sessions[s].idle
        BY <4>2, <4>6, <4>8
      <4>10. sessions'[s].token >= sessions[s].token
        BY <2>1, <4>2
      <4>11. QED BY <4>2, <4>3, <4>5, <4>9, <4>10
    <3>5. QED BY <3>3, <3>4
  <2>5. ASSUME NEW r \in Request, UpdateBrowserSessionTokens(r), sessions' # sessions
        PROVE  Forward(s)
    <3> DEFINE q == request[r]
    <3>1. /\ q.at = "refreshed" /\ q.at \in Asking /\ Unchanged(sessions[q.session], q.read)
          /\ sessions' = [sessions EXCEPT ![q.session].token = q.token,
                                          ![q.session].written = @ + 1]
      BY <2>5 DEF UpdateBrowserSessionTokens, Asking
    <3>2. /\ q \in SessionRequests /\ q.session \in Session
          /\ Sound(q, sessions[q.session], granted[q.session])
      BY <1>1, <3>1, WhatIsAsked
    <3>3. q.token \in 0..MaxToken /\ q.read.token <= q.token
      BY <3>1, <3>2 DEF SessionRequests, Sound
    <3>4. q.read.token = sessions[q.session].token
      BY <3>1, <3>2 DEF Sound, WasRead, Unchanged
    <3>5. CASE q.session # s
      BY <1>1, <2>2, <3>1, <3>5 DEF SessionInv, SessionTypes
    <3>6. CASE q.session = s
      <4>1. /\ sessions'[s].used = sessions[s].used /\ sessions'[s].idle = sessions[s].idle
            /\ sessions'[s].token = q.token
        BY <1>1, <2>1, <3>1, <3>6 DEF SessionInv, SessionTypes, Opened
      <4>2. QED BY <2>1, <3>1, <3>3, <3>6, <3>4, <4>1 DEF Unchanged
    <3>7. QED BY <3>5, <3>6
  <2>6. ASSUME NEW u \in Session, NEW token, NEW rotated,
               sessions[u] = Absent, sessions' = Inserted(u, token, rotated)
        PROVE  Forward(s)
    BY <1>1, <2>2, <2>3, <2>6 DEF Inserted
  <2>7. ASSUME NEW r \in Request,
               \/ RevokeBrowserSession(r)
               \/ RevokeBrowserSessionIfRefreshToken(r)
        PROVE  Forward(s)
    <3>1. \/ sessions' = sessions
          \/ sessions' = [sessions EXCEPT ![request[r].session].revoked = TRUE]
      BY <2>7 DEF RevokeBrowserSession, RevokeBrowserSessionIfRefreshToken
    <3>2. QED BY <1>1, <2>2, <2>3, <3>1 DEF SessionInv, SessionTypes
  <2>8. CASE RevokeSessions
    BY <1>1, <2>3, <2>8 DEF RevokeSessions
  <2>9. CASE sessions' = sessions
    BY <2>2, <2>9
  <2>10. QED
    BY <1>1, <2>4, <2>5, <2>6, <2>7, <2>8, <2>9
    DEF SessionNext, CreateOAuthLoginAttempt, ReadAttempt, ConsumeOAuthLoginAttempt,
        CreateOIDCSession, Current, ProviderRefreshes, ProviderRejects, RefreshEnds,
        CreateLocalSession, ProviderWithdraws, ClockTick
<1>2. SessionInv /\ [SessionNext]_sessionVars =>
        [\A s \in Session : sessions[s] # Absent => Forward(s)]_sessionVars
  BY <1>1
<1>3. QED BY <1>2, SessionInvariant, PTL DEF SessionSpec, SessionGoesForward

(* A rejected refresh revokes the session only while its token is not the  *)
(* one the provider takes (RevokeBrowserSessionIfRefreshToken).            *)
THEOREM RejectionsSpareTheRefreshed ==
  ASSUME SessionAssumption
  PROVE  SessionSpec => RejectionSparesTheRefreshed
<1> DEFINE Spared == \A r \in Request :
      RevokeBrowserSessionIfRefreshToken(r) =>
        LET s == request[r].session
        IN  sessions'[s] # sessions[s] => sessions[s].token # granted[s]
<1>1. SessionInv /\ [SessionNext]_sessionVars => [Spared]_sessionVars
  <2> SUFFICES ASSUME SessionInv, NEW r \in Request, RevokeBrowserSessionIfRefreshToken(r),
                      sessions'[request[r].session] # sessions[request[r].session]
               PROVE  sessions[request[r].session].token # granted[request[r].session]
    OBVIOUS
  <2> DEFINE q == request[r]
  <2> DEFINE s == q.session
  <2>1. q.at = "rejected" /\ q.at \in Asking /\ Unchanged(sessions[s], q.read)
    BY DEF RevokeBrowserSessionIfRefreshToken, Asking
  <2>2. /\ granted[s] \in 0..MaxToken /\ MaxToken \in Nat /\ sessions[s] \in Opened
        /\ Sound(q, sessions[s], granted[s])
    BY <2>1, WhatIsAsked DEF SessionAssumption
  <2>3. q.read.token = sessions[s].token /\ q.read.token # 0
        /\ (granted[s] = 0 \/ q.read.token < granted[s])
    BY <2>1, <2>2 DEF Sound, WasRead, Unchanged
  <2>4. QED BY <2>2, <2>3 DEF Opened
<1>2. QED BY <1>1, SessionInvariant, PTL DEF SessionSpec, RejectionSparesTheRefreshed

--------------------------------------------------------------------------------
(* Fair scheduling *)

(* The library's definition of a sum over a set, unfolded. *)
Sum(f, S) == MapThenSumSet(LAMBDA x : f[x], S)
Step(f, g, s) == IF s = {} THEN 0 ELSE LET x == CHOOSE x \in s : TRUE IN f[x] + g[s \ {x}]
IsSum(f, g, S) == g = [s \in SUBSET S |-> Step(f, g, s)]

LEMMA SumIs == \A f, S : Sum(f, S) = (CHOOSE g : IsSum(f, g, S))[S]
BY DEF Sum, MapThenSumSet, MapThenFoldSet, IsSum, Step

(* The subsets of at most n members, and the recursion up to them. *)
UpTo(S, n) == {s \in SUBSET S : Cardinality(s) <= n}
IsSumUpTo(f, g, S, n) == g = [s \in UpTo(S, n) |-> Step(f, g, s)]

LEMMA OneLess ==
  ASSUME NEW S, IsFiniteSet(S), NEW s \in SUBSET S, s # {}
  PROVE  LET x == CHOOSE x \in s : TRUE
         IN  /\ x \in s /\ s \ {x} \in SUBSET S
             /\ Cardinality(s) \in Nat /\ Cardinality(s \ {x}) = Cardinality(s) - 1
<1>1. IsFiniteSet(s)
  BY FS_Subset
<1>2. PICK y : y \in s
  OBVIOUS
<1>3. (CHOOSE x \in s : TRUE) \in s
  BY <1>2
<1>4. QED BY <1>1, <1>3, FS_RemoveElement, FS_CardinalityType

LEMMA NoneLess ==
  ASSUME NEW S, IsFiniteSet(S), NEW s \in UpTo(S, 0)
  PROVE  s = {}
<1>1. IsFiniteSet(s) /\ Cardinality(s) <= 0
  BY FS_Subset DEF UpTo
<1>2. Cardinality(s) \in Nat
  BY <1>1, FS_CardinalityType
<1>3. Cardinality(s) = 0
  BY <1>1, <1>2
<1>4. QED BY <1>1, <1>3, FS_EmptySet

LEMMA SumExists ==
  ASSUME NEW S, IsFiniteSet(S), NEW f
  PROVE  \E g : IsSum(f, g, S)
<1> DEFINE N == {n \in Nat : \E g : IsSumUpTo(f, g, S, n)}
<1>1. 0 \in N
  <2> DEFINE g == [s \in UpTo(S, 0) |-> 0]
  <2>1. \A s \in UpTo(S, 0) : s = {}
    BY NoneLess
  <2>2. IsSumUpTo(f, g, S, 0)
    BY <2>1 DEF IsSumUpTo, Step
  <2> HIDE DEF g
  <2>3. QED BY <2>2
<1>2. ASSUME NEW n \in N
      PROVE  n + 1 \in N
  <2>1. PICK g : IsSumUpTo(f, g, S, n)
    OBVIOUS
  <2> DEFINE h == [s \in UpTo(S, n + 1) |-> Step(f, g, s)]
  <2>2. \A s \in UpTo(S, n + 1) : s # {} =>
          s \ {CHOOSE x \in s : TRUE} \in UpTo(S, n)
    <3> SUFFICES ASSUME NEW s \in UpTo(S, n + 1), s # {}
                 PROVE  s \ {CHOOSE x \in s : TRUE} \in UpTo(S, n)
      OBVIOUS
    <3>1. Cardinality(s) <= n + 1 /\ n \in Nat /\ s \in SUBSET S
      BY DEF UpTo
    <3>2. QED BY <3>1, OneLess DEF UpTo
  <2>3. \A s \in UpTo(S, n) : s \in UpTo(S, n + 1)
    <3>1. n \in Nat
      OBVIOUS
    <3>2. \A s \in SUBSET S : Cardinality(s) \in Nat
      BY FS_Subset, FS_CardinalityType
    <3>3. QED BY <3>1, <3>2 DEF UpTo
  <2>4. \A s \in UpTo(S, n) : h[s] = g[s]
    <3>1. \A s \in UpTo(S, n) : h[s] = Step(f, g, s)
      BY <2>3
    <3>2. \A s \in UpTo(S, n) : g[s] = Step(f, g, s)
      BY <2>1 DEF IsSumUpTo
    <3>3. QED BY <3>1, <3>2
  <2>5. \A s \in UpTo(S, n + 1) : Step(f, h, s) = Step(f, g, s)
    <3> HIDE DEF h
    <3>1. QED BY <2>2, <2>4 DEF Step
  <2>6. IsSumUpTo(f, h, S, n + 1)
    BY <2>5 DEF IsSumUpTo
  <2> HIDE DEF h
  <2>7. QED BY <2>6
<1> HIDE DEF N
<1>3. N = Nat
  <2>1. N \subseteq Nat
    BY DEF N
  <2>2. QED BY <1>1, <1>2, <2>1, SetInduction
<1>4. Cardinality(S) \in Nat
  BY FS_CardinalityType
<1>5. PICK g : IsSumUpTo(f, g, S, Cardinality(S))
  BY <1>3, <1>4 DEF N
<1>6. UpTo(S, Cardinality(S)) = SUBSET S
  BY FS_Subset DEF UpTo
<1>7. QED BY <1>5, <1>6 DEF IsSum, IsSumUpTo

(* The larger the summands, the larger the sum. *)
LEMMA SumsAreMonotone ==
  ASSUME NEW D, NEW S \in SUBSET D, IsFiniteSet(S),
         NEW f \in [D -> Nat], NEW g \in [D -> Nat],
         \A x \in S : f[x] <= g[x]
  PROVE  /\ Sum(f, S) \in Nat /\ Sum(g, S) \in Nat /\ Sum(f, S) <= Sum(g, S)
         /\ \A x \in S : f[x] < g[x] => Sum(f, S) < Sum(g, S)
<1> DEFINE F == CHOOSE h : IsSum(f, h, S)
<1> DEFINE G == CHOOSE h : IsSum(g, h, S)
<1>1. IsSum(f, F, S) /\ IsSum(g, G, S)
  <2>1. (\E h : IsSum(f, h, S)) /\ (\E h : IsSum(g, h, S))
    BY SumExists
  <2>2. QED BY <2>1
<1>2. Sum(f, S) = F[S] /\ Sum(g, S) = G[S]
  BY SumIs
<1> HIDE DEF F, G
<1> DEFINE Holds(s) == /\ F[s] \in Nat /\ G[s] \in Nat /\ F[s] <= G[s]
                       /\ \A x \in s : f[x] < g[x] => F[s] < G[s]
<1> DEFINE N == {n \in Nat : \A s \in UpTo(S, n) : Holds(s)}
<1>3. \A s \in SUBSET S : F[s] = Step(f, F, s) /\ G[s] = Step(g, G, s)
  BY <1>1 DEF IsSum
<1>4. 0 \in N
  <2>1. \A s \in UpTo(S, 0) : s = {} /\ s \in SUBSET S
    BY NoneLess DEF UpTo
  <2>2. \A s \in UpTo(S, 0) : F[s] = 0 /\ G[s] = 0
    BY <1>3, <2>1 DEF Step
  <2>3. QED BY <2>1, <2>2
<1>5. ASSUME NEW n \in N
      PROVE  n + 1 \in N
  <2> SUFFICES ASSUME NEW s \in UpTo(S, n + 1)
               PROVE  Holds(s)
    OBVIOUS
  <2>1. s \in SUBSET S /\ Cardinality(s) <= n + 1 /\ n \in Nat
    BY DEF UpTo
  <2>2. CASE s = {}
    <3>1. F[s] = 0 /\ G[s] = 0
      BY <1>3, <2>1, <2>2 DEF Step
    <3>2. QED BY <2>2, <3>1
  <2>3. CASE s # {}
    <3> DEFINE y == CHOOSE x \in s : TRUE
    <3> DEFINE t == s \ {y}
    <3>1. y \in s /\ t \in UpTo(S, n)
      BY <2>1, <2>3, OneLess DEF UpTo
    <3>2. F[s] = f[y] + F[t] /\ G[s] = g[y] + G[t]
      BY <1>3, <2>1, <2>3 DEF Step
    <3>3. Holds(t)
      BY <3>1
    <3>4. f[y] \in Nat /\ g[y] \in Nat /\ f[y] <= g[y]
      BY <2>1, <3>1
    <3>5. \A x \in s : x = y \/ x \in t
      OBVIOUS
    <3> HIDE DEF y, t
    <3>6. QED BY <3>2, <3>3, <3>4, <3>5
  <2>4. QED BY <2>2, <2>3
<1>6. N = Nat
  <2> HIDE DEF Holds
  <2>1. N \subseteq Nat
    OBVIOUS
  <2> HIDE DEF N
  <2>2. QED BY <1>4, <1>5, <2>1, SetInduction
<1>7. Cardinality(S) \in Nat /\ S \in UpTo(S, Cardinality(S))
  BY FS_CardinalityType DEF UpTo
<1>8. Holds(S)
  BY <1>6, <1>7
<1>9. QED BY <1>2, <1>8

--------------------------------------------------------------------------------
(* The fair scheduler *)

Weights == \A p \in Projects :
  weight[p] <= heaviest[p] /\ pass.weight[p] <= heaviest[p]
    /\ InitialWeight[p] <= heaviest[p] /\ deficit[p] <= heaviest[p]

(* What the projects other than p have had of the sum that p may wait for:  *)
(* nothing yet of the turns between the cursor and p, which are to come, a  *)
(* part of the cursor's turn, and the others all.                           *)
Ahead(p, q) == Distance(cursor, q) < Distance(cursor, p)
Used(p) == [q \in Projects |->
  IF Ahead(p, q) THEN IF q = cursor /\ deficit[q] > 0 THEN heaviest[q] - deficit[q] ELSE 0
  ELSE heaviest[q]]

WaitInv == \A p \in Projects : waited[p] <= Sum(Used(p), Projects \ {p})

SchedulerInv == TypeOK /\ Weights /\ WaitInv

LEMMA Bounds ==
  ASSUME SchedulerAssumption
  PROVE  /\ LastProject \in Nat /\ MaxWeight \in Nat /\ MaxEligible \in Nat /\ MaxWait \in Nat
         /\ 0 \in 0..MaxWait /\ 0 \in 0..LastProject /\ 0 \in 0..MaxWeight /\ 0 \in 0..MaxEligible
         /\ Projects \in SUBSET Nat /\ IsFiniteSet(Projects) /\ NoPass \in Passes
<1>1. LastProject \in Nat /\ MaxWeight \in Nat /\ MaxEligible \in Nat
  BY DEF SchedulerAssumption
<1>2. LastProject * MaxWeight \in Nat
  BY <1>1
<1>3. MaxWait \in Nat
  BY <1>2 DEF MaxWait
<1>4. IsFiniteSet(Projects)
  BY <1>1, FS_Interval DEF Projects
<1>5. NoPass \in Passes
  BY <1>1 DEF NoPass, Passes, SchedulerAssumption
<1>6. QED BY <1>1, <1>3, <1>4, <1>5 DEF Projects

LEMMA DistanceType ==
  ASSUME SchedulerAssumption, NEW n \in 0..LastProject + 1, NEW p \in Projects
  PROVE  Distance(n, p) \in Nat
BY Bounds DEF Distance, Projects

LEMMA NearestIs ==
  ASSUME SchedulerAssumption, NEW n \in 0..LastProject + 1, NEW ps \in SUBSET Projects, ps # {}
  PROVE  /\ Nearest(n, ps) \in ps
         /\ \A q \in ps : Distance(n, Nearest(n, ps)) <= Distance(n, q)
<1> DEFINE D == {Distance(n, p) : p \in ps}
<1>1. D \in SUBSET Nat /\ D # {}
  BY DistanceType
<1>2. PICK d \in D : \A e \in D : d <= e
  BY <1>1, LeastNumber
<1>3. PICK p \in ps : d = Distance(n, p)
  BY <1>2
<1>4. \A q \in ps : Distance(n, p) <= Distance(n, q)
  BY <1>2, <1>3
<1>5. QED BY <1>4 DEF Nearest

(* Min and Max of two numbers, as FiniteSetsExt chooses them.              *)
LEMMA OfTwo ==
  ASSUME NEW a \in Nat, NEW b \in Nat
  PROVE  /\ Min({a, b}) \in {a, b} /\ Min({a, b}) <= a /\ Min({a, b}) <= b
         /\ Max({a, b}) \in {a, b} /\ a <= Max({a, b}) /\ b <= Max({a, b})
<1>1. \E x \in {a, b} : \A y \in {a, b} : x <= y
  OBVIOUS
<1>2. \E x \in {a, b} : \A y \in {a, b} : x >= y
  OBVIOUS
<1>3. Min({a, b}) \in {a, b} /\ \A y \in {a, b} : Min({a, b}) <= y
  BY <1>1 DEF Min
<1>4. Max({a, b}) \in {a, b} /\ \A y \in {a, b} : Max({a, b}) >= y
  BY <1>2 DEF Max
<1>5. QED BY <1>3, <1>4

LEMMA SchedulerInitially ==
  ASSUME SchedulerAssumption, Init
  PROVE  SchedulerInv
<1>1. TypeOK
  BY Bounds DEF Init, TypeOK, SchedulerAssumption
<1>2. Weights
  BY Bounds DEF Init, Weights, NoPass, SchedulerAssumption
<1>3. WaitInv
  <2> SUFFICES ASSUME NEW p \in Projects
               PROVE  waited[p] <= Sum(Used(p), Projects \ {p})
    BY DEF WaitInv
  <2>1. Used(p) \in [Projects -> Nat]
    BY <1>1, <1>2, Bounds DEF Used, Init, TypeOK, Weights
  <2>2. Sum(Used(p), Projects \ {p}) \in Nat
    <3>1. \A x \in Projects \ {p} : Used(p)[x] <= Used(p)[x]
      BY <2>1
    <3>2. QED BY <2>1, <3>1, Bounds, FS_Subset, SumsAreMonotone
  <2>3. QED BY <2>2 DEF Init
<1>4. QED BY <1>1, <1>2, <1>3 DEF SchedulerInv

LEMMA UsedType ==
  ASSUME SchedulerAssumption, TypeOK, Weights, NEW p \in Projects
  PROVE  Used(p) \in [Projects -> Nat] /\ \A q \in Projects : Used(p)[q] <= heaviest[q]
<1> SUFFICES ASSUME NEW q \in Projects
             PROVE  Used(p)[q] \in Nat /\ Used(p)[q] <= heaviest[q]
  BY DEF Used
<1>1. heaviest[q] \in Nat /\ deficit[q] \in Nat /\ deficit[q] <= heaviest[q]
  BY Bounds DEF TypeOK, Weights
<1>2. QED BY <1>1 DEF Used

(* What a step adds to the waits, it adds to what the others have had.     *)
LEMMA WaitKept ==
  ASSUME SchedulerAssumption, SchedulerInv, TypeOK', Weights',
         NEW p \in Projects,
         \/ waited'[p] = 0
         \/ /\ waited'[p] <= waited[p]
            /\ \A q \in Projects \ {p} : Used(p)[q] <= Used(p)'[q]
         \/ /\ waited'[p] <= waited[p] + 1
            /\ \A q \in Projects \ {p} : Used(p)[q] <= Used(p)'[q]
            /\ \E q \in Projects \ {p} : Used(p)[q] < Used(p)'[q]
  PROVE  waited'[p] <= Sum(Used(p)', Projects \ {p})
<1>1. Used(p) \in [Projects -> Nat] /\ Used(p)' \in [Projects -> Nat]
  <2>1. Used(p) \in [Projects -> Nat]
    BY UsedType DEF SchedulerInv
  <2>2. Used(p)' \in [Projects -> Nat]
    <3> SUFFICES ASSUME NEW q \in Projects
                 PROVE  Used(p)'[q] \in Nat
      BY DEF Used
    <3>1. heaviest'[q] \in Nat /\ deficit'[q] \in Nat /\ deficit'[q] <= heaviest'[q]
      BY Bounds DEF TypeOK, Weights
    <3>2. QED BY <3>1 DEF Used
  <2>3. QED BY <2>1, <2>2
<1>2. waited[p] \in Nat /\ waited'[p] \in Nat
  BY Bounds DEF SchedulerInv, TypeOK
<1>3. IsFiniteSet(Projects \ {p}) /\ Projects \ {p} \in SUBSET Projects
  BY Bounds, FS_Subset
<1>4. waited[p] <= Sum(Used(p), Projects \ {p})
  BY DEF SchedulerInv, WaitInv
<1> DEFINE f == Used(p)
<1> DEFINE g == Used(p)'
<1> DEFINE S == Projects \ {p}
<1> HIDE DEF f, g, S
<1>5. CASE waited'[p] = 0
  <2>1. \A q \in S : g[q] <= g[q]
    BY <1>1 DEF g, S
  <2>2. Sum(g, S) \in Nat
    BY <1>1, <1>3, <2>1, SumsAreMonotone DEF g, S
  <2>3. QED BY <1>5, <2>2 DEF g, S
<1>6. CASE waited'[p] # 0
  <2>1. \A q \in S : f[q] <= g[q]
    BY <1>6 DEF f, g, S
  <2>2. /\ Sum(f, S) \in Nat /\ Sum(g, S) \in Nat /\ Sum(f, S) <= Sum(g, S)
        /\ \A x \in S : f[x] < g[x] => Sum(f, S) < Sum(g, S)
    BY <1>1, <1>3, <2>1, SumsAreMonotone DEF f, g, S
  <2>3. waited[p] <= Sum(f, S)
    BY <1>4 DEF f, S
  <2>4. \/ waited'[p] <= waited[p]
        \/ waited'[p] <= waited[p] + 1 /\ \E q \in S : f[q] < g[q]
    BY <1>6 DEF f, g, S
  <2>5. waited'[p] <= Sum(g, S)
    BY <1>2, <2>2, <2>3, <2>4
  <2>6. QED BY <2>5 DEF g, S
<1>7. QED BY <1>5, <1>6

LEMMA Selecting ==
  ASSUME SchedulerAssumption, TypeOK, Weights, Valid, Ready # {}
  PROVE  /\ Selected \in Ready /\ Ready \in SUBSET pass.listed
         /\ pass.listed \in SUBSET Projects
         /\ \A q \in Ready : Distance(cursor, Selected) <= Distance(cursor, q)
         /\ Left \in 0..MaxWeight /\ Left < heaviest[Selected]
         /\ deficit[Selected] > 0 => Left = deficit[Selected] - 1
         /\ Left # 0 => NextCursor = Selected
         /\ Left = 0 =>
              /\ NextCursor \in pass.listed
              /\ \A q \in pass.listed :
                   Distance(Selected + 1, NextCursor) <= Distance(Selected + 1, q)
<1>1. pass.listed \in SUBSET Projects /\ Ready \in SUBSET pass.listed /\ cursor \in 0..LastProject + 1
  BY Bounds DEF TypeOK, Passes, Ready
<1>2. Selected \in Ready /\ \A q \in Ready : Distance(cursor, Selected) <= Distance(cursor, q)
  BY <1>1, NearestIs DEF Selected
<1>3. Selected + 1 \in 0..LastProject + 1
  BY SMTT(30), <1>1, <1>2, Bounds DEF Projects
<1>4. /\ NextCursor = IF Left = 0 THEN Nearest(Selected + 1, pass.listed) ELSE Selected
      /\ pass.listed # {}
  BY <1>1, <1>2 DEF NextCursor
<1>5. /\ deficit[Selected] \in 0..MaxWeight /\ pass.weight[Selected] \in 1..MaxWeight
      /\ heaviest[Selected] \in 1..MaxWeight /\ deficit[Selected] < pass.weight[Selected]
      /\ pass.weight[Selected] <= heaviest[Selected]
  BY <1>1, <1>2 DEF TypeOK, Passes, Weights, Valid
<1>6. /\ Left \in 0..MaxWeight /\ Left < heaviest[Selected]
      /\ deficit[Selected] > 0 => Left = deficit[Selected] - 1
  BY <1>5, Bounds DEF Left
<1>7. QED BY <1>1, <1>2, <1>3, <1>4, <1>6, NearestIs

(* A decision for another project is taken from the turns that p waits for. *)
LEMMA TurnIsTaken ==
  ASSUME SchedulerAssumption, SchedulerInv, Decide, eligible[Selected] > 0,
         NEW p \in Ready, p # Selected
  PROVE  /\ \A q \in Projects \ {p} : Used(p)[q] <= Used(p)'[q]
         /\ \E q \in Projects \ {p} : Used(p)[q] < Used(p)'[q]
<1> DEFINE s == Selected
<1> DEFINE c == cursor
<1>1. TypeOK /\ Weights /\ Valid /\ Ready # {}
  BY DEF SchedulerInv, Decide
<1>2. /\ s \in Projects /\ p \in Projects /\ p \in pass.listed /\ NextCursor \in Projects
      /\ Distance(c, s) <= Distance(c, p) /\ Left \in Nat /\ Left < heaviest[s]
      /\ deficit[s] > 0 => Left = deficit[s] - 1
      /\ Left # 0 => NextCursor = s
      /\ Left = 0 => Distance(s + 1, NextCursor) <= Distance(s + 1, p)
  BY <1>1, Selecting
<1>3. /\ cursor' = NextCursor /\ heaviest' = heaviest
      /\ deficit' = [q \in Projects |->
           CASE q = s -> Left [] q \in PassedOver -> 0 [] OTHER -> deficit[q]]
  BY DEF Decide, bounds
<1>4. /\ c \in 0..LastProject /\ \A q \in Projects : /\ q \in 1..LastProject /\ heaviest[q] \in Nat
                                             /\ deficit[q] \in Nat /\ deficit[q] <= heaviest[q]
      /\ LastProject \in Nat
  <2>1. LastProject \in Nat /\ MaxWeight \in Nat
    BY DEF SchedulerAssumption
  <2>2. \A q \in Projects : deficit[q] \in 0..MaxWeight /\ heaviest[q] \in 1..MaxWeight
                          /\ deficit[q] <= heaviest[q]
    BY <1>1 DEF TypeOK, Weights
  <2>3. c \in 0..LastProject
    BY <1>1 DEF TypeOK
  <2>4. \A q \in Projects : deficit[q] \in Nat /\ heaviest[q] \in Nat
    BY <2>1, <2>2
  <2>5. \A q \in Projects : q \in 1..LastProject
    BY DEF Projects
  <2>6. QED BY <2>1, <2>2, <2>3, <2>4, <2>5
<1>5. deficit'[s] = Left
  <2>1. s \notin PassedOver
    BY <1>2, <1>4 DEF PassedOver, Distance
  <2>2. QED BY <1>2, <1>3, <2>1
<1>6. \A q \in Projects : /\ deficit'[q] \in Nat /\ deficit'[q] <= heaviest[q]
  BY <1>2, <1>3, <1>4
<1> HIDE DEF s, c
<1>7. \A q \in Projects :
        /\ Used(p)[q] = IF Distance(c, q) < Distance(c, p)
                        THEN IF q = c /\ deficit[q] > 0 THEN heaviest[q] - deficit[q] ELSE 0
                        ELSE heaviest[q]
        /\ Used(p)'[q] = IF Distance(NextCursor, q) < Distance(NextCursor, p)
                         THEN IF q = NextCursor /\ deficit'[q] > 0
                              THEN heaviest[q] - deficit'[q] ELSE 0
                         ELSE heaviest[q]
  BY <1>3 DEF Used, Ahead, Distance, c
<1>8. Distance(c, s) < Distance(c, p) /\ s # p
  BY <1>2, <1>4 DEF Distance, s
<1>9. Used(p)[s] < Used(p)'[s] /\ Used(p)[s] <= Used(p)'[s]
  <2>1. CASE Left = 0
    <3>1. ~(Distance(NextCursor, s) < Distance(NextCursor, p))
      BY <1>2, <1>4, <1>8, <2>1 DEF Distance
    <3>2. QED BY <1>2, <1>4, <1>7, <1>8, <2>1, <3>1
  <2>2. CASE Left # 0
    <3>1. Distance(s, s) < Distance(s, p) /\ NextCursor = s
      BY <1>2, <1>4, <1>8, <2>2 DEF Distance
    <3>2. Used(p)'[s] = heaviest[s] - Left
      BY <1>2, <1>5, <1>7, <2>2, <3>1
    <3>3. QED BY <1>2, <1>4, <1>7, <1>8, <3>2
  <2>3. QED BY <2>1, <2>2
<1>10. ASSUME NEW q \in Projects \ {p}, q # s
       PROVE  Used(p)[q] <= Used(p)'[q]
  <2>1. CASE Distance(c, q) < Distance(c, s)
    <3>1. ~(Distance(NextCursor, q) < Distance(NextCursor, p))
      BY <1>2, <1>4, <1>8, <1>10, <2>1 DEF Distance
    <3>2. QED BY <1>4, <1>7, <3>1
  <2>2. CASE Distance(c, s) < Distance(c, q) /\ Distance(c, q) < Distance(c, p)
    <3>1. q # c
      BY <1>2, <1>4, <2>2 DEF Distance
    <3>2. QED BY <1>4, <1>6, <1>7, <2>2, <3>1
  <2>3. CASE Distance(c, p) <= Distance(c, q)
    <3>1. ~(Distance(NextCursor, q) < Distance(NextCursor, p))
      BY <1>2, <1>4, <1>8, <1>10, <2>3 DEF Distance
    <3>2. ~(Distance(c, q) < Distance(c, p))
      BY <1>2, <1>4, <2>3 DEF Distance
    <3>3. QED BY <1>4, <1>7, <3>1, <3>2
  <2>4. Distance(c, s) # Distance(c, q)
    BY <1>2, <1>4, <1>10 DEF Distance
  <2>5. QED
    BY <1>2, <1>4, <2>1, <2>2, <2>3, <2>4 DEF Distance
<1>11. QED BY <1>2, <1>8, <1>9, <1>10

LEMMA SameTurns ==
  ASSUME UNCHANGED <<deficit, cursor, heaviest>>
  PROVE  \A p \in Projects : Used(p)' = Used(p)
BY DEF Used, Ahead, Distance

(* Types, and weights that are no more than the heaviest, action by action. *)
LEMMA DecidingKeepsTypes ==
  ASSUME SchedulerAssumption, SchedulerInv, Decide
  PROVE  TypeOK' /\ Weights'
<1>1. TypeOK /\ Weights /\ Valid /\ Ready # {}
  BY DEF SchedulerInv, Decide
<1>2. /\ Selected \in Projects /\ NextCursor \in 0..LastProject
      /\ Left \in 0..MaxWeight /\ Left < heaviest[Selected] /\ pass.jobs[Selected] > 0
  <2>1. Selected \in Ready /\ Ready \in SUBSET Projects
    BY <1>1, Selecting
  <2>2. NextCursor \in Projects /\ Left \in 0..MaxWeight /\ Left < heaviest[Selected]
    BY <1>1, <2>1, Selecting
  <2>3. QED BY <2>1, <2>2, Bounds DEF Projects, Ready
<1>3. UNCHANGED <<weight, widens, urgent, heaviest, changes, emergencies, withdrawals>>
  BY DEF Decide, bounds
<1>4. CASE ~(eligible[Selected] > 0)
  <2>1. pass' = NoPass /\ UNCHANGED <<eligible, deficit, cursor, turn, waited>>
    BY <1>4 DEF Decide, fairness
  <2>2. TypeOK'
    BY <1>1, <1>3, <2>1, Bounds DEF TypeOK
  <2>3. NoPass.weight = InitialWeight
    BY DEF NoPass
  <2>4. Weights'
    BY <1>1, <1>3, <2>1, <2>3 DEF Weights
  <2>5. QED BY <2>2, <2>4
<1>5. CASE eligible[Selected] > 0
  <2>1. /\ deficit' = [p \in Projects |->
              CASE p = Selected -> Left [] p \in PassedOver -> 0 [] OTHER -> deficit[p]]
        /\ cursor' = NextCursor
        /\ eligible' \in {eligible, [eligible EXCEPT ![Selected] = @ - 1]}
        /\ pass' = [pass EXCEPT !.jobs[Selected] = @ - 1, !.decided = TRUE]
        /\ turn' = Selected
        /\ waited' = [p \in Projects |->
              IF p # Selected /\ p \in Ready THEN Min({waited[p] + 1, MaxWait}) ELSE 0]
    BY <1>5 DEF Decide
  <2>2. ASSUME NEW p \in Projects
        PROVE  deficit'[p] \in 0..MaxWeight /\ deficit'[p] <= heaviest[p]
    <3>1. deficit[p] \in 0..MaxWeight /\ deficit[p] <= heaviest[p] /\ heaviest[p] \in 1..MaxWeight
      BY <1>1 DEF TypeOK, Weights
    <3>2. deficit'[p] \in {deficit[p], 0} \/ (p = Selected /\ deficit'[p] = Left)
      BY <1>2, <2>1
    <3>3. QED BY <1>2, <3>1, <3>2, Bounds
  <2>3. deficit' \in [Projects -> 0..MaxWeight]
    BY <2>1, <2>2
  <2>4. eligible' \in [Projects -> 0..MaxEligible]
    <3>1. eligible[Selected] - 1 \in 0..MaxEligible
      BY <1>1, <1>2, <1>5, Bounds DEF TypeOK
    <3>2. QED BY <1>1, <1>2, <2>1, <3>1 DEF TypeOK
  <2>5. pass' \in Passes /\ pass'.weight = pass.weight
    <3>1. pass.jobs \in [Projects -> 0..MaxEligible] /\ pass \in Passes
      BY <1>1 DEF TypeOK, Passes
    <3>2. pass.jobs[Selected] - 1 \in 0..MaxEligible
      BY <1>2, <3>1, Bounds
    <3>3. [pass.jobs EXCEPT ![Selected] = @ - 1] \in [Projects -> 0..MaxEligible]
      BY <1>2, <3>1, <3>2
    <3>4. pass' = [pass EXCEPT !.jobs = [pass.jobs EXCEPT ![Selected] = @ - 1], !.decided = TRUE]
      BY <2>1, <3>1 DEF Passes
    <3>5. QED BY <3>1, <3>3, <3>4 DEF Passes
  <2>6. waited' \in [Projects -> 0..MaxWait]
    <3>1. ASSUME NEW p \in Projects
          PROVE  Min({waited[p] + 1, MaxWait}) \in 0..MaxWait
      <4>1. waited[p] \in Nat /\ waited[p] + 1 \in Nat /\ MaxWait \in Nat
        BY <1>1, Bounds DEF TypeOK
      <4>2. /\ Min({waited[p] + 1, MaxWait}) \in {waited[p] + 1, MaxWait}
            /\ Min({waited[p] + 1, MaxWait}) <= MaxWait
        BY <4>1, OfTwo
      <4>3. QED BY <4>1, <4>2
    <3>2. QED BY <2>1, <3>1, Bounds
  <2>7. cursor' \in 0..LastProject /\ turn' \in 0..LastProject
    BY <1>2, <2>1, Bounds DEF Projects
  <2>8. TypeOK'
    BY <1>1, <1>3, <2>3, <2>4, <2>5, <2>6, <2>7 DEF TypeOK
  <2>9. Weights'
    BY <1>1, <1>3, <2>2, <2>5 DEF Weights
  <2>10. QED BY <2>8, <2>9
<1>6. QED BY <1>4, <1>5

LEMMA PassKeepsTypes ==
  ASSUME SchedulerAssumption, SchedulerInv,
         BeginPass \/ SelectFails \/ ComposeFails \/ DecideEmergency \/ EndPass
  PROVE  TypeOK' /\ Weights'
<1>1. TypeOK /\ Weights
  BY DEF SchedulerInv
<1>2. /\ UNCHANGED <<weight, widens, eligible, deficit, cursor, heaviest, changes, emergencies,
                    withdrawals>>
      /\ urgent' \in SUBSET urgent /\ turn' \in Projects \cup {turn}
  BY <1>1 DEF BeginPass, SelectFails, ComposeFails, DecideEmergency, EndPass, fairness, bounds,
              TypeOK, Passes
<1>3. pass' \in Passes /\ pass'.weight \in {pass.weight, weight, InitialWeight}
  <2>1. CASE BeginPass
    <3>1. Eligible \ Beyond \in SUBSET Projects /\ urgent \cap (Eligible \ Beyond) \in SUBSET Projects
      BY <1>1 DEF Eligible, TypeOK
    <3>2. pass' = [open |-> TRUE, decided |-> FALSE, listed |-> Eligible \ Beyond,
                   weight |-> weight, jobs |-> eligible,
                   urgent |-> urgent \cap (Eligible \ Beyond)]
      BY <2>1 DEF BeginPass
    <3>3. QED BY <1>1, <3>1, <3>2 DEF Passes, TypeOK
  <2>2. CASE pass' = NoPass
    BY <2>2, Bounds DEF NoPass
  <2>3. CASE DecideEmergency /\ pass' # NoPass
    <3>1. PICK p \in pass.urgent : pass' = [pass EXCEPT !.urgent = @ \ {p}, !.decided = TRUE]
      BY <2>3 DEF DecideEmergency
    <3>2. QED BY <1>1, <3>1 DEF Passes, TypeOK
  <2>4. QED BY <2>1, <2>2, <2>3 DEF SelectFails, ComposeFails, EndPass
<1>4. waited' \in [Projects -> 0..MaxWait]
  <2>1. waited' = waited
          \/ waited' = [p \in Projects |->
                          IF eligible[p] > 0 /\ p \in Eligible \ Beyond THEN waited[p] ELSE 0]
    BY DEF BeginPass, SelectFails, ComposeFails, DecideEmergency, EndPass
  <2>2. QED BY <1>1, <2>1, Bounds DEF TypeOK
<1>5. turn' \in 0..LastProject /\ urgent' \subseteq Projects
  <2>1. turn \in 0..LastProject /\ urgent \in SUBSET Projects
    BY <1>1 DEF TypeOK
  <2>2. Projects \subseteq 0..LastProject
    BY Bounds DEF Projects
  <2>3. QED BY <1>2, <2>1, <2>2
<1>6. QED BY <1>1, <1>2, <1>3, <1>4, <1>5 DEF TypeOK, Weights

LEMMA OthersKeepTypes ==
  ASSUME SchedulerAssumption, SchedulerInv, NEW p \in Projects,
         SubmitJob(p) \/ SubmitEmergency(p) \/ Withdraw(p) \/ SetWeight(p) \/ ChangePolicy(p)
  PROVE  TypeOK' /\ Weights' /\ \A q \in Projects : heaviest[q] <= heaviest'[q]
<1>1. TypeOK /\ Weights
  BY DEF SchedulerInv
<1>2. UNCHANGED <<deficit, cursor, pass, turn, waited>>
  BY DEF SubmitJob, SubmitEmergency, Withdraw, SetWeight, ChangePolicy, fairness
<1>3. eligible' \in [Projects -> 0..MaxEligible]
  <2>1. eligible[p] \in 0..MaxEligible /\ MaxEligible \in Nat
    BY <1>1, Bounds DEF TypeOK
  <2>2. CASE SubmitJob(p)
    <3>1. eligible[p] + 1 \in 0..MaxEligible /\ eligible' = [eligible EXCEPT ![p] = eligible[p] + 1]
      BY <2>1, <2>2 DEF SubmitJob
    <3>2. QED BY <1>1, <3>1 DEF TypeOK
  <2>3. CASE Withdraw(p)
    <3>1. eligible[p] - 1 \in 0..MaxEligible /\ eligible' = [eligible EXCEPT ![p] = eligible[p] - 1]
      BY <2>1, <2>3 DEF Withdraw
    <3>2. QED BY <1>1, <3>1 DEF TypeOK
  <2>4. CASE UNCHANGED eligible
    BY <1>1, <2>4 DEF TypeOK
  <2>5. QED BY <2>2, <2>3, <2>4 DEF SubmitEmergency, SetWeight, ChangePolicy
<1>4. /\ urgent' \subseteq Projects /\ widens' \subseteq Projects /\ changes' \in 0..MaxAdjustments
      /\ emergencies' \in 0..MaxEmergencies /\ withdrawals' \in 0..MaxWithdrawals
  <2>1. {MaxAdjustments, MaxEmergencies, MaxWithdrawals} \subseteq Nat
    BY DEF SchedulerAssumption
  <2>2. QED
    BY <1>1, <2>1 DEF SubmitJob, SubmitEmergency, Withdraw, SetWeight, ChangePolicy, TypeOK, bounds
<1>5. /\ weight' \in [Projects -> 1..MaxWeight] /\ heaviest' \in [Projects -> 1..MaxWeight]
      /\ \A q \in Projects : heaviest[q] <= heaviest'[q] /\ weight'[q] <= heaviest'[q]
  <2>1. CASE SetWeight(p)
    <3>1. PICK w \in 1..MaxWeight : weight' = [weight EXCEPT ![p] = w]
                                   /\ heaviest' = [heaviest EXCEPT ![p] = Max({@, w})]
      BY <2>1 DEF SetWeight
    <3>2. MaxWeight \in Nat /\ heaviest[p] \in 1..MaxWeight
      BY <1>1, Bounds DEF TypeOK
    <3>3. heaviest[p] \in Nat /\ w \in Nat
      BY <3>2
    <3>4. /\ Max({heaviest[p], w}) \in {heaviest[p], w}
          /\ heaviest[p] <= Max({heaviest[p], w}) /\ w <= Max({heaviest[p], w})
      BY <3>3, OfTwo
    <3>5. \A q \in Projects : heaviest[q] \in Nat /\ weight[q] <= heaviest[q]
      BY <1>1, Bounds DEF TypeOK, Weights
    <3>6. QED BY <1>1, <3>1, <3>2, <3>4, <3>5 DEF TypeOK
  <2>2. CASE UNCHANGED <<weight, heaviest>>
    <3>1. \A q \in Projects : heaviest[q] \in Nat
      BY <1>1, Bounds DEF TypeOK
    <3>2. QED BY <1>1, <2>2, <3>1 DEF TypeOK, Weights
  <2>3. QED BY <2>1, <2>2 DEF SubmitJob, SubmitEmergency, Withdraw, ChangePolicy, bounds
<1>6. TypeOK'
  BY <1>1, <1>2, <1>3, <1>4, <1>5 DEF TypeOK
<1>7. Weights'
  <2> SUFFICES ASSUME NEW q \in Projects
               PROVE  /\ weight'[q] <= heaviest'[q] /\ pass.weight[q] <= heaviest'[q]
                      /\ InitialWeight[q] <= heaviest'[q] /\ deficit[q] <= heaviest'[q]
    BY <1>2 DEF Weights
  <2>1. /\ pass.weight[q] \in 1..MaxWeight /\ InitialWeight[q] \in 1..MaxWeight
        /\ deficit[q] \in 0..MaxWeight /\ heaviest[q] \in 1..MaxWeight
        /\ heaviest'[q] \in 1..MaxWeight
    BY <1>1, <1>5 DEF TypeOK, Passes, SchedulerAssumption
  <2>2. /\ pass.weight[q] <= heaviest[q] /\ InitialWeight[q] <= heaviest[q]
        /\ deficit[q] <= heaviest[q]
    BY <1>1 DEF Weights
  <2>3. QED BY <1>5, <2>1, <2>2, Bounds
<1>8. QED BY <1>5, <1>6, <1>7

LEMMA WaitsKept ==
  ASSUME SchedulerAssumption, SchedulerInv, Next, TypeOK', Weights',
         \A q \in Projects : heaviest[q] <= heaviest'[q]
  PROVE  WaitInv'
<1> SUFFICES ASSUME NEW p \in Projects
             PROVE  waited'[p] <= Sum(Used(p)', Projects \ {p})
  BY DEF WaitInv
<1>1. TypeOK /\ Weights
  BY DEF SchedulerInv
<1>2. waited[p] \in Nat
  BY <1>1, Bounds DEF TypeOK
<1>3. CASE Decide /\ eligible[Selected] > 0
  <2>1. waited'[p] = IF p # Selected /\ p \in Ready THEN Min({waited[p] + 1, MaxWait}) ELSE 0
    BY <1>3 DEF Decide
  <2>2. CASE p # Selected /\ p \in Ready
    <3>1. MaxWait \in Nat /\ waited[p] + 1 \in Nat
      BY <1>2, Bounds
    <3>2. waited'[p] <= waited[p] + 1
      BY <2>1, <2>2, <3>1, OfTwo
    <3>3. /\ \A q \in Projects \ {p} : Used(p)[q] <= Used(p)'[q]
          /\ \E q \in Projects \ {p} : Used(p)[q] < Used(p)'[q]
      BY <1>3, <2>2, TurnIsTaken
    <3>4. QED BY <3>2, <3>3, WaitKept
  <2>3. CASE ~(p # Selected /\ p \in Ready)
    BY <2>1, <2>3, WaitKept
  <2>4. QED BY <2>2, <2>3
<1>4. CASE ~(Decide /\ eligible[Selected] > 0)
  <2>1. /\ UNCHANGED <<deficit, cursor>>
        /\ \/ waited' = waited
           \/ waited' = [q \in Projects |->
                            IF eligible[q] > 0 /\ q \in Eligible \ Beyond THEN waited[q] ELSE 0]
    BY <1>4 DEF Next, Leader, BeginPass, SelectFails, ComposeFails, DecideEmergency, Decide, EndPass,
                SubmitJob, SubmitEmergency, Withdraw, SetWeight, ChangePolicy, fairness
  <2>2. waited'[p] = 0 \/ waited'[p] = waited[p]
    BY <2>1
  <2>3. ASSUME NEW q \in Projects
        PROVE  Used(p)[q] <= Used(p)'[q]
    <3>1. /\ heaviest[q] \in Nat /\ heaviest'[q] \in Nat /\ deficit[q] \in Nat
          /\ deficit[q] <= heaviest[q] /\ heaviest[q] <= heaviest'[q]
      BY <1>1, Bounds DEF TypeOK, Weights
    <3>2. QED BY <2>1, <3>1 DEF Used, Ahead, Distance
  <2>4. waited'[p] <= waited[p] \/ waited'[p] = 0
    BY <1>2, <2>2
  <2>5. QED BY <2>3, <2>4, WaitKept
<1>5. QED BY <1>3, <1>4

LEMMA SchedulerInvariant ==
  ASSUME SchedulerAssumption
  PROVE  Spec => []SchedulerInv
<1>1. Init => SchedulerInv
  BY SchedulerInitially
<1>2. SchedulerInv /\ [Next]_vars => SchedulerInv'
  <2> SUFFICES ASSUME SchedulerInv, [Next]_vars
               PROVE  SchedulerInv'
    OBVIOUS
  <2>1. CASE Next
    <3>1. TypeOK' /\ Weights'
      BY <2>1, DecidingKeepsTypes, PassKeepsTypes, OthersKeepTypes DEF Next, Leader
    <3>2. \A q \in Projects : heaviest[q] <= heaviest'[q]
      <4>1. CASE heaviest' = heaviest
        <5>1. \A q \in Projects : heaviest[q] \in Nat
          BY Bounds DEF SchedulerInv, TypeOK
        <5>2. QED BY <4>1, <5>1
      <4>2. CASE \E p \in Projects : SubmitJob(p) \/ SubmitEmergency(p) \/ Withdraw(p)
                                        \/ SetWeight(p) \/ ChangePolicy(p)
        BY <4>2, OthersKeepTypes
      <4>3. QED
        BY <2>1, <4>1, <4>2 DEF Next, Leader, BeginPass, SelectFails, ComposeFails, DecideEmergency,
                                Decide, EndPass, bounds
    <3>3. WaitInv'
      BY <2>1, <3>1, <3>2, WaitsKept
    <3>4. QED BY <3>1, <3>3 DEF SchedulerInv
  <2>2. CASE UNCHANGED vars
    <3>1. TypeOK' /\ Weights'
      BY <2>2 DEF SchedulerInv, vars, TypeOK, Weights
    <3>2. \A p \in Projects : Used(p)' = Used(p)
      BY <2>2, SameTurns DEF vars
    <3>3. WaitInv'
      BY <2>2, <3>2 DEF SchedulerInv, vars, WaitInv
    <3>4. QED BY <3>1, <3>3 DEF SchedulerInv
  <2>3. QED BY <2>1, <2>2
<1>3. QED BY <1>1, <1>2, PTL DEF Spec

(* Types of the fairness state, the pass and the weights (Select, schedule). *)
THEOREM SchedulerTypesCorrect ==
  ASSUME SchedulerAssumption
  PROVE  Spec => []TypeOK
<1>1. SchedulerInv => TypeOK
  BY DEF SchedulerInv
<1>2. QED BY <1>1, SchedulerInvariant, PTL

(* A listed project waits for no more decisions than the others have had    *)
(* weight, for any number of projects and any weights (scheduler.Select).   *)
THEOREM WaitsAreBounded ==
  ASSUME SchedulerAssumption
  PROVE  Spec => []WaitIsBounded
<1>1. SchedulerInv => WaitIsBounded
  <2> SUFFICES ASSUME SchedulerInv, NEW p \in Projects
               PROVE  waited[p] <= Sum(heaviest, Projects \ {p})
    BY DEF WaitIsBounded, Sum
  <2>1. TypeOK /\ Weights
    BY DEF SchedulerInv
  <2>2. /\ Used(p) \in [Projects -> Nat] /\ heaviest \in [Projects -> Nat]
        /\ \A q \in Projects : Used(p)[q] <= heaviest[q]
    BY <2>1, UsedType, Bounds DEF TypeOK
  <2>3. IsFiniteSet(Projects \ {p}) /\ Projects \ {p} \in SUBSET Projects
    BY Bounds, FS_Subset
  <2>4. /\ Sum(Used(p), Projects \ {p}) \in Nat /\ Sum(heaviest, Projects \ {p}) \in Nat
        /\ Sum(Used(p), Projects \ {p}) <= Sum(heaviest, Projects \ {p})
    BY <2>2, <2>3, SumsAreMonotone
  <2>5. waited[p] \in Nat /\ waited[p] <= Sum(Used(p), Projects \ {p})
    BY <2>1, Bounds DEF TypeOK, SchedulerInv, WaitInv
  <2>6. QED BY <2>4, <2>5
<1>2. QED BY <1>1, SchedulerInvariant, PTL

--------------------------------------------------------------------------------
(* The queue *)

AheadIn(f, i, j) ==
  \/ f[i].priority > f[j].priority
  \/ /\ f[i].priority = f[j].priority
     /\ f[i].position < f[j].position \/ (f[i].position = f[j].position /\ i < j)

PrecedesIn(f) == {p \in (DOMAIN f) \X (DOMAIN f) : AheadIn(f, p[1], p[2])}

RowsInOrder(f, S) ==
  [n \in 1..Cardinality(S) |->
     CHOOSE j \in S : Cardinality({i \in S : AheadIn(f, i, j)}) + 1 = n]

LEMMA RowHas ==
  ASSUME QueueAssumption, NEW f \in Seq(Row), NEW j \in DOMAIN f
  PROVE  /\ j \in Nat /\ j # 0 /\ f[j] \in Row
         /\ f[j].priority \in Nat /\ f[j].position \in Nat /\ f[j].position # 0
<1>1. f[j] \in Row /\ j \in Nat /\ j # 0
  OBVIOUS
<1>2. MaxPriority \in Nat
  BY DEF QueueAssumption
<1>3. f[j].priority \in 0..MaxPriority /\ f[j].position \in Nat \ {0}
  BY <1>1 DEF Row
<1>4. QED BY <1>1, <1>2, <1>3

LEMMA RowsAreOrdered ==
  ASSUME QueueAssumption, NEW f \in Seq(Row), NEW S \in SUBSET DOMAIN f
  PROVE  /\ IsFiniteSet(S) /\ Ordered(S, PrecedesIn(f))
         /\ RowsInOrder(f, S) = InRank(S, PrecedesIn(f))
<1> DEFINE R == PrecedesIn(f)
<1>1. IsFiniteSet(S)
  <2>1. DOMAIN f = 1..Len(f) /\ Len(f) \in Nat
    OBVIOUS
  <2>2. QED BY <2>1, FirstNumbers, FS_Subset
<1>2. \A i, j \in S : <<i, j>> \in R <=> AheadIn(f, i, j)
  BY DEF PrecedesIn
<1>3. \A j \in S : j \in Nat /\ f[j].priority \in Nat /\ f[j].position \in Nat
  BY RowHas
<1>4. /\ \A i \in S : ~AheadIn(f, i, i)
      /\ \A i, j \in S : i # j => AheadIn(f, i, j) \/ AheadIn(f, j, i)
      /\ \A i, j, k \in S : AheadIn(f, i, j) /\ AheadIn(f, j, k) => AheadIn(f, i, k)
  <2>1. \A i \in S : ~AheadIn(f, i, i)
    BY <1>3 DEF AheadIn
  <2>2. \A i, j \in S : i # j => AheadIn(f, i, j) \/ AheadIn(f, j, i)
    BY <1>3 DEF AheadIn
  <2>3. ASSUME NEW i \in S, NEW j \in S, NEW k \in S, AheadIn(f, i, j), AheadIn(f, j, k)
        PROVE  AheadIn(f, i, k)
    <3>1. /\ i \in Nat /\ f[i].priority \in Nat /\ f[i].position \in Nat
          /\ j \in Nat /\ f[j].priority \in Nat /\ f[j].position \in Nat
          /\ k \in Nat /\ f[k].priority \in Nat /\ f[k].position \in Nat
      BY <1>3
    <3>2. CASE f[i].priority > f[j].priority \/ f[j].priority > f[k].priority
      <4>1. f[i].priority >= f[j].priority /\ f[j].priority >= f[k].priority
        BY SMTT(30), <2>3, <3>1 DEF AheadIn
      <4>2. f[i].priority > f[k].priority
        BY SMTT(30), <3>1, <3>2, <4>1
      <4>3. QED BY <4>2 DEF AheadIn
    <3>3. CASE f[i].priority = f[j].priority /\ f[j].priority = f[k].priority
      <4>1. /\ f[i].position < f[j].position \/ (f[i].position = f[j].position /\ i < j)
            /\ f[j].position < f[k].position \/ (f[j].position = f[k].position /\ j < k)
        BY <2>3, <3>1, <3>3 DEF AheadIn
      <4>2. f[i].position < f[k].position \/ (f[i].position = f[k].position /\ i < k)
        BY SMTT(30), <3>1, <4>1
      <4>3. QED BY <3>3, <4>2 DEF AheadIn
    <3>4. QED BY <2>3, <3>1, <3>2, <3>3 DEF AheadIn
  <2>4. QED BY <2>1, <2>2, <2>3
<1>5. Ordered(S, R)
  <2> HIDE DEF R
  <2> QED BY <1>2, <1>4 DEF Ordered
<1> HIDE DEF R
<1>6. \A j \in S : {i \in S : AheadIn(f, i, j)} = Lower(S, R, j)
  BY <1>2 DEF Lower
<1>7. Cardinality(S) \in Nat /\ InRank(S, R) \in [1..Cardinality(S) -> S]
  BY <1>1, <1>5, RankOf
<1>8. \A n \in 1..Cardinality(S) : RowsInOrder(f, S)[n] = InRank(S, R)[n]
  <2> TAKE n \in 1..Cardinality(S)
  <2> DEFINE P(j) == Cardinality({i \in S : AheadIn(f, i, j)}) + 1 = n
  <2>1. \E j \in S : Cardinality(Lower(S, R, j)) + 1 = n
    BY <1>1, <1>5, RanksAreFilled
  <2>2. \E j \in S : P(j)
    BY <1>6, <2>1
  <2>3. RowsInOrder(f, S)[n] = CHOOSE j \in S : P(j)
    BY DEF RowsInOrder
  <2> DEFINE k == RowsInOrder(f, S)[n]
  <2>4. k \in S /\ P(k)
    <3> HIDE DEF P
    <3> QED BY <2>2, <2>3
  <2> HIDE DEF k
  <2>5. Cardinality(Lower(S, R, k)) + 1 = n
    BY <1>6, <2>4
  <2>6. QED BY <1>1, <1>5, <2>4, <2>5, RankOf DEF k
<1>9. RowsInOrder(f, S) = InRank(S, R)
  BY <1>7, <1>8 DEF RowsInOrder
<1>10. QED BY <1>1, <1>5, <1>9 DEF R

LEMMA OrderIs ==
  /\ \A S : InQueueOrder(S) = RowsInOrder(jobs, S) /\ InQueueOrder(S)' = RowsInOrder(jobs', S)
  /\ \A p : Order(p) = RowsInOrder(jobs, Member(p)) /\ Order(p)' = RowsInOrder(jobs', Member(p)')
BY DEF Order, InQueueOrder, RankIn, Precedes, RowsInOrder, AheadIn

(* Who precedes whom is a matter of priorities, positions and numbers.     *)
LEMMA SameOrder ==
  ASSUME QueueAssumption, NEW f \in Seq(Row), NEW g \in Seq(Row),
         NEW S \in SUBSET DOMAIN f, S \subseteq DOMAIN g,
         \A j \in S : g[j].priority = f[j].priority /\ g[j].position = f[j].position
  PROVE  RowsInOrder(g, S) = RowsInOrder(f, S)
<1>1. /\ IsFiniteSet(S) /\ Ordered(S, PrecedesIn(f)) /\ Ordered(S, PrecedesIn(g))
      /\ RowsInOrder(f, S) = InRank(S, PrecedesIn(f))
      /\ RowsInOrder(g, S) = InRank(S, PrecedesIn(g))
  BY RowsAreOrdered
<1>2. \A i, j \in S : <<i, j>> \in PrecedesIn(f) <=> <<i, j>> \in PrecedesIn(g)
  BY DEF PrecedesIn, AheadIn
<1> DEFINE R == PrecedesIn(f)
           Q == PrecedesIn(g)
<1> HIDE DEF R, Q
<1>3. \A j \in S : Lower(S, R, j) = Lower(S, Q, j)
  BY <1>2 DEF Lower, R, Q
<1>4. /\ Cardinality(S) \in Nat
      /\ InRank(S, R) \in [1..Cardinality(S) -> S] /\ InRank(S, Q) \in [1..Cardinality(S) -> S]
  BY <1>1, RankOf DEF R, Q
<1>5. \A n \in 1..Cardinality(S) : InRank(S, R)[n] = InRank(S, Q)[n]
  <2> TAKE n \in 1..Cardinality(S)
  <2>1. InRank(S, Q)[n] \in S
    BY <1>4
  <2>2. Ordered(S, Q) /\ Ordered(S, R)
    BY <1>1 DEF Q, R
  <2>3. Cardinality(Lower(S, Q, InRank(S, Q)[n])) + 1 = n
    BY <1>1, <2>2, RankOf
  <2>4. Cardinality(Lower(S, R, InRank(S, Q)[n])) + 1 = n
    BY <1>3, <2>1, <2>3
  <2>5. QED BY <1>1, <2>1, <2>4, <2>2, RankOf
<1>6. InRank(S, R) = InRank(S, Q)
  BY <1>4, <1>5
<1>7. QED BY <1>1, <1>6 DEF R, Q

LEMMA MembersAre ==
  ASSUME QueueAssumption, jobs \in Seq(Row), NEW p
  PROVE  /\ Member(p) \in SUBSET DOMAIN jobs /\ IsFiniteSet(Member(p))
         /\ Cardinality(Member(p)) \in Nat
         /\ Order(p) \in [1..Cardinality(Member(p)) -> Member(p)]
         /\ Order(p) \in Seq(DOMAIN jobs) /\ Len(Order(p)) = Cardinality(Member(p))
         /\ ToSet(Order(p)) = Member(p)
<1> DEFINE M == Member(p)
           s == Order(p)
<1>1. M \in SUBSET DOMAIN jobs
  BY DEF Member
<1> HIDE DEF M
<1>2. IsFiniteSet(M) /\ Ordered(M, PrecedesIn(jobs)) /\ s = InRank(M, PrecedesIn(jobs))
  BY <1>1, RowsAreOrdered, OrderIs DEF M
<1> HIDE DEF s
<1>3. Cardinality(M) \in Nat /\ s \in [1..Cardinality(M) -> M]
  BY <1>2, RankOf
<1>4. s \in Seq(M) /\ Len(s) = Cardinality(M) /\ \A x \in M : \E n \in 1..Len(s) : s[n] = x
  <2> DEFINE R == PrecedesIn(jobs)
  <2> HIDE DEF R
  <2>1. IsFiniteSet(M) /\ Ordered(M, R) /\ s = InRank(M, R)
    BY <1>2 DEF R
  <2>2. /\ InRank(M, R) \in Seq(M) /\ Len(InRank(M, R)) = Cardinality(M)
        /\ \A x \in M : \E n \in 1..Len(InRank(M, R)) : InRank(M, R)[n] = x
    BY ONLY <2>1, InRankIsInOrder
  <2>3. QED BY <2>1, <2>2
<1>5. s \in Seq(DOMAIN jobs)
  BY <1>1, <1>3
<1>6. ToSet(s) = M
  BY <1>3, <1>4 DEF ToSet
<1>7. QED BY <1>1, <1>2, <1>3, <1>4, <1>5, <1>6 DEF M, s

(* The inductive invariant.  A request knows what it is for; who saw the    *)
(* queue saw Jobs that there are, and, while the queue has the version that *)
(* it had, their order.                                                     *)
Inputs == [key : Key \cup {Unnamed}, parent : 0..MaxJobs, project : JobProject,
           priority : 0..MaxPriority]

Creating == {"looking", "inserting", "failed", "reserving"}

QueueRequests ==
  [at : {"idle"}]
    \cup [at : Creating, input : Inputs]
    \cup [at : {"queue"}, project : JobProject \cup {Unnamed}, order : Seq(Nat),
          version : 0..MaxChanges]
    \cup [at : {"command"}, job : 1..MaxJobs, desired : {"QUEUED", "PAUSED", "CANCELLED"},
          changes : BOOLEAN]
    \cup [at : {"observed"}, job : 1..MaxJobs, observed : {"CREATED", "FAILED"},
          changes : BOOLEAN]

Saw(q, rows, version) ==
  /\ q.version <= version /\ ToSet(q.order) \subseteq DOMAIN rows
  /\ q.version = version => q.order = RowsInOrder(rows, ToSet(q.order))

Knows(q, rows, version) ==
  /\ q \in QueueRequests
  /\ q.at \in Creating => (q.input.parent = 0 <=> q.input.key \in Key)
  /\ q.at \in {"command", "observed"} => q.job \in DOMAIN rows
  /\ q.at = "queue" => Saw(q, rows, version)

OneRowEach(rows) ==
  \A i, j \in DOMAIN rows :
    i # j => /\ rows[i].key = Unnamed \/ rows[i].key # rows[j].key
             /\ rows[i].parent = 0 \/ rows[i].parent # rows[j].parent

Names(a, rows) ==
  \E id \in Key \cup (1..MaxJobs), j \in DOMAIN rows :
    /\ a = <<id, j>>
    /\ id \in Key => rows[j].key = id
    /\ id \notin Key => rows[j].parent = id

QueueTypes == QueueTypeOK /\ actor \in [Actor -> QueueRequests]

QueueInv ==
  /\ QueueTypes /\ OneRowEach(jobs)
  /\ \A c \in Actor : Knows(actor[c], jobs, queueVersion)
  /\ \A a \in answered : Names(a, jobs)

(* What every step does with the rows.                                     *)
RowsGo ==
  /\ jobs' \in Seq(Row) /\ Len(jobs') <= MaxJobs /\ OneRowEach(jobs')
  /\ DOMAIN jobs \subseteq DOMAIN jobs'
  /\ \A j \in DOMAIN jobs : jobs'[j].key = jobs[j].key /\ jobs'[j].parent = jobs[j].parent

VersionGoes ==
  /\ queueVersion' \in 0..MaxChanges /\ queueVersion <= queueVersion'
  /\ queueVersion' = queueVersion =>
       \A j \in DOMAIN jobs : /\ jobs'[j].priority = jobs[j].priority
                              /\ jobs'[j].position = jobs[j].position

LEMMA KnowsStill ==
  ASSUME QueueAssumption, QueueTypeOK, RowsGo, VersionGoes,
         NEW q, Knows(q, jobs, queueVersion)
  PROVE  Knows(q, jobs', queueVersion')
<1>1. jobs \in Seq(Row) /\ jobs' \in Seq(Row) /\ DOMAIN jobs \subseteq DOMAIN jobs'
  BY DEF QueueTypeOK, RowsGo
<1>2. ASSUME q.at = "queue" PROVE Saw(q, jobs', queueVersion')
  <2>1. q.version \in 0..MaxChanges
    BY <1>2 DEF Knows, QueueRequests, Creating
  <2>2. q.version <= queueVersion /\ ToSet(q.order) \in SUBSET DOMAIN jobs
    BY <1>2 DEF Knows, Saw
  <2>3. /\ MaxChanges \in Nat /\ queueVersion \in 0..MaxChanges
        /\ queueVersion' \in 0..MaxChanges /\ queueVersion <= queueVersion'
    BY DEF QueueAssumption, QueueTypeOK, VersionGoes
  <2>4. q.version <= queueVersion'
    BY <2>1, <2>2, <2>3
  <2>5. ToSet(q.order) \subseteq DOMAIN jobs'
    BY <1>1, <2>2
  <2>6. ASSUME q.version = queueVersion' PROVE q.order = RowsInOrder(jobs', ToSet(q.order))
    <3>1. queueVersion' = queueVersion
      BY <2>2, <2>3, <2>6, <2>1
    <3>2. \A j \in ToSet(q.order) : /\ jobs'[j].priority = jobs[j].priority
                                    /\ jobs'[j].position = jobs[j].position
      BY <2>2, <3>1 DEF VersionGoes
    <3>3. RowsInOrder(jobs', ToSet(q.order)) = RowsInOrder(jobs, ToSet(q.order))
      BY <1>1, <2>2, <2>5, <3>2, SameOrder
    <3>4. QED BY <1>2, <2>6, <3>1, <3>3 DEF Knows, Saw
  <2>7. QED BY <2>4, <2>5, <2>6 DEF Saw
<1>3. QED BY <1>1, <1>2 DEF Knows

LEMMA NamesStill ==
  ASSUME RowsGo, NEW a, Names(a, jobs)
  PROVE  Names(a, jobs')
BY DEF RowsGo, Names

(* A row is written under its number: who it is for stays.                 *)
LEMMA RowWritten ==
  ASSUME QueueTypeOK, OneRowEach(jobs), NEW j \in DOMAIN jobs, NEW row \in Row, Write(j, row),
         row.key = jobs[j].key, row.parent = jobs[j].parent
  PROVE  /\ RowsGo
         /\ row.priority = jobs[j].priority /\ row.position = jobs[j].position =>
              \A i \in DOMAIN jobs : /\ jobs'[i].priority = jobs[i].priority
                                     /\ jobs'[i].position = jobs[i].position
<1>1. jobs \in Seq(Row) /\ Len(jobs) <= MaxJobs /\ jobs' = [jobs EXCEPT ![j] = row]
  BY DEF QueueTypeOK, Write
<1>2. /\ jobs' \in Seq(Row) /\ Len(jobs') = Len(jobs) /\ DOMAIN jobs' = DOMAIN jobs
      /\ \A i \in DOMAIN jobs : jobs'[i] = IF i = j THEN row ELSE jobs[i]
  BY <1>1
<1>3. \A i \in DOMAIN jobs : jobs'[i].key = jobs[i].key /\ jobs'[i].parent = jobs[i].parent
  BY <1>2
<1>4. OneRowEach(jobs')
  BY <1>2, <1>3 DEF OneRowEach
<1>5. RowsGo
  BY <1>1, <1>2, <1>3, <1>4 DEF RowsGo
<1>6. QED BY <1>2, <1>5

(* A new row is of the requested key and parent, and the only one.         *)
LEMMA RowInserted ==
  ASSUME QueueAssumption, QueueTypeOK, OneRowEach(jobs), NEW input \in Inputs, Insert(input)
  PROVE  /\ RowsGo /\ VersionGoes
         /\ Len(jobs') \in DOMAIN jobs'
         /\ jobs'[Len(jobs')].key = input.key /\ jobs'[Len(jobs')].parent = input.parent
<1> DEFINE S == {jobs[j].position : j \in DOMAIN jobs}
           row == newJobIntent(input)
<1>1. jobs \in Seq(Row) /\ Len(jobs) \in Nat /\ MaxJobs \in Nat /\ Len(jobs) < MaxJobs
  BY DEF QueueTypeOK, Insert, QueueAssumption
<1>2. S \in SUBSET Nat
  BY <1>1, RowHas
<1>3. IsFiniteSet(S)
  <2> DEFINE f == [j \in DOMAIN jobs |-> jobs[j].position]
  <2>1. f \in [DOMAIN jobs -> S] /\ \A s \in S : \E j \in DOMAIN jobs : f[j] = s
    OBVIOUS
  <2> HIDE DEF f, S
  <2>2. f \in Surjection(DOMAIN jobs, S)
    BY <2>1 DEF Surjection
  <2>3. IsFiniteSet(DOMAIN jobs)
    <3>1. DOMAIN jobs = 1..Len(jobs)
      BY <1>1
    <3>2. QED BY <1>1, <3>1, FirstNumbers
  <2>4. QED BY <2>2, <2>3, FS_Surjection
<1>4. Max(S \cup {0}) \in Nat
  <2> DEFINE T == S \cup {0}
  <2> HIDE DEF S
  <2>1. IsFiniteSet(T) /\ T \in SUBSET Nat /\ T # {}
    BY <1>2, <1>3, FS_AddElement
  <2> HIDE DEF T
  <2>2. \E x \in T : \A y \in T : x >= y
    BY <2>1, HighestNumber
  <2>3. Max(T) \in T
    BY <2>2 DEF Max
  <2>4. QED BY <2>1, <2>3 DEF T
<1>5. row \in Row /\ row.key = input.key /\ row.parent = input.parent
  <2>1. policy \in BOOLEAN
    BY DEF QueueTypeOK
  <2>2. Max(S \cup {0}) + 1 \in Nat \ {0}
    BY <1>4
  <2>3. row = [project |-> input.project, key |-> input.key, parent |-> input.parent,
               priority |-> input.priority, reserved |-> policy,
               position |-> Max(S \cup {0}) + 1,
               desired |-> "QUEUED", observed |-> "CREATED", sync |-> "PENDING"]
    BY DEF newJobIntent
  <2> HIDE DEF row, S
  <2>4. QED BY <2>1, <2>2, <2>3 DEF Row, Inputs
<1>6. /\ WithKey(input.key) = {}
      /\ input.parent = 0 \/ \A j \in DOMAIN jobs : jobs[j].parent # input.parent
      /\ jobs' = Append(jobs, row)
      /\ queueVersion < MaxChanges /\ queueVersion' = queueVersion + 1
  BY DEF Insert, Unique, Bump
<1> HIDE DEF S, row
<1>7. /\ jobs' \in Seq(Row) /\ Len(jobs') = Len(jobs) + 1 /\ DOMAIN jobs' = 1..(Len(jobs) + 1)
      /\ DOMAIN jobs = 1..Len(jobs) /\ jobs'[Len(jobs) + 1] = row
      /\ \A j \in DOMAIN jobs : jobs'[j] = jobs[j]
  BY <1>1, <1>5, <1>6
<1>8. /\ DOMAIN jobs \subseteq DOMAIN jobs' /\ Len(jobs') <= MaxJobs /\ Len(jobs') \in DOMAIN jobs'
      /\ \A j \in DOMAIN jobs' : j \in DOMAIN jobs \/ jobs'[j] = row
      /\ \A i, j \in DOMAIN jobs' : i # j => i \in DOMAIN jobs \/ j \in DOMAIN jobs
  BY <1>1, <1>7
<1>9. OneRowEach(jobs')
  <2>1. \A j \in DOMAIN jobs : /\ input.key = Unnamed \/ jobs[j].key # input.key
                               /\ input.parent = 0 \/ jobs[j].parent # input.parent
    BY <1>6 DEF WithKey
  <2>2. QED BY <1>5, <1>7, <1>8, <2>1 DEF OneRowEach
<1>10. RowsGo
  BY <1>7, <1>8, <1>9 DEF RowsGo
<1>11. VersionGoes
  <2>1. queueVersion \in 0..MaxChanges /\ MaxChanges \in Nat
    BY DEF QueueTypeOK, QueueAssumption
  <2>2. QED BY <1>6, <2>1 DEF VersionGoes
<1>12. QED BY <1>5, <1>7, <1>8, <1>10, <1>11

(* What an accepted order is: the members, each once.                      *)
LEMMA AcceptableIs ==
  ASSUME QueueAssumption, jobs \in Seq(Row), NEW p, NEW S \in SUBSET DOMAIN jobs,
         NEW ids \in SetToSeqs(S), Acceptable(ids, p)
  PROVE  LET N == Cardinality(Member(p))
         IN  /\ S = Member(p) /\ N \in Nat /\ ids \in [1..N -> Member(p)] /\ DOMAIN ids = 1..N
             /\ \A m, n \in 1..N : ids[m] = ids[n] => m = n
             /\ \A j \in Member(p) : \E n \in 1..N : ids[n] = j
             /\ \A n \in 1..N - 1 : jobs[ids[n]].priority >= jobs[ids[n + 1]].priority
<1> DEFINE N == Cardinality(Member(p))
           D == 1..Cardinality(S)
<1>1. /\ ids \in [D -> S] /\ \A i, j \in D : i # j => ids[i] # ids[j]
  BY DEF SetToSeqs
<1>2. IsFiniteSet(S) /\ Cardinality(S) \in Nat
  BY RowsAreOrdered, FS_CardinalityType
<1>3. IsFiniteSet(D) /\ Cardinality(D) = Cardinality(S)
  BY <1>2, FirstNumbers
<1>4. ids \in Injection(D, S)
  <2> HIDE DEF D
  <2> QED BY <1>1 DEF Injection, IsInjective
<1>5. ids \in Surjection(D, S)
  <2> HIDE DEF D
  <2> QED BY <1>2, <1>3, <1>4, FS_Injection
<1>6. \A j \in S : \E n \in D : ids[n] = j
  <2> HIDE DEF D
  <2> QED BY <1>5 DEF Surjection
<1>7. DOMAIN ids = D /\ ToSet(ids) = S
  <2> HIDE DEF D
  <2> QED BY <1>1, <1>6 DEF ToSet
<1>8. ToSet(ids) = Member(p)
  BY DEF Acceptable
<1>9. S = Member(p) /\ D = 1..N
  BY <1>7, <1>8
<1>10. ids \in Seq(S) /\ Len(ids) = N
  BY SMTT(30), <1>1, <1>2, <1>9
<1>11. \A n \in 1..N - 1 : jobs[ids[n]].priority >= jobs[ids[n + 1]].priority
  BY <1>10 DEF Acceptable
<1>12. QED
  <2> HIDE DEF D
  <2> QED BY <1>1, <1>2, <1>6, <1>7, <1>9, <1>11

LEMMA OfLength ==
  ASSUME NEW n \in Nat, NEW S, NEW g \in [1..n -> S]
  PROVE  g \in Seq(S) /\ Len(g) = n
OBVIOUS

(* Positions are given to the Jobs that are named, and nothing else is     *)
(* written.                                                                *)
Placed(f, N, ids, pos) ==
  /\ f \in Seq(Row) /\ Len(f) = Len(jobs) /\ DOMAIN f = DOMAIN jobs
  /\ \A n \in 1..N : f[ids[n]] = [jobs[ids[n]] EXCEPT !.position = pos[n]]
  /\ \A j \in DOMAIN jobs : (\A n \in 1..N : ids[n] # j) => f[j] = jobs[j]

OneEach(ids, N) == \A m, n \in 1..N : ids[m] = ids[n] => m = n

LEMMA PlaceIs ==
  ASSUME QueueAssumption, jobs \in Seq(Row), NEW N \in Nat, NEW ids \in [1..N -> DOMAIN jobs],
         OneEach(ids, N), NEW pos \in [1..N -> Nat \ {0}]
  PROVE  Placed(Place(ids, pos), N, ids, pos)
<1> DEFINE f == Place(ids, pos)
           new(j) == [jobs[j] EXCEPT !.position = pos[CHOOSE n \in 1..N : ids[n] = j]]
<1>1. DOMAIN ids = 1..N /\ \A j : j \in ToSet(ids) <=> \E n \in 1..N : ids[n] = j
  BY DEF ToSet
<1>2. f = [j \in DOMAIN jobs |-> IF j \notin ToSet(ids) THEN jobs[j] ELSE new(j)]
  BY <1>1 DEF Place
<1>3. ASSUME NEW n \in 1..N PROVE f[ids[n]] = [jobs[ids[n]] EXCEPT !.position = pos[n]]
  <2>1. ids[n] \in ToSet(ids) /\ ids[n] \in DOMAIN jobs
    BY <1>1
  <2>2. (CHOOSE m \in 1..N : ids[m] = ids[n]) = n
    <3>1. \E m \in 1..N : ids[m] = ids[n]
      OBVIOUS
    <3>2. QED BY <3>1 DEF OneEach
  <2>3. QED BY <1>2, <2>1, <2>2
<1>4. \A j \in DOMAIN jobs : (\A n \in 1..N : ids[n] # j) => f[j] = jobs[j]
  BY <1>1, <1>2
<1>5. DOMAIN f = DOMAIN jobs
  BY <1>2
<1> HIDE DEF f
<1>6. \A j \in DOMAIN jobs : f[j] \in Row
  <2> TAKE j \in DOMAIN jobs
  <2>1. jobs[j] \in Row
    OBVIOUS
  <2>2. CASE \E n \in 1..N : ids[n] = j
    <3>1. PICK n \in 1..N : ids[n] = j
      BY <2>2
    <3>2. f[j] = [jobs[j] EXCEPT !.position = pos[n]] /\ pos[n] \in Nat \ {0}
      BY <1>3, <3>1
    <3>3. QED BY <2>1, <3>2 DEF Row
  <2>3. CASE ~\E n \in 1..N : ids[n] = j
    BY <1>4, <2>1, <2>3
  <2>4. QED BY <2>2, <2>3
<1>7. f = [j \in DOMAIN jobs |-> f[j]]
  BY <1>2 DEF f
<1>8. DOMAIN jobs = 1..Len(jobs) /\ Len(jobs) \in Nat
  OBVIOUS
<1>9. f \in [1..Len(jobs) -> Row]
  BY <1>6, <1>7, <1>8
<1>10. f \in Seq(Row) /\ Len(f) = Len(jobs)
  BY <1>8, <1>9, OfLength
<1>11. QED BY <1>3, <1>4, <1>5, <1>10 DEF f, Placed

LEMMA PositionsAre ==
  ASSUME QueueAssumption, jobs \in Seq(Row), NEW p
  PROVE  LET N == Cardinality(Member(p))
         IN  /\ Positions(p) \in [1..N -> Nat \ {0}]
             /\ \A n \in 1..N :
                  Positions(p)[n] = IF p = Unnamed THEN n ELSE jobs[Order(p)[n]].position
<1> DEFINE N == Cardinality(Member(p))
<1>1. N \in Nat /\ Order(p) \in [1..N -> Member(p)] /\ Len(Order(p)) = N
      /\ Member(p) \subseteq DOMAIN jobs
  BY MembersAre
<1>2. Positions(p) =
        [n \in 1..N |-> IF p = Unnamed THEN n ELSE jobs[Order(p)[n]].position]
  BY <1>1 DEF Positions
<1>3. \A n \in 1..N : jobs[Order(p)[n]].position \in Nat \ {0}
  BY <1>1, RowHas
<1> HIDE DEF N
<1>4. \A n \in 1..N : n \in Nat \ {0}
  BY <1>1
<1>5. QED BY <1>2, <1>3, <1>4 DEF N

LEMMA RowsPlaced ==
  ASSUME QueueAssumption, QueueTypeOK, OneRowEach(jobs), NEW p, NEW S \in SUBSET DOMAIN jobs,
         NEW ids \in SetToSeqs(S), Acceptable(ids, p), jobs' = Place(ids, Positions(p)), Bump
  PROVE  RowsGo /\ VersionGoes
<1> DEFINE N == Cardinality(Member(p))
           pos == Positions(p)
<1>1. jobs \in Seq(Row) /\ Len(jobs) <= MaxJobs
  BY DEF QueueTypeOK
<1>2. /\ N \in Nat /\ ids \in [1..N -> Member(p)] /\ \A m, n \in 1..N : ids[m] = ids[n] => m = n
  BY <1>1, AcceptableIs
<1>3. ids \in [1..N -> DOMAIN jobs]
  BY <1>2 DEF Member
<1>4. pos \in [1..N -> Nat \ {0}]
  BY <1>1, PositionsAre
<1> HIDE DEF N, pos
<1>5. /\ jobs' \in Seq(Row) /\ Len(jobs') = Len(jobs) /\ DOMAIN jobs' = DOMAIN jobs
      /\ \A n \in 1..N : jobs'[ids[n]] = [jobs[ids[n]] EXCEPT !.position = pos[n]]
      /\ \A j \in DOMAIN jobs : (\A n \in 1..N : ids[n] # j) => jobs'[j] = jobs[j]
  <2>1. Placed(Place(ids, pos), N, ids, pos)
    BY <1>1, <1>2, <1>3, <1>4, PlaceIs DEF OneEach
  <2>2. jobs' = Place(ids, pos)
    BY DEF pos
  <2>3. QED BY <2>1, <2>2 DEF Placed
<1>6. \A j \in DOMAIN jobs : jobs'[j].key = jobs[j].key /\ jobs'[j].parent = jobs[j].parent
  <2> TAKE j \in DOMAIN jobs
  <2>1. jobs[j] \in Row
    BY <1>1
  <2>2. CASE \E n \in 1..N : ids[n] = j
    <3>1. PICK n \in 1..N : ids[n] = j
      BY <2>2
    <3>2. jobs'[j] = [jobs[j] EXCEPT !.position = pos[n]]
      BY <1>5, <3>1
    <3>3. QED BY <2>1, <3>2 DEF Row
  <2>3. QED BY <1>5, <2>2
<1>7. OneRowEach(jobs')
  BY <1>5, <1>6 DEF OneRowEach
<1>8. RowsGo
  BY <1>1, <1>5, <1>6, <1>7 DEF RowsGo
<1>9. VersionGoes
  BY DEF Bump, VersionGoes, QueueTypeOK, QueueAssumption
<1>10. QED BY <1>8, <1>9

LEMMA WhatIsKnown ==
  ASSUME QueueAssumption, QueueInv, NEW c \in Actor
  PROVE  /\ actor[c].at \in Creating =>
              /\ actor[c].input \in Inputs
              /\ actor[c].input.parent = 0 <=> actor[c].input.key \in Key
              /\ actor[c] = [at |-> actor[c].at, input |-> actor[c].input]
         /\ actor[c].at = "command" =>
              /\ actor[c].job \in DOMAIN jobs
              /\ actor[c].desired \in {"QUEUED", "PAUSED", "CANCELLED"}
              /\ actor[c].changes \in BOOLEAN
         /\ actor[c].at = "observed" =>
              /\ actor[c].job \in DOMAIN jobs
              /\ actor[c].observed \in {"CREATED", "FAILED"}
              /\ actor[c].changes \in BOOLEAN
         /\ actor[c].at = "queue" =>
              /\ actor[c].project \in JobProject \cup {Unnamed}
              /\ ToSet(actor[c].order) \in SUBSET DOMAIN jobs
              /\ actor[c].version = queueVersion =>
                   actor[c].order = InQueueOrder(ToSet(actor[c].order))
<1>1. Knows(actor[c], jobs, queueVersion) /\ actor[c] \in QueueRequests
  BY DEF QueueInv, QueueTypes
<1> DEFINE q == actor[c]
<1> HIDE DEF q
<1>2. Knows(q, jobs, queueVersion) /\ q \in QueueRequests
  BY <1>1 DEF q
<1>3. q.at \in Creating => /\ q.input \in Inputs /\ (q.input.parent = 0 <=> q.input.key \in Key)
                           /\ q = [at |-> q.at, input |-> q.input]
  BY <1>2 DEF QueueRequests, Creating, Knows
<1>4. q.at = "command" => /\ q.job \in DOMAIN jobs /\ q.changes \in BOOLEAN
                          /\ q.desired \in {"QUEUED", "PAUSED", "CANCELLED"}
  BY <1>2 DEF QueueRequests, Creating, Knows
<1>5. q.at = "observed" => /\ q.job \in DOMAIN jobs /\ q.changes \in BOOLEAN
                           /\ q.observed \in {"CREATED", "FAILED"}
  BY <1>2 DEF QueueRequests, Creating, Knows
<1>6. q.at = "queue" => /\ q.project \in JobProject \cup {Unnamed}
                        /\ ToSet(q.order) \in SUBSET DOMAIN jobs
                        /\ q.version = queueVersion => q.order = InQueueOrder(ToSet(q.order))
  BY <1>2, OrderIs DEF QueueRequests, Creating, Knows, Saw
<1>7. QED BY <1>3, <1>4, <1>5, <1>6 DEF q

LEMMA RowsAsTheyWere ==
  ASSUME QueueAssumption, QueueInv, UNCHANGED <<jobs, queueVersion>>
  PROVE  RowsGo /\ VersionGoes
BY DEF QueueAssumption, QueueInv, QueueTypes, QueueTypeOK, RowsGo, VersionGoes

LEMMA Bumped ==
  ASSUME QueueAssumption, QueueInv, Bump
  PROVE  VersionGoes
BY DEF QueueAssumption, QueueInv, QueueTypes, QueueTypeOK, VersionGoes, Bump

(* The place in the order stays also.                                      *)
LEMMA Rewritten ==
  ASSUME QueueAssumption, QueueInv, NEW j \in DOMAIN jobs, NEW row \in Row, Write(j, row),
         row.key = jobs[j].key, row.parent = jobs[j].parent,
         row.priority = jobs[j].priority, row.position = jobs[j].position,
         Bump \/ UNCHANGED queueVersion
  PROVE  RowsGo /\ VersionGoes
<1>1. QueueTypeOK /\ OneRowEach(jobs)
  BY DEF QueueInv, QueueTypes
<1>2. RowsGo /\ \A i \in DOMAIN jobs : /\ jobs'[i].priority = jobs[i].priority
                                       /\ jobs'[i].position = jobs[i].position
  BY <1>1, RowWritten
<1>3. UNCHANGED queueVersion => VersionGoes
  BY <1>1, <1>2 DEF QueueAssumption, QueueTypeOK, VersionGoes
<1>4. QED BY <1>2, <1>3, Bumped

LEMMA RowsStep ==
  ASSUME QueueAssumption, QueueInv, QueueNext
  PROVE  RowsGo /\ VersionGoes /\ policy' \in BOOLEAN
<1>1. jobs \in Seq(Row) /\ policy \in BOOLEAN /\ QueueTypeOK /\ OneRowEach(jobs)
  BY DEF QueueInv, QueueTypes, QueueTypeOK
<1>2. \A j \in DOMAIN jobs : jobs[j] \in Row
  BY <1>1
<1>3. policy' \in BOOLEAN
  BY <1>1 DEF QueueNext, Submit, LookUp, Create, CreateFails, LookUpAgain, CreateJobWithQuota,
          QueueInProjects, Leave, ReorderSeen, Reorder, Command, SetDesiredState, Observe,
          SetObserved, UpdateQueue, ConfigurePolicy, MarkMissing, RecordReconcileError
<1>4. ASSUME NEW c \in Actor,
             \/ Submit(c) \/ LookUp(c) \/ CreateFails(c) \/ LookUpAgain(c)
             \/ QueueInProjects(c) \/ Leave(c) \/ Command(c) \/ Observe(c)
      PROVE  RowsGo /\ VersionGoes
  <2>1. UNCHANGED <<jobs, queueVersion>>
    BY <1>4 DEF Submit, LookUp, CreateFails, LookUpAgain, QueueInProjects, Leave, Command, Observe
  <2>2. QED BY <2>1, RowsAsTheyWere
<1>5. ASSUME NEW c \in Actor, Create(c) \/ CreateJobWithQuota(c)
      PROVE  RowsGo /\ VersionGoes
  <2>1. actor[c].input \in Inputs
    BY <1>5, WhatIsKnown DEF Create, CreateJobWithQuota, Creating
  <2>2. Insert(actor[c].input) \/ UNCHANGED <<jobs, queueVersion>>
    BY <1>5 DEF Create, CreateJobWithQuota
  <2>3. QED BY <1>1, <2>1, <2>2, RowInserted, RowsAsTheyWere
<1>6. ASSUME NEW c \in Actor, ReorderSeen(c)
      PROVE  RowsGo /\ VersionGoes
  <2>1. ToSet(actor[c].order) \in SUBSET DOMAIN jobs
    BY <1>6, WhatIsKnown DEF ReorderSeen
  <2>2. PICK ids \in SetToSeqs(ToSet(actor[c].order)) : Reorder(c, ids)
    BY <1>6 DEF ReorderSeen
  <2>3. SUFFICES ASSUME NEW p, p = actor[c].project, NEW S, S = ToSet(actor[c].order)
                 PROVE  RowsGo /\ VersionGoes
    OBVIOUS
  <2>4. /\ S \in SUBSET DOMAIN jobs /\ ids \in SetToSeqs(S)
        /\ Acceptable(ids, p) /\ jobs' = Place(ids, Positions(p)) /\ Bump
    BY <2>1, <2>2, <2>3 DEF Reorder
  <2>5. QED BY <1>1, <2>4, RowsPlaced
<1>7. ASSUME UpdateQueue PROVE RowsGo /\ VersionGoes
  <2>1. PICK j \in DOMAIN jobs, priority \in 0..MaxPriority, position \in 1..MaxPosition :
          /\ Write(j, [jobs[j] EXCEPT !.priority = priority, !.position = position]) /\ Bump
    BY <1>7 DEF UpdateQueue
  <2>2. position \in Nat \ {0} /\ jobs[j] \in Row /\ priority \in 0..MaxPriority
    BY <1>2, <2>1 DEF QueueAssumption
  <2> DEFINE row == [jobs[j] EXCEPT !.priority = priority, !.position = position]
  <2>3. row \in Row /\ row.key = jobs[j].key /\ row.parent = jobs[j].parent
    BY <2>2 DEF Row
  <2> HIDE DEF row
  <2>4. Write(j, row)
    BY <2>1 DEF row
  <2>5. RowsGo
    BY <1>1, <2>1, <2>3, <2>4, RowWritten
  <2>6. QED BY <2>1, <2>5, Bumped
<1>8. ASSUME NEW c \in Actor, SetDesiredState(c) \/ SetObserved(c)
      PROVE  RowsGo /\ VersionGoes
  <2>1. /\ actor[c].job \in DOMAIN jobs
        /\ SetDesiredState(c) => actor[c].desired \in {"QUEUED", "PAUSED", "CANCELLED"}
        /\ SetObserved(c) => actor[c].observed \in {"CREATED", "FAILED"}
    BY <1>8, WhatIsKnown DEF SetDesiredState, SetObserved
  <2>2. CASE UNCHANGED <<jobs, queueVersion>>
    BY <2>2, RowsAsTheyWere
  <2>3. CASE ~UNCHANGED <<jobs, queueVersion>>
    <3>1. PICK j \in DOMAIN jobs : j = actor[c].job
      BY <2>1
    <3>2. PICK row :
            /\ Write(j, row)
            /\ \/ /\ SetDesiredState(c)
                  /\ row = [jobs[j] EXCEPT !.desired = actor[c].desired, !.sync = "PENDING"]
               \/ /\ SetObserved(c)
                  /\ row = [jobs[j] EXCEPT !.observed = actor[c].observed, !.sync = "PENDING"]
      BY <1>8, <2>3, <3>1 DEF SetDesiredState, SetObserved
    <3>3. Bump \/ UNCHANGED queueVersion
      BY <1>8 DEF SetDesiredState, SetObserved
    <3>4. /\ row \in Row /\ row.key = jobs[j].key /\ row.parent = jobs[j].parent
          /\ row.priority = jobs[j].priority /\ row.position = jobs[j].position
      BY <1>2, <2>1, <3>2 DEF Row
    <3>5. QED BY <3>2, <3>3, <3>4, Rewritten
  <2>4. QED BY <2>2, <2>3
<1>9. ASSUME MarkMissing \/ RecordReconcileError PROVE RowsGo /\ VersionGoes
  <2>1. PICK j \in DOMAIN jobs, sync \in {"PENDING", "MISSING"} :
          Write(j, [jobs[j] EXCEPT !.sync = sync]) /\ (Bump \/ UNCHANGED queueVersion)
    BY <1>9 DEF MarkMissing, RecordReconcileError
  <2>2. PICK row : row = [jobs[j] EXCEPT !.sync = sync] /\ Write(j, row)
    BY <2>1
  <2>3. /\ row \in Row /\ row.key = jobs[j].key /\ row.parent = jobs[j].parent
        /\ row.priority = jobs[j].priority /\ row.position = jobs[j].position
    BY <1>2, <2>1, <2>2 DEF Row
  <2>4. QED BY <2>1, <2>2, <2>3, Rewritten
<1>10. ASSUME ConfigurePolicy PROVE RowsGo /\ VersionGoes
  BY <1>10, RowsAsTheyWere DEF ConfigurePolicy
<1>11. QED
  BY <1>3, <1>4, <1>5, <1>6, <1>7, <1>8, <1>9, <1>10 DEF QueueNext

(* What each request knows after a step.                                   *)
LEMMA OneActs ==
  ASSUME QueueAssumption, QueueInv, RowsGo, VersionGoes, NEW c \in Actor, NEW new,
         Knows(new, jobs', queueVersion'), actor' = [actor EXCEPT ![c] = new]
  PROVE  /\ actor' \in [Actor -> QueueRequests]
         /\ \A d \in Actor : Knows(actor'[d], jobs', queueVersion')
<1>1. actor \in [Actor -> QueueRequests] /\ QueueTypeOK
  BY DEF QueueInv, QueueTypes
<1>2. new \in QueueRequests
  BY DEF Knows
<1>3. \A d \in Actor : Knows(actor[d], jobs', queueVersion')
  BY <1>1, KnowsStill DEF QueueInv
<1>4. QED BY <1>1, <1>2, <1>3

LEMMA AtRestKnows == \A rows, version : Knows(AtRest, rows, version)
BY DEF Knows, AtRest, QueueRequests, Creating

LEMMA CreatorKnows ==
  ASSUME NEW at \in Creating, NEW input \in Inputs, input.parent = 0 <=> input.key \in Key
  PROVE  \A rows, version : Knows([at |-> at, input |-> input], rows, version)
BY DEF Knows, QueueRequests, Creating

LEMMA ActorsStep ==
  ASSUME QueueAssumption, QueueInv, QueueNext, RowsGo, VersionGoes
  PROVE  /\ actor' \in [Actor -> QueueRequests]
         /\ \A d \in Actor : Knows(actor'[d], jobs', queueVersion')
<1> DEFINE Goal == /\ actor' \in [Actor -> QueueRequests]
                   /\ \A d \in Actor : Knows(actor'[d], jobs', queueVersion')
<1>1. /\ actor \in [Actor -> QueueRequests] /\ QueueTypeOK /\ jobs \in Seq(Row)
      /\ Len(jobs) <= MaxJobs /\ MaxJobs \in Nat /\ DOMAIN jobs = 1..Len(jobs) /\ Len(jobs) \in Nat
      /\ queueVersion \in 0..MaxChanges
  BY DEF QueueInv, QueueTypes, QueueTypeOK, QueueAssumption
<1>2. \A d \in Actor : Knows(actor[d], jobs', queueVersion')
  BY <1>1, KnowsStill DEF QueueInv
<1>3. CASE UNCHANGED actor
  BY <1>1, <1>2, <1>3
<1>4. \A c \in Actor : Done(c) => Goal
  BY AtRestKnows, OneActs DEF Done
<1>5. ASSUME NEW c \in Actor, NEW at \in Creating, actor[c].at \in Creating,
             actor' = [actor EXCEPT ![c].at = at]
      PROVE  Goal
  <2>1. /\ actor[c].input \in Inputs
        /\ actor[c].input.parent = 0 <=> actor[c].input.key \in Key
        /\ actor[c] = [at |-> actor[c].at, input |-> actor[c].input]
    BY <1>5, WhatIsKnown
  <2>2. SUFFICES ASSUME NEW new, new = [at |-> at, input |-> actor[c].input]
                 PROVE  Goal
    OBVIOUS
  <2>3. [actor[c] EXCEPT !.at = at] = new
    BY <2>1, <2>2
  <2>4. actor' = [actor EXCEPT ![c] = new]
    BY <1>5, <2>3
  <2>5. Knows(new, jobs', queueVersion')
    <3>1. SUFFICES ASSUME NEW input, input = actor[c].input
                   PROVE  Knows(new, jobs', queueVersion')
      OBVIOUS
    <3>2. input \in Inputs /\ (input.parent = 0 <=> input.key \in Key)
      BY <2>1, <3>1
    <3>3. new = [at |-> at, input |-> input]
      BY <2>2, <3>1
    <3>4. QED BY <3>2, <3>3, CreatorKnows
  <2>6. QED BY <2>4, <2>5, OneActs
<1>6. ASSUME NEW c \in Actor, Submit(c) PROVE Goal
  <2>1. PICK input \in Input :
          actor' = [actor EXCEPT ![c] =
            [at |-> IF policy THEN "reserving"
                    ELSE IF input.key # Unnamed THEN "looking" ELSE "inserting",
             input |-> input]]
    BY <1>6 DEF Submit
  <2>2. input \in Inputs /\ (input.parent = 0 <=> input.key \in Key)
    <3>1. 0 \in 0..MaxJobs /\ 0 \in 0..MaxPriority
      BY DEF QueueAssumption
    <3>2. CASE input \in [key : Key, parent : {0}, project : JobProject, priority : {0}]
      BY <3>1, <3>2 DEF Inputs
    <3>3. CASE \E j \in DOMAIN jobs : input = RetryOf(j)
      <4>1. PICK j \in DOMAIN jobs : input = RetryOf(j)
        BY <3>3
      <4>2. jobs[j] \in Row /\ j \in 0..MaxJobs /\ j # 0
        BY <1>1
      <4>3. jobs[j].project \in JobProject /\ jobs[j].priority \in 0..MaxPriority
        BY <4>2 DEF Row
      <4>4. Unnamed \notin Key
        BY DEF QueueAssumption
      <4>5. QED BY <4>1, <4>2, <4>3, <4>4 DEF RetryOf, Inputs
    <3>4. QED BY <2>1, <3>2, <3>3 DEF Input
  <2>3. SUFFICES ASSUME NEW at \in Creating,
                        actor' = [actor EXCEPT ![c] = [at |-> at, input |-> input]]
                 PROVE  Goal
    BY <2>1 DEF Creating
  <2>4. Knows([at |-> at, input |-> input], jobs', queueVersion')
    BY <2>2, CreatorKnows
  <2>5. QED BY <2>3, <2>4, OneActs
<1>7. ASSUME NEW c \in Actor, LookUp(c) \/ Create(c) \/ CreateFails(c) PROVE Goal
  <2>1. /\ actor[c].at \in Creating
        /\ \/ actor' = [actor EXCEPT ![c].at = "inserting"]
           \/ actor' = [actor EXCEPT ![c].at = "failed"]
           \/ Done(c)
    BY <1>7 DEF LookUp, Create, CreateFails, Answer, Creating
  <2>2. QED BY <1>4, <1>5, <2>1 DEF Creating
<1>8. ASSUME NEW c \in Actor, QueueInProjects(c) PROVE Goal
  <2>1. PICK p \in JobProject \cup {Unnamed} :
          actor' = [actor EXCEPT ![c] =
            [at |-> "queue", project |-> p, order |-> Order(p), version |-> queueVersion]]
    BY <1>8 DEF QueueInProjects
  <2>2. SUFFICES ASSUME NEW new, new = [at |-> "queue", project |-> p, order |-> Order(p),
                                        version |-> queueVersion]
                 PROVE  Goal
    OBVIOUS
  <2>3. jobs' = jobs /\ queueVersion' = queueVersion
    BY <1>8 DEF QueueInProjects
  <2>4. /\ Order(p) \in Seq(Nat) /\ ToSet(Order(p)) \subseteq DOMAIN jobs
        /\ Order(p) = RowsInOrder(jobs, ToSet(Order(p)))
    <3>1. Order(p) \in Seq(DOMAIN jobs) /\ ToSet(Order(p)) = Member(p)
          /\ Member(p) \subseteq DOMAIN jobs
      BY <1>1, MembersAre
    <3>2. DOMAIN jobs \subseteq Nat
      BY <1>1
    <3>3. QED BY <3>1, <3>2, OrderIs
  <2>5. new \in QueueRequests
    BY <1>1, <2>2, <2>4 DEF QueueRequests
  <2>6. Saw(new, jobs', queueVersion')
    BY <1>1, <2>2, <2>3, <2>4 DEF Saw, QueueAssumption
  <2>7. Knows(new, jobs', queueVersion')
    BY <2>2, <2>5, <2>6 DEF Knows, Creating
  <2>8. QED BY <2>1, <2>2, <2>7, OneActs
<1>9. ASSUME NEW c \in Actor, Command(c) PROVE Goal
  <2>1. PICK j \in DOMAIN jobs, desired \in {"QUEUED", "PAUSED", "CANCELLED"} :
          actor' = [actor EXCEPT ![c] =
            [at |-> "command", job |-> j, desired |-> desired,
             changes |-> "QUEUED" \in {jobs[j].desired, desired}]]
    BY <1>9 DEF Command
  <2>2. ("QUEUED" \in {jobs[j].desired, desired}) \in BOOLEAN
    OBVIOUS
  <2>3. PICK changing \in BOOLEAN : changing = ("QUEUED" \in {jobs[j].desired, desired})
    BY <2>2, Zenon
  <2>4. /\ actor' = [actor EXCEPT ![c] =
             [at |-> "command", job |-> j, desired |-> desired, changes |-> changing]]
        /\ jobs' = jobs
    BY <1>9, <2>1, <2>3 DEF Command
  <2>5. SUFFICES ASSUME NEW new, new = [at |-> "command", job |-> j, desired |-> desired,
                                        changes |-> changing]
                 PROVE  Goal
    OBVIOUS
  <2>6. j \in 1..MaxJobs
    BY <1>1, <2>4
  <2>7. Knows(new, jobs', queueVersion')
    BY <2>4, <2>5, <2>6 DEF Knows, QueueRequests, Creating
  <2>8. QED BY <2>4, <2>5, <2>7, OneActs
<1>10. ASSUME NEW c \in Actor, Observe(c) PROVE Goal
  <2>1. PICK j \in DOMAIN jobs, observed \in {"CREATED", "FAILED"}, changing \in BOOLEAN :
          /\ actor' = [actor EXCEPT ![c] =
               [at |-> "observed", job |-> j, observed |-> observed, changes |-> changing]]
          /\ jobs' = jobs
    BY <1>10 DEF Observe
  <2>2. SUFFICES ASSUME NEW new, new = [at |-> "observed", job |-> j, observed |-> observed,
                                        changes |-> changing]
                 PROVE  Goal
    OBVIOUS
  <2>3. j \in 1..MaxJobs
    BY <1>1, <2>1
  <2>4. Knows(new, jobs', queueVersion')
    BY <2>1, <2>2, <2>3 DEF Knows, QueueRequests, Creating
  <2>5. QED BY <2>1, <2>2, <2>4, OneActs
<1>11. ASSUME NEW c \in Actor,
              \/ LookUpAgain(c) \/ CreateJobWithQuota(c) \/ Leave(c) \/ ReorderSeen(c)
              \/ SetDesiredState(c) \/ SetObserved(c)
       PROVE  Goal
  <2>1. Done(c)
    BY <1>11 DEF LookUpAgain, CreateJobWithQuota, Leave, ReorderSeen, Reorder, SetDesiredState,
                 SetObserved, Answer
  <2>2. QED BY <1>4, <2>1
<1>12. ASSUME UpdateQueue \/ ConfigurePolicy \/ MarkMissing \/ RecordReconcileError PROVE Goal
  <2>1. UNCHANGED actor
    BY <1>12 DEF UpdateQueue, ConfigurePolicy, MarkMissing, RecordReconcileError
  <2>2. QED BY <1>3, <2>1
<1>13. QED
  <2> HIDE DEF Goal
  <2>1. Goal
    BY <1>6, <1>7, <1>8, <1>9, <1>10, <1>11, <1>12 DEF QueueNext
  <2>2. QED BY <2>1 DEF Goal

(* A row that an answer names is that of the key or of the parent.         *)
LEMMA Answering ==
  ASSUME QueueAssumption, QueueInv, RowsGo, NEW c \in Actor, NEW input \in Inputs,
         input.parent = 0 <=> input.key \in Key, NEW j \in DOMAIN jobs', Answer(c, input, j),
         input.parent = 0 => jobs'[j].key = input.key,
         input.parent # 0 => jobs'[j].parent = input.parent
  PROVE  \A a \in answered' : Names(a, jobs')
<1>1. \A a \in answered : Names(a, jobs')
  BY NamesStill DEF QueueInv
<1>2. answered' \subseteq answered \cup {<<Identity(input), j>>}
  BY DEF Answer
<1>3. Names(<<Identity(input), j>>, jobs')
  <2>1. CASE input.parent = 0
    BY <2>1 DEF Names, Identity
  <2>2. CASE input.parent # 0
    <3>1. input.parent \in 1..MaxJobs /\ input.parent \notin Key
      BY <2>2 DEF Inputs, QueueAssumption
    <3>2. QED BY <2>2, <3>1 DEF Names, Identity
  <2>3. QED BY <2>1, <2>2
<1>4. QED BY <1>1, <1>2, <1>3

LEMMA AnswersStep ==
  ASSUME QueueAssumption, QueueInv, QueueNext, RowsGo
  PROVE  \A a \in answered' : Names(a, jobs')
<1> DEFINE Goal == \A a \in answered' : Names(a, jobs')
<1>1. UNCHANGED answered => Goal
  BY NamesStill DEF QueueInv
<1>2. ASSUME NEW c \in Actor,
             LookUp(c) \/ Create(c) \/ LookUpAgain(c) \/ CreateJobWithQuota(c)
      PROVE  Goal
  <2>1. /\ actor[c].input \in Inputs
        /\ actor[c].input.parent = 0 <=> actor[c].input.key \in Key
    BY <1>2, WhatIsKnown DEF LookUp, Create, LookUpAgain, CreateJobWithQuota, Creating
  <2>2. SUFFICES ASSUME NEW input, input = actor[c].input PROVE Goal
    OBVIOUS
  <2>3. input \in Inputs /\ (input.parent = 0 <=> input.key \in Key) /\ QueueTypeOK
    BY <2>1, <2>2 DEF QueueInv, QueueTypes
  <2>4. Unnamed \notin Key /\ input.key \in Key \cup {Unnamed}
    BY <2>3 DEF QueueAssumption, Inputs
  <2>5. ASSUME NEW j \in DOMAIN jobs, Answer(c, input, j),
               \/ input.parent # 0 /\ jobs[j].parent = input.parent
               \/ j \in WithKey(input.key)
        PROVE  Goal
    <3>1. /\ j \in DOMAIN jobs' /\ jobs'[j].key = jobs[j].key /\ jobs'[j].parent = jobs[j].parent
      BY DEF RowsGo
    <3>2. j \in WithKey(input.key) => input.key \in Key /\ jobs[j].key = input.key
      BY <2>4 DEF WithKey
    <3>3. /\ input.parent = 0 => jobs'[j].key = input.key
          /\ input.parent # 0 => jobs'[j].parent = input.parent
      BY <2>3, <2>5, <3>1, <3>2
    <3>4. QED BY <2>3, <2>5, <3>1, <3>3, Answering
  <2>6. ASSUME Insert(input), Answer(c, input, Len(jobs')) PROVE Goal
    <3>1. /\ Len(jobs') \in DOMAIN jobs'
          /\ jobs'[Len(jobs')].key = input.key /\ jobs'[Len(jobs')].parent = input.parent
      BY <2>3, <2>6, RowInserted DEF QueueInv
    <3>2. PICK j \in DOMAIN jobs' : j = Len(jobs')
      BY <3>1
    <3>3. QED BY <2>3, <2>6, <3>1, <3>2, Answering
  <2> HIDE DEF Goal
  <2>7. CASE UNCHANGED answered
    BY <1>1, <2>7
  <2>8. CASE LookUp(c) /\ ~UNCHANGED answered
    BY <2>2, <2>5, <2>8 DEF LookUp, WithKey
  <2>9. CASE LookUpAgain(c) /\ ~UNCHANGED answered
    BY <2>2, <2>5, <2>9 DEF LookUpAgain, WithKey
  <2>10. CASE Create(c) /\ ~UNCHANGED answered
    BY <2>2, <2>6, <2>10 DEF Create
  <2>11. CASE CreateJobWithQuota(c) /\ ~UNCHANGED answered
    <3>1. \/ Insert(input) /\ Answer(c, input, Len(jobs'))
          \/ \E j \in Reserved(input) : Answer(c, input, j)
      BY <2>2, <2>11 DEF CreateJobWithQuota
    <3>2. \A j \in Reserved(input) :
            /\ j \in DOMAIN jobs
            /\ \/ input.parent # 0 /\ jobs[j].parent = input.parent
               \/ j \in WithKey(input.key)
      BY DEF Reserved
    <3>3. QED BY <2>5, <2>6, <3>1, <3>2
  <2>12. QED BY <1>2, <2>7, <2>8, <2>9, <2>10, <2>11
<1>3. ASSUME \/ \E c \in Actor :
                  \/ Submit(c) \/ CreateFails(c) \/ QueueInProjects(c) \/ Leave(c)
                  \/ ReorderSeen(c) \/ Command(c) \/ SetDesiredState(c) \/ Observe(c)
                  \/ SetObserved(c)
             \/ UpdateQueue \/ ConfigurePolicy \/ MarkMissing \/ RecordReconcileError
      PROVE  Goal
  <2>1. UNCHANGED answered
    BY <1>3 DEF Submit, CreateFails, QueueInProjects, Leave, ReorderSeen, Reorder, Command,
          SetDesiredState, Observe, SetObserved, UpdateQueue, ConfigurePolicy, MarkMissing,
          RecordReconcileError
  <2>2. QED BY <1>1, <2>1
<1>4. QED
  <2> HIDE DEF Goal
  <2>1. Goal
    BY <1>2, <1>3 DEF QueueNext
  <2>2. QED BY <2>1 DEF Goal

LEMMA QueueInitially == ASSUME QueueAssumption, QueueInit PROVE QueueInv
<1>1. /\ FirstProjects \in Seq(JobProject) /\ Len(FirstProjects) <= MaxJobs
      /\ MaxJobs \in Nat /\ MaxPriority \in Nat /\ MaxChanges \in Nat
      /\ DOMAIN FirstProjects = 1..Len(FirstProjects) /\ Len(FirstProjects) \in Nat
  BY DEF QueueAssumption
<1> DEFINE row(j) == [project |-> FirstProjects[j], key |-> Unnamed, parent |-> 0,
                      reserved |-> FALSE, priority |-> 0, position |-> j,
                      desired |-> "QUEUED", observed |-> "CREATED", sync |-> "PENDING"]
<1>2. jobs = [j \in 1..Len(FirstProjects) |-> row(j)]
  BY <1>1 DEF QueueInit
<1>3. \A j \in 1..Len(FirstProjects) : row(j) \in Row /\ row(j).key = Unnamed /\ row(j).parent = 0
  BY <1>1 DEF Row
<1> HIDE DEF row
<1>4. jobs \in [1..Len(FirstProjects) -> Row]
  BY <1>2, <1>3
<1>5. jobs \in Seq(Row) /\ Len(jobs) = Len(FirstProjects)
  BY <1>1, <1>4, OfLength
<1>6. OneRowEach(jobs)
  BY <1>2, <1>3 DEF OneRowEach
<1>7. QueueTypeOK /\ answered = {}
  <2>1. queueVersion \in 0..MaxChanges /\ policy \in BOOLEAN /\ answered = {}
    <3>1. queueVersion = 0 /\ policy = FALSE /\ answered = {}
      BY DEF QueueInit
    <3>2. 0 \in 0..MaxChanges
      BY <1>1
    <3>3. QED BY <3>1, <3>2
  <2>2. Len(jobs) <= MaxJobs
    BY <1>1, <1>5
  <2>3. QED BY <1>5, <2>1, <2>2 DEF QueueTypeOK
<1>8. actor = [c \in Actor |-> AtRest] /\ AtRest \in QueueRequests
  BY AtRestKnows DEF QueueInit, Knows
<1>9. \A c \in Actor : Knows(actor[c], jobs, queueVersion)
  BY <1>8, AtRestKnows
<1>10. QED BY <1>6, <1>7, <1>8, <1>9 DEF QueueInv, QueueTypes

LEMMA QueueInvariant == ASSUME QueueAssumption PROVE QueueSpec => []QueueInv
<1>1. QueueInit => QueueInv
  BY QueueInitially
<1>2. QueueInv /\ [QueueNext]_queueVars => QueueInv'
  <2>1. ASSUME QueueInv, QueueNext PROVE QueueInv'
    <3>1. RowsGo /\ VersionGoes /\ policy' \in BOOLEAN
      BY <2>1, RowsStep
    <3>2. /\ actor' \in [Actor -> QueueRequests]
          /\ \A c \in Actor : Knows(actor'[c], jobs', queueVersion')
      BY <2>1, <3>1, ActorsStep
    <3>3. \A a \in answered' : Names(a, jobs')
      BY <2>1, <3>1, AnswersStep
    <3>4. \A a \in answered' : a[2] \in DOMAIN jobs'
      BY <3>3 DEF Names
    <3>5. QueueTypeOK'
      BY <3>1, <3>4 DEF QueueTypeOK, RowsGo, VersionGoes
    <3>6. QED BY <3>1, <3>2, <3>3, <3>5 DEF QueueInv, QueueTypes, RowsGo
  <2>2. QueueInv /\ UNCHANGED queueVars => QueueInv'
    BY DEF queueVars, QueueInv, QueueTypes, QueueTypeOK
  <2>3. QED BY <2>1, <2>2
<1>3. QED BY <1>1, <1>2, PTL DEF QueueSpec

(* However often a submission under a key, or a retry of a Job, is repeated, *)
(* by whatever number of requests, there is one Job, and every answer names  *)
(* it (Store.Create, Store.CreateJobWithQuota and the unique indexes).       *)
THEOREM RepeatsMakeOneJob ==
  ASSUME QueueAssumption
  PROVE  QueueSpec => []OneJobPerKey
<1>1. QueueInv => OneJobPerKey
  <2> SUFFICES ASSUME QueueInv PROVE OneJobPerKey
    OBVIOUS
  <2>1. OneRowEach(jobs) /\ \A a \in answered : Names(a, jobs)
    BY DEF QueueInv
  <2>2. ASSUME NEW a \in answered, NEW b \in answered, a[1] = b[1] PROVE a = b
    <3>1. PICK id \in Key \cup (1..MaxJobs), i \in DOMAIN jobs :
            /\ a = <<id, i>>
            /\ id \in Key => jobs[i].key = id
            /\ id \notin Key => jobs[i].parent = id
      BY <2>1 DEF Names
    <3>2. PICK j \in DOMAIN jobs :
            /\ b = <<id, j>>
            /\ id \in Key => jobs[j].key = id
            /\ id \notin Key => jobs[j].parent = id
      BY <2>1, <2>2, <3>1 DEF Names
    <3>3. id \in Key => id # Unnamed
      BY DEF QueueAssumption
    <3>4. id \notin Key => id # 0
      BY <3>1 DEF QueueAssumption
    <3>5. i = j
      BY <2>1, <3>1, <3>2, <3>3, <3>4 DEF OneRowEach
    <3>6. QED BY <3>1, <3>2, <3>5
  <2>3. QED BY <2>1, <2>2 DEF OneJobPerKey, OneRowEach
<1>2. QED BY <1>1, QueueInvariant, PTL

(* Only an accepted order is news to its caller with another version.      *)
LEMMA ReorderedBy ==
  ASSUME QueueAssumption, QueueInv, [QueueNext]_queueVars, NEW c \in Actor, Reorders(c)
  PROVE  ReorderSeen(c)
<1>1. /\ actor[c].at = "queue" /\ actor'[c] = AtRest /\ queueVersion' # queueVersion
      /\ actor \in [Actor -> QueueRequests]
  BY DEF Reorders, QueueInv, QueueTypes
<1>2. actor'[c] # actor[c]
  BY <1>1 DEF AtRest
<1>3. ASSUME NEW d \in Actor, NEW new, actor' = [actor EXCEPT ![d] = new] PROVE d = c
  BY <1>1, <1>2, <1>3
<1>4. ~UNCHANGED actor
  BY <1>2
<1>5. PICK d \in Actor :
        \/ Submit(d) \/ LookUp(d) \/ Create(d) \/ CreateFails(d) \/ LookUpAgain(d)
        \/ CreateJobWithQuota(d)
        \/ QueueInProjects(d) \/ Leave(d) \/ ReorderSeen(d)
        \/ Command(d) \/ SetDesiredState(d) \/ Observe(d) \/ SetObserved(d)
  BY <1>4 DEF QueueNext, queueVars, UpdateQueue, ConfigurePolicy, MarkMissing,
              RecordReconcileError
<1>6. d = c
  <2>1. \E new : actor' = [actor EXCEPT ![d] = new]
    <3>1. CASE Submit(d) \/ QueueInProjects(d) \/ Command(d) \/ Observe(d)
      BY <3>1 DEF Submit, QueueInProjects, Command, Observe
    <3>2. CASE LookUp(d) \/ Create(d) \/ CreateFails(d)
      BY <3>2 DEF LookUp, Create, CreateFails, Answer, Done
    <3>3. CASE \/ LookUpAgain(d) \/ CreateJobWithQuota(d) \/ Leave(d) \/ ReorderSeen(d)
               \/ SetDesiredState(d) \/ SetObserved(d)
      <4>1. Done(d)
        BY <3>3 DEF LookUpAgain, CreateJobWithQuota, Leave, ReorderSeen, Reorder,
                    SetDesiredState, SetObserved, Answer
      <4>2. QED BY <4>1 DEF Done
    <3>4. QED BY <1>5, <3>1, <3>2, <3>3
  <2>2. QED BY <1>3, <2>1
<1>7. QED
  BY <1>1, <1>5, <1>6 DEF Submit, LookUp, Create, CreateFails, LookUpAgain,
        CreateJobWithQuota, QueueInProjects, Leave, Command, SetDesiredState, Observe,
        SetObserved, AtRest

(* Whatever the workers and other callers do in between, an order that is  *)
(* accepted replaces the order that its caller saw (Store.Reorder and      *)
(* Store.ReorderProject under the version of the queue).                   *)
THEOREM ReordersReplaceWhatWasSeen ==
  ASSUME QueueAssumption
  PROVE  QueueSpec => ReorderReplacesWhatWasSeen
<1>1. QueueInv /\ [QueueNext]_queueVars =>
        [\A c \in Actor :
           Reorders(c) => Order(actor[c].project) = actor[c].order]_queueVars
  <2> SUFFICES ASSUME QueueInv, [QueueNext]_queueVars, NEW c \in Actor, Reorders(c)
               PROVE  Order(actor[c].project) = actor[c].order
    OBVIOUS
  <2>1. ReorderSeen(c)
    BY ReorderedBy
  <2>2. /\ ToSet(actor[c].order) \in SUBSET DOMAIN jobs /\ actor[c].at = "queue"
        /\ actor[c].version = queueVersion =>
             actor[c].order = InQueueOrder(ToSet(actor[c].order))
    BY <2>1, WhatIsKnown DEF ReorderSeen
  <2>3. PICK ids \in SetToSeqs(ToSet(actor[c].order)) : Reorder(c, ids)
    BY <2>1 DEF ReorderSeen
  <2>4. SUFFICES ASSUME NEW p, p = actor[c].project, NEW S, S = ToSet(actor[c].order)
                 PROVE  Order(p) = actor[c].order
    OBVIOUS
  <2>5. S \in SUBSET DOMAIN jobs /\ ids \in SetToSeqs(S) /\ Acceptable(ids, p)
    BY <2>2, <2>3, <2>4 DEF Reorder
  <2>6. S = Member(p)
    BY <2>5, AcceptableIs DEF QueueInv, QueueTypes, QueueTypeOK
  <2>7. actor[c].order = InQueueOrder(S)
    BY <2>2, <2>3, <2>4 DEF Reorder
  <2>8. QED BY <2>6, <2>7 DEF Order
<1>2. QED BY <1>1, QueueInvariant, PTL DEF QueueSpec, ReorderReplacesWhatWasSeen

SamePlace(f, i, g, j) == f[i].priority = g[j].priority /\ f[i].position = g[j].position

OnlyMoved(f, j) == \E n : f[j] = [jobs[j] EXCEPT !.position = n]

(* The rows with the order that was accepted: the Jobs named stand one      *)
(* before the other, and those of a project where its Jobs have stood.      *)
LEMMA PlacedInOrder ==
  ASSUME QueueAssumption, jobs \in Seq(Row), NEW p, NEW ids \in SetToSeqs(Member(p)),
         Acceptable(ids, p), p = Unnamed \/ NoSharedPlace,
         NEW f, f = Place(ids, Positions(p))
  PROVE  LET N == Cardinality(Member(p))
         IN  /\ f \in Seq(Row) /\ DOMAIN f = DOMAIN jobs
             /\ \A j \in DOMAIN jobs : OnlyMoved(f, j)
             /\ \A j \in DOMAIN jobs : j \notin Member(p) => f[j] = jobs[j]
             /\ \A m, n \in 1..N : m < n => AheadIn(f, ids[m], ids[n])
             /\ p # Unnamed => \A n \in 1..N : SamePlace(f, ids[n], jobs, Order(p)[n])
<1> DEFINE M == Member(p)
           N == Cardinality(M)
           o == Order(p)
           pos == Positions(p)
<1>1. M \in SUBSET DOMAIN jobs /\ M \subseteq Member(Unnamed)
  BY DEF Member
<1>2. /\ N \in Nat /\ ids \in [1..N -> M] /\ OneEach(ids, N)
      /\ \A j \in M : \E n \in 1..N : ids[n] = j
      /\ \A n \in 1..N - 1 : jobs[ids[n]].priority >= jobs[ids[n + 1]].priority
  BY <1>1, AcceptableIs DEF OneEach
<1>3. o \in [1..N -> M] /\ \A j \in M : \E n \in 1..N : o[n] = j
  BY MembersAre DEF ToSet
<1>4. \A m, n \in 1..N : m < n => AheadIn(jobs, o[m], o[n])
  <2> DEFINE R == PrecedesIn(jobs)
  <2> HIDE DEF R, M
  <2>1. IsFiniteSet(M) /\ Ordered(M, R) /\ o = InRank(M, R)
    BY <1>1, RowsAreOrdered, OrderIs DEF R, M
  <2> HIDE DEF o
  <2>2. \A m, n \in 1..N : m < n => <<o[m], o[n]>> \in R
    BY <1>3, <2>1, InRankIsInOrder
  <2>3. QED BY <2>2 DEF R, PrecedesIn
<1>5. /\ pos \in [1..N -> Nat \ {0}]
      /\ \A n \in 1..N : pos[n] = IF p = Unnamed THEN n ELSE jobs[o[n]].position
  BY PositionsAre
<1>6. \A j \in M : /\ jobs[j] \in Row /\ j \in Nat /\ jobs[j].priority \in Nat
                   /\ jobs[j].position \in Nat
  BY <1>1, RowHas
<1> HIDE DEF M, N, o, pos
<1>7. Placed(f, N, ids, pos)
  <2>1. ids \in [1..N -> DOMAIN jobs]
    BY <1>1, <1>2
  <2>2. Placed(Place(ids, pos), N, ids, pos)
    BY <1>2, <1>5, <2>1, PlaceIs
  <2>3. QED BY <2>2 DEF pos
<1>8. \A m, n \in 1..N : m <= n => jobs[ids[m]].priority >= jobs[ids[n]].priority
  <2> DEFINE v == [n \in 1..N |-> jobs[ids[n]].priority]
  <2>1. v \in [1..N -> Nat] /\ \A n \in 1..N : v[n] = jobs[ids[n]].priority
    BY <1>2, <1>6
  <2>2. \A n \in 1..N - 1 : v[n] >= v[n + 1]
    BY <1>2, <2>1
  <2> HIDE DEF v
  <2>3. \A m, n \in 1..N : m <= n => v[m] >= v[n]
    BY <1>2, <2>1, <2>2, FallsThroughout
  <2>4. QED BY <2>1, <2>3
<1>9. \A m, n \in 1..N : m < n => o[m] # o[n]
  <2> TAKE m, n \in 1..N
  <2> HAVE m < n
  <2>1. AheadIn(jobs, o[m], o[n]) /\ o[m] \in M
    BY <1>3, <1>4
  <2>2. ~AheadIn(jobs, o[m], o[m])
    BY <1>6, <2>1 DEF AheadIn
  <2>3. QED BY <2>1, <2>2
<1>10. OneEach(o, N)
  BY SMTT(30), <1>2, <1>9 DEF OneEach
<1>11. \A m, n \in 1..N : m <= n => jobs[o[m]].priority >= jobs[o[n]].priority
  <2> SUFFICES ASSUME NEW m \in 1..N, NEW n \in 1..N, m <= n
               PROVE  jobs[o[m]].priority >= jobs[o[n]].priority
    OBVIOUS
  <2>1. jobs[o[m]].priority \in Nat /\ jobs[o[n]].priority \in Nat
    BY <1>3, <1>6
  <2>2. CASE m = n
    BY <2>1, <2>2
  <2>3. CASE m < n
    BY <1>4, <2>1, <2>3 DEF AheadIn
  <2>4. QED BY <1>2, <2>2, <2>3
<1>12. \A n \in 1..N : jobs[ids[n]].priority = jobs[o[n]].priority
  <2> DEFINE w == [j \in M |-> jobs[j].priority]
  <2>1. w \in [M -> Nat] /\ \A j \in M : w[j] = jobs[j].priority
    BY <1>6
  <2> HIDE DEF w
  <2>2. /\ \A n \in 1..N : w[ids[n]] = jobs[ids[n]].priority
        /\ \A n \in 1..N : w[o[n]] = jobs[o[n]].priority
    BY <1>2, <1>3, <2>1
  <2>3. /\ \A m, n \in 1..N : m <= n => w[ids[m]] >= w[ids[n]]
        /\ \A m, n \in 1..N : m <= n => w[o[m]] >= w[o[n]]
    <3>1. ASSUME NEW m \in 1..N, NEW n \in 1..N, m <= n PROVE w[ids[m]] >= w[ids[n]]
      BY <1>8, <2>2, <3>1
    <3>2. ASSUME NEW m \in 1..N, NEW n \in 1..N, m <= n PROVE w[o[m]] >= w[o[n]]
      BY <1>11, <2>2, <3>2
    <3>3. QED BY <3>1, <3>2
  <2>4. \A n \in 1..N : w[ids[n]] <= w[o[n]]
    BY <1>2, <1>3, <2>1, <2>3, NoHeavier DEF OneEach
  <2>5. \A n \in 1..N : w[o[n]] <= w[ids[n]]
    BY <1>2, <1>3, <1>10, <2>1, <2>3, NoHeavier DEF OneEach
  <2>6. ASSUME NEW n \in 1..N PROVE jobs[ids[n]].priority = jobs[o[n]].priority
    <3>1. ids[n] \in M /\ o[n] \in M /\ w[ids[n]] \in Nat /\ w[o[n]] \in Nat
      BY <1>2, <1>3, <2>1
    <3>2. w[ids[n]] <= w[o[n]] /\ w[o[n]] <= w[ids[n]]
      BY <2>4, <2>5
    <3>3. w[ids[n]] = w[o[n]]
      BY <3>1, <3>2
    <3>4. QED BY <2>1, <3>1, <3>3
  <2>7. QED BY <2>6
<1>13. \A n \in 1..N : f[ids[n]].priority = jobs[ids[n]].priority /\ f[ids[n]].position = pos[n]
  <2> TAKE n \in 1..N
  <2>1. ids[n] \in M /\ jobs[ids[n]] \in Row
    BY <1>2, <1>6
  <2>2. f[ids[n]] = [jobs[ids[n]] EXCEPT !.position = pos[n]]
    BY <1>7 DEF Placed
  <2>3. QED BY <2>1, <2>2 DEF Row
<1>14. p # Unnamed => \A n \in 1..N : SamePlace(f, ids[n], jobs, o[n])
  BY <1>5, <1>12, <1>13 DEF SamePlace
<1>15. ASSUME NEW m \in 1..N, NEW n \in 1..N, m < n PROVE AheadIn(f, ids[m], ids[n])
  <2>1. /\ ids[m] \in M /\ ids[n] \in M /\ o[m] \in M /\ o[n] \in M /\ m <= n
    BY <1>2, <1>3, <1>15
  <2>2. CASE p = Unnamed
    <3>1. f[ids[m]].position < f[ids[n]].position
      BY <1>5, <1>13, <1>15, <2>2
    <3>2. f[ids[m]].priority >= f[ids[n]].priority
      BY <1>8, <1>13, <2>1
    <3>3. f[ids[m]].priority \in Nat /\ f[ids[n]].priority \in Nat
      BY <1>6, <1>13, <2>1
    <3>4. QED BY <3>1, <3>2, <3>3 DEF AheadIn
  <2>3. CASE p # Unnamed
    <3>1. o[m] # o[n] /\ o[m] \in Member(Unnamed) /\ o[n] \in Member(Unnamed) /\ NoSharedPlace
      BY <1>1, <1>9, <1>15, <2>1, <2>3
    <3>2. ~SamePlace(jobs, o[m], jobs, o[n])
      BY <3>1 DEF NoSharedPlace, SamePlace
    <3>3. AheadIn(jobs, o[m], o[n])
      BY <1>4, <1>15
    <3>4. SamePlace(f, ids[m], jobs, o[m]) /\ SamePlace(f, ids[n], jobs, o[n])
      BY <1>14, <2>3
    <3>5. QED BY <3>2, <3>3, <3>4 DEF AheadIn, SamePlace
  <2>4. QED BY <2>2, <2>3
<1>16. \A j \in DOMAIN jobs : j \notin M => f[j] = jobs[j]
  BY <1>2, <1>7 DEF Placed
<1>17. \A j \in DOMAIN jobs : OnlyMoved(f, j)
  <2> TAKE j \in DOMAIN jobs
  <2>1. CASE j \in M
    <3>1. PICK n \in 1..N : ids[n] = j
      BY <1>2, <2>1
    <3>2. QED BY <1>7, <3>1 DEF Placed, OnlyMoved
  <2>2. CASE j \notin M
    <3>1. jobs[j] \in Row
      OBVIOUS
    <3>2. f[j] = [jobs[j] EXCEPT !.position = jobs[j].position]
      BY <1>16, <2>2, <3>1 DEF Row
    <3>3. QED BY <3>2 DEF OnlyMoved
  <2>3. QED BY <2>1, <2>2
<1>18. f \in Seq(Row) /\ DOMAIN f = DOMAIN jobs
  BY <1>7 DEF Placed
<1>19. QED BY <1>14, <1>15, <1>16, <1>17, <1>18 DEF M, N, o

(* The exchange: a Job of the project for the one that is given its place.  *)
LEMMA Exchanged ==
  ASSUME QueueAssumption, jobs \in Seq(Row), NEW p, p # Unnamed, NoSharedPlace,
         NEW ids \in SetToSeqs(Member(p)), Acceptable(ids, p),
         NEW f, f = Place(ids, Positions(p)),
         NEW h, h = [j \in Member(Unnamed) |->
                       IF j \in Member(p) THEN ids[CHOOSE n \in DOMAIN ids : Order(p)[n] = j]
                       ELSE j]
  PROVE  /\ OrderKept(h, Member(Unnamed), PrecedesIn(jobs), Member(Unnamed), PrecedesIn(f))
         /\ \A j \in Member(Unnamed) : j \notin Member(p) => h[j] = j
         /\ \A j \in Member(Unnamed) : h[j] = j => SamePlace(f, j, jobs, j)
<1> DEFINE M == Member(p)
           A == Member(Unnamed)
           N == Cardinality(M)
           o == Order(p)
<1>1. M \subseteq A /\ A \in SUBSET DOMAIN jobs
  BY DEF Member
<1>2. /\ N \in Nat /\ ids \in [1..N -> M] /\ OneEach(ids, N) /\ DOMAIN ids = 1..N
      /\ \A j \in M : \E n \in 1..N : ids[n] = j
  BY <1>1, AcceptableIs DEF OneEach
<1>3. o \in [1..N -> M] /\ \A j \in M : \E n \in 1..N : o[n] = j
  BY MembersAre DEF ToSet
<1>4. /\ f \in Seq(Row) /\ DOMAIN f = DOMAIN jobs
      /\ \A j \in DOMAIN jobs : j \notin M => f[j] = jobs[j]
      /\ \A n \in 1..N : SamePlace(f, ids[n], jobs, o[n])
  BY PlacedInOrder
<1>5. \A i, j \in A : SamePlace(jobs, i, jobs, j) => i = j
  BY DEF NoSharedPlace, SamePlace
<1>6. h = [j \in A |-> IF j \in M THEN ids[CHOOSE n \in 1..N : o[n] = j] ELSE j]
  BY <1>2
<1>7. \A j \in A : h[j] = IF j \in M THEN ids[CHOOSE n \in 1..N : o[n] = j] ELSE j
  BY <1>6
<1> HIDE DEF M, A, N, o
<1>8. ASSUME NEW j \in M PROVE \E n \in 1..N : o[n] = j /\ h[j] = ids[n] /\ h[j] \in M
  <2>1. \E n \in 1..N : o[n] = j
    BY <1>3
  <2>2. PICK n : n = CHOOSE k \in 1..N : o[k] = j
    OBVIOUS
  <2>3. n \in 1..N /\ o[n] = j
    BY <2>1, <2>2
  <2>4. j \in A /\ ids[n] \in M
    BY <1>1, <1>2, <2>3
  <2>5. h[j] = ids[n]
    BY <1>7, <2>2, <2>4
  <2>6. QED BY <2>3, <2>4, <2>5
<1>9. ASSUME NEW j \in A PROVE h[j] \in A /\ SamePlace(f, h[j], jobs, j)
  <2>1. CASE j \in M
    <3>1. PICK n \in 1..N : o[n] = j /\ h[j] = ids[n] /\ h[j] \in M
      BY <1>8, <2>1
    <3>2. SamePlace(f, ids[n], jobs, o[n])
      BY <1>4
    <3>3. QED BY <1>1, <3>1, <3>2
  <2>2. CASE j \notin M
    <3>1. h[j] = j /\ f[j] = jobs[j]
      BY <1>1, <1>4, <1>7, <2>2
    <3>2. QED BY <3>1 DEF SamePlace
  <2>3. QED BY <2>1, <2>2
<1>10. \A i, j \in A : h[i] = h[j] => i = j
  <2> TAKE i, j \in A
  <2> HAVE h[i] = h[j]
  <2>1. SamePlace(f, h[i], jobs, i) /\ SamePlace(f, h[i], jobs, j)
    BY <1>9
  <2>2. SamePlace(jobs, i, jobs, j)
    BY <2>1 DEF SamePlace
  <2>3. QED BY <1>5, <2>2
<1>11. h \in [A -> A]
  BY <1>6, <1>9
<1>12. \A j \in A : \E i \in A : h[i] = j
  <2>1. IsFiniteSet(A)
    BY <1>1, RowsAreOrdered
  <2>2. OneToOne(h, A)
    BY <1>10, <1>11 DEF OneToOne
  <2> DEFINE S == A
  <2>3. IsFiniteSet(S) /\ OneToOne(h, S)
    BY <2>1, <2>2
  <2> HIDE DEF S
  <2>4. \A y \in S : \E x \in S : h[x] = y
    BY ONLY <2>3, OntoItself
  <2>5. QED BY <2>4 DEF S
<1>13. ASSUME NEW i \in A, NEW j \in A
       PROVE  <<i, j>> \in PrecedesIn(jobs) <=> <<h[i], h[j]>> \in PrecedesIn(f)
  <2>1. /\ i \in DOMAIN jobs /\ j \in DOMAIN jobs /\ h[i] \in DOMAIN f /\ h[j] \in DOMAIN f
    BY <1>1, <1>4, <1>9
  <2>2. SamePlace(f, h[i], jobs, i) /\ SamePlace(f, h[j], jobs, j)
    BY <1>9
  <2>3. AheadIn(jobs, i, j) <=> AheadIn(f, h[i], h[j])
    <3>1. CASE i = j
      <4>1. jobs[i].priority \in Nat /\ jobs[i].position \in Nat /\ i \in Nat /\ h[i] \in Nat
        BY <1>4, <2>1, RowHas
      <4>2. QED BY <2>2, <3>1, <4>1 DEF AheadIn, SamePlace
    <3>2. CASE i # j
      <4>1. ~SamePlace(jobs, i, jobs, j)
        BY <1>5, <3>2
      <4>2. QED BY <2>2, <4>1 DEF AheadIn, SamePlace
    <3>3. QED BY <3>1, <3>2
  <2>4. QED BY <2>1, <2>3 DEF PrecedesIn
<1>14. OrderKept(h, A, PrecedesIn(jobs), A, PrecedesIn(f))
  BY <1>10, <1>11, <1>12, <1>13 DEF OrderKept
<1>15. \A j \in A : j \notin M => h[j] = j
  BY <1>7
<1>16. \A j \in A : h[j] = j => SamePlace(f, j, jobs, j)
  BY <1>9
<1>17. QED BY <1>14, <1>15, <1>16 DEF A, M

(* The order that there is with the rows as they are placed.               *)
LEMMA OrderPlaced ==
  ASSUME QueueAssumption, jobs \in Seq(Row), NEW p, p = Unnamed \/ NoSharedPlace,
         NEW ids \in SetToSeqs(Member(p)), Acceptable(ids, p),
         NEW f, f = Place(ids, Positions(p))
  PROVE  /\ RowsInOrder(f, Member(p)) = ids
         /\ p # Unnamed =>
              \A n \in DOMAIN Order(Unnamed) :
                Order(Unnamed)[n] \notin Member(p) =>
                  RowsInOrder(f, Member(Unnamed))[n] = Order(Unnamed)[n]
<1> DEFINE M == Member(p)
           A == Member(Unnamed)
           N == Cardinality(M)
           Q == PrecedesIn(f)
           R == PrecedesIn(jobs)
<1>1. M \in SUBSET DOMAIN jobs /\ A \in SUBSET DOMAIN jobs
  BY DEF Member
<1>2. /\ f \in Seq(Row) /\ DOMAIN f = DOMAIN jobs
      /\ \A m, n \in 1..N : m < n => AheadIn(f, ids[m], ids[n])
  BY PlacedInOrder
<1>3. /\ N \in Nat /\ ids \in [1..N -> M] /\ \A j \in M : \E n \in 1..N : ids[n] = j
  BY <1>1, AcceptableIs
<1>4. /\ RowsInOrder(f, M) = InRank(M, Q) /\ Ordered(M, Q)
      /\ RowsInOrder(f, A) = InRank(A, Q) /\ Ordered(A, Q)
      /\ IsFiniteSet(A) /\ Order(Unnamed) = InRank(A, R) /\ Ordered(A, R)
  BY <1>1, <1>2, OrderIs, RowsAreOrdered
<1>5. Order(Unnamed) \in [1..Cardinality(A) -> A]
  BY MembersAre
<1>6. p # Unnamed =>
        \E h : OrderKept(h, A, R, A, Q) /\ \A j \in A : j \notin M => h[j] = j
  BY Exchanged
<1>7. \A m, n \in 1..N : m < n => <<ids[m], ids[n]>> \in Q
  BY <1>1, <1>2, <1>3 DEF PrecedesIn
<1> HIDE DEF M, A, N, Q, R
<1>8. InRank(M, Q) = ids
  <2>1. Sorts(ids, N, M, Q)
    BY <1>3, <1>7 DEF Sorts
  <2>2. QED BY <1>3, <1>4, <2>1, SortedIsInRank, Zenon
<1>9. ASSUME p # Unnamed, NEW n \in DOMAIN Order(Unnamed), Order(Unnamed)[n] \notin M
      PROVE  InRank(A, Q)[n] = Order(Unnamed)[n]
  <2>1. PICK h : OrderKept(h, A, R, A, Q) /\ \A j \in A : j \notin M => h[j] = j
    BY <1>6, <1>9
  <2>2. n \in 1..Cardinality(A) /\ Order(Unnamed)[n] \in A
    BY <1>5, <1>9
  <2>3. InRank(A, Q)[n] = h[InRank(A, R)[n]]
    BY <1>4, <2>1, <2>2, ImageInRank
  <2>4. QED BY <1>4, <1>9, <2>1, <2>2, <2>3
<1>10. QED BY <1>4, <1>8, <1>9 DEF M, A

(* An order that a caller gave, of all or of a project's Jobs, is the order *)
(* that there is then, and between a project's Jobs those of others stay    *)
(* where they were when no two entries share a place (Store.Reorder and     *)
(* Store.ReorderProject).                                                   *)
THEOREM ReordersTakeEffect ==
  ASSUME QueueAssumption
  PROVE  QueueSpec => ReorderTakesEffect
<1> DEFINE Effect ==
             \A c \in Actor : Reorders(c) =>
               \A p \in JobProject \cup {Unnamed} : \A ids \in SetToSeqs(Member(p)) :
                 /\ actor[c].project = p /\ Reorder(c, ids)
                 /\ p = Unnamed \/ NoSharedPlace
                 => /\ Order(p)' = ids
                    /\ \A n \in DOMAIN Order(Unnamed) :
                         p \in {Unnamed, jobs[Order(Unnamed)[n]].project}
                           \/ Order(Unnamed)[n] = Order(Unnamed)'[n]
<1>1. QueueInv /\ [QueueNext]_queueVars => [Effect]_queueVars
  <2> SUFFICES ASSUME QueueInv, NEW c \in Actor,
                      NEW p \in JobProject \cup {Unnamed}, NEW ids \in SetToSeqs(Member(p)),
                      actor[c].project = p, Reorder(c, ids), p = Unnamed \/ NoSharedPlace
               PROVE  /\ Order(p)' = ids
                      /\ \A n \in DOMAIN Order(Unnamed) :
                           p \in {Unnamed, jobs[Order(Unnamed)[n]].project}
                             \/ Order(Unnamed)[n] = Order(Unnamed)'[n]
    OBVIOUS
  <2>1. jobs \in Seq(Row) /\ Acceptable(ids, p) /\ jobs' = Place(ids, Positions(p))
    BY DEF Reorder, QueueInv, QueueTypes, QueueTypeOK
  <2>2. PICK f : f = Place(ids, Positions(p))
    OBVIOUS
  <2>3. /\ f \in Seq(Row) /\ DOMAIN f = DOMAIN jobs
        /\ \A j \in DOMAIN jobs : OnlyMoved(f, j)
    BY <2>1, <2>2, PlacedInOrder
  <2>4. \A j \in DOMAIN jobs : /\ f[j].project = jobs[j].project
                               /\ queueMember(f[j]) <=> queueMember(jobs[j])
    <3> TAKE j \in DOMAIN jobs
    <3>1. jobs[j] \in Row
      BY <2>1
    <3>2. PICK n : f[j] = [jobs[j] EXCEPT !.position = n]
      BY <2>3 DEF OnlyMoved
    <3>3. QED BY <3>1, <3>2 DEF Row, queueMember
  <2>5. jobs' = f
    BY <2>1, <2>2
  <2>6. Member(p)' = Member(p) /\ Member(Unnamed)' = Member(Unnamed)
    BY <2>3, <2>4, <2>5 DEF Member
  <2>7. /\ Order(p)' = RowsInOrder(f, Member(p))
        /\ Order(Unnamed)' = RowsInOrder(f, Member(Unnamed))
    BY <2>5, <2>6, OrderIs
  <2>8. /\ RowsInOrder(f, Member(p)) = ids
        /\ p # Unnamed =>
             \A n \in DOMAIN Order(Unnamed) :
               Order(Unnamed)[n] \notin Member(p) =>
                 RowsInOrder(f, Member(Unnamed))[n] = Order(Unnamed)[n]
    BY <2>1, <2>2, OrderPlaced
  <2>9. ASSUME NEW n \in DOMAIN Order(Unnamed), p # Unnamed,
               p # jobs[Order(Unnamed)[n]].project
        PROVE  Order(Unnamed)[n] \notin Member(p)
    BY <2>9 DEF Member
  <2>10. QED BY <2>7, <2>8, <2>9
<1>2. QED
  <2>1. QueueSpec => [][Effect]_queueVars
    <3> HIDE DEF Effect
    <3> QED BY <1>1, QueueInvariant, PTL DEF QueueSpec
  <2>2. QED BY <2>1 DEF ReorderTakesEffect
================================================================================
