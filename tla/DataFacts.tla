------------------------------- MODULE DataFacts -------------------------------
(***************************************************************************)
(* Facts about numbers, finite sets and sequences on which the proofs of   *)
(* several modules rest.  Induction is stated over sets rather than        *)
(* predicates, so that the provers can use it; it comes from the           *)
(* well-foundedness of strict inclusion among finite sets.                 *)
(***************************************************************************)
EXTENDS Integers, SequencesExt, FiniteSetTheorems, TLAPS

(* A set of naturals that is not empty has a least member.                 *)
LEMMA LeastOf ==
  ASSUME NEW T, T \subseteq Nat, T # {}
  PROVE  \E m \in T : \A n \in T : m <= n
<1> DEFINE W == {0..(n - 1) : n \in T}
<1>1. W \subseteq FiniteSubsetsOf(Nat) /\ W # {}
  <2>1. ASSUME NEW n \in T PROVE 0..(n - 1) \in FiniteSubsetsOf(Nat)
    <3>1. IsFiniteSet(0..(n - 1))
      BY FS_Interval
    <3>2. 0..(n - 1) \subseteq Nat
      OBVIOUS
    <3> QED BY <3>1, <3>2 DEF FiniteSubsetsOf
  <2> QED BY <2>1
<1>2. PICK x \in W : \A y \in W : ~ (<<y, x>> \in StrictSubsetOrdering(Nat))
  <2> HIDE DEF W
  <2> QED BY <1>1, FS_StrictSubsetOrderingWellFounded, WFMin
<1>3. PICK m \in T : x = 0..(m - 1)
  OBVIOUS
<1>4. ASSUME NEW n \in T, n < m PROVE FALSE
  <2>1. 0..(n - 1) \in W
    OBVIOUS
  <2>2. /\ 0..(n - 1) \in SUBSET Nat /\ 0..(m - 1) \in SUBSET Nat
        /\ 0..(n - 1) \subseteq 0..(m - 1)  /\ n \in 0..(m - 1) /\ n \notin 0..(n - 1)
    BY <1>4
  <2>3. <<0..(n - 1), 0..(m - 1)>> \in StrictSubsetOrdering(Nat)
    BY <2>2 DEF StrictSubsetOrdering
  <2> QED BY <1>2, <1>3, <2>1, <2>3
<1> QED BY <1>4

LEMMA SetInduction ==
  ASSUME NEW S, 0 \in S, \A n \in Nat : n \in S => n + 1 \in S
  PROVE  Nat \subseteq S
<1> SUFFICES ASSUME Nat \ S # {} PROVE FALSE
  OBVIOUS
<1>1. PICK m \in Nat \ S : \A n \in Nat \ S : m <= n
  BY LeastOf
<1>2. m - 1 \in Nat /\ m - 1 \in S /\ (m - 1) + 1 = m
  BY <1>1
<1> QED BY <1>1, <1>2

LEMMA FiniteSetInduction ==
  ASSUME NEW S, IsFiniteSet(S), NEW W, {} \in W,
         \A T \in SUBSET S : \A x \in S \ T : T \in W => T \cup {x} \in W
  PROVE  S \in W
<1> DEFINE Bad == (SUBSET S) \ W
<1> SUFFICES ASSUME Bad # {} PROVE FALSE
  OBVIOUS
<1>1. Bad \subseteq FiniteSubsetsOf(S)
  BY FS_Subset DEF FiniteSubsetsOf
<1>2. PICK T \in Bad : \A y \in Bad : ~ (<<y, T>> \in StrictSubsetOrdering(S))
  <2> HIDE DEF Bad
  <2> QED BY <1>1, FS_StrictSubsetOrderingWellFounded, WFMin
<1>3. PICK x \in T : TRUE
  OBVIOUS
<1>4. T \ {x} \in W
  <2>1. <<T \ {x}, T>> \in StrictSubsetOrdering(S)
    BY DEF StrictSubsetOrdering
  <2> QED BY <1>2, <2>1
<1>5. T = (T \ {x}) \cup {x} /\ T \ {x} \in SUBSET S /\ x \in S \ (T \ {x})
  OBVIOUS
<1> QED BY <1>4, <1>5

(* The function that begins at a and goes on by F, as often as wanted.     *)
Iterates(f, V, a, N, F) ==
  /\ f \in [0..N -> V] /\ f[0] = a
  /\ \A n \in 1..N : f[n - 1] \in V /\ f[n] = F[n][f[n - 1]]

LEMMA Iteration ==
  ASSUME NEW V, NEW a \in V, NEW N \in Nat, NEW F \in [1..N -> [V -> V]]
  PROVE  \E f : Iterates(f, V, a, N, F)
<1> DEFINE Starts(f) == f[0] = a
           Goes(f, m) == \A n \in 1..m : f[n] = F[n][f[n - 1]]
           S == {m \in Nat : m <= N => \E f \in [0..m -> V] : Starts(f) /\ Goes(f, m)}
<1>1. 0 \in S
  <2> DEFINE f == [n \in 0..0 |-> a]
  <2>1. f \in [0..0 -> V] /\ Starts(f) /\ Goes(f, 0)
    OBVIOUS
  <2> QED BY <2>1
<1>2. ASSUME NEW m \in Nat, m \in S PROVE m + 1 \in S
  <2> SUFFICES ASSUME m + 1 <= N
               PROVE  \E f \in [0..(m + 1) -> V] : Starts(f) /\ Goes(f, m + 1)
    OBVIOUS
  <2>1. PICK f \in [0..m -> V] : Starts(f) /\ Goes(f, m)
    BY <1>2
  <2> DEFINE g == [n \in 0..(m + 1) |-> IF n = m + 1 THEN F[n][f[m]] ELSE f[n]]
  <2>2. f[m] \in V /\ m + 1 \in 1..N /\ F[m + 1][f[m]] \in V
    OBVIOUS
  <2>3. g \in [0..(m + 1) -> V]
    BY <2>2
  <2>4. \A n \in 0..m : g[n] = f[n]
    OBVIOUS
  <2>5. g[m + 1] = F[m + 1][g[m]]
    BY <2>4
  <2>6. Starts(g)
    BY <2>1, <2>4
  <2>7. ASSUME NEW n \in 1..(m + 1) PROVE g[n] = F[n][g[n - 1]]
    <3>1. CASE n = m + 1
      BY <3>1, <2>5
    <3>2. CASE n # m + 1
      <4>1. n \in 1..m /\ n \in 0..m /\ n - 1 \in 0..m
        BY <3>2
      <4> HIDE DEF g
      <4> QED BY <4>1, <2>1, <2>4
    <3> QED BY <3>1, <3>2
  <2> HIDE DEF g
  <2> QED BY <2>3, <2>6, <2>7
<1>3. N \in S
  <2> HIDE DEF S
  <2> QED BY <1>1, <1>2, SetInduction
<1>4. PICK f \in [0..N -> V] : Starts(f) /\ Goes(f, N)
  BY <1>3
<1>5. \A n \in 1..N : f[n - 1] \in V
  OBVIOUS
<1> QED BY <1>4, <1>5 DEF Iterates

LEMMA StaysIn ==
  ASSUME NEW V, NEW N \in Nat, NEW f, f[0] \in V,
         \A n \in 1..N : f[n - 1] \in V => f[n] \in V
  PROVE  \A n \in 0..N : f[n] \in V
<1> DEFINE S == {m \in Nat : m <= N => f[m] \in V}
<1>1. 0 \in S
  OBVIOUS
<1>2. ASSUME NEW m \in Nat, m \in S PROVE m + 1 \in S
  <2>1. m + 1 <= N => m + 1 \in 1..N /\ (m + 1) - 1 = m
    OBVIOUS
  <2> QED BY <1>2, <2>1
<1>3. Nat \subseteq S
  <2> HIDE DEF S
  <2> QED BY <1>1, <1>2, SetInduction
<1> QED BY <1>3

(* A step that is repeated comes to rest if it makes some number smaller.  *)
ComesToRest(f, V, a, N, F) ==
  /\ f \in [0..N -> V] /\ f[0] = a
  /\ \A n \in 1..N : f[n - 1] \in V /\ f[n] = F[f[n - 1]]
  /\ f[N] \in V /\ F[f[N]] = f[N]
LEMMA IterationRests ==
  ASSUME NEW V, NEW a \in V, NEW F \in [V -> V], NEW M \in [V -> Nat],
         \A b \in V : F[b] = b \/ M[F[b]] < M[b],
         NEW N \in Nat, M[a] <= N
  PROVE  \E f : ComesToRest(f, V, a, N, F)
<1> DEFINE G == [n \in 1..N |-> F]
<1>1. G \in [1..N -> [V -> V]] /\ \A n \in 1..N : G[n] = F
  OBVIOUS
<1> HIDE DEF G
<1>2. PICK f : Iterates(f, V, a, N, G)
  BY <1>1, Iteration
<1>3. /\ f \in [0..N -> V] /\ f[0] = a
      /\ \A n \in 1..N : f[n - 1] \in V /\ f[n] = F[f[n - 1]]
  BY <1>1, <1>2 DEF Iterates
<1> DEFINE Rests(b) == F[b] = b
           S == {n \in Nat : n <= N => Rests(f[n]) \/ M[f[n]] <= N - n}
<1>4. 0 \in S
  BY <1>3
<1>5. ASSUME NEW n \in Nat, n \in S PROVE n + 1 \in S
  <2> SUFFICES ASSUME n + 1 <= N PROVE Rests(f[n + 1]) \/ M[f[n + 1]] <= N - (n + 1)
    OBVIOUS
  <2>1. n + 1 \in 1..N /\ (n + 1) - 1 = n /\ n \in 0..N
    OBVIOUS
  <2>2. f[n] \in V /\ f[n + 1] = F[f[n]]
    BY <1>3, <2>1
  <2>3. M[f[n]] \in Nat /\ F[f[n]] \in V /\ M[F[f[n]]] \in Nat
    BY <2>2
  <2>4. CASE Rests(f[n])
    BY <2>2, <2>4
  <2>5. CASE ~Rests(f[n])
    <3>1. M[f[n]] <= N - n
      BY <1>5, <2>1, <2>5
    <3>2. M[F[f[n]]] < M[f[n]]
      BY <2>2, <2>5
    <3> QED BY <2>2, <2>3, <3>1, <3>2
  <2> QED BY <2>4, <2>5
<1>6. N \in S
  <2> HIDE DEF S
  <2> QED BY <1>4, <1>5, SetInduction
<1>7. f[N] \in V /\ F[f[N]] \in V
  BY <1>3
<1>8. Rests(f[N])
  <2>1. Rests(f[N]) \/ M[f[N]] <= 0
    BY <1>6
  <2>2. M[f[N]] \in Nat /\ M[F[f[N]]] \in Nat
    BY <1>7
  <2>3. F[f[N]] = f[N] \/ M[F[f[N]]] < M[f[N]]
    BY <1>7
  <2> QED BY <2>1, <2>2, <2>3
<1> QED BY <1>3, <1>7, <1>8 DEF ComesToRest

(* Two functions that begin alike and go on alike end alike. *)
LEMMA EndAlike ==
  ASSUME NEW f, NEW w, NEW N \in Nat, w[0] = f[0],
         \A n \in 1..N : w[n - 1] = f[n - 1] => w[n] = f[n]
  PROVE  w[N] = f[N]
<1> DEFINE S == {n \in Nat : n <= N => w[n] = f[n]}
<1>1. 0 \in S
  OBVIOUS
<1>2. ASSUME NEW n \in Nat, n \in S PROVE n + 1 \in S
  <2>1. n + 1 <= N => n + 1 \in 1..N /\ (n + 1) - 1 = n
    OBVIOUS
  <2> QED BY <1>2, <2>1
<1>3. N \in S
  <2> HIDE DEF S
  <2> QED BY <1>1, <1>2, SetInduction
<1> QED BY <1>3

-----------------------------------------------------------------------------
(* How many are in a finite set with one more, or one for another. *)
LEMMA OneMore ==
  ASSUME NEW S, IsFiniteSet(S), NEW x
  PROVE  /\ Cardinality(S) \in Nat /\ Cardinality(S \cup {x}) \in Nat
         /\ Cardinality(S \cup {x}) <= Cardinality(S) + 1
<1>1. IsFiniteSet(S \cup {x}) /\ Cardinality(S \cup {x}) \in {Cardinality(S), Cardinality(S) + 1}
  BY FS_AddElement
<1>2. Cardinality(S) \in Nat
  BY FS_CardinalityType
<1> QED BY <1>1, <1>2

LEMMA Exchanged ==
  ASSUME NEW S, IsFiniteSet(S), NEW r \in S, NEW x, x \notin S
  PROVE  Cardinality((S \ {r}) \cup {x}) = Cardinality(S)
<1>1. IsFiniteSet(S \ {r}) /\ Cardinality(S \ {r}) = Cardinality(S) - 1
  BY FS_RemoveElement
<1>2. Cardinality((S \ {r}) \cup {x}) = Cardinality(S \ {r}) + 1
  BY <1>1, FS_AddElement
<1> QED BY <1>1, <1>2, FS_CardinalityType

(* The least and the greatest of a finite set of integers. *)
LEMMA LeastInt ==
  ASSUME NEW S, S \subseteq Int, S # {}, NEW b \in Int, \A n \in S : b <= n
  PROVE  Min(S) \in S /\ \A n \in S : Min(S) <= n
<1> DEFINE T == {n - b : n \in S}
<1>1. T \subseteq Nat /\ T # {}
  <2>1. \A n \in S : n - b \in Nat
    OBVIOUS
  <2>2. PICK n \in S : TRUE
    OBVIOUS
  <2>3. n - b \in T
    OBVIOUS
  <2> QED BY <2>1, <2>3
<1>2. PICK m \in T : \A n \in T : m <= n
  <2> HIDE DEF T
  <2> QED BY <1>1, LeastOf
<1>3. m + b \in S /\ \A n \in S : m + b <= n
  <2>1. PICK x \in S : m = x - b
    OBVIOUS
  <2>2. ASSUME NEW n \in S PROVE m + b <= n
    <3>1. n - b \in T /\ n \in Int
      OBVIOUS
    <3>2. m <= n - b
      <4> HIDE DEF T
      <4> QED BY <1>2, <3>1
    <3> QED BY <2>1, <3>1, <3>2
  <2> QED BY <2>1, <2>2
<1> QED BY <1>3 DEF Min

LEMMA LeastNat ==
  ASSUME NEW S, S \subseteq Nat, S # {}
  PROVE  Min(S) \in S /\ \A n \in S : Min(S) <= n
BY LeastOf DEF Min

(* A sequence without one of its elements. *)
LEMMA RemoveAtElements ==
  ASSUME NEW S, NEW s \in Seq(S), NEW i \in 1..Len(s)
  PROVE  /\ RemoveAt(s, i) \in Seq(S)
         /\ Len(RemoveAt(s, i)) = Len(s) - 1
         /\ \A k \in 1..(Len(s) - 1) :
              RemoveAt(s, i)[k] = IF k < i THEN s[k] ELSE s[k + 1]
<1> DEFINE front == SubSeq(s, 1, i - 1)
           back == SubSeq(s, i + 1, Len(s))
<1>1. Len(s) \in Nat /\ front \in Seq(S) /\ back \in Seq(S)
  OBVIOUS
<1>2. Len(front) = i - 1 /\ \A k \in 1..(i - 1) : front[k] = s[k]
  OBVIOUS
<1>3. Len(back) = Len(s) - i /\ \A k \in 1..(Len(s) - i) : back[k] = s[i + k]
  OBVIOUS
<1> HIDE DEF front, back
<1>4. /\ front \o back \in Seq(S) /\ Len(front \o back) = Len(s) - 1
      /\ \A k \in 1..(Len(s) - 1) :
           (front \o back)[k] = IF k < i THEN front[k] ELSE back[k - (i - 1)]
  BY <1>1, <1>2, <1>3
<1>5. ASSUME NEW k \in 1..(Len(s) - 1)
      PROVE  (front \o back)[k] = IF k < i THEN s[k] ELSE s[k + 1]
  <2>1. CASE k < i
    BY <1>2, <1>4, <2>1
  <2>2. CASE ~(k < i)
    <3>1. k - (i - 1) \in 1..(Len(s) - i) /\ i + (k - (i - 1)) = k + 1
      BY <1>1, <2>2
    <3> QED BY <1>1, <1>3, <1>4, <2>2, <3>1
  <2> QED BY <2>1, <2>2
<1> QED BY <1>4, <1>5 DEF RemoveAt, front, back

LEMMA RemoveAtInjective ==
  ASSUME NEW S, NEW s \in Seq(S), IsInjective(s), NEW i \in 1..Len(s)
  PROVE  /\ IsInjective(RemoveAt(s, i))
         /\ Range(RemoveAt(s, i)) = Range(s) \ {s[i]}
<1> DEFINE t == RemoveAt(s, i)
<1>1. /\ t \in Seq(S) /\ Len(t) = Len(s) - 1
      /\ \A k \in 1..(Len(s) - 1) : t[k] = IF k < i THEN s[k] ELSE s[k + 1]
  BY RemoveAtElements
<1>2. DOMAIN t = 1..(Len(s) - 1) /\ DOMAIN s = 1..Len(s) /\ Len(s) \in Nat
  BY <1>1
<1> HIDE DEF t
<1>3. IsInjective(t)
  BY <1>1, <1>2 DEF IsInjective
<1>4. ASSUME NEW k \in DOMAIN t PROVE t[k] \in Range(s) \ {s[i]}
  <2>1. PICK j \in DOMAIN s : j # i /\ t[k] = s[j]
    <3>1. CASE k < i
      BY <1>1, <1>2, <3>1
    <3>2. CASE k >= i
      <4>1. k + 1 \in DOMAIN s /\ k + 1 # i
        BY <1>2, <3>2
      <4> QED BY <1>1, <1>2, <3>2, <4>1
    <3> QED BY <1>2, <3>1, <3>2
  <2> QED BY <1>2, <2>1 DEF IsInjective, Range
<1>5. ASSUME NEW k \in DOMAIN s, k # i PROVE s[k] \in Range(t)
  <2>1. CASE k < i
    BY <1>1, <1>2, <2>1 DEF Range
  <2>2. CASE k > i
    <3>1. k - 1 \in DOMAIN t /\ t[k - 1] = s[k]
      BY <1>1, <1>2, <2>2
    <3> QED BY <3>1 DEF Range
  <2> QED BY <1>2, <1>5, <2>1, <2>2
<1>6. Range(t) = Range(s) \ {s[i]}
  BY <1>2, <1>4, <1>5 DEF Range
<1> QED BY <1>3, <1>6 DEF t

LEMMA AppendElements ==
  ASSUME NEW S, NEW s \in Seq(S), NEW x \in S, IsInjective(s), x \notin Range(s),
         NEW t, t = Append(s, x)
  PROVE  IsInjective(t) /\ Range(t) = Range(s) \cup {x}
<1>1. /\ DOMAIN t = 1..(Len(s) + 1) /\ DOMAIN s = 1..Len(s) /\ Len(s) \in Nat
      /\ \A k \in 1..Len(s) : t[k] = s[k]
      /\ t[Len(s) + 1] = x
  OBVIOUS
<1>2. \A k \in DOMAIN t : k \in DOMAIN s \/ k = Len(s) + 1
  BY <1>1
<1>3. \A k \in DOMAIN s : k \in DOMAIN t /\ t[k] = s[k] /\ s[k] \in Range(s)
  BY <1>1 DEF Range
<1>4. IsInjective(t)
  BY <1>1, <1>2, <1>3 DEF IsInjective
<1>5. Range(t) = Range(s) \cup {x}
  <2>1. \A k \in DOMAIN t : t[k] \in Range(s) \cup {x}
    BY <1>1, <1>2, <1>3
  <2>2. \A k \in DOMAIN s : s[k] \in Range(t)
    BY <1>3 DEF Range
  <2>3. x \in Range(t)
    <3>1. Len(s) + 1 \in DOMAIN t
      BY <1>1
    <3> QED BY <1>1, <3>1 DEF Range
  <2> QED BY <2>1, <2>2, <2>3 DEF Range
<1> QED BY <1>4, <1>5

(* As many as it is long. *)
LEMMA InjectiveCount ==
  ASSUME NEW n \in Nat, NEW f, DOMAIN f = 1..n, f = [k \in 1..n |-> f[k]], IsInjective(f)
  PROVE  IsFiniteSet(Range(f)) /\ Cardinality(Range(f)) = n
<1>1. f \in Bijection(1..n, Range(f))
  BY DEF Bijection, Injection, Surjection, IsInjective, Range
<1>2. ExistsBijection(1..n, Range(f))
  BY <1>1 DEF ExistsBijection
<1>3. IsFiniteSet(1..n) /\ Cardinality(1..n) = n
  BY FS_Interval
<1> QED BY <1>2, <1>3, FS_Bijection

(* The elements of a finite set, in any order. *)
LEMMA SetToSeqsElements ==
  ASSUME NEW S, IsFiniteSet(S), NEW s \in SetToSeqs(S)
  PROVE  s \in Seq(S) /\ IsInjective(s) /\ Range(s) = S
<1>1. Cardinality(S) \in Nat /\ Cardinality(1..Cardinality(S)) = Cardinality(S)
  BY FS_CardinalityType, FS_Interval
<1>2. s \in [1..Cardinality(S) -> S] /\ IsInjective(s)
  BY DEF SetToSeqs, IsInjective
<1>3. s \in Injection(1..Cardinality(S), S)
  BY <1>2 DEF Injection, IsInjective
<1>4. s \in Surjection(1..Cardinality(S), S)
  BY <1>1, <1>3, FS_Injection
<1> QED BY <1>1, <1>2, <1>4 DEF Surjection, Range

(* The elements of a finite set, in some order. *)
LEMMA SetToSeqElements ==
  ASSUME NEW S, IsFiniteSet(S)
  PROVE  /\ SetToSeq(S) \in Seq(S)
         /\ IsInjective(SetToSeq(S)) /\ Range(SetToSeq(S)) = S
<1>1. PICK f \in Bijection(1..Cardinality(S), S) : TRUE
  BY FS_CardinalityType DEF ExistsBijection
<1>2. f \in [1..Cardinality(S) -> S] /\ IsInjective(f)
  BY DEF Bijection, Injection
<1> DEFINE g == SetToSeq(S)
<1>3. g \in [1..Cardinality(S) -> S] /\ IsInjective(g)
  BY <1>2 DEF SetToSeq
<1> HIDE DEF g
<1>4. g \in Injection(1..Cardinality(S), S)
  BY <1>3 DEF Injection
<1>5. Cardinality(S) \in Nat /\ Cardinality(1..Cardinality(S)) = Cardinality(S)
  BY FS_CardinalityType, FS_Interval
<1>6. g \in Surjection(1..Cardinality(S), S)
  BY <1>4, <1>5, FS_Injection
<1>7. Range(g) = S
  BY <1>6 DEF Surjection, Range
<1> QED BY <1>3, <1>5, <1>7 DEF g

(* Of a finite set that is not empty, the one with the greatest f. *)
LEMMA GreatestImage ==
  ASSUME NEW S, IsFiniteSet(S), S # {}, NEW f \in [S -> Nat]
  PROVE  \E x \in S : \A z \in S : f[z] <= f[x]
<1> DEFINE W == {T \in SUBSET S : T # {} => \E x \in T : \A z \in T : f[z] <= f[x]}
<1>1. {} \in W
  OBVIOUS
<1>2. ASSUME NEW T \in SUBSET S, NEW x \in S \ T, T \in W PROVE T \cup {x} \in W
  <2>1. CASE T = {}
    <3>1. T \cup {x} = {x} /\ f[x] \in Nat
      BY <2>1
    <3> QED BY <3>1
  <2>2. CASE T # {}
    <3>1. PICK y \in T : \A z \in T : f[z] <= f[y]
      BY <1>2, <2>2
    <3>2. f[x] \in Nat /\ f[y] \in Nat /\ \A z \in T : f[z] \in Nat
      OBVIOUS
    <3>3. CASE f[x] <= f[y]
      BY <3>1, <3>3
    <3>4. CASE ~(f[x] <= f[y])
      <4>1. \A z \in T \cup {x} : f[z] <= f[x]
        BY <3>1, <3>2, <3>4
      <4> QED BY <4>1
    <3> QED BY <3>3, <3>4
  <2> QED BY <2>1, <2>2
<1>3. S \in W
  <2> HIDE DEF W
  <2> QED BY <1>1, <1>2, FiniteSetInduction
<1> QED BY <1>3

LEMMA GreatestNat ==
  ASSUME NEW S, IsFiniteSet(S), S \subseteq Nat, S # {}
  PROVE  Max(S) \in S /\ \A n \in S : n <= Max(S)
<1> DEFINE f == [n \in S |-> n]
<1>1. f \in [S -> Nat] /\ \A n \in S : f[n] = n
  OBVIOUS
<1> HIDE DEF f
<1>2. PICK x \in S : \A n \in S : f[n] <= f[x]
  BY <1>1, GreatestImage
<1>3. \E y \in S : \A n \in S : y >= n
  BY <1>1, <1>2
<1> QED BY <1>3 DEF Max

(* The elements of a finite set can be put in the order of a number each has. *)
LEMMA InOrder ==
  ASSUME NEW S, IsFiniteSet(S), NEW f \in [S -> Nat]
  PROVE  \E s \in SetToSeqs(S) : \A i, j \in DOMAIN s : i < j => f[s[i]] <= f[s[j]]
<1> DEFINE Goes(s) == \A i, j \in DOMAIN s : i < j => f[s[i]] <= f[s[j]]
           W == {n \in Nat : \A T \in SUBSET S : Cardinality(T) = n =>
                               \E s \in SetToSeqs(T) : Goes(s)}
<1>1. 0 \in W
  <2> SUFFICES ASSUME NEW T \in SUBSET S, Cardinality(T) = 0
               PROVE  \E s \in SetToSeqs(T) : Goes(s)
    OBVIOUS
  <2>1. T = {}
    BY FS_Subset, FS_EmptySet
  <2> DEFINE s == [i \in 1..0 |-> i]
  <2>2. s \in SetToSeqs(T) /\ Goes(s)
    BY <2>1 DEF SetToSeqs
  <2> QED BY <2>2
<1>2. ASSUME NEW n \in Nat, n \in W PROVE n + 1 \in W
  <2> SUFFICES ASSUME NEW T \in SUBSET S, Cardinality(T) = n + 1
               PROVE  \E s \in SetToSeqs(T) : Goes(s)
    OBVIOUS
  <2>1. IsFiniteSet(T) /\ T # {}
    BY FS_Subset, FS_EmptySet
  <2>2. PICK x \in T : \A z \in T : f[z] <= f[x]
    <3> DEFINE h == [z \in T |-> f[z]]
    <3>1. h \in [T -> Nat]
      OBVIOUS
    <3>2. PICK x \in T : \A z \in T : h[z] <= h[x]
      <4> HIDE DEF h
      <4> QED BY <2>1, <3>1, GreatestImage
    <3> QED BY <3>2
  <2>3. Cardinality(T \ {x}) = n
    <3>1. Cardinality(T \ {x}) = Cardinality(T) - 1
      <4> HIDE DEF W, Goes
      <4> QED BY <2>1, FS_RemoveElement
    <3> QED BY <3>1
  <2>4. PICK s \in SetToSeqs(T \ {x}) : Goes(s)
    BY <1>2, <2>3
  <2>5. s \in [1..n -> T \ {x}] /\ \A i, j \in 1..n : i # j => s[i] # s[j]
    BY <2>3, <2>4 DEF SetToSeqs
  <2> DEFINE t == [i \in 1..(n + 1) |-> IF i <= n THEN s[i] ELSE x]
  <2>6. /\ t \in [1..(n + 1) -> T]
        /\ \A i \in 1..n : t[i] = s[i] /\ s[i] \in T \ {x}
        /\ t[n + 1] = x
        /\ \A i \in 1..(n + 1) : i \in 1..n \/ i = n + 1
    BY <2>5
  <2> HIDE DEF t
  <2>7. \A i, j \in 1..(n + 1) : i # j => t[i] # t[j]
    BY <2>5, <2>6
  <2>8. t \in SetToSeqs(T)
    BY <2>6, <2>7 DEF SetToSeqs
  <2>9. ASSUME NEW i \in 1..(n + 1), NEW j \in 1..(n + 1), i < j PROVE f[t[i]] <= f[t[j]]
    <3>1. i \in 1..n
      BY <2>9
    <3>2. CASE j \in 1..n
      BY <2>4, <2>5, <2>6, <2>9, <3>1, <3>2
    <3>3. CASE j = n + 1
      BY <2>2, <2>6, <3>1, <3>3
    <3> QED BY <2>6, <3>2, <3>3
  <2> QED BY <2>6, <2>8, <2>9
<1>3. Cardinality(S) \in W
  <2> HIDE DEF W
  <2> QED BY <1>1, <1>2, SetInduction, FS_CardinalityType
<1> QED BY <1>3

(* Recursion over the subsets of a finite set that takes a member that     *)
(* pick says off a set at every step, and induction along it.              *)
LEMMA PickInduction ==
  ASSUME NEW S, IsFiniteSet(S), NEW W, NEW pick, {} \in W,
         \A T \in SUBSET S : T # {} => /\ pick[T] \in T
                                       /\ T \ {pick[T]} \in W => T \in W
  PROVE  S \in W
<1> DEFINE Bad == (SUBSET S) \ W
<1> SUFFICES ASSUME Bad # {} PROVE FALSE
  OBVIOUS
<1>1. Bad \subseteq FiniteSubsetsOf(S)
  BY FS_Subset DEF FiniteSubsetsOf
<1>2. PICK T \in Bad : \A y \in Bad : ~ (<<y, T>> \in StrictSubsetOrdering(S))
  <2> HIDE DEF Bad
  <2> QED BY <1>1, FS_StrictSubsetOrderingWellFounded, WFMin
<1>3. T \in SUBSET S /\ T # {} /\ pick[T] \in T /\ T \notin W
  OBVIOUS
<1>4. T \ {pick[T]} \in W
  <2>1. <<T \ {pick[T]}, T>> \in StrictSubsetOrdering(S)
    BY <1>3 DEF StrictSubsetOrdering
  <2>2. T \ {pick[T]} \notin Bad
    BY <1>2, <2>1
  <2> QED BY <1>3, <2>2
<1> QED BY <1>3, <1>4

Recurses(f, S, V, a, pick, F) ==
  /\ f \in [SUBSET S -> V] /\ f[{}] = a
  /\ \A T \in SUBSET S : T # {} => /\ f[T \ {pick[T]}] \in V
                                   /\ f[T] = F[T][f[T \ {pick[T]}]]

LEMMA PickRecursion ==
  ASSUME NEW S, IsFiniteSet(S), NEW V, NEW a \in V, NEW pick,
         \A T \in SUBSET S : T # {} => pick[T] \in T,
         NEW F \in [SUBSET S -> [V -> V]]
  PROVE  \E f : Recurses(f, S, V, a, pick, F)
<1> DEFINE N == Cardinality(S)
           U == [SUBSET S -> V]
           next(g) == [T \in SUBSET S |-> IF T = {} THEN a ELSE F[T][g[T \ {pick[T]}]]]
           G == [n \in 1..N |-> [g \in U |-> next(g)]]
           first == [T \in SUBSET S |-> a]
<1>1. \A T \in SUBSET S : IsFiniteSet(T) /\ Cardinality(T) \in 0..N
  BY FS_Subset, FS_CardinalityType
<1>2. \A T \in SUBSET S : T # {} => /\ T \ {pick[T]} \in SUBSET S
                                    /\ Cardinality(T \ {pick[T]}) = Cardinality(T) - 1
                                    /\ Cardinality(T) \in 1..N
  <2> SUFFICES ASSUME NEW T \in SUBSET S, T # {}
               PROVE  /\ T \ {pick[T]} \in SUBSET S
                      /\ Cardinality(T \ {pick[T]}) = Cardinality(T) - 1
                      /\ Cardinality(T) \in 1..N
    OBVIOUS
  <2>1. Cardinality(T \ {pick[T]}) = Cardinality(T) - 1
    BY <1>1, FS_RemoveElement
  <2>2. Cardinality(T) # 0
    BY <1>1, FS_EmptySet
  <2> HIDE DEF N
  <2> QED BY <1>1, <2>1, <2>2
<1>3. \A g \in U : next(g) \in U
  BY <1>2
<1>4. first \in U /\ N \in Nat
  BY FS_CardinalityType
<1> HIDE DEF next, U, N, first
<1>5. G \in [1..N -> [U -> U]]
  BY <1>3
<1>6. \A n \in 1..N : \A g \in U : G[n][g] = next(g)
  OBVIOUS
<1> HIDE DEF G
<1>7. PICK h : Iterates(h, U, first, N, G)
  BY <1>4, <1>5, Iteration
<1>8. h[0] = first /\ \A n \in 0..N : h[n] \in U
  BY <1>7 DEF Iterates
<1>9. \A n \in 1..N : h[n] = next(h[n - 1])
  BY <1>6, <1>7 DEF Iterates
<1> DEFINE f == [T \in SUBSET S |-> h[Cardinality(T)][T]]
<1>10. f \in [SUBSET S -> V]
  BY <1>1, <1>8 DEF U
<1>11. ASSUME NEW T \in SUBSET S
       PROVE  f[T] = IF T = {} THEN a ELSE F[T][f[T \ {pick[T]}]]
  <2>1. CASE T = {}
    BY <1>8, <2>1, FS_EmptySet DEF first
  <2>2. CASE T # {}
    <3> DEFINE n == Cardinality(T)
               R == T \ {pick[T]}
    <3>1. n \in 1..N /\ R \in SUBSET S /\ Cardinality(R) = n - 1
      BY <1>2, <2>2
    <3>2. h[n] = next(h[n - 1])
      BY <1>9, <3>1
    <3>3. f[T] = h[n][T] /\ f[R] = h[n - 1][R]
      BY <3>1
    <3> HIDE DEF f, n
    <3>4. next(h[n - 1])[T] = F[T][h[n - 1][R]]
      BY <2>2 DEF next
    <3> QED BY <2>2, <3>2, <3>3, <3>4
  <2> QED BY <2>1, <2>2
<1> HIDE DEF f
<1>12. \A T \in SUBSET S : f[T \ {pick[T]}] \in V
  <2>1. \A T \in SUBSET S : T \ {pick[T]} \in SUBSET S
    OBVIOUS
  <2> QED BY <1>10, <2>1
<1>13. f[{}] = a
  BY <1>11
<1> QED BY <1>10, <1>11, <1>12, <1>13 DEF Recurses

(* Functions between finite sets. *)
LEMMA FunctionsFinite ==
  ASSUME NEW S, IsFiniteSet(S), NEW T, IsFiniteSet(T)
  PROVE  IsFiniteSet([S -> T])
<1> DEFINE graph(f) == {e \in S \X T : f[e[1]] = e[2]}
           g == [f \in [S -> T] |-> graph(f)]
<1>1. IsFiniteSet(SUBSET (S \X T))
  BY FS_Product, FS_SUBSET
<1>2. ASSUME NEW f \in [S -> T], NEW h \in [S -> T], graph(f) = graph(h)
      PROVE  f = h
  <2>1. ASSUME NEW x \in S PROVE f[x] = h[x]
    <3>1. <<x, f[x]>> \in graph(f)
      OBVIOUS
    <3>2. <<x, f[x]>> \in graph(h)
      BY <1>2, <3>1
    <3> QED BY <3>2
  <2>2. f = [x \in S |-> f[x]] /\ h = [x \in S |-> h[x]]
    OBVIOUS
  <2> QED BY <2>1, <2>2
<1>3. g \in [[S -> T] -> SUBSET (S \X T)]
  OBVIOUS
<1>4. \A f, h \in [S -> T] : g[f] = g[h] => f = h
  <2> SUFFICES ASSUME NEW f \in [S -> T], NEW h \in [S -> T], g[f] = g[h] PROVE f = h
    OBVIOUS
  <2>1. graph(f) = graph(h)
    OBVIOUS
  <2> QED BY <1>2, <2>1
<1> HIDE DEF g
<1>5. g \in Injection([S -> T], SUBSET (S \X T))
  BY <1>3, <1>4 DEF Injection, IsInjective
<1> QED BY <1>1, <1>5, FS_Injection
=============================================================================
