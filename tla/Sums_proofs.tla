----------------------------- MODULE Sums_proofs -----------------------------
(***************************************************************************)
(* What sums over finite sets do when an element enters, leaves or changes *)
(* its value, or are summed in another order: the lemmas behind the        *)
(* accounting invariants; and what the numberings of Listings are.         *)
(***************************************************************************)
EXTENDS Sums, Listings, FiniteSetTheorems, SequenceTheorems, WellFoundedInduction, TLAPS

LEMMA UnitsOfOne ==
  ASSUME NEW x, NEW n \in Nat
  PROVE  IsFiniteSet({x} \X (1..n)) /\ Cardinality({x} \X (1..n)) = n
<1>1. IsFiniteSet({x}) /\ Cardinality({x}) = 1
  BY FS_Singleton
<1>2. IsFiniteSet(1..n) /\ Cardinality(1..n) = n
  BY FS_Interval
<1>3. /\ IsFiniteSet({x} \X (1..n))
      /\ Cardinality({x} \X (1..n)) = Cardinality({x}) * Cardinality(1..n)
  BY <1>1, <1>2, FS_Product
<1>4. QED
  BY <1>1, <1>2, <1>3

(* A sum of naturals over a finite set is a natural. *)
LEMMA SumType ==
  ASSUME NEW S, IsFiniteSet(S), NEW f, \A x \in S : f[x] \in Nat
  PROVE  IsFiniteSet(Units(f, S)) /\ SumOver(f, S) \in Nat
<1> DEFINE T == {{x} \X (1..f[x]) : x \in S}
           g == [x \in S |-> {x} \X (1..f[x])]
<1>1. g \in Surjection(S, T)
  BY DEF Surjection
<1>2. IsFiniteSet(T)
  BY <1>1, FS_Surjection
<1>3. ASSUME NEW u \in T PROVE IsFiniteSet(u)
  <2>1. PICK x \in S : u = {x} \X (1..f[x])
    OBVIOUS
  <2>2. f[x] \in Nat
    OBVIOUS
  <2>3. IsFiniteSet({x} \X (1..f[x]))
    BY <2>2, UnitsOfOne
  <2>4. QED
    BY <2>1, <2>3
<1>4. IsFiniteSet(UNION T)
  BY <1>2, <1>3, FS_UNION
<1>5. IsFiniteSet(Units(f, S))
  BY <1>4 DEF Units
<1>6. QED
  BY <1>5, FS_CardinalityType DEF SumOver

LEMMA SumEmpty ==
  ASSUME NEW f PROVE SumOver(f, {}) = 0
<1>1. Units(f, {}) = {}
  BY DEF Units
<1>2. QED
  BY <1>1, FS_EmptySet DEF SumOver

(* The sum depends on nothing but the values at the elements. *)
LEMMA SumSame ==
  ASSUME NEW S, NEW f, NEW g, \A x \in S : f[x] = g[x]
  PROVE  SumOver(f, S) = SumOver(g, S)
<1>1. Units(f, S) = Units(g, S)
  BY DEF Units
<1>2. QED
  BY <1>1 DEF SumOver

LEMMA SumInsert ==
  ASSUME NEW S, IsFiniteSet(S), NEW f, NEW x, x \notin S,
         \A y \in S \cup {x} : f[y] \in Nat
  PROVE  SumOver(f, S \cup {x}) = SumOver(f, S) + f[x]
<1> DEFINE P == {x} \X (1..f[x])
<1>1. Units(f, S \cup {x}) = Units(f, S) \cup P
  BY DEF Units
<1>2. Units(f, S) \cap P = {}
  BY DEF Units
<1>3. IsFiniteSet(Units(f, S)) /\ SumOver(f, S) \in Nat
  BY SumType
<1>4. IsFiniteSet(P) /\ Cardinality(P) = f[x]
  BY UnitsOfOne
<1>5. Cardinality(Units(f, S) \cup P)
        = Cardinality(Units(f, S)) + Cardinality(P) - Cardinality(Units(f, S) \cap P)
  BY <1>3, <1>4, FS_Union
<1>6. Cardinality(Units(f, S) \cap P) = 0
  BY <1>2, FS_EmptySet
<1>7. SumOver(f, S \cup {x}) = SumOver(f, S) + Cardinality(P) - 0
  BY <1>1, <1>5, <1>6 DEF SumOver
<1>8. f[x] \in Nat
  OBVIOUS
<1>9. QED
  BY <1>3, <1>4, <1>7, <1>8

(* A sum of ones counts. *)
LEMMA CountIsSum ==
  ASSUME NEW S, IsFiniteSet(S), NEW f, \A i \in S : f[i] = 1
  PROVE  SumOver(f, S) = Cardinality(S)
<1>1. Units(f, S) = S \X (1..1)
  BY DEF Units
<1>2. IsFiniteSet(1..1) /\ Cardinality(1..1) = 1
  <2>1. 1..1 = {1}
    OBVIOUS
  <2>2. IsFiniteSet({1}) /\ Cardinality({1}) = 1
    BY FS_Singleton
  <2>3. QED
    BY <2>1, <2>2
<1>3. Cardinality(S \X (1..1)) = Cardinality(S) * Cardinality(1..1)
  BY <1>2, FS_Product
<1>4. Cardinality(S) \in Nat
  BY FS_CardinalityType
<1>5. QED
  BY <1>1, <1>2, <1>3, <1>4 DEF SumOver

(* One element taken apart from the rest. *)
LEMMA SumSplit ==
  ASSUME NEW S, IsFiniteSet(S), NEW f, NEW x \in S, \A y \in S : f[y] \in Nat
  PROVE  /\ SumOver(f, S) = SumOver(f, S \ {x}) + f[x]
         /\ SumOver(f, S \ {x}) \in Nat
         /\ f[x] <= SumOver(f, S)
<1>1. IsFiniteSet(S \ {x})
  BY FS_RemoveElement
<1>2. (S \ {x}) \cup {x} = S
  OBVIOUS
<1>3. SumOver(f, (S \ {x}) \cup {x}) = SumOver(f, S \ {x}) + f[x]
  BY <1>1, <1>2, SumInsert
<1>4. SumOver(f, S \ {x}) \in Nat
  BY <1>1, SumType
<1>5. f[x] \in Nat
  OBVIOUS
<1>6. SumOver(f, S) = SumOver(f, S \ {x}) + f[x]
  BY <1>2, <1>3
<1>7. QED
  BY <1>4, <1>5, <1>6

(* One element changes its value, the others keep theirs. *)
LEMMA SumChange ==
  ASSUME NEW S, IsFiniteSet(S), NEW f, NEW g, NEW x \in S,
         \A y \in S : f[y] \in Nat /\ g[y] \in Nat,
         \A y \in S : y # x => g[y] = f[y]
  PROVE  SumOver(g, S) = SumOver(f, S) - f[x] + g[x]
<1>1. SumOver(f, S \ {x}) = SumOver(g, S \ {x})
  <2>1. \A y \in S \ {x} : f[y] = g[y]
    OBVIOUS
  <2>2. QED
    BY <2>1, SumSame
<1>2. SumOver(f, S) = SumOver(f, S \ {x}) + f[x] /\ SumOver(f, S \ {x}) \in Nat
  BY SumSplit
<1>3. SumOver(g, S) = SumOver(g, S \ {x}) + g[x]
  BY SumSplit
<1>4. QED
  BY <1>1, <1>2, <1>3

(* A new element joins, whatever the function was outside of S before. *)
LEMMA SumExtend ==
  ASSUME NEW S, IsFiniteSet(S), NEW f, NEW g, NEW x, x \notin S,
         \A y \in S : f[y] \in Nat /\ g[y] = f[y], g[x] \in Nat
  PROVE  SumOver(g, S \cup {x}) = SumOver(f, S) + g[x]
<1>1. SumOver(g, S \cup {x}) = SumOver(g, S) + g[x]
  <2>1. \A y \in S \cup {x} : g[y] \in Nat
    OBVIOUS
  <2>2. QED
    BY <2>1, SumInsert
<1>2. SumOver(f, S) = SumOver(g, S)
  <2>1. \A y \in S : f[y] = g[y]
    OBVIOUS
  <2>2. QED
    BY <2>1, SumSame
<1>3. QED
  BY <1>1, <1>2

(***************************************************************************)
(* The sum of a sum: the units of h that are not units of f correspond one *)
(* to one to the units of g.                                               *)
(***************************************************************************)
LEMMA SumAdd ==
  ASSUME NEW S, IsFiniteSet(S), NEW f, NEW g, NEW h,
         \A x \in S : f[x] \in Nat /\ g[x] \in Nat /\ h[x] = f[x] + g[x]
  PROVE  SumOver(h, S) = SumOver(f, S) + SumOver(g, S)
<1> DEFINE Rest  == Units(h, S) \ Units(f, S)
           shift == [u \in Units(g, S) |-> <<u[1], u[2] + f[u[1]]>>]
<1>1. IsFiniteSet(Units(f, S)) /\ IsFiniteSet(Units(g, S)) /\ IsFiniteSet(Units(h, S))
  <2>1. \A x \in S : f[x] \in Nat /\ g[x] \in Nat /\ h[x] \in Nat
    OBVIOUS
  <2>2. QED
    BY <2>1, SumType
<1>2. \A u : u \in Rest <=>
         \E x \in S, k \in Nat :
           f[x] < k /\ k <= f[x] + g[x] /\ u = <<x, k>>
  BY DEF Units
<1>3. \A u : u \in Units(g, S) <=>
         \E x \in S, k \in Nat : 0 < k /\ k <= g[x] /\ u = <<x, k>>
  BY DEF Units
<1>4. shift \in [Units(g, S) -> Rest]
  <2> SUFFICES ASSUME NEW u \in Units(g, S) PROVE <<u[1], u[2] + f[u[1]]>> \in Rest
    OBVIOUS
  <2>1. PICK x \in S, k \in Nat : 0 < k /\ k <= g[x] /\ u = <<x, k>>
    BY <1>3
  <2>2. f[x] \in Nat /\ g[x] \in Nat
    OBVIOUS
  <2>3. k + f[x] \in Nat /\ f[x] < k + f[x] /\ k + f[x] <= f[x] + g[x]
    BY <2>1, <2>2
  <2>4. QED
    BY <1>2, <2>1, <2>3
<1>5. \A u, v \in Units(g, S) : shift[u] = shift[v] => u = v
  <2> SUFFICES ASSUME NEW u \in Units(g, S), NEW v \in Units(g, S), shift[u] = shift[v]
               PROVE  u = v
    OBVIOUS
  <2>1. PICK x \in S, k \in Nat : 0 < k /\ k <= g[x] /\ u = <<x, k>>
    BY <1>3
  <2>2. PICK y \in S, n \in Nat : 0 < n /\ n <= g[y] /\ v = <<y, n>>
    BY <1>3
  <2>3. <<x, k + f[x]>> = <<y, n + f[y]>>
    BY <2>1, <2>2
  <2>4. x = y /\ k + f[x] = n + f[x] /\ f[x] \in Nat
    BY <2>3
  <2>5. k = n
    BY <2>4
  <2>6. QED
    BY <2>1, <2>2, <2>4, <2>5
<1>6. \A w \in Rest : \E u \in Units(g, S) : shift[u] = w
  <2> SUFFICES ASSUME NEW w \in Rest PROVE \E u \in Units(g, S) : shift[u] = w
    OBVIOUS
  <2>1. PICK x \in S, k \in Nat : f[x] < k /\ k <= f[x] + g[x] /\ w = <<x, k>>
    BY <1>2
  <2>2. f[x] \in Nat /\ g[x] \in Nat
    OBVIOUS
  <2>3. /\ k - f[x] \in Nat /\ 0 < k - f[x] /\ k - f[x] <= g[x]
        /\ (k - f[x]) + f[x] = k
    BY <2>1, <2>2
  <2>4. <<x, k - f[x]>> \in Units(g, S)
    BY <1>3, <2>3
  <2>5. shift[<<x, k - f[x]>>] = w
    BY <2>1, <2>3, <2>4
  <2>6. QED
    BY <2>4, <2>5
<1> HIDE DEF Rest, shift
<1>7. shift \in Bijection(Units(g, S), Rest)
  BY <1>4, <1>5, <1>6 DEF Bijection, Injection, Surjection, IsInjective
<1>8. ExistsBijection(Units(g, S), Rest)
  BY <1>7 DEF ExistsBijection
<1>9. Cardinality(Rest) = Cardinality(Units(g, S))
  BY <1>1, <1>8, FS_Bijection
<1>10. Units(h, S) \cap Units(f, S) = Units(f, S)
  BY DEF Units
<1>11. Cardinality(Rest) = Cardinality(Units(h, S)) - Cardinality(Units(f, S))
  <2>1. Cardinality(Units(h, S) \ Units(f, S))
          = Cardinality(Units(h, S)) - Cardinality(Units(h, S) \cap Units(f, S))
    BY <1>1, FS_Difference
  <2>2. QED
    BY <1>10, <2>1 DEF Rest
<1>12. /\ Cardinality(Units(f, S)) \in Nat /\ Cardinality(Units(h, S)) \in Nat
       /\ Cardinality(Units(g, S)) \in Nat
  BY <1>1, FS_CardinalityType
<1>13. QED
  BY <1>9, <1>11, <1>12 DEF SumOver

(* Elements without a value do not count. *)
LEMMA SumDropZeros ==
  ASSUME NEW S, NEW T, T \subseteq S, NEW f,
         \A x \in S \ T : f[x] = 0
  PROVE  SumOver(f, T) = SumOver(f, S)
<1>1. \A x \in S \ T : 1..f[x] = {}
  OBVIOUS
<1>2. Units(f, T) = Units(f, S)
  BY <1>1 DEF Units
<1>3. QED
  BY <1>2 DEF SumOver

LEMMA SumDisjoint ==
  ASSUME NEW S, NEW T, IsFiniteSet(S), IsFiniteSet(T), S \cap T = {}, NEW f,
         \A x \in S \cup T : f[x] \in Nat
  PROVE  SumOver(f, S \cup T) = SumOver(f, S) + SumOver(f, T)
<1>1. Units(f, S \cup T) = Units(f, S) \cup Units(f, T)
  BY DEF Units
<1>2. Units(f, S) \cap Units(f, T) = {}
  BY DEF Units
<1>3. /\ IsFiniteSet(Units(f, S)) /\ SumOver(f, S) \in Nat
      /\ IsFiniteSet(Units(f, T)) /\ SumOver(f, T) \in Nat
  BY SumType
<1>4. Cardinality(Units(f, S) \cup Units(f, T))
        = Cardinality(Units(f, S)) + Cardinality(Units(f, T))
          - Cardinality(Units(f, S) \cap Units(f, T))
  BY <1>3, FS_Union
<1>5. Cardinality(Units(f, S) \cap Units(f, T)) = 0
  BY <1>2, FS_EmptySet
<1>6. SumOver(f, S \cup T) = SumOver(f, S) + SumOver(f, T) - 0
  BY <1>1, <1>4, <1>5 DEF SumOver
<1>7. QED
  BY <1>3, <1>6

(* A sum does not change when its elements are numbered anew. *)
LEMMA SumReindex ==
  ASSUME NEW A, NEW B, IsFiniteSet(A), NEW pi \in Bijection(A, B), NEW f, NEW g,
         \A b \in B : f[b] \in Nat, \A a \in A : g[a] = f[pi[a]]
  PROVE  SumOver(g, A) = SumOver(f, B)
<1> DEFINE move == [u \in Units(g, A) |-> <<pi[u[1]], u[2]>>]
<1>1. /\ pi \in [A -> B]
      /\ \A a, c \in A : pi[a] = pi[c] => a = c
      /\ \A b \in B : \E a \in A : pi[a] = b
  BY DEF Bijection, Injection, Surjection, IsInjective
<1>2. \A u : u \in Units(g, A) <=> \E a \in A, k \in Nat : k \in 1..g[a] /\ u = <<a, k>>
  BY DEF Units
<1>3. \A u : u \in Units(f, B) <=> \E b \in B, k \in Nat : k \in 1..f[b] /\ u = <<b, k>>
  BY DEF Units
<1>4. move \in [Units(g, A) -> Units(f, B)]
  <2> SUFFICES ASSUME NEW u \in Units(g, A) PROVE <<pi[u[1]], u[2]>> \in Units(f, B)
    OBVIOUS
  <2>1. PICK a \in A, k \in Nat : k \in 1..g[a] /\ u = <<a, k>>
    BY <1>2
  <2>2. pi[a] \in B /\ k \in 1..f[pi[a]] /\ u[1] = a /\ u[2] = k
    BY <1>1, <2>1
  <2>3. QED
    BY <1>3, <2>2
<1>5. \A u, w \in Units(g, A) : move[u] = move[w] => u = w
  <2> SUFFICES ASSUME NEW u \in Units(g, A), NEW w \in Units(g, A), move[u] = move[w]
               PROVE  u = w
    OBVIOUS
  <2>1. PICK a \in A, k \in Nat : k \in 1..g[a] /\ u = <<a, k>>
    BY <1>2
  <2>2. PICK c \in A, n \in Nat : n \in 1..g[c] /\ w = <<c, n>>
    BY <1>2
  <2>3. move[u] = <<pi[a], k>> /\ move[w] = <<pi[c], n>>
    BY <2>1, <2>2
  <2>4. pi[a] = pi[c] /\ k = n
    BY <2>3
  <2>5. QED
    BY <1>1, <2>1, <2>2, <2>4
<1>6. \A w \in Units(f, B) : \E u \in Units(g, A) : move[u] = w
  <2> SUFFICES ASSUME NEW w \in Units(f, B) PROVE \E u \in Units(g, A) : move[u] = w
    OBVIOUS
  <2>1. PICK b \in B, k \in Nat : k \in 1..f[b] /\ w = <<b, k>>
    BY <1>3
  <2>2. PICK a \in A : pi[a] = b
    BY <1>1
  <2>3. <<a, k>> \in Units(g, A)
    BY <1>2, <2>1, <2>2
  <2>4. move[<<a, k>>] = w
    BY <2>1, <2>2, <2>3
  <2>5. QED
    BY <2>3, <2>4
<1> HIDE DEF move
<1>7. move \in Bijection(Units(g, A), Units(f, B))
  BY <1>4, <1>5, <1>6 DEF Bijection, Injection, Surjection, IsInjective
<1>8. IsFiniteSet(Units(g, A))
  <2>1. \A a \in A : g[a] \in Nat
    BY <1>1
  <2>2. QED
    BY <2>1, SumType
<1>9. QED
  BY <1>7, <1>8, FS_Bijection DEF ExistsBijection, SumOver

-----------------------------------------------------------------------------
(* Induction: every non-empty set of naturals has a least element, and a    *)
(* bounded one a greatest.                                                  *)
Ascents == {p \in Nat \X Nat : p[1] < p[2]}

LEMMA LeastNat ==
  ASSUME NEW T, T \subseteq Nat, T # {}
  PROVE  \E x \in T : \A y \in T : x <= y
<1>1. OpToRel(<, Nat) = Ascents
  BY DEF OpToRel, Ascents
<1>2. IsWellFoundedOn(Ascents, Nat)
  BY <1>1, NatLessThanWellFounded
<1>3. PICK x \in T : \A y \in T : ~ (<<y, x>> \in Ascents)
  BY <1>2, WFMin
<1>4. ASSUME NEW y \in T PROVE x <= y
  <2>1. x \in Nat /\ y \in Nat /\ <<y, x>> \notin Ascents
    BY <1>3
  <2>2. <<y, x>> \in Nat \X Nat
    BY <2>1
  <2>3. ~ (y < x)
    BY <2>1, <2>2 DEF Ascents
  <2>4. QED
    BY <2>1, <2>3
<1>5. QED
  BY <1>4

(* Induction up to a bound: what holds of 0, and of n when it does of       *)
(* n - 1, holds of all.                                                     *)
LEMMA Climb ==
  ASSUME NEW N \in Nat, NEW good, 0 \in good, \A n \in 1..N : n - 1 \in good => n \in good
  PROVE  \A n \in 0..N : n \in good
<1> DEFINE bad == {n \in 0..N : n \notin good}
<1>1. SUFFICES ASSUME bad # {} PROVE FALSE
  OBVIOUS
<1>2. PICK m \in bad : \A n \in bad : m <= n
  <2>1. bad \subseteq Nat
    OBVIOUS
  <2> HIDE DEF bad
  <2>2. QED
    BY <1>1, <2>1, LeastNat
<1>3. m \in 1..N /\ m - 1 \in 0..N /\ ~ (m <= m - 1)
  OBVIOUS
<1>4. m - 1 \in good
  BY <1>2, <1>3
<1>5. QED
  BY <1>3, <1>4

Itself == [k \in Nat |-> k]

(* Twice the sum of n numbers from start on. *)
LEMMA SumOfRun ==
  ASSUME NEW start \in Nat, NEW n \in Nat
  PROVE  2 * SumOver(Itself, start..(start + n - 1)) = n * (2 * start + n - 1)
<1> DEFINE Run(m) == start..(start + m - 1)
           good == {m \in 0..n :
                      /\ SumOver(Itself, Run(m)) \in Nat
                      /\ 2 * SumOver(Itself, Run(m)) = m * (2 * start + m - 1)}
<1>1. 0 \in good
  <2>1. Run(0) = {}
    OBVIOUS
  <2>2. SumOver(Itself, Run(0)) = 0
    BY <2>1, SumEmpty
  <2>3. QED
    BY <2>2
<1>2. ASSUME NEW m \in 1..n, m - 1 \in good PROVE m \in good
  <2> DEFINE S == Run(m - 1)
             x == start + m - 1
  <2>1. Run(m) = S \cup {x} /\ x \notin S /\ x \in Nat /\ S \subseteq Nat
    OBVIOUS
  <2>2. IsFiniteSet(S)
    BY FS_Interval
  <2>3. \A y \in S \cup {x} : Itself[y] \in Nat
    BY <2>1 DEF Itself
  <2>4. SumOver(Itself, S \cup {x}) = SumOver(Itself, S) + Itself[x]
    <3> HIDE DEF S, x
    <3>1. QED
      BY <2>1, <2>2, <2>3, SumInsert
  <2>5. Itself[x] = x
    BY <2>1 DEF Itself
  <2>6. /\ SumOver(Itself, S) \in Nat
        /\ 2 * SumOver(Itself, S) = (m - 1) * (2 * start + (m - 1) - 1)
    BY <1>2
  <2>7. SumOver(Itself, Run(m)) = SumOver(Itself, S) + x
    BY <2>1, <2>4, <2>5
  <2> HIDE DEF Run, S
  <2>8. 2 * SumOver(Itself, Run(m)) = (m - 1) * (2 * start + (m - 1) - 1) + 2 * (start + m - 1)
    BY <2>6, <2>7
  <2>9. (m - 1) * (2 * start + (m - 1) - 1) + 2 * (start + m - 1) = m * (2 * start + m - 1)
    OBVIOUS
  <2>10. SumOver(Itself, Run(m)) \in Nat
    BY <2>1, <2>6, <2>7
  <2>11. QED
    BY <2>8, <2>9, <2>10
<1>3. n \in good
  <2> HIDE DEF good
  <2>1. \A m \in 0..n : m \in good
    BY <1>1, <1>2, Climb
  <2>2. QED
    BY <2>1
<1>4. QED
  BY <1>3

(* A loop that turns N times: the value after every turn. *)
Loops(f, base, next, N) ==
  f[0] = base /\ \A n \in 1..N : f[n] = next[<<n, f[n - 1]>>]

LEMMA Iterates ==
  ASSUME NEW N \in Nat, NEW S, NEW base \in S, NEW next \in [(1..N) \X S -> S]
  PROVE  \E f \in [0..N -> S] : Loops(f, base, next, N)
<1> DEFINE Turns(m, f) ==
             /\ f \in [0..m -> S] /\ f[0] = base
             /\ \A n \in 1..m : f[n] = next[<<n, f[n - 1]>>]
           good == {m \in 0..N : \E f : Turns(m, f)}
<1>1. 0 \in good
  <2>1. Turns(0, [i \in 0..0 |-> base])
    OBVIOUS
  <2> HIDE DEF Turns
  <2>2. QED
    BY <2>1
<1>2. ASSUME NEW m \in 1..N, m - 1 \in good PROVE m \in good
  <2>1. m - 1 \in Nat /\ m \in Nat /\ m \in 0..N
    OBVIOUS
  <2>2. PICK f : Turns(m - 1, f)
    BY <1>2
  <2>3. f \in [0..(m - 1) -> S] /\ f[m - 1] \in S /\ f[0] = base
    BY <2>1, <2>2
  <2>4. next[<<m, f[m - 1]>>] \in S
    BY <2>3
  <2> DEFINE h == [i \in 0..m |-> IF i = m THEN next[<<m, f[m - 1]>>] ELSE f[i]]
  <2>5. h[m] = next[<<m, f[m - 1]>>] /\ \A n \in 0..(m - 1) : h[n] = f[n]
    BY <2>1
  <2>6. h \in [0..m -> S]
    BY <2>1, <2>3, <2>4
  <2> HIDE DEF h
  <2>7. ASSUME NEW n \in 1..m PROVE h[n] = next[<<n, h[n - 1]>>]
    <3>1. n - 1 \in 0..(m - 1) /\ h[n - 1] = f[n - 1]
      BY <2>1, <2>5
    <3>2. CASE n = m
      BY <2>5, <3>1, <3>2
    <3>3. CASE n # m
      <4>1. n \in 1..(m - 1) /\ h[n] = f[n]
        BY <2>1, <2>5, <3>3
      <4>2. f[n] = next[<<n, f[n - 1]>>]
        BY <2>2, <4>1
      <4>3. QED
        BY <3>1, <4>1, <4>2
    <3>4. QED
      BY <3>2, <3>3
  <2>8. Turns(m, h)
    BY <2>1, <2>3, <2>5, <2>6, <2>7
  <2> HIDE DEF Turns
  <2>9. QED
    BY <2>1, <2>8
<1> HIDE DEF good
<1>3. N \in good
  BY <1>1, <1>2, Climb
<1>4. QED
  BY <1>3 DEF good, Loops

LEMMA GreatestBounded ==
  ASSUME NEW T, NEW bound \in Nat, T \subseteq 0..bound, T # {}
  PROVE  \E x \in T : \A y \in T : y <= x
<1> DEFINE U == {bound - y : y \in T}
<1>1. U \subseteq Nat /\ U # {}
  <2>1. \A y \in T : bound - y \in Nat
    OBVIOUS
  <2>2. QED
    BY <2>1
<1>2. PICK u \in U : \A v \in U : u <= v
  <2> HIDE DEF U
  <2>1. QED
    BY <1>1, LeastNat
<1>3. PICK x \in T : u = bound - x
  OBVIOUS
<1>4. ASSUME NEW y \in T PROVE y <= x
  <2>1. bound - y \in U
    OBVIOUS
  <2>2. bound - x <= bound - y
    BY <1>2, <1>3, <2>1
  <2>3. x \in 0..bound /\ y \in 0..bound
    OBVIOUS
  <2>4. QED
    BY <2>2, <2>3
<1>5. QED
  BY <1>4

(* The sum of the sums of the groups is the sum of their elements. *)
LEMMA SumGrouped ==
  ASSUME NEW T, IsFiniteSet(T), NEW C, IsFiniteSet(C), NEW part, NEW f, NEW g,
         \A i \in T : f[i] \in Nat,
         \A b \in C : g[b] = SumOver(f, part[b]),
         \A b, e \in C : b # e => part[b] \cap part[e] = {},
         \A i : i \in T <=> \E b \in C : i \in part[b]
  PROVE  SumOver(g, C) = SumOver(f, T)
<1> DEFINE In(D) == UNION {part[b] : b \in D}
           Fails == {D \in SUBSET C : SumOver(g, D) # SumOver(f, In(D))}
           sizes == {Cardinality(D) : D \in Fails}
<1>1. \A D \in SUBSET C : IsFiniteSet(In(D)) /\ \A i \in In(D) : f[i] \in Nat
  <2> SUFFICES ASSUME NEW D \in SUBSET C
               PROVE  IsFiniteSet(In(D)) /\ \A i \in In(D) : f[i] \in Nat
    OBVIOUS
  <2>1. In(D) \in SUBSET T
    OBVIOUS
  <2>2. QED
    BY <2>1, FS_Subset
<1>2. \A b \in C : IsFiniteSet(part[b]) /\ g[b] \in Nat
  <2> SUFFICES ASSUME NEW b \in C PROVE IsFiniteSet(part[b]) /\ g[b] \in Nat
    OBVIOUS
  <2>1. part[b] \in SUBSET T
    OBVIOUS
  <2>2. IsFiniteSet(part[b])
    BY <2>1, FS_Subset
  <2>3. \A i \in part[b] : f[i] \in Nat
    OBVIOUS
  <2>4. SumOver(f, part[b]) \in Nat
    BY <2>2, <2>3, SumType
  <2>5. QED
    BY <2>2, <2>4
<1>3. SUFFICES ASSUME Fails # {} PROVE FALSE
  <2>1. T = In(C)
    OBVIOUS
  <2>2. SUFFICES ASSUME SumOver(g, C) # SumOver(f, T) PROVE FALSE
    OBVIOUS
  <2>3. C \in Fails
    BY <2>1, <2>2
  <2>4. QED
    BY <1>3, <2>3
<1>4. \A D \in SUBSET C : IsFiniteSet(D) /\ Cardinality(D) \in Nat
  BY FS_Subset, FS_CardinalityType
<1>5. sizes \subseteq Nat /\ sizes # {}
  <2>1. Fails \subseteq SUBSET C
    OBVIOUS
  <2> HIDE DEF Fails
  <2>2. QED
    BY <1>3, <1>4, <2>1
<1>6. PICK least \in sizes : \A n \in sizes : least <= n
  <2> HIDE DEF sizes
  <2>1. QED
    BY <1>5, LeastNat
<1>7. PICK D \in Fails : Cardinality(D) = least
  OBVIOUS
<1>8. D # {}
  <2>1. SUFFICES ASSUME D = {} PROVE FALSE
    OBVIOUS
  <2>2. SumOver(g, D) = 0
    BY <2>1, SumEmpty
  <2>3. In(D) = {}
    BY <2>1
  <2>4. SumOver(f, In(D)) = 0
    BY <2>3, SumEmpty
  <2>5. QED
    BY <2>2, <2>4
<1>9. PICK b \in D : TRUE
  BY <1>8
<1> DEFINE E == D \ {b}
<1>10. /\ D \in SUBSET C /\ E \in SUBSET C /\ b \in C /\ b \notin E /\ D = E \cup {b}
       /\ IsFiniteSet(E)
  BY <1>4, <1>9
<1>11. Cardinality(E) < least
  <2>1. IsFiniteSet(D) /\ Cardinality(D) \in Nat /\ Cardinality(E) = Cardinality(D) - 1
    BY <1>4, <1>9, <1>10, FS_RemoveElement
  <2>2. QED
    BY <1>7, <2>1
<1>12. SumOver(g, E) = SumOver(f, In(E))
  <2>1. SUFFICES ASSUME SumOver(g, E) # SumOver(f, In(E)) PROVE FALSE
    OBVIOUS
  <2>2. E \in Fails
    BY <1>10, <2>1
  <2>3. Cardinality(E) \in sizes /\ Cardinality(E) \in Nat /\ least \in Nat
    BY <1>4, <1>5, <1>10, <2>2
  <2> HIDE DEF sizes, E
  <2>4. least <= Cardinality(E)
    BY <1>6, <2>3
  <2>5. QED
    BY <1>11, <2>3, <2>4
<1>13. SumOver(g, D) = SumOver(g, E) + g[b]
  <2>1. \A y \in D : g[y] \in Nat
    BY <1>2, <1>10
  <2>2. IsFiniteSet(D) /\ b \in D
    BY <1>4, <1>9, <1>10
  <2> HIDE DEF Fails, sizes, In
  <2>3. QED
    BY <2>1, <2>2, SumSplit
<1>14. SumOver(f, In(D)) = SumOver(f, In(E)) + SumOver(f, part[b])
  <2> DEFINE F == part[b]
             G == In(E)
  <2>1. In(D) = G \cup F /\ G \cap F = {}
    BY <1>10
  <2>2. IsFiniteSet(G) /\ IsFiniteSet(F) /\ \A x \in G \cup F : f[x] \in Nat
    BY <1>1, <1>2, <1>10
  <2> HIDE DEF F, G
  <2>3. SumOver(f, G \cup F) = SumOver(f, G) + SumOver(f, F)
    BY <2>1, <2>2, SumDisjoint
  <2>4. QED
    BY <2>1, <2>3 DEF F, G
<1>15. g[b] = SumOver(f, part[b])
  BY <1>10
<1>16. SumOver(g, D) = SumOver(f, In(D))
  BY <1>12, <1>13, <1>14, <1>15
<1>17. QED
  BY <1>7, <1>16

-----------------------------------------------------------------------------
(* Of any two indexes one comes before the other: how many come before      *)
(* counts them up.                                                          *)
LEMMA CountedUp ==
  ASSUME NEW S, IsFiniteSet(S), NEW before,
         \A i \in S : before[i] \subseteq S /\ i \in before[i],
         \A i, j \in S : i # j =>
           \/ i \in before[j] /\ j \notin before[i] /\ before[i] \subseteq before[j]
           \/ j \in before[i] /\ i \notin before[j] /\ before[j] \subseteq before[i]
  PROVE  /\ Cardinality(S) \in Nat
         /\ [i \in S |-> Cardinality(before[i])] \in Bijection(S, 1..Cardinality(S))
         /\ \A i, j \in S : i # j /\ before[i] \subseteq before[j] =>
              Cardinality(before[i]) < Cardinality(before[j])
<1> DEFINE c == Cardinality(S)
           rank == [i \in S |-> Cardinality(before[i])]
<1>1. c \in Nat
  BY FS_CardinalityType
<1>2. \A i \in S : IsFiniteSet(before[i]) /\ Cardinality(before[i]) \in 1..c
  <2> SUFFICES ASSUME NEW i \in S
               PROVE  IsFiniteSet(before[i]) /\ Cardinality(before[i]) \in 1..c
    OBVIOUS
  <2>1. before[i] \in SUBSET S /\ before[i] # {}
    OBVIOUS
  <2>2. IsFiniteSet(before[i]) /\ Cardinality(before[i]) <= c
    BY <2>1, FS_Subset
  <2>3. Cardinality(before[i]) \in Nat /\ Cardinality(before[i]) # 0
    BY <2>1, <2>2, FS_CardinalityType, FS_EmptySet
  <2>4. QED
    BY <1>1, <2>2, <2>3
<1>3. \A i, j \in S : i # j /\ before[i] \subseteq before[j] =>
        rank[i] < rank[j]
  <2> SUFFICES ASSUME NEW i \in S, NEW j \in S, i # j, before[i] \subseteq before[j]
               PROVE  Cardinality(before[i]) < Cardinality(before[j])
    OBVIOUS
  <2>1. before[i] # before[j]
    OBVIOUS
  <2>2. /\ before[i] \in SUBSET before[j] /\ IsFiniteSet(before[j])
    BY <1>2
  <2>3. /\ Cardinality(before[i]) <= Cardinality(before[j])
        /\ Cardinality(before[j]) # Cardinality(before[i])
    BY <2>1, <2>2, FS_Subset
  <2>4. QED
    BY <1>2, <2>3
<1>4. rank \in Injection(S, 1..c)
  <2>1. rank \in [S -> 1..c]
    BY <1>2
  <2>2. \A i, j \in S : rank[i] = rank[j] => i = j
    <3> SUFFICES ASSUME NEW i \in S, NEW j \in S, i # j PROVE rank[i] # rank[j]
      OBVIOUS
    <3>1. rank[i] \in Nat /\ rank[j] \in Nat
      BY <2>1
    <3>2. before[i] \subseteq before[j] \/ before[j] \subseteq before[i]
      OBVIOUS
    <3>3. rank[i] < rank[j] \/ rank[j] < rank[i]
      BY <1>3, <3>2
    <3>4. QED
      BY <3>1, <3>3
  <2>3. QED
    BY <2>1, <2>2 DEF Injection, IsInjective
<1>5. rank \in Surjection(S, 1..c)
  <2>1. IsFiniteSet(1..c) /\ Cardinality(1..c) = c
    BY <1>1, FS_Interval
  <2> HIDE DEF rank
  <2>2. QED
    BY <1>4, <2>1, FS_Injection
<1>6. QED
  BY <1>1, <1>3, <1>4, <1>5 DEF Bijection

(* Every index gets a place of its own when of any two one comes before the *)
(* other, and the places follow that order.                                 *)
LEMMA PlaceIsBijection ==
  ASSUME NEW S, IsFiniteSet(S), NEW before, DOMAIN before = S,
         \A i \in S : before[i] \subseteq S /\ i \in before[i],
         \A i, j \in S : i # j =>
           \/ i \in before[j] /\ j \notin before[i] /\ before[i] \subseteq before[j]
           \/ j \in before[i] /\ i \notin before[j] /\ before[j] \subseteq before[i]
  PROVE  /\ Placing(before) \in Bijection(1..Cardinality(S), S)
         /\ \A m, n \in 1..Cardinality(S) : m < n =>
              /\ Placing(before)[m] # Placing(before)[n]
              /\ Placing(before)[m] \in before[Placing(before)[n]]
<1> DEFINE c == Cardinality(S)
           rank == [i \in S |-> Cardinality(before[i])]
<1>1. /\ c \in Nat /\ rank \in Bijection(S, 1..c)
      /\ \A i, j \in S : i # j /\ before[i] \subseteq before[j] =>
           Cardinality(before[i]) < Cardinality(before[j])
  <2> HIDE DEF c
  <2>1. QED
    BY CountedUp DEF c
<1>2. \A i, j \in S : i # j /\ before[i] \subseteq before[j] => rank[i] < rank[j]
  BY <1>1
<1>3. rank \in Surjection(S, 1..c) /\ rank \in Injection(S, 1..c)
  BY <1>1 DEF Bijection
<1> DEFINE place == Placing(before)
<1>4. \A n \in 1..c : place[n] \in S /\ rank[place[n]] = n
  <2> SUFFICES ASSUME NEW n \in 1..c PROVE place[n] \in S /\ rank[place[n]] = n
    OBVIOUS
  <2>1. \E i \in S : rank[i] = n
    BY <1>3 DEF Surjection
  <2>2. place[n] = CHOOSE i \in S : Cardinality(before[i]) = n
    BY DEF Placing
  <2>3. QED
    BY <2>1, <2>2
<1>5. DOMAIN place = 1..c /\ place \in [1..c -> S]
  BY <1>4 DEF Placing
<1> HIDE DEF place, rank
<1>6. rank \in [S -> 1..c] /\ \A i, j \in S : rank[i] = rank[j] => i = j
  BY <1>3 DEF Injection, IsInjective
<1>7. \A i \in S : place[rank[i]] = i
  BY <1>4, <1>6
<1>8. place \in Bijection(1..c, S)
  <2>1. \A m, n \in 1..c : place[m] = place[n] => m = n
    BY <1>4
  <2>2. \A i \in S : \E n \in 1..c : place[n] = i
    BY <1>6, <1>7
  <2>3. QED
    BY <1>5, <2>1, <2>2 DEF Bijection, Injection, Surjection, IsInjective
<1>9. \A m, n \in 1..c : m < n =>
         place[m] # place[n] /\ place[m] \in before[place[n]]
  <2> SUFFICES ASSUME NEW m \in 1..c, NEW n \in 1..c, m < n
               PROVE  place[m] # place[n] /\ place[m] \in before[place[n]]
    OBVIOUS
  <2>1. /\ place[m] \in S /\ place[n] \in S
        /\ rank[place[m]] = m /\ rank[place[n]] = n
    BY <1>4
  <2>2. place[m] # place[n]
    BY <2>1
  <2>3. ~ (before[place[n]] \subseteq before[place[m]])
    <3>1. SUFFICES ASSUME before[place[n]] \subseteq before[place[m]] PROVE FALSE
      OBVIOUS
    <3>2. rank[place[n]] < rank[place[m]]
      BY <1>2, <2>1, <2>2, <3>1
    <3>3. QED
      BY <2>1, <3>2
  <2>4. QED
    BY <2>1, <2>2, <2>3
<1>10. QED
  BY <1>8, <1>9 DEF place

LEMMA StablyBeforeOrders ==
  ASSUME NEW N \in Nat, NEW key \in [1..N -> Int]
  PROVE  /\ Placing(StablyBefore(key)) \in Bijection(1..N, 1..N)
         /\ \A m, n \in 1..N : m < n =>
              /\ key[Placing(StablyBefore(key))[m]] <= key[Placing(StablyBefore(key))[n]]
              /\ key[Placing(StablyBefore(key))[m]] = key[Placing(StablyBefore(key))[n]] =>
                   Placing(StablyBefore(key))[m] < Placing(StablyBefore(key))[n]
<1> DEFINE before == StablyBefore(key)
<1>1. IsFiniteSet(1..N) /\ Cardinality(1..N) = N
  BY FS_Interval
<1>2. DOMAIN before = 1..N
  BY DEF StablyBefore
<1>3. \A i \in 1..N : \A j : j \in before[i] <=>
        j \in 1..N /\ (key[j] < key[i] \/ (key[j] = key[i] /\ j <= i))
  BY DEF StablyBefore
<1> HIDE DEF before
<1>4. \A i \in 1..N : before[i] \subseteq 1..N /\ i \in before[i]
  BY <1>3
<1>5. ASSUME NEW i \in 1..N, NEW j \in 1..N, i # j
      PROVE  \/ i \in before[j] /\ j \notin before[i] /\ before[i] \subseteq before[j]
             \/ j \in before[i] /\ i \notin before[j] /\ before[j] \subseteq before[i]
  <2>1. CASE key[i] < key[j] \/ (key[i] = key[j] /\ i < j)
    <3>1. i \in before[j] /\ j \notin before[i]
      BY <1>3, <2>1
    <3>2. before[i] \subseteq before[j]
      BY <1>3, <2>1
    <3>3. QED
      BY <3>1, <3>2
  <2>2. CASE key[j] < key[i] \/ (key[i] = key[j] /\ j < i)
    <3>1. j \in before[i] /\ i \notin before[j]
      BY <1>3, <2>2
    <3>2. before[j] \subseteq before[i]
      BY <1>3, <2>2
    <3>3. QED
      BY <3>1, <3>2
  <2>3. key[i] \in Int /\ key[j] \in Int /\ i \in Int /\ j \in Int
    OBVIOUS
  <2>4. QED
    BY <1>5, <2>1, <2>2, <2>3
<1>6. /\ Placing(before) \in Bijection(1..N, 1..N)
      /\ \A m, n \in 1..N : m < n =>
           /\ Placing(before)[m] # Placing(before)[n]
           /\ Placing(before)[m] \in before[Placing(before)[n]]
  <2>1. \A i, j \in 1..N : i # j =>
           \/ i \in before[j] /\ j \notin before[i] /\ before[i] \subseteq before[j]
           \/ j \in before[i] /\ i \notin before[j] /\ before[j] \subseteq before[i]
    BY <1>5
  <2>2. QED
    BY <1>1, <1>2, <1>4, <2>1, PlaceIsBijection
<1>7. \A n \in 1..N : Placing(before)[n] \in 1..N
  BY <1>6 DEF Bijection, Injection
<1>8. \A m, n \in 1..N : m < n =>
        /\ key[Placing(before)[m]] <= key[Placing(before)[n]]
        /\ key[Placing(before)[m]] = key[Placing(before)[n]] =>
             Placing(before)[m] < Placing(before)[n]
  <2> SUFFICES ASSUME NEW m \in 1..N, NEW n \in 1..N, m < n
               PROVE  /\ key[Placing(before)[m]] <= key[Placing(before)[n]]
                      /\ key[Placing(before)[m]] = key[Placing(before)[n]] =>
                           Placing(before)[m] < Placing(before)[n]
    OBVIOUS
  <2>1. PICK i \in 1..N, j \in 1..N : i = Placing(before)[m] /\ j = Placing(before)[n]
    BY <1>7
  <2>2. i \in before[j] /\ i # j
    BY <1>6, <2>1
  <2>3. key[i] < key[j] \/ (key[i] = key[j] /\ i <= j)
    BY <1>3, <2>2
  <2>4. key[i] \in Int /\ key[j] \in Int
    OBVIOUS
  <2>5. key[i] <= key[j] /\ (key[i] = key[j] => i < j)
    BY <2>2, <2>3, <2>4
  <2>6. QED
    BY <2>1, <2>5
<1>9. QED
  BY <1>6, <1>8 DEF before

LEMMA UpToOrders ==
  ASSUME NEW S, IsFiniteSet(S), S \subseteq Int
  PROVE  /\ Placing(UpTo(S)) \in Bijection(1..Cardinality(S), S)
         /\ \A m, n \in 1..Cardinality(S) : m < n => Placing(UpTo(S))[m] < Placing(UpTo(S))[n]
<1> DEFINE before == UpTo(S)
<1>1. DOMAIN before = S /\ \A i \in S : \A j : j \in before[i] <=> j \in S /\ j <= i
  BY DEF UpTo
<1> HIDE DEF before
<1>2. \A i \in S : before[i] \subseteq S /\ i \in before[i]
  BY <1>1
<1>3. ASSUME NEW i \in S, NEW j \in S, i # j
      PROVE  \/ i \in before[j] /\ j \notin before[i] /\ before[i] \subseteq before[j]
             \/ j \in before[i] /\ i \notin before[j] /\ before[j] \subseteq before[i]
  <2>1. i \in Int /\ j \in Int /\ \A k \in S : k \in Int
    OBVIOUS
  <2>2. CASE i < j
    <3>1. i \in before[j] /\ j \notin before[i]
      BY <1>1, <2>1, <2>2
    <3>2. before[i] \subseteq before[j]
      BY <1>1, <2>1, <2>2
    <3>3. QED
      BY <3>1, <3>2
  <2>3. CASE j < i
    <3>1. j \in before[i] /\ i \notin before[j]
      BY <1>1, <2>1, <2>3
    <3>2. ASSUME NEW k \in before[j] PROVE k \in before[i]
      <4>1. k \in S /\ k <= j /\ k \in Int
        BY <1>1, <2>1
      <4>2. k <= i
        BY <2>1, <2>3, <4>1
      <4>3. QED
        BY <1>1, <4>1, <4>2
    <3>3. QED
      BY <3>1, <3>2
  <2>4. QED
    BY <1>3, <2>1, <2>2, <2>3
<1>4. \A i, j \in S : i # j =>
           \/ i \in before[j] /\ j \notin before[i] /\ before[i] \subseteq before[j]
           \/ j \in before[i] /\ i \notin before[j] /\ before[j] \subseteq before[i]
  BY <1>3
<1>5. /\ Placing(before) \in Bijection(1..Cardinality(S), S)
      /\ \A m, n \in 1..Cardinality(S) : m < n =>
           /\ Placing(before)[m] # Placing(before)[n]
           /\ Placing(before)[m] \in before[Placing(before)[n]]
  BY <1>1, <1>2, <1>4, PlaceIsBijection
<1>6. \A m, n \in 1..Cardinality(S) : m < n => Placing(before)[m] < Placing(before)[n]
  <2> SUFFICES ASSUME NEW m \in 1..Cardinality(S), NEW n \in 1..Cardinality(S), m < n
               PROVE  Placing(before)[m] < Placing(before)[n]
    OBVIOUS
  <2>1. Placing(before)[m] \in S /\ Placing(before)[n] \in S
    BY <1>5 DEF Bijection, Injection
  <2>2. PICK i \in S, j \in S : i = Placing(before)[m] /\ j = Placing(before)[n]
    BY <2>1
  <2>3. i # j /\ i \in before[j] /\ i \in Int /\ j \in Int
    BY <1>5, <2>2
  <2>4. i < j
    BY <1>1, <2>3
  <2>5. QED
    BY <2>2, <2>4
<1>7. QED
  BY <1>5, <1>6 DEF before

(* What is left of a sequence: its kept elements, in their order. *)
Thins(left, seq, kept, place) ==
  /\ Len(left) \in Nat /\ place \in [1..Len(left) -> kept]
  /\ \A n \in 1..Len(left) : left[n] = seq[place[n]]
  /\ \A i \in kept : \E n \in 1..Len(left) : place[n] = i
  /\ \A m, n \in 1..Len(left) : m < n => place[m] < place[n]

LEMMA FilteredIs ==
  ASSUME NEW A, NEW seq \in Seq(A), NEW kept \in SUBSET (1..Len(seq))
  PROVE  /\ Filtered(seq, kept) \in Seq(A)
         /\ \E place : Thins(Filtered(seq, kept), seq, kept, place)
<1> DEFINE c == Cardinality(kept)
           place == Placing(UpTo(kept))
           left == Filtered(seq, kept)
<1>1. Len(seq) \in Nat /\ \A i \in 1..Len(seq) : seq[i] \in A
  BY ElementOfSeq, LenProperties
<1>2. IsFiniteSet(kept) /\ kept \subseteq Int /\ c \in Nat
  <2>1. IsFiniteSet(1..Len(seq))
    BY <1>1, FS_Interval
  <2>2. IsFiniteSet(kept)
    BY <2>1, FS_Subset
  <2>3. kept \subseteq Int
    OBVIOUS
  <2>4. QED
    BY <2>2, <2>3, FS_CardinalityType
<1>3. DOMAIN UpTo(kept) = kept
  BY DEF UpTo
<1>4. left = [n \in 1..c |-> seq[place[n]]]
  BY <1>3 DEF Filtered, Listed
<1>5. /\ place \in Bijection(1..c, kept)
      /\ \A m, n \in 1..c : m < n => place[m] < place[n]
  BY <1>2, UpToOrders
<1> HIDE DEF c, place, left
<1>6. place \in [1..c -> kept] /\ \A i \in kept : \E n \in 1..c : place[n] = i
  BY <1>5 DEF Bijection, Injection, Surjection
<1>7. \A n \in 1..c : left[n] = seq[place[n]] /\ left[n] \in A
  BY <1>1, <1>4, <1>6
<1>8. left \in Seq(A) /\ Len(left) = c
  <2>1. left \in [1..c -> A]
    BY <1>4, <1>7
  <2>2. QED
    BY <1>2, <2>1
<1>9. Thins(left, seq, kept, place)
  BY <1>2, <1>5, <1>6, <1>7, <1>8 DEF Thins
<1>10. QED
  BY <1>8, <1>9 DEF left

(* A stable sort: the same elements, by key, and those of a key in their *)
(* order.                                                                *)
Sorts(sorted, seq, key, place) ==
  /\ Len(sorted) = Len(seq) /\ place \in [1..Len(seq) -> 1..Len(seq)]
  /\ \A n \in 1..Len(seq) : sorted[n] = seq[place[n]]
  /\ \A i \in 1..Len(seq) : \E n \in 1..Len(seq) : place[n] = i
  /\ \A m, n \in 1..Len(seq) : m < n =>
       /\ key[place[m]] <= key[place[n]]
       /\ key[place[m]] = key[place[n]] => place[m] < place[n]

LEMMA SortedIs ==
  ASSUME NEW A, NEW seq \in Seq(A), NEW key \in [1..Len(seq) -> Int]
  PROVE  /\ SortedOn(seq, key) \in Seq(A)
         /\ \E place : Sorts(SortedOn(seq, key), seq, key, place)
<1> DEFINE N == Len(seq)
           place == Placing(StablyBefore(key))
           sorted == SortedOn(seq, key)
<1>1. N \in Nat /\ \A i \in 1..N : seq[i] \in A
  BY ElementOfSeq, LenProperties
<1>2. DOMAIN StablyBefore(key) = 1..N /\ Cardinality(1..N) = N
  <2>1. DOMAIN StablyBefore(key) = 1..N
    BY DEF StablyBefore
  <2>2. Cardinality(1..N) = N
    <3> HIDE DEF N
    <3>1. QED
      BY <1>1, FS_Interval
  <2>3. QED
    BY <2>1, <2>2
<1>3. sorted = [n \in 1..N |-> seq[place[n]]]
  BY <1>2 DEF SortedOn, Listed
<1>4. /\ place \in Bijection(1..N, 1..N)
      /\ \A m, n \in 1..N : m < n =>
           /\ key[place[m]] <= key[place[n]]
           /\ key[place[m]] = key[place[n]] => place[m] < place[n]
  BY <1>1, StablyBeforeOrders
<1> HIDE DEF N, place, sorted
<1>5. place \in [1..N -> 1..N] /\ \A i \in 1..N : \E n \in 1..N : place[n] = i
  BY <1>4 DEF Bijection, Injection, Surjection
<1>6. \A n \in 1..N : sorted[n] = seq[place[n]] /\ sorted[n] \in A
  BY <1>1, <1>3, <1>5
<1>7. sorted \in Seq(A) /\ Len(sorted) = N
  <2>1. sorted \in [1..N -> A]
    BY <1>3, <1>6
  <2>2. QED
    BY <1>1, <2>1
<1>8. Sorts(sorted, seq, key, place)
  BY <1>4, <1>5, <1>6, <1>7 DEF Sorts, N
<1>9. QED
  BY <1>7, <1>8 DEF sorted

(* Joined sequences: each element of each of them, at a place of its own. *)
Joins(joined, list, n, place) ==
  /\ Len(joined) \in Nat /\ place \in [1..Len(joined) -> (1..n) \X Nat]
  /\ \A i \in 1..Len(joined) :
       /\ place[i][2] \in 1..Len(list[place[i][1]])
       /\ joined[i] = list[place[i][1]][place[i][2]]
  /\ \A i, j \in 1..Len(joined) : place[i] = place[j] => i = j
  /\ \A k \in 1..n : \A m \in 1..Len(list[k]) :
       \E i \in 1..Len(joined) : place[i] = <<k, m>>

LEMMA JoinsNext ==
  ASSUME NEW A, NEW n \in Nat, NEW list, list[n + 1] \in Seq(A),
         NEW joined \in Seq(A), NEW place, Joins(joined, list, n, place)
  PROVE  /\ joined \o list[n + 1] \in Seq(A)
         /\ \E other : Joins(joined \o list[n + 1], list, n + 1, other)
<1> DEFINE more == list[n + 1]
           both == joined \o more
           a == Len(joined)
           b == Len(more)
           other == [i \in 1..(a + b) |-> IF i <= a THEN place[i] ELSE <<n + 1, i - a>>]
<1>1. /\ a \in Nat /\ b \in Nat
      /\ both \in Seq(A) /\ Len(both) = a + b
      /\ \A i \in 1..(a + b) : both[i] = IF i <= a THEN joined[i] ELSE more[i - a]
  BY ConcatProperties, LenProperties
<1>2. /\ place \in [1..a -> (1..n) \X Nat]
      /\ \A i \in 1..a : /\ place[i][2] \in 1..Len(list[place[i][1]])
                         /\ joined[i] = list[place[i][1]][place[i][2]]
      /\ \A i, j \in 1..a : place[i] = place[j] => i = j
      /\ \A k \in 1..n : \A m \in 1..Len(list[k]) : \E i \in 1..a : place[i] = <<k, m>>
  BY DEF Joins
<1>3. \A i \in 1..(a + b) :
        \/ i \in 1..a /\ other[i] = place[i]
        \/ ~(i <= a) /\ i - a \in 1..b /\ other[i] = <<n + 1, i - a>>
  BY <1>1
<1>4. b = Len(list[n + 1]) /\ more = list[n + 1]
  OBVIOUS
<1>5. DOMAIN other = 1..(a + b)
  OBVIOUS
<1> HIDE DEF other, both, more, a, b
<1>6. ASSUME NEW i \in 1..(a + b)
      PROVE  /\ other[i] \in (1..(n + 1)) \X Nat
             /\ other[i][2] \in 1..Len(list[other[i][1]])
             /\ both[i] = list[other[i][1]][other[i][2]]
  <2>1. CASE i \in 1..a /\ other[i] = place[i]
    <3>1. place[i] \in (1..n) \X Nat
      BY <1>2, <2>1
    <3>2. both[i] = joined[i]
      BY <1>1, <2>1
    <3>3. place[i] \in (1..(n + 1)) \X Nat
      BY <3>1
    <3>4. QED
      BY <1>2, <2>1, <3>2, <3>3
  <2>2. CASE ~(i <= a) /\ i - a \in 1..b /\ other[i] = <<n + 1, i - a>>
    <3>1. both[i] = more[i - a]
      BY <1>1, <2>2
    <3>2. other[i][1] = n + 1 /\ other[i][2] = i - a /\ other[i] \in (1..(n + 1)) \X Nat
      BY <1>1, <2>2
    <3>3. QED
      BY <1>4, <2>2, <3>1, <3>2
  <2>3. QED
    BY <1>3, <2>1, <2>2
<1>7. ASSUME NEW i \in 1..(a + b), NEW j \in 1..(a + b), other[i] = other[j] PROVE i = j
  <2>1. CASE i \in 1..a /\ other[i] = place[i] /\ j \in 1..a /\ other[j] = place[j]
    BY <1>2, <1>7, <2>1
  <2>2. CASE /\ i - a \in 1..b /\ other[i] = <<n + 1, i - a>>
             /\ j - a \in 1..b /\ other[j] = <<n + 1, j - a>>
    <3>1. other[i][2] = i - a /\ other[j][2] = j - a
      BY <2>2
    <3>2. i - a = j - a
      BY <1>7, <3>1
    <3>3. QED
      BY <1>1, <3>2
  <2>3. ASSUME NEW k \in 1..a PROVE place[k][1] # n + 1
    <3>1. place[k] \in (1..n) \X Nat
      BY <1>2
    <3>2. place[k][1] \in 1..n
      BY <3>1
    <3>3. QED
      BY <3>2
  <2>4. CASE i \in 1..a /\ other[i] = place[i] /\ other[j] = <<n + 1, j - a>>
    <3>1. other[j][1] = n + 1
      BY <2>4
    <3>2. place[i] = other[j]
      BY <1>7, <2>4
    <3>3. QED
      BY <2>3, <2>4, <3>1, <3>2
  <2>5. CASE j \in 1..a /\ other[j] = place[j] /\ other[i] = <<n + 1, i - a>>
    <3>1. other[i][1] = n + 1
      BY <2>5
    <3>2. place[j] = other[i]
      BY <1>7, <2>5
    <3>3. QED
      BY <2>3, <2>5, <3>1, <3>2
  <2>6. QED
    BY <1>3, <2>1, <2>2, <2>4, <2>5
<1>8. ASSUME NEW k \in 1..(n + 1), NEW m \in 1..Len(list[k])
      PROVE  \E i \in 1..(a + b) : other[i] = <<k, m>>
  <2>1. CASE k \in 1..n
    <3>1. PICK i \in 1..a : place[i] = <<k, m>>
      BY <1>2, <2>1
    <3>2. i \in 1..(a + b) /\ other[i] = place[i]
      BY <1>1, <1>3
    <3>3. QED
      BY <3>1, <3>2
  <2>2. CASE k = n + 1
    <3>1. m \in 1..b
      BY <1>4, <2>2
    <3>2. m + a \in 1..(a + b) /\ ~(m + a <= a) /\ (m + a) - a = m
      BY <1>1, <3>1
    <3>3. other[m + a] = <<k, m>>
      BY <1>3, <2>2, <3>2
    <3>4. QED
      BY <3>2, <3>3
  <2>3. QED
    BY <2>1, <2>2
<1>9. other \in [1..(a + b) -> (1..(n + 1)) \X Nat]
  <2>1. other = [i \in 1..(a + b) |-> other[i]]
    BY DEF other
  <2>2. QED
    BY <1>6, <2>1
<1>10. Len(both) \in Nat /\ Len(both) = a + b
  BY <1>1
<1>11. Joins(both, list, n + 1, other)
  <2>1. \A i \in 1..Len(both) :
          /\ other[i][2] \in 1..Len(list[other[i][1]])
          /\ both[i] = list[other[i][1]][other[i][2]]
    BY <1>6, <1>10
  <2>2. \A i, j \in 1..Len(both) : other[i] = other[j] => i = j
    BY <1>7, <1>10
  <2>3. \A k \in 1..(n + 1) : \A m \in 1..Len(list[k]) :
          \E i \in 1..Len(both) : other[i] = <<k, m>>
    BY <1>8, <1>10
  <2>4. QED
    BY <1>9, <1>10, <2>1, <2>2, <2>3 DEF Joins
<1>12. QED
  BY <1>1, <1>11 DEF both, more

LEMMA JoinedIs ==
  ASSUME NEW A, NEW N \in Nat, NEW list \in [1..N -> Seq(A)]
  PROVE  /\ Joined(list) \in Seq(A)
         /\ \E place : Joins(Joined(list), list, N, place)
<1> DEFINE Turns(m, f) ==
             /\ f \in [0..m -> Seq(A)] /\ f[0] = <<>>
             /\ \A n \in 1..m : f[n] = f[n - 1] \o list[n]
             /\ \A n \in 0..m : \E place : Joins(f[n], list, n, place)
           Stuck == {m \in 0..N : ~ \E f : Turns(m, f)}
<1>1. \A n \in 1..N : list[n] \in Seq(A)
  OBVIOUS
<1>2. Stuck = {}
  <2>1. SUFFICES ASSUME Stuck # {} PROVE FALSE
    OBVIOUS
  <2>2. PICK m \in Stuck : \A n \in Stuck : m <= n
    <3> HIDE DEF Turns
    <3>1. Stuck \subseteq Nat
      OBVIOUS
    <3> HIDE DEF Stuck
    <3>2. QED
      BY <2>1, <3>1, LeastNat
  <2>3. m \in 0..N /\ ~ \E f : Turns(m, f)
    OBVIOUS
  <2>4. m # 0
    <3> DEFINE none == <<>>
    <3>1. none \in Seq(A) /\ Len(none) = 0
      OBVIOUS
    <3>2. Joins(none, list, 0, [i \in {} |-> <<1, 1>>])
      <4>1. 1..Len(none) = {}
        BY <3>1
      <4>2. 1..0 = {}
        OBVIOUS
      <4>3. [i \in {} |-> <<1, 1>>] \in [{} -> (1..0) \X Nat]
        OBVIOUS
      <4> HIDE DEF none
      <4>4. QED
        BY <3>1, <4>1, <4>2, <4>3 DEF Joins
    <3> HIDE DEF none
    <3> DEFINE f == [i \in 0..0 |-> none]
    <3>3. f \in [0..0 -> Seq(A)] /\ f[0] = none /\ 1..0 = {} /\ \A n \in 0..0 : f[n] = none /\ n = 0
      BY <3>1
    <3> HIDE DEF f
    <3>4. \A n \in 0..0 : \E place : Joins(f[n], list, n, place)
      BY <3>2, <3>3
    <3>5. Turns(0, f)
      BY <3>3, <3>4 DEF none
    <3> HIDE DEF Turns
    <3>6. QED
      BY <2>3, <3>5
  <2>5. m - 1 \in 0..N /\ m \in 1..N /\ m - 1 < m /\ m \in Nat /\ m - 1 \in Nat
    BY <2>3, <2>4
  <2>6. PICK f : Turns(m - 1, f)
    <3> HIDE DEF Turns
    <3>1. SUFFICES ASSUME ~ \E f : Turns(m - 1, f) PROVE FALSE
      OBVIOUS
    <3>2. m - 1 \in Stuck
      BY <2>5, <3>1
    <3>3. m <= m - 1
      BY <2>2, <3>2
    <3>4. QED
      BY <2>5, <3>3
  <2> DEFINE last == f[m - 1]
             h == [i \in 0..m |-> IF i = m THEN last \o list[m] ELSE f[i]]
  <2>7. f \in [0..(m - 1) -> Seq(A)] /\ f[0] = <<>> /\ last \in Seq(A)
        /\ \E place : Joins(last, list, m - 1, place)
    BY <2>5, <2>6
  <2>8. last \o list[m] \in Seq(A) /\ \E place : Joins(last \o list[m], list, m, place)
    <3> HIDE DEF last
    <3>1. (m - 1) + 1 = m /\ list[m] \in Seq(A)
      BY <1>1, <2>5
    <3>2. PICK place : Joins(last, list, m - 1, place)
      BY <2>7
    <3>3. list[(m - 1) + 1] \in Seq(A)
      BY <3>1
    <3>4. /\ last \o list[(m - 1) + 1] \in Seq(A)
          /\ \E other : Joins(last \o list[(m - 1) + 1], list, (m - 1) + 1, other)
      BY <2>5, <2>7, <3>2, <3>3, JoinsNext
    <3>5. QED
      BY <3>1, <3>4
  <2>9. h[m] = last \o list[m] /\ \A n \in 0..(m - 1) : h[n] = f[n] /\ n \in 0..m
    BY <2>5
  <2>10. h \in [0..m -> Seq(A)]
    <3>1. \A n \in 0..m : (IF n = m THEN last \o list[m] ELSE f[n]) \in Seq(A)
      <4> SUFFICES ASSUME NEW n \in 0..m
                   PROVE  (IF n = m THEN last \o list[m] ELSE f[n]) \in Seq(A)
        OBVIOUS
      <4>1. CASE n = m
        BY <2>8, <4>1
      <4>2. CASE n # m
        <5>1. n \in 0..(m - 1)
          BY <2>5, <4>2
        <5>2. QED
          BY <2>7, <4>2, <5>1
      <4>3. QED
        BY <4>1, <4>2
    <3> HIDE DEF last
    <3>2. QED
      BY <3>1
  <2> HIDE DEF h
  <2>11. h[0] = <<>>
    BY <2>5, <2>7, <2>9
  <2>12. ASSUME NEW n \in 1..m PROVE h[n] = h[n - 1] \o list[n]
    <3>1. n - 1 \in 0..(m - 1) /\ h[n - 1] = f[n - 1]
      BY <2>5, <2>9
    <3>2. CASE n = m
      BY <2>9, <3>1, <3>2
    <3>3. CASE n # m
      <4>1. n \in 1..(m - 1) /\ h[n] = f[n]
        BY <2>5, <2>9, <3>3
      <4>2. f[n] = f[n - 1] \o list[n]
        BY <2>6, <4>1
      <4>3. QED
        BY <3>1, <4>1, <4>2
    <3>4. QED
      BY <3>2, <3>3
  <2>13. ASSUME NEW n \in 0..m PROVE \E place : Joins(h[n], list, n, place)
    <3>1. CASE n = m
      BY <2>8, <2>9, <3>1
    <3>2. CASE n # m
      <4>1. n \in 0..(m - 1) /\ h[n] = f[n]
        BY <2>5, <2>9, <3>2
      <4>2. QED
        BY <2>6, <4>1
    <3>3. QED
      BY <3>1, <3>2
  <2>14. Turns(m, h)
    BY <2>10, <2>11, <2>12, <2>13
  <2> HIDE DEF Turns
  <2>15. QED
    BY <2>3, <2>14
<1>3. PICK f : Turns(N, f)
  <2>1. N \in 0..N
    OBVIOUS
  <2> HIDE DEF Turns
  <2>2. QED
    BY <1>2, <2>1
<1> DEFINE Equation(g) == g = [n \in 0..N |-> IF n = 0 THEN <<>> ELSE g[n - 1] \o list[n]]
<1>4. Equation(f)
  <2>1. f = [n \in 0..N |-> f[n]]
    BY <1>3
  <2>2. \A n \in 0..N : f[n] = IF n = 0 THEN <<>> ELSE f[n - 1] \o list[n]
    <3> SUFFICES ASSUME NEW n \in 0..N
                 PROVE  f[n] = IF n = 0 THEN <<>> ELSE f[n - 1] \o list[n]
      OBVIOUS
    <3>1. CASE n = 0
      BY <1>3, <3>1
    <3>2. CASE n # 0
      <4>1. n \in 1..N
        BY <3>2
      <4>2. QED
        BY <1>3, <3>2, <4>1
    <3>3. QED
      BY <3>1, <3>2
  <2>3. QED
    BY <2>1, <2>2
<1> DEFINE joined == CHOOSE g : Equation(g)
<1>5. Joined(list) = joined[N]
  <2>1. Len(list) = N
    OBVIOUS
  <2>2. QED
    BY <2>1 DEF Joined
<1>6. Equation(joined)
  <2> HIDE DEF Equation
  <2>1. QED
    BY <1>4
<1> HIDE DEF joined
<1>7. joined[0] = <<>> /\ \A n \in 1..N : joined[n] = joined[n - 1] \o list[n]
  <2>1. 0 \in 0..N /\ \A n \in 1..N : n \in 0..N /\ n # 0
    OBVIOUS
  <2>2. QED
    BY <1>6, <2>1
<1> HIDE DEF Equation
<1>8. \A n \in 0..N : joined[n] = f[n]
  <2> DEFINE Wrong == {n \in 0..N : joined[n] # f[n]}
  <2>1. SUFFICES ASSUME Wrong # {} PROVE FALSE
    OBVIOUS
  <2>2. PICK m \in Wrong : \A n \in Wrong : m <= n
    <3>1. Wrong \subseteq Nat
      OBVIOUS
    <3> HIDE DEF Wrong
    <3>2. QED
      BY <2>1, <3>1, LeastNat
  <2>3. m # 0
    BY <1>3, <1>7
  <2>4. m \in 1..N /\ m - 1 \in 0..N /\ ~ (m <= m - 1)
    BY <2>3
  <2>5. joined[m - 1] = f[m - 1]
    BY <2>2, <2>4
  <2>6. joined[m] = f[m]
    BY <1>3, <1>7, <2>4, <2>5
  <2>7. QED
    BY <2>6
<1>9. N \in 0..N
  OBVIOUS
<1>10. f[N] \in Seq(A) /\ \E place : Joins(f[N], list, N, place)
  BY <1>3, <1>9
<1>11. QED
  BY <1>5, <1>8, <1>9, <1>10

(* The loop of Joined. *)
JoinsUp(joined, list, N) ==
  joined[0] = <<>> /\ \A n \in 1..N : joined[n] = joined[n - 1] \o list[n]

(* Joined sequences are those of one place less, and the last. *)
LEMMA JoinedLoop ==
  ASSUME NEW A, NEW N \in Nat, NEW list, Len(list) = N, \A i \in 1..N : list[i] \in Seq(A)
  PROVE  \E joined \in [0..N -> Seq(A)] :
           JoinsUp(joined, list, N) /\ Joined(list) = joined[N]
<1> DEFINE all == Seq(A)
           none == <<>>
           next == [p \in (1..N) \X all |-> p[2] \o list[p[1]]]
           Joining(g) == g = [n \in 0..N |-> IF n = 0 THEN none ELSE g[n - 1] \o list[n]]
           upTo == CHOOSE g : Joining(g)
<1>1. none \in all
  OBVIOUS
<1>2. \A n \in 1..N, x \in all : x \o list[n] \in all
  BY ConcatProperties
<1>3. Joined(list) = upTo[N]
  BY DEF Joined
<1> HIDE DEF all, none
<1>4. next \in [(1..N) \X all -> all]
  BY <1>2
<1>5. \A n \in 1..N, x \in all : next[<<n, x>>] = x \o list[n]
  OBVIOUS
<1> HIDE DEF next
<1>6. PICK f \in [0..N -> all] : Loops(f, none, next, N)
  BY <1>1, <1>4, Iterates
<1>7. ASSUME NEW n \in 1..N PROVE f[n] = f[n - 1] \o list[n]
  <2>1. n - 1 \in 0..N /\ f[n - 1] \in all
    OBVIOUS
  <2>2. f[n] = next[<<n, f[n - 1]>>]
    BY <1>6 DEF Loops
  <2>3. QED
    BY <1>5, <2>1, <2>2
<1>8. Joining(f)
  <2>1. \A n \in 0..N : f[n] = IF n = 0 THEN none ELSE f[n - 1] \o list[n]
    <3> TAKE n \in 0..N
    <3>1. CASE n = 0
      BY <1>6, <3>1 DEF Loops
    <3>2. CASE n # 0
      <4>1. n \in 1..N
        BY <3>2
      <4>2. QED
        BY <1>7, <3>2, <4>1
    <3>3. QED
      BY <3>1, <3>2
  <2>2. f = [n \in 0..N |-> f[n]]
    BY <1>6
  <2>3. QED
    BY <2>1, <2>2
<1>9. Joining(upTo)
  <2> HIDE DEF Joining
  <2>1. QED
    BY <1>8
<1> HIDE DEF upTo
<1>10. upTo[0] = none /\ \A n \in 1..N : upTo[n] = upTo[n - 1] \o list[n]
  <2>1. 0 \in 0..N /\ \A n \in 1..N : n \in 0..N /\ n # 0
    OBVIOUS
  <2>2. QED
    BY <1>9, <2>1
<1> DEFINE good == {n \in 0..N : upTo[n] \in all}
<1>11. \A n \in 0..N : n \in good
  <2>1. 0 \in good
    BY <1>1, <1>10
  <2>2. \A n \in 1..N : n - 1 \in good => n \in good
    <3> TAKE n \in 1..N
    <3>1. HAVE n - 1 \in good
    <3>2. n \in 0..N /\ upTo[n - 1] \in all /\ upTo[n] = upTo[n - 1] \o list[n]
      BY <1>10, <3>1
    <3>3. upTo[n - 1] \o list[n] \in all
      BY <1>2, <3>2
    <3>4. QED
      BY <3>2, <3>3
  <2> HIDE DEF good
  <2>3. QED
    BY <2>1, <2>2, Climb
<1>12. upTo \in [0..N -> all]
  BY <1>9, <1>11
<1>13. QED
  BY <1>3, <1>10, <1>12 DEF JoinsUp, all, none

(* The first n sequences of a function, one after the other. *)
JoinedTo(e, n) == Joined([j \in 1..n |-> e[j]])

LEMMA JoinedToNone ==
  ASSUME NEW e
  PROVE  JoinedTo(e, 0) = <<>>
<1> DEFINE none == [j \in 1..0 |-> e[j]]
           A == {}
<1>1. 0 \in Nat /\ Len(none) = 0 /\ \A i \in 1..0 : none[i] \in Seq(A)
  OBVIOUS
<1> HIDE DEF none, A
<1> DEFINE Ends(list, N) == \E joined \in [0..N -> Seq(A)] :
                               JoinsUp(joined, list, N) /\ Joined(list) = joined[N]
<1>4. \A N \in Nat : \A list : Len(list) = N /\ (\A i \in 1..N : list[i] \in Seq(A)) => Ends(list, N)
  BY JoinedLoop
<1>2. Ends(none, 0)
  <2> HIDE DEF Ends
  <2>1. QED
    BY <1>1, <1>4
<1>3. QED
  BY <1>2 DEF JoinsUp, JoinedTo, none

LEMMA JoinedToNext ==
  ASSUME NEW A, NEW n \in Nat, NEW e, \A i \in 1..(n + 1) : e[i] \in Seq(A)
  PROVE  /\ JoinedTo(e, 0) = <<>>
         /\ JoinedTo(e, n) \in Seq(A) /\ JoinedTo(e, n + 1) \in Seq(A)
         /\ JoinedTo(e, n + 1) = JoinedTo(e, n) \o e[n + 1]
<1> DEFINE more == [j \in 1..(n + 1) |-> e[j]]
           less == [j \in 1..n |-> e[j]]
<1>1. Len(more) = n + 1 /\ \A i \in 1..(n + 1) : more[i] = e[i] /\ more[i] \in Seq(A)
  OBVIOUS
<1>2. Len(less) = n /\ \A i \in 1..n : less[i] = e[i] /\ less[i] \in Seq(A)
  OBVIOUS
<1> HIDE DEF more, less
<1> DEFINE Ends(list, N) == \E joined \in [0..N -> Seq(A)] :
                               JoinsUp(joined, list, N) /\ Joined(list) = joined[N]
<1>12. \A N \in Nat : \A list : Len(list) = N /\ (\A i \in 1..N : list[i] \in Seq(A)) => Ends(list, N)
  BY JoinedLoop
<1>13. Ends(more, n + 1) /\ Ends(less, n)
  <2> HIDE DEF Ends
  <2>1. n + 1 \in Nat
    OBVIOUS
  <2>2. QED
    BY <1>1, <1>2, <1>12, <2>1
<1>4. PICK f \in [0..(n + 1) -> Seq(A)] :
        JoinsUp(f, more, n + 1) /\ Joined(more) = f[n + 1]
  BY <1>13
<1>5. PICK g \in [0..n -> Seq(A)] :
        JoinsUp(g, less, n) /\ Joined(less) = g[n]
  BY <1>13
<1>6. JoinedTo(e, 0) = <<>>
  BY JoinedToNone
<1> DEFINE good == {m \in 0..n : f[m] = g[m]}
<1>7. \A m \in 0..n : m \in good
  <2>1. 0 \in good
    BY <1>4, <1>5 DEF JoinsUp
  <2>2. \A m \in 1..n : m - 1 \in good => m \in good
    <3> TAKE m \in 1..n
    <3>1. HAVE m - 1 \in good
    <3>2. m \in 1..(n + 1) /\ more[m] = less[m] /\ f[m - 1] = g[m - 1]
      <4>1. m \in 1..(n + 1)
        OBVIOUS
      <4>2. more[m] = e[m] /\ less[m] = e[m]
        BY <1>1, <1>2, <4>1
      <4>3. QED
        BY <3>1, <4>1, <4>2
    <3>3. f[m] = f[m - 1] \o more[m] /\ g[m] = g[m - 1] \o less[m]
      BY <1>4, <1>5, <3>2 DEF JoinsUp
    <3>4. f[m] = g[m] /\ m \in 0..n
      BY <3>2, <3>3
    <3>5. QED
      BY <3>4
  <2> HIDE DEF good
  <2>3. QED
    BY <2>1, <2>2, Climb
<1>8. f[n] = g[n]
  BY <1>7
<1>9. f[n + 1] = f[n] \o e[n + 1]
  <2>1. n + 1 \in 1..(n + 1) /\ (n + 1) - 1 = n
    OBVIOUS
  <2>2. QED
    BY <1>1, <1>4, <2>1 DEF JoinsUp
<1>10. g[n] \in Seq(A) /\ f[n + 1] \in Seq(A)
  BY <1>4, <1>5
<1>11. QED
  BY <1>4, <1>5, <1>6, <1>8, <1>9, <1>10 DEF JoinedTo, more, less

(* They start alike, and those after which only empty ones come are all. *)
StartsIn(e, m, N) ==
  /\ \A n \in m..N :
       /\ Len(JoinedTo(e, m)) <= Len(JoinedTo(e, n))
       /\ \A i \in 1..Len(JoinedTo(e, m)) : JoinedTo(e, n)[i] = JoinedTo(e, m)[i]
  /\ (\A i \in (m + 1)..N : e[i] = <<>>) => JoinedTo(e, N) = JoinedTo(e, m)

LEMMA JoinedStarts ==
  ASSUME NEW A, NEW N \in Nat, NEW e, \A i \in 1..N : e[i] \in Seq(A), NEW m \in 0..N
  PROVE  StartsIn(e, m, N)
<1> DEFINE J(n) == JoinedTo(e, n)
           Starts(n) ==
             /\ Len(J(m)) <= Len(J(n))
             /\ \A i \in 1..Len(J(m)) : J(n)[i] = J(m)[i]
             /\ (\A i \in (m + 1)..n : e[i] = <<>>) => J(n) = J(m)
           good == {n \in 0..N : n >= m => Starts(n)}
<1>1. \A n \in 0..N : J(n) \in Seq(A) /\ Len(J(n)) \in Nat
  <2> TAKE n \in 0..N
  <2>1. J(n) \in Seq(A)
    <3>1. CASE n = 0
      <4>1. J(0) = <<>>
        BY JoinedToNone
      <4>2. QED
        <5>1. <<>> \in Seq(A)
          OBVIOUS
        <5>2. QED
          BY <3>1, <4>1, <5>1
    <3>2. CASE n # 0
      <4>1. n - 1 \in Nat /\ (n - 1) + 1 = n /\ \A i \in 1..((n - 1) + 1) : e[i] \in Seq(A)
        BY <3>2
      <4>2. JoinedTo(e, (n - 1) + 1) \in Seq(A)
        BY <4>1, JoinedToNext
      <4>3. QED
        BY <4>1, <4>2
    <3>3. QED
      BY <3>1, <3>2
  <2> HIDE DEF J
  <2>2. QED
    BY <2>1, LenProperties
<1>2. \A n \in 1..N : J(n) = J(n - 1) \o e[n]
  <2> TAKE n \in 1..N
  <2>1. n - 1 \in Nat /\ (n - 1) + 1 = n /\ \A i \in 1..((n - 1) + 1) : e[i] \in Seq(A)
    OBVIOUS
  <2>2. JoinedTo(e, (n - 1) + 1) = JoinedTo(e, n - 1) \o e[(n - 1) + 1]
    BY <2>1, JoinedToNext
  <2>3. QED
    BY <2>1, <2>2
<1> HIDE DEF J
<1>3. 0 \in good
  BY <1>1
<1>4. ASSUME NEW n \in 1..N, n - 1 \in good PROVE n \in good
  <2>1. CASE n - 1 >= m
    <3>1. Starts(n - 1) /\ n - 1 \in 0..N /\ n \in 0..N
      BY <1>4, <2>1
    <3>2. J(n - 1) \in Seq(A) /\ e[n] \in Seq(A) /\ Len(e[n]) \in Nat /\ J(n) = J(n - 1) \o e[n]
      BY <1>1, <1>2, <3>1, LenProperties
    <3>3. /\ Len(J(n)) = Len(J(n - 1)) + Len(e[n])
          /\ \A i \in 1..Len(J(n - 1)) : J(n)[i] = J(n - 1)[i]
          /\ Len(J(n - 1)) \in Nat /\ Len(J(m)) \in Nat
      BY <1>1, <3>1, <3>2, ConcatProperties
    <3>4. Len(J(m)) <= Len(J(n)) /\ \A i \in 1..Len(J(m)) : J(n)[i] = J(m)[i]
      <4> DEFINE a == J(m)
                 b == J(n - 1)
                 c == J(n)
                 y == Len(e[n])
      <4>1. Len(a) <= Len(b) /\ \A i \in 1..Len(a) : b[i] = a[i]
        BY <3>1
      <4>2. Len(c) = Len(b) + y /\ y \in Nat /\ Len(b) \in Nat /\ Len(a) \in Nat
        BY <3>2, <3>3
      <4>3. \A i \in 1..Len(b) : c[i] = b[i]
        BY <3>3
      <4> HIDE DEF a, b, c, y
      <4>4. Len(a) <= Len(c)
        BY <4>1, <4>2
      <4>5. \A i \in 1..Len(a) : c[i] = a[i]
        BY <4>1, <4>2, <4>3
      <4>6. QED
        BY <4>4, <4>5 DEF a, c
    <3>5. (\A i \in (m + 1)..n : e[i] = <<>>) => J(n) = J(m)
      <4>1. HAVE \A i \in (m + 1)..n : e[i] = <<>>
      <4>2. n \in (m + 1)..n /\ \A i \in (m + 1)..(n - 1) : i \in (m + 1)..n
        BY <2>1
      <4>3. J(n - 1) = J(m) /\ e[n] = <<>>
        BY <3>1, <4>1, <4>2
      <4>4. J(n - 1) \o <<>> = J(n - 1)
        BY <3>2, ConcatEmptySeq
      <4>5. QED
        BY <3>2, <4>3, <4>4
    <3>6. QED
      BY <3>1, <3>4, <3>5
  <2>2. CASE ~(n - 1 >= m)
    <3>1. n >= m => n = m
      BY <2>2
    <3>2. Len(J(m)) \in Nat
      BY <1>1
    <3>3. Starts(m)
      BY <3>2
    <3> HIDE DEF Starts
    <3>4. QED
      BY <3>1, <3>3
  <2>3. QED
    BY <2>1, <2>2
<1> HIDE DEF good
<1>5. \A n \in 0..N : n \in good
  BY <1>3, <1>4, Climb
<1>6. \A n \in m..N : Starts(n)
  BY <1>5 DEF good
<1>7. N \in m..N
  OBVIOUS
<1>8. QED
  BY <1>6, <1>7 DEF J, StartsIn

(* The joined sequences of a list, place by place. *)
JoinsTo(e, N, A) ==
  /\ JoinedTo(e, 0) = <<>>
  /\ \A n \in 0..N : JoinedTo(e, n) \in Seq(A)
  /\ \A n \in 1..N : JoinedTo(e, n) = JoinedTo(e, n - 1) \o e[n]

LEMMA JoinedSteps ==
  ASSUME NEW A, NEW N \in Nat, NEW e, \A i \in 1..N : e[i] \in Seq(A)
  PROVE  JoinsTo(e, N, A)
<1> USE DEF JoinsTo
<1>1. JoinedTo(e, 0) = <<>>
  BY JoinedToNone
<1>2. ASSUME NEW n \in 1..N
      PROVE  JoinedTo(e, n) \in Seq(A) /\ JoinedTo(e, n) = JoinedTo(e, n - 1) \o e[n]
  <2> DEFINE m == n - 1
  <2>1. m \in Nat /\ m + 1 = n /\ \A i \in 1..(m + 1) : e[i] \in Seq(A)
    OBVIOUS
  <2> HIDE DEF m
  <2>2. JoinedTo(e, m + 1) \in Seq(A) /\ JoinedTo(e, m + 1) = JoinedTo(e, m) \o e[m + 1]
    BY <2>1, JoinedToNext
  <2>3. QED
    BY <2>1, <2>2 DEF m
<1>3. <<>> \in Seq(A)
  OBVIOUS
<1>4. ASSUME NEW n \in 0..N PROVE JoinedTo(e, n) \in Seq(A)
  <2>1. n = 0 \/ n \in 1..N
    OBVIOUS
  <2>2. QED
    BY <1>1, <1>2, <1>3, <2>1
<1>5. QED
  BY <1>1, <1>2, <1>4

=============================================================================
