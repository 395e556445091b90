------------------------------ MODULE FilterProofs ------------------------------
(***************************************************************************)
(* What is used of sequences in the proofs of the other modules: what      *)
(* Filter returns, what sequences hold that are put together, and what a   *)
(* set is that is listed by rank, list after list, and the list cut.       *)
(*                                                                         *)
(* What Filter returns is proved by induction.  The natural numbers are    *)
(* well-founded, so a set of them has a smallest member; induction is      *)
(* stated with a set for the predicate.                                    *)
(***************************************************************************)
EXTENDS Filters, SequencesExt, FiniteSetsExt, FiniteSetTheorems, WellFoundedInduction, TLAPS

--------------------------------------------------------------------------------
\* A set of natural numbers has a smallest member.
LEMMA Smallest ==
  ASSUME NEW T \in SUBSET Nat, T # {}
  PROVE  \E m \in T : \A n \in T : m <= n
<1>1. IsWellFoundedOn(OpToRel(<, Nat), Nat)
  BY NatLessThanWellFounded
<1>2. PICK m \in T : \A n \in T : ~(<<n, m>> \in OpToRel(<, Nat))
  BY <1>1, WFMin
<1>3. \A n \in T : ~(n < m)
  BY <1>2 DEF OpToRel
<1> QED
  BY <1>3

\* Induction, for a set.
LEMMA Induction ==
  ASSUME NEW T, 0 \in T, \A n \in Nat : n \in T => n + 1 \in T
  PROVE  Nat \subseteq T
<1> SUFFICES ASSUME Nat \ T # {} PROVE FALSE
  OBVIOUS
<1>1. PICK m \in Nat \ T : \A n \in Nat \ T : m <= n
  BY Smallest
<1>2. m # 0 /\ m - 1 \in Nat /\ m - 1 \in T
  BY <1>1
<1> QED
  BY <1>1, <1>2

\* `f` computes what `s` holds of `S`, up to its n-th member.
FiltersUpTo(f, s, S, n) ==
    f = [k \in 0 .. n |->
            IF k = 0 THEN <<>>
            ELSE IF s[k] \in S THEN Append(f[k - 1], s[k]) ELSE f[k - 1]]

\* There is such a function.
LEMMA FilterComputed ==
  ASSUME NEW s, NEW S
  PROVE  \A n \in Nat : \E f : FiltersUpTo(f, s, S, n)
<1> DEFINE T == {n \in Nat : \E f : FiltersUpTo(f, s, S, n)}
<1>1. 0 \in T
  <2> DEFINE f == [k \in 0 .. 0 |-> <<>>]
  <2>1. f = [k \in 0 .. 0 |->
            IF k = 0 THEN <<>>
            ELSE IF s[k] \in S THEN Append(f[k - 1], s[k]) ELSE f[k - 1]]
    OBVIOUS
  <2>2. FiltersUpTo(f, s, S, 0)
    BY <2>1 DEF FiltersUpTo
  <2> QED
    BY <2>2
<1>2. ASSUME NEW n \in Nat, n \in T PROVE n + 1 \in T
  <2>1. PICK f : FiltersUpTo(f, s, S, n)
    BY <1>2
  <2> DEFINE g == [k \in 0 .. n + 1 |->
                      IF k = n + 1
                      THEN IF s[k] \in S THEN Append(f[n], s[k]) ELSE f[n]
                      ELSE f[k]]
  <2>2. \A k \in 0 .. n : g[k] = f[k]
    OBVIOUS
  <2>3. \A k \in 0 .. n + 1 :
           g[k] = IF k = 0 THEN <<>>
                  ELSE IF s[k] \in S THEN Append(g[k - 1], s[k]) ELSE g[k - 1]
    <3> TAKE k \in 0 .. n + 1
    <3>1. CASE k = n + 1
      BY <2>2, <3>1
    <3>2. CASE k # n + 1
      <4>1. k \in 0 .. n /\ g[k] = f[k]
        BY <2>2, <3>2
      <4>2. f[k] = IF k = 0 THEN <<>>
                   ELSE IF s[k] \in S THEN Append(f[k - 1], s[k]) ELSE f[k - 1]
        BY <2>1, <4>1 DEF FiltersUpTo
      <4>3. k # 0 => k - 1 \in 0 .. n /\ g[k - 1] = f[k - 1]
        BY <2>2, <4>1
      <4> QED
        BY <4>1, <4>2, <4>3
    <3> QED
      BY <3>1, <3>2
  <2>4. g = [k \in 0 .. n + 1 |->
                IF k = 0 THEN <<>>
                ELSE IF s[k] \in S THEN Append(g[k - 1], s[k]) ELSE g[k - 1]]
    <3>1. g = [k \in 0 .. n + 1 |-> g[k]]
      OBVIOUS
    <3> HIDE DEF g
    <3> QED
      BY <2>3, <3>1
  <2>5. FiltersUpTo(g, s, S, n + 1)
    BY <2>4 DEF FiltersUpTo
  <2> QED
    BY <2>5
<1> HIDE DEF T
<1>3. Nat \subseteq T
  BY <1>1, <1>2, Induction
<1> QED
  BY <1>3 DEF T

\* Filter is computed by such a function.
LEMMA FilterIs ==
  ASSUME NEW T, NEW s \in Seq(T), NEW S
  PROVE  \E f : FiltersUpTo(f, s, S, Len(s)) /\ Filter(s, S) = f[Len(s)]
<1> DEFINE f == CHOOSE f : FiltersUpTo(f, s, S, Len(s))
<1>1. FiltersUpTo(f, s, S, Len(s))
  <2>1. \E g : FiltersUpTo(g, s, S, Len(s))
    <3>1. Len(s) \in Nat
      OBVIOUS
    <3> QED
      BY <3>1, FilterComputed
  <2> QED
    BY <2>1
<1>2. Filter(s, S) = f[Len(s)]
  BY DEF Filter, FiltersUpTo
<1> QED
  BY <1>1, <1>2

\* Appending a member.
LEMMA AppendMembers ==
  ASSUME NEW T, NEW q \in Seq(T), NEW x \in T
  PROVE  /\ Append(q, x) \in Seq(T)
         /\ ToSet(Append(q, x)) = ToSet(q) \cup {x}
<1> DEFINE r == Append(q, x)
<1>1. r \in Seq(T) /\ Len(r) = Len(q) + 1 /\ r[Len(q) + 1] = x /\ \A k \in 1 .. Len(q) : r[k] = q[k]
  OBVIOUS
<1> HIDE DEF r
<1>2. DOMAIN r = 1 .. Len(q) + 1 /\ DOMAIN q = 1 .. Len(q)
  BY <1>1
<1>3. ToSet(r) = ToSet(q) \cup {x}
  <2>1. ASSUME NEW y \in ToSet(r) PROVE y \in ToSet(q) \cup {x}
    <3>1. PICK k \in 1 .. Len(q) + 1 : y = r[k]
      BY <1>2 DEF ToSet
    <3> QED
      BY <1>1, <1>2, <3>1 DEF ToSet
  <2>2. ASSUME NEW y \in ToSet(q) \cup {x} PROVE y \in ToSet(r)
    BY <1>1, <1>2 DEF ToSet
  <2> QED
    BY <2>1, <2>2
<1> QED
  BY <1>1, <1>3 DEF r

\* What the k-th step of the computation has: what the first k members have of S.
Holds(q, s, S, T, n) == q \in Seq(T) /\ ToSet(q) = {s[i] : i \in 1 .. n} \cap S

LEMMA FilterSteps ==
  ASSUME NEW T, NEW s \in Seq(T), NEW S, NEW f, FiltersUpTo(f, s, S, Len(s))
  PROVE  \A n \in 0 .. Len(s) : Holds(f[n], s, S, T, n)
<1> USE DEF Holds
<1> DEFINE Right(n) == Holds(f[n], s, S, T, n)
           Done == {n \in Nat : n <= Len(s) => Right(n)}
<1>1. 0 \in Done
  <2>1. f[0] = <<>>
    BY DEF FiltersUpTo
  <2>2. ToSet(<<>>) = {} /\ {s[i] : i \in 1 .. 0} = {}
    BY DEF ToSet
  <2>3. Right(0)
    BY <2>1, <2>2
  <2> QED
    BY <2>3
<1>2. ASSUME NEW n \in Nat, n \in Done PROVE n + 1 \in Done
  <2> SUFFICES ASSUME n + 1 <= Len(s) PROVE Right(n + 1)
    OBVIOUS
  <2>1. Right(n)
    BY <1>2
  <2>2. f[n + 1] = IF s[n + 1] \in S THEN Append(f[n], s[n + 1]) ELSE f[n]
    <3>1. n + 1 \in 0 .. Len(s) /\ n + 1 # 0 /\ (n + 1) - 1 = n
      OBVIOUS
    <3> QED
      BY <3>1 DEF FiltersUpTo
  <2>3. s[n + 1] \in T
    OBVIOUS
  <2>4. {s[i] : i \in 1 .. n + 1} = {s[i] : i \in 1 .. n} \cup {s[n + 1]}
    <3>1. 1 .. n + 1 = (1 .. n) \cup {n + 1}
      OBVIOUS
    <3> QED
      BY <3>1
  <2> QED
    BY <2>1, <2>2, <2>3, <2>4, AppendMembers
<1> HIDE DEF Done
<1>3. Nat \subseteq Done
  BY <1>1, <1>2, Induction
<1>4. ASSUME NEW n \in 0 .. Len(s) PROVE Right(n)
  <2>1. n \in Nat /\ n <= Len(s)
    OBVIOUS
  <2>2. n \in Done
    BY <1>3, <2>1
  <2> HIDE DEF Right
  <2> QED
    BY <2>1, <2>2 DEF Done
<1> QED
  BY <1>4

\* A comprehension ("[p for p in ... if ...]", as in notify.py:58-63) returns the members of
\* the list that pass, and no others.
THEOREM FilterMembers ==
  ASSUME NEW T, NEW s \in Seq(T), NEW S
  PROVE  Filter(s, S) \in Seq(T) /\ ToSet(Filter(s, S)) = ToSet(s) \cap S
<1>1. PICK f : FiltersUpTo(f, s, S, Len(s)) /\ Filter(s, S) = f[Len(s)]
  BY FilterIs
<1>2. Len(s) \in 0 .. Len(s) /\ DOMAIN s = 1 .. Len(s)
  OBVIOUS
<1>3. f[Len(s)] \in Seq(T) /\ ToSet(f[Len(s)]) = {s[i] : i \in 1 .. Len(s)} \cap S
  <2>1. \A n \in 0 .. Len(s) : Holds(f[n], s, S, T, n)
    BY <1>1, FilterSteps
  <2> QED
    BY <1>2, <2>1 DEF Holds
<1>4. ToSet(s) = {s[i] : i \in 1 .. Len(s)}
  BY <1>2 DEF ToSet
<1> QED
  BY <1>1, <1>3, <1>4

LEMMA AppendDistinct ==
  ASSUME NEW T, NEW q \in Seq(T), NEW x \in T, IsInjective(q), x \notin ToSet(q)
  PROVE  IsInjective(Append(q, x))
<1> DEFINE r == Append(q, x)
<1>1. r \in Seq(T) /\ Len(r) = Len(q) + 1 /\ r[Len(q) + 1] = x /\ \A k \in 1 .. Len(q) : r[k] = q[k]
  OBVIOUS
<1> HIDE DEF r
<1>2. DOMAIN r = 1 .. Len(q) + 1 /\ DOMAIN q = 1 .. Len(q)
  BY <1>1
<1>3. \A k \in 1 .. Len(q) : r[k] # x
  BY <1>1, <1>2 DEF ToSet
<1>4. ASSUME NEW a \in DOMAIN r, NEW b \in DOMAIN r, r[a] = r[b] PROVE a = b
  <2>1. CASE a = Len(q) + 1 \/ b = Len(q) + 1
    BY <1>1, <1>2, <1>3, <1>4, <2>1
  <2>2. CASE a # Len(q) + 1 /\ b # Len(q) + 1
    <3>1. a \in DOMAIN q /\ b \in DOMAIN q
      BY <1>2, <2>2
    <3>2. q[a] = q[b]
      BY <1>1, <1>2, <1>4, <3>1
    <3> QED
      BY <3>1, <3>2 DEF IsInjective
  <2> QED
    BY <2>1, <2>2
<1>5. IsInjective(r)
  BY <1>4 DEF IsInjective
<1> QED
  BY <1>5 DEF r

\* What is in a sequence once, is once in what Filter returns.
THEOREM FilterDistinct ==
  ASSUME NEW T, NEW s \in Seq(T), NEW S, IsInjective(s)
  PROVE  IsInjective(Filter(s, S))
<1>1. PICK f : FiltersUpTo(f, s, S, Len(s)) /\ Filter(s, S) = f[Len(s)]
  BY FilterIs
<1>2. \A n \in 0 .. Len(s) : Holds(f[n], s, S, T, n)
  BY <1>1, FilterSteps
<1> DEFINE Done == {n \in Nat : n <= Len(s) => IsInjective(f[n])}
<1>3. 0 \in Done
  <2>1. f[0] = <<>>
    BY <1>1 DEF FiltersUpTo
  <2>2. IsInjective(<<>>)
    BY DEF IsInjective
  <2> QED
    BY <2>1, <2>2
<1>4. ASSUME NEW n \in Nat, n \in Done PROVE n + 1 \in Done
  <2> SUFFICES ASSUME n + 1 <= Len(s) PROVE IsInjective(f[n + 1])
    OBVIOUS
  <2>1. IsInjective(f[n])
    BY <1>4
  <2>2. f[n + 1] = IF s[n + 1] \in S THEN Append(f[n], s[n + 1]) ELSE f[n]
    <3>1. n + 1 \in 0 .. Len(s) /\ n + 1 # 0 /\ (n + 1) - 1 = n
      OBVIOUS
    <3> QED
      BY <1>1, <3>1 DEF FiltersUpTo
  <2>3. f[n] \in Seq(T) /\ ToSet(f[n]) = {s[i] : i \in 1 .. n} \cap S
    <3>1. n \in 0 .. Len(s)
      OBVIOUS
    <3>2. Holds(f[n], s, S, T, n)
      BY <1>2, <3>1
    <3> QED
      BY <3>2 DEF Holds
  <2>4. s[n + 1] \in T /\ s[n + 1] \notin {s[i] : i \in 1 .. n}
    BY DEF IsInjective
  <2> QED
    BY <2>1, <2>2, <2>3, <2>4, AppendDistinct
<1> HIDE DEF Done
<1>5. Nat \subseteq Done
  BY <1>3, <1>4, Induction
<1>6. Len(s) \in Done /\ Len(s) \in Nat
  BY <1>5
<1> QED
  BY <1>1, <1>6 DEF Done

\* What is not at the head is in the tail.
LEMMA TailMembers ==
  ASSUME NEW T, NEW q \in Seq(T), q # <<>>
  PROVE  /\ Tail(q) \in Seq(T) /\ Head(q) \in T /\ Head(q) \in ToSet(q)
         /\ ToSet(q) = ToSet(Tail(q)) \cup {Head(q)}
<1> DEFINE r == Tail(q)
<1>1. r \in Seq(T) /\ Len(r) = Len(q) - 1 /\ \A k \in 1 .. Len(r) : r[k] = q[k + 1]
  OBVIOUS
<1>2. Len(q) # 0 /\ Head(q) = q[1]
  OBVIOUS
<1> HIDE DEF r
<1>3. DOMAIN q = 1 .. Len(q) /\ DOMAIN r = 1 .. Len(r) /\ Len(q) \in Nat
  BY <1>1
<1>4. ASSUME NEW x \in ToSet(q), x # Head(q) PROVE x \in ToSet(r)
  <2>1. PICK k \in 1 .. Len(q) : x = q[k]
    BY <1>3 DEF ToSet
  <2>2. k - 1 \in 1 .. Len(r) /\ r[k - 1] = q[k]
    BY <1>1, <1>2, <1>3, <1>4, <2>1
  <2> QED
    BY <1>3, <2>1, <2>2 DEF ToSet
<1>5. Head(q) \in T /\ Head(q) \in ToSet(q)
  <2>1. 1 \in DOMAIN q
    BY <1>2, <1>3
  <2> QED
    BY <1>2, <1>3, <2>1 DEF ToSet
<1>6. ASSUME NEW x \in ToSet(r) PROVE x \in ToSet(q)
  <2>1. PICK k \in 1 .. Len(r) : x = r[k]
    BY <1>3 DEF ToSet
  <2>2. k + 1 \in 1 .. Len(q) /\ x = q[k + 1]
    BY <1>1, <1>3, <2>1
  <2> QED
    BY <1>3, <2>2 DEF ToSet
<1> QED
  BY <1>1, <1>4, <1>5, <1>6 DEF r

LEMMA ConcatMembers ==
  ASSUME NEW T, NEW q \in Seq(T), NEW r \in Seq(T)
  PROVE  q \o r \in Seq(T) /\ ToSet(q \o r) = ToSet(q) \cup ToSet(r)
<1> DEFINE z == q \o r
<1>1. /\ z \in Seq(T) /\ Len(z) = Len(q) + Len(r)
      /\ \A k \in 1 .. Len(q) : z[k] = q[k]
      /\ \A k \in 1 .. Len(r) : z[Len(q) + k] = r[k]
  OBVIOUS
<1> HIDE DEF z
<1>2. /\ DOMAIN z = 1 .. Len(z) /\ DOMAIN q = 1 .. Len(q) /\ DOMAIN r = 1 .. Len(r)
      /\ Len(q) \in Nat /\ Len(r) \in Nat
  BY <1>1
<1>3. ASSUME NEW x \in ToSet(z) PROVE x \in ToSet(q) \cup ToSet(r)
  <2>1. PICK k \in 1 .. Len(z) : x = z[k]
    BY <1>2 DEF ToSet
  <2>2. CASE k <= Len(q)
    BY <1>1, <1>2, <2>1, <2>2 DEF ToSet
  <2>3. CASE ~(k <= Len(q))
    <3>1. k - Len(q) \in 1 .. Len(r) /\ x = r[k - Len(q)]
      BY <1>1, <1>2, <2>1, <2>3
    <3> QED
      BY <1>2, <3>1 DEF ToSet
  <2> QED
    BY <2>2, <2>3
<1>4. ToSet(q) \subseteq ToSet(z)
  BY <1>1, <1>2 DEF ToSet
<1>5. ASSUME NEW x \in ToSet(r) PROVE x \in ToSet(z)
  <2>1. PICK k \in 1 .. Len(r) : x = r[k]
    BY <1>2 DEF ToSet
  <2>2. Len(q) + k \in 1 .. Len(z) /\ z[Len(q) + k] = x
    BY <1>1, <1>2, <2>1
  <2> QED
    BY <1>2, <2>2 DEF ToSet
<1> QED
  BY <1>1, <1>3, <1>4, <1>5 DEF z

\* Two sequences of distinct members that share none, one after the other.
LEMMA ConcatDistinct ==
  ASSUME NEW T, NEW q \in Seq(T), NEW r \in Seq(T), IsInjective(q), IsInjective(r),
         ToSet(q) \cap ToSet(r) = {}
  PROVE  IsInjective(q \o r)
<1> DEFINE z == q \o r
<1>1. /\ z \in Seq(T) /\ Len(z) = Len(q) + Len(r)
      /\ \A k \in 1 .. Len(q) : z[k] = q[k]
      /\ \A k \in 1 .. Len(r) : z[Len(q) + k] = r[k]
  OBVIOUS
<1> HIDE DEF z
<1>2. /\ DOMAIN z = 1 .. Len(z) /\ DOMAIN q = 1 .. Len(q) /\ DOMAIN r = 1 .. Len(r)
      /\ Len(q) \in Nat /\ Len(r) \in Nat
  BY <1>1
<1>3. \A a \in 1 .. Len(q), b \in 1 .. Len(r) : q[a] # r[b]
  BY <1>2 DEF ToSet
<1>4. \A a \in 1 .. Len(z) : ~(a <= Len(q)) => a - Len(q) \in 1 .. Len(r) /\ z[a] = r[a - Len(q)]
  <2> TAKE a \in 1 .. Len(z)
  <2> HAVE ~(a <= Len(q))
  <2>1. a - Len(q) \in 1 .. Len(r) /\ Len(q) + (a - Len(q)) = a
    BY <1>1, <1>2
  <2> QED
    BY <1>1, <2>1
<1>5. \A a \in 1 .. Len(z) : a <= Len(q) => a \in 1 .. Len(q) /\ z[a] = q[a]
  BY <1>1, <1>2
<1>6. ASSUME NEW a \in 1 .. Len(z), NEW b \in 1 .. Len(z), z[a] = z[b] PROVE a = b
  <2>1. CASE a <= Len(q) /\ b <= Len(q)
    BY <1>2, <1>5, <1>6, <2>1 DEF IsInjective
  <2>2. CASE ~(a <= Len(q)) /\ ~(b <= Len(q))
    <3>1. a - Len(q) = b - Len(q)
      BY <1>2, <1>4, <1>6, <2>2 DEF IsInjective
    <3> QED
      BY <1>1, <1>2, <3>1
  <2>3. CASE a <= Len(q) /\ ~(b <= Len(q))
    BY <1>3, <1>4, <1>5, <1>6, <2>3
  <2>4. CASE ~(a <= Len(q)) /\ b <= Len(q)
    BY <1>3, <1>4, <1>5, <1>6, <2>4
  <2> QED
    BY <2>1, <2>2, <2>3, <2>4
<1>7. IsInjective(z)
  BY <1>2, <1>6 DEF IsInjective
<1> QED
  BY <1>7 DEF z

\* A sequence of distinct members has as many as it is long.
LEMMA DistinctLength ==
  ASSUME NEW T, NEW q \in Seq(T), IsInjective(q)
  PROVE  Cardinality(ToSet(q)) = Len(q)
<1>1. DOMAIN q = 1 .. Len(q) /\ Len(q) \in Nat
  OBVIOUS
<1>2. q \in [1 .. Len(q) -> ToSet(q)] /\ \A x \in ToSet(q) : \E k \in 1 .. Len(q) : q[k] = x
  BY <1>1 DEF ToSet
<1>3. q \in Bijection(1 .. Len(q), ToSet(q))
  BY <1>2 DEF Bijection, Injection, Surjection
<1>4. ExistsBijection(1 .. Len(q), ToSet(q))
  BY <1>3 DEF ExistsBijection
<1> QED
  BY <1>1, <1>4, FS_CountingElements

\* What is all of S stays as it is.
LEMMA FilterAll ==
  ASSUME NEW T, NEW s \in Seq(T), NEW S, ToSet(s) \subseteq S
  PROVE  Filter(s, S) = s
<1>1. PICK f : FiltersUpTo(f, s, S, Len(s)) /\ Filter(s, S) = f[Len(s)]
  BY FilterIs
<1>2. DOMAIN s = 1 .. Len(s) /\ Len(s) \in Nat /\ \A k \in 1 .. Len(s) : s[k] \in T /\ s[k] \in S
  BY DEF ToSet
<1> DEFINE Same(q, n) == q \in Seq(T) /\ Len(q) = n /\ \A k \in 1 .. n : q[k] = s[k]
           Done == {n \in Nat : n <= Len(s) => Same(f[n], n)}
<1>3. 0 \in Done
  <2>1. f[0] = <<>>
    BY <1>1 DEF FiltersUpTo
  <2>2. Same(<<>>, 0)
    OBVIOUS
  <2> QED
    BY <2>1, <2>2
<1>4. ASSUME NEW n \in Nat, n \in Done PROVE n + 1 \in Done
  <2> SUFFICES ASSUME n + 1 <= Len(s) PROVE Same(f[n + 1], n + 1)
    OBVIOUS
  <2>1. Same(f[n], n)
    BY <1>4
  <2>2. n + 1 \in 0 .. Len(s) /\ n + 1 # 0 /\ (n + 1) - 1 = n /\ n + 1 \in 1 .. Len(s)
    OBVIOUS
  <2>3. f[n + 1] = Append(f[n], s[n + 1]) /\ s[n + 1] \in T
    BY <1>1, <1>2, <2>2 DEF FiltersUpTo
  <2> QED
    BY <2>1, <2>3
<1> HIDE DEF Done
<1>5. Nat \subseteq Done
  BY <1>3, <1>4, Induction
<1>6. Same(f[Len(s)], Len(s))
  BY <1>2, <1>5 DEF Done
<1> QED
  BY <1>1, <1>6

\* What is not of S leaves nothing.
LEMMA FilterAfter ==
  ASSUME NEW T, NEW s \in Seq(T), NEW S, NEW x \in T, x \notin S
  PROVE  Filter(<<x>> \o s, S) = Filter(s, S)
<1> DEFINE z == <<x>> \o s
<1>1. z \in Seq(T) /\ Len(z) = Len(s) + 1 /\ z[1] = x /\ \A k \in 1 .. Len(s) : z[k + 1] = s[k]
  OBVIOUS
<1> HIDE DEF z
<1>2. Len(s) \in Nat
  OBVIOUS
<1>3. PICK f : FiltersUpTo(f, s, S, Len(s)) /\ Filter(s, S) = f[Len(s)]
  BY FilterIs
<1>4. PICK g : FiltersUpTo(g, z, S, Len(z)) /\ Filter(z, S) = g[Len(z)]
  BY <1>1, FilterIs
<1> DEFINE Done == {n \in Nat : n <= Len(s) => g[n + 1] = f[n]}
<1>5. 0 \in Done
  <2>1. f[0] = <<>> /\ g[0] = <<>>
    BY <1>1, <1>2, <1>3, <1>4 DEF FiltersUpTo
  <2>2. 1 \in 0 .. Len(z)
    BY <1>1, <1>2
  <2>3. g[1] = IF z[1] \in S THEN Append(g[0], z[1]) ELSE g[0]
    BY <1>4, <2>2 DEF FiltersUpTo
  <2> QED
    BY <1>1, <2>1, <2>3
<1>6. ASSUME NEW n \in Nat, n \in Done PROVE n + 1 \in Done
  <2> SUFFICES ASSUME n + 1 <= Len(s) PROVE g[n + 2] = f[n + 1]
    OBVIOUS
  <2>1. g[n + 1] = f[n]
    BY <1>6
  <2>2. /\ n + 1 \in 0 .. Len(s) /\ n + 1 # 0 /\ (n + 1) - 1 = n /\ n + 1 \in 1 .. Len(s)
        /\ n + 2 # 0 /\ (n + 2) - 1 = n + 1 /\ n + 2 = (n + 1) + 1
    BY <1>2
  <2>3. n + 2 \in 0 .. Len(z)
    BY <1>1, <1>2
  <2>4. f[n + 1] = IF s[n + 1] \in S THEN Append(f[n], s[n + 1]) ELSE f[n]
    BY <1>3, <2>2 DEF FiltersUpTo
  <2>5. g[n + 2] = IF z[n + 2] \in S THEN Append(g[n + 1], z[n + 2]) ELSE g[n + 1]
    BY <1>4, <2>2, <2>3 DEF FiltersUpTo
  <2>6. z[n + 2] = s[n + 1]
    BY <1>1, <2>2
  <2> QED
    BY <2>1, <2>4, <2>5, <2>6
<1> HIDE DEF Done
<1>7. Nat \subseteq Done
  BY <1>5, <1>6, Induction
<1>8. g[Len(s) + 1] = f[Len(s)]
  BY <1>2, <1>7 DEF Done
<1> QED
  BY <1>1, <1>3, <1>4, <1>8 DEF z

Increasing(s) == \A a, b \in DOMAIN s : a < b => s[a] < s[b]

LEMMA AppendIncreasing ==
  ASSUME NEW q \in Seq(Nat), NEW x \in Nat, Increasing(q), \A y \in ToSet(q) : y < x
  PROVE  Increasing(Append(q, x))
<1> DEFINE r == Append(q, x)
<1>1. /\ r \in Seq(Nat) /\ Len(r) = Len(q) + 1 /\ r[Len(q) + 1] = x
      /\ \A k \in 1 .. Len(q) : r[k] = q[k]
  OBVIOUS
<1> HIDE DEF r
<1>2. DOMAIN r = 1 .. Len(q) + 1 /\ DOMAIN q = 1 .. Len(q)
  BY <1>1
<1>3. \A k \in 1 .. Len(q) : r[k] < x
  BY <1>1, <1>2 DEF ToSet
<1>4. ASSUME NEW a \in 1 .. Len(q) + 1, NEW b \in 1 .. Len(q) + 1, a < b PROVE r[a] < r[b]
  <2>1. a \in 1 .. Len(q)
    BY <1>4
  <2>2. CASE b = Len(q) + 1
    BY <1>1, <1>3, <2>1, <2>2
  <2>3. CASE b # Len(q) + 1
    <3>1. b \in 1 .. Len(q)
      BY <2>3
    <3>2. q[a] < q[b]
      BY <1>2, <1>4, <2>1, <3>1 DEF Increasing
    <3> QED
      BY <1>1, <2>1, <3>1, <3>2
  <2> QED
    BY <2>2, <2>3
<1>5. Increasing(r)
  BY <1>2, <1>4 DEF Increasing
<1> QED
  BY <1>5 DEF r

\* What comes in order stays in order.
LEMMA FilterIncreasing ==
  ASSUME NEW s \in Seq(Nat), NEW S, Increasing(s)
  PROVE  Increasing(Filter(s, S))
<1>1. PICK f : FiltersUpTo(f, s, S, Len(s)) /\ Filter(s, S) = f[Len(s)]
  BY FilterIs
<1>2. \A n \in 0 .. Len(s) : Holds(f[n], s, S, Nat, n)
  BY <1>1, FilterSteps
<1> DEFINE Done == {n \in Nat : n <= Len(s) => Increasing(f[n])}
<1>3. 0 \in Done
  <2>1. f[0] = <<>>
    BY <1>1 DEF FiltersUpTo
  <2>2. Increasing(<<>>)
    BY DEF Increasing
  <2> QED
    BY <2>1, <2>2
<1>4. ASSUME NEW n \in Nat, n \in Done PROVE n + 1 \in Done
  <2> SUFFICES ASSUME n + 1 <= Len(s) PROVE Increasing(f[n + 1])
    OBVIOUS
  <2>1. Increasing(f[n])
    BY <1>4
  <2>2. f[n + 1] = IF s[n + 1] \in S THEN Append(f[n], s[n + 1]) ELSE f[n]
    <3>1. n + 1 \in 0 .. Len(s) /\ n + 1 # 0 /\ (n + 1) - 1 = n
      OBVIOUS
    <3> QED
      BY <1>1, <3>1 DEF FiltersUpTo
  <2>3. f[n] \in Seq(Nat) /\ ToSet(f[n]) = {s[i] : i \in 1 .. n} \cap S
    <3>1. n \in 0 .. Len(s)
      OBVIOUS
    <3>2. Holds(f[n], s, S, Nat, n)
      BY <1>2, <3>1
    <3> QED
      BY <3>2 DEF Holds
  <2>4. s[n + 1] \in Nat /\ \A y \in {s[i] : i \in 1 .. n} : y < s[n + 1]
    <3>1. n + 1 \in DOMAIN s /\ \A i \in 1 .. n : i \in DOMAIN s /\ i < n + 1
      OBVIOUS
    <3> QED
      BY <3>1 DEF Increasing
  <2>5. \A y \in ToSet(f[n]) : y < s[n + 1]
    BY <2>3, <2>4
  <2> QED
    BY <2>1, <2>2, <2>3, <2>4, <2>5, AppendIncreasing
<1> HIDE DEF Done
<1>5. Nat \subseteq Done
  BY <1>3, <1>4, Induction
<1>6. Len(s) \in Done /\ Len(s) \in Nat
  BY <1>5
<1> QED
  BY <1>1, <1>6 DEF Done

\* The head comes before the tail, and the last after all.
LEMMA EndsOfIncreasing ==
  ASSUME NEW q \in Seq(Nat), Increasing(q), q # <<>>
  PROVE  /\ Increasing(Tail(q)) /\ \A x \in ToSet(Tail(q)) : Head(q) < x
         /\ Last(q) \in ToSet(q) /\ \A x \in ToSet(q) : x <= Last(q)
<1> DEFINE r == Tail(q)
<1>1. r \in Seq(Nat) /\ Len(r) = Len(q) - 1 /\ \A k \in 1 .. Len(r) : r[k] = q[k + 1]
  OBVIOUS
<1>2. Len(q) # 0 /\ Head(q) = q[1] /\ Last(q) = q[Len(q)]
  BY DEF Last
<1> HIDE DEF r
<1>3. DOMAIN q = 1 .. Len(q) /\ DOMAIN r = 1 .. Len(r) /\ Len(q) \in Nat
  BY <1>1
<1>4. \A a, b \in 1 .. Len(q) : a < b => q[a] < q[b]
  BY <1>3 DEF Increasing
<1>5. \A k \in 1 .. Len(r) : k + 1 \in 1 .. Len(q) /\ r[k] = q[k + 1]
  BY <1>1, <1>3
<1>6. Increasing(r)
  <2>1. ASSUME NEW a \in 1 .. Len(r), NEW b \in 1 .. Len(r), a < b PROVE r[a] < r[b]
    <3>1. a + 1 < b + 1
      BY <1>1, <1>3, <2>1
    <3> QED
      BY <1>4, <1>5, <3>1
  <2> QED
    BY <1>3, <2>1 DEF Increasing
<1>7. ASSUME NEW x \in ToSet(r) PROVE Head(q) < x
  <2>1. PICK k \in 1 .. Len(r) : x = r[k]
    BY <1>3 DEF ToSet
  <2>2. 1 < k + 1 /\ 1 \in 1 .. Len(q)
    BY <1>1, <1>2, <1>3
  <2> QED
    BY <1>2, <1>4, <1>5, <2>1, <2>2
<1>8. Last(q) \in ToSet(q)
  BY <1>2, <1>3 DEF ToSet
<1>9. ASSUME NEW x \in ToSet(q) PROVE x <= Last(q)
  <2>1. PICK k \in 1 .. Len(q) : x = q[k]
    BY <1>3 DEF ToSet
  <2>2. k = Len(q) \/ k < Len(q)
    OBVIOUS
  <2>3. q[k] \in Nat /\ q[Len(q)] \in Nat /\ Len(q) \in 1 .. Len(q)
    BY <1>2, <1>3
  <2> QED
    BY <1>2, <1>4, <2>1, <2>2, <2>3
<1> QED
  BY <1>6, <1>7, <1>8, <1>9 DEF r

LEMMA ConcatIncreasing ==
  ASSUME NEW q \in Seq(Nat), NEW r \in Seq(Nat), Increasing(q), Increasing(r),
         \A x \in ToSet(q), y \in ToSet(r) : x < y
  PROVE  Increasing(q \o r)
<1> DEFINE z == q \o r
<1>1. /\ z \in Seq(Nat) /\ Len(z) = Len(q) + Len(r)
      /\ \A k \in 1 .. Len(q) : z[k] = q[k]
      /\ \A k \in 1 .. Len(r) : z[Len(q) + k] = r[k]
  OBVIOUS
<1> HIDE DEF z
<1>2. /\ DOMAIN z = 1 .. Len(z) /\ DOMAIN q = 1 .. Len(q) /\ DOMAIN r = 1 .. Len(r)
      /\ Len(q) \in Nat /\ Len(r) \in Nat
  BY <1>1
<1>3. \A a \in 1 .. Len(q), b \in 1 .. Len(r) : q[a] < r[b]
  BY <1>2 DEF ToSet
<1>4. \A a \in 1 .. Len(z) : ~(a <= Len(q)) => a - Len(q) \in 1 .. Len(r) /\ z[a] = r[a - Len(q)]
  <2> TAKE a \in 1 .. Len(z)
  <2> HAVE ~(a <= Len(q))
  <2>1. a - Len(q) \in 1 .. Len(r) /\ Len(q) + (a - Len(q)) = a
    BY <1>1, <1>2
  <2> QED
    BY <1>1, <2>1
<1>5. \A a \in 1 .. Len(z) : a <= Len(q) => a \in 1 .. Len(q) /\ z[a] = q[a]
  BY <1>1, <1>2
<1>6. ASSUME NEW a \in 1 .. Len(z), NEW b \in 1 .. Len(z), a < b PROVE z[a] < z[b]
  <2>1. CASE a <= Len(q) /\ b <= Len(q)
    BY <1>2, <1>5, <1>6, <2>1 DEF Increasing
  <2>2. CASE ~(a <= Len(q)) /\ ~(b <= Len(q))
    <3>1. a - Len(q) < b - Len(q)
      BY <1>1, <1>2, <1>6
    <3>2. /\ a - Len(q) \in DOMAIN r /\ b - Len(q) \in DOMAIN r
          /\ z[a] = r[a - Len(q)] /\ z[b] = r[b - Len(q)]
      BY <1>2, <1>4, <2>2
    <3> QED
      BY <3>1, <3>2 DEF Increasing
  <2>3. CASE a <= Len(q) /\ ~(b <= Len(q))
    BY <1>3, <1>4, <1>5, <2>3
  <2>4. ~(~(a <= Len(q)) /\ b <= Len(q))
    BY <1>1, <1>2, <1>6
  <2> QED
    BY <2>1, <2>2, <2>3, <2>4
<1>7. Increasing(z)
  BY <1>2, <1>6 DEF Increasing
<1> QED
  BY <1>7 DEF z

\* A set of numbers up to a bound has a largest member.
LEMMA Largest ==
  ASSUME NEW n \in Nat, NEW T \in SUBSET (1 .. n), T # {}
  PROVE  \E m \in T : \A k \in T : k <= m
<1> DEFINE U == {n - k : k \in T}
<1>1. U \in SUBSET Nat /\ U # {}
  <2>1. \A k \in T : n - k \in Nat
    OBVIOUS
  <2> QED
    BY <2>1
<1>2. PICK u \in U : \A v \in U : u <= v
  <2> HIDE DEF U
  <2> QED
    BY <1>1, Smallest
<1>3. PICK m \in T : u = n - m
  BY <1>2
<1>4. ASSUME NEW k \in T PROVE k <= m
  <2>1. n - m <= n - k
    BY <1>2, <1>3
  <2> QED
    BY <2>1
<1> QED
  BY <1>4

\* Max of the library, where there is a greatest member; Min likewise.
LEMMA MaxIs ==
  ASSUME NEW T \in SUBSET Nat, NEW m \in T, \A k \in T : k <= m
  PROVE  Max(T) = m
<1>1. \A k \in T : m >= k
  OBVIOUS
<1>2. Max(T) \in T /\ \A k \in T : Max(T) >= k
  BY <1>1 DEF Max
<1>3. Max(T) \in Nat /\ Max(T) >= m /\ Max(T) <= m
  BY <1>2
<1> QED
  BY <1>3

LEMMA MinIs ==
  ASSUME NEW T \in SUBSET Nat, NEW m \in T, \A k \in T : m <= k
  PROVE  Min(T) = m
<1>1. Min(T) \in T /\ \A k \in T : Min(T) <= k
  BY DEF Min
<1>2. Min(T) \in Nat /\ Min(T) <= m /\ m <= Min(T)
  BY <1>1
<1> QED
  BY <1>2

\* The lesser of two.
LEMMA MinOfTwo ==
  ASSUME NEW a \in Nat, NEW b \in Nat
  PROVE  Min({a, b}) = IF a <= b THEN a ELSE b
<1>1. CASE a <= b
  BY <1>1, MinIs
<1>2. CASE ~(a <= b)
  BY <1>2, MinIs
<1> QED
  BY <1>1, <1>2

\* What a finite set is mapped to is finite.
LEMMA ImageFinite ==
  ASSUME NEW S, IsFiniteSet(S), NEW f, DOMAIN f = S, NEW T, T \subseteq {f[x] : x \in S}
  PROVE  IsFiniteSet(T)
<1> DEFINE g == [x \in S |-> f[x]]
           U == {f[x] : x \in S}
<1>1. g \in [S -> U] /\ \A y \in U : \E x \in S : g[x] = y
  OBVIOUS
<1>2. g \in Surjection(S, U)
  <2> HIDE DEF g, U
  <2> QED
    BY <1>1 DEF Surjection
<1>3. IsFiniteSet(U)
  <2> HIDE DEF g, U
  <2> QED
    BY <1>2, FS_Surjection
<1> QED
  BY <1>3, FS_Subset

\* A sequence has finitely many members.
LEMMA MembersFinite ==
  ASSUME NEW T, NEW q \in Seq(T)
  PROVE  IsFiniteSet(ToSet(q))
<1>1. IsFiniteSet(1 .. Len(q)) /\ DOMAIN q = 1 .. Len(q)
  BY FS_Interval
<1>2. ToSet(q) \subseteq {q[i] : i \in DOMAIN q}
  BY DEF ToSet
<1> QED
  BY <1>1, <1>2, ImageFinite

\* A finite set is listed with each member once.
LEMMA SetIsListed ==
  ASSUME NEW S, IsFiniteSet(S)
  PROVE  SetToSeq(S) \in Seq(S) /\ ToSet(SetToSeq(S)) = S /\ IsInjective(SetToSeq(S))
<1> DEFINE n == Cardinality(S)
           q == SetToSeq(S)
<1>1. n \in Nat /\ ExistsBijection(1 .. n, S)
  BY FS_CardinalityType
<1>2. PICK f \in Bijection(1 .. n, S) : TRUE
  BY <1>1 DEF ExistsBijection
<1>3. f \in [1 .. n -> S] /\ IsInjective(f)
  BY <1>2 DEF Bijection, Injection, IsInjective
<1>4. q \in [1 .. n -> S] /\ IsInjective(q)
  BY <1>3 DEF SetToSeq
<1> HIDE DEF q
<1>5. q \in Seq(S)
  BY <1>1, <1>4
<1>6. q \in Injection(1 .. n, S)
  BY <1>4 DEF Injection, IsInjective
<1>7. IsFiniteSet(1 .. n) /\ Cardinality(1 .. n) = n
  BY <1>1, FS_Interval
<1>8. q \in Surjection(1 .. n, S)
  BY <1>6, <1>7, FS_Injection
<1>9. ToSet(q) = S
  BY <1>4, <1>8 DEF ToSet, Surjection
<1> QED
  BY <1>4, <1>5, <1>9 DEF q

\* q lists S, each member once, by rank, and the ranks are from lo to hi.
ByRank(q, S, rank, lo, hi) ==
    /\ q \in Seq(S) /\ ToSet(q) = S /\ IsInjective(q)
    /\ \A c \in S : rank[c] \in lo .. hi
    /\ \A a, b \in DOMAIN q : a <= b => rank[q[a]] <= rank[q[b]]

\* One list after the other.
LEMMA ConcatByRank ==
  ASSUME NEW U, NEW rank \in [U -> Nat], NEW S \in SUBSET U, NEW T \in SUBSET U, NEW q, NEW r,
         NEW lo \in Nat, NEW mid \in Nat, NEW next \in Nat, NEW hi \in Nat, lo <= mid, mid < next, next <= hi,
         ByRank(q, S, rank, lo, mid), ByRank(r, T, rank, next, hi)
  PROVE  ByRank(q \o r, S \cup T, rank, lo, hi)
<1> DEFINE z == q \o r
           V == S \cup T
<1>1. q \in Seq(V) /\ r \in Seq(V)
  BY DEF ByRank
<1>2. ToSet(q) = S /\ ToSet(r) = T /\ IsInjective(q) /\ IsInjective(r)
  BY DEF ByRank
<1>3. (\A c \in S : rank[c] \in lo .. mid) /\ (\A c \in T : rank[c] \in next .. hi)
  BY DEF ByRank
<1>4. S \cap T = {}
  BY <1>3
<1>5. z \in Seq(V) /\ ToSet(z) = V
  BY <1>1, <1>2, ConcatMembers
<1>6. IsInjective(z)
  BY <1>1, <1>2, <1>4, ConcatDistinct
<1>7. \A c \in V : rank[c] \in lo .. hi
  BY <1>3
<1>8. /\ Len(z) = Len(q) + Len(r)
      /\ \A k \in 1 .. Len(q) : z[k] = q[k]
      /\ \A k \in 1 .. Len(r) : z[Len(q) + k] = r[k]
  BY <1>1
<1>9. /\ DOMAIN z = 1 .. Len(z) /\ DOMAIN q = 1 .. Len(q) /\ DOMAIN r = 1 .. Len(r)
      /\ Len(q) \in Nat /\ Len(r) \in Nat
  BY <1>1, <1>5
<1> HIDE DEF z, V
<1>10. \A k \in 1 .. Len(z) :
          \/ k \in 1 .. Len(q) /\ z[k] = q[k]
          \/ k - Len(q) \in 1 .. Len(r) /\ z[k] = r[k - Len(q)] /\ ~(k <= Len(q))
  <2> TAKE k \in 1 .. Len(z)
  <2>1. CASE k <= Len(q)
    BY <1>8, <1>9, <2>1
  <2>2. CASE ~(k <= Len(q))
    <3>1. k - Len(q) \in 1 .. Len(r) /\ Len(q) + (k - Len(q)) = k
      BY <1>8, <1>9, <2>2
    <3> QED
      BY <1>8, <2>2, <3>1
  <2> QED
    BY <2>1, <2>2
<1>11. (\A k \in 1 .. Len(q) : q[k] \in S) /\ \A k \in 1 .. Len(r) : r[k] \in T
  BY <1>2, <1>9 DEF ToSet
<1>12. ASSUME NEW a \in 1 .. Len(z), NEW b \in 1 .. Len(z), a <= b PROVE rank[z[a]] <= rank[z[b]]
  <2>1. CASE b \in 1 .. Len(q) /\ z[b] = q[b]
    <3>1. a \in 1 .. Len(q) /\ z[a] = q[a]
      BY <1>8, <1>9, <1>12, <2>1
    <3> QED
      BY <1>9, <1>12, <2>1, <3>1 DEF ByRank
  <2>2. CASE b - Len(q) \in 1 .. Len(r) /\ z[b] = r[b - Len(q)] /\ ~(b <= Len(q))
    <3>1. CASE a \in 1 .. Len(q) /\ z[a] = q[a]
      <4>1. rank[z[a]] \in lo .. mid /\ rank[z[b]] \in next .. hi
        BY <1>3, <1>11, <2>2, <3>1
      <4> QED
        BY <4>1
    <3>2. CASE a - Len(q) \in 1 .. Len(r) /\ z[a] = r[a - Len(q)]
      <4>1. a - Len(q) <= b - Len(q)
        BY <1>9, <1>12
      <4> QED
        BY <1>9, <2>2, <3>2, <4>1 DEF ByRank
    <3> QED
      BY <1>10, <3>1, <3>2
  <2> QED
    BY <1>10, <2>1, <2>2
<1>13. \A a, b \in DOMAIN z : a <= b => rank[z[a]] <= rank[z[b]]
  BY <1>9, <1>12
<1>14. ByRank(z, V, rank, lo, hi)
  BY <1>5, <1>6, <1>7, <1>13 DEF ByRank
<1> QED
  BY <1>14 DEF z, V

\* What is left when a list is cut: as many as fit, those that rank first.
LEMMA CutByRank ==
  ASSUME NEW U, NEW rank \in [U -> Nat], NEW S \in SUBSET U, NEW q, NEW lo, NEW hi,
         ByRank(q, S, rank, lo, hi), NEW n \in 0 .. Len(q)
  PROVE  LET p == SubSeq(q, 1, n)
         IN  /\ ToSet(p) \subseteq S /\ Len(p) = n /\ Cardinality(ToSet(p)) = n
             /\ \A c \in S \ ToSet(p), d \in ToSet(p) : rank[d] <= rank[c]
<1> DEFINE p == SubSeq(q, 1, n)
<1>1. q \in Seq(S) /\ ToSet(q) = S /\ IsInjective(q) /\ Len(q) \in Nat /\ DOMAIN q = 1 .. Len(q)
  BY DEF ByRank
<1>2. p \in Seq(S) /\ Len(p) = n /\ \A k \in 1 .. n : p[k] = q[k]
  BY <1>1
<1> HIDE DEF p
<1>3. DOMAIN p = 1 .. n
  BY <1>2
<1>4. ToSet(p) \subseteq S
  BY <1>2, <1>3 DEF ToSet
<1>5. IsInjective(p)
  BY <1>1, <1>2, <1>3 DEF IsInjective
<1>6. Cardinality(ToSet(p)) = n
  BY <1>2, <1>5, DistinctLength
<1>7. ASSUME NEW c \in S \ ToSet(p), NEW d \in ToSet(p) PROVE rank[d] <= rank[c]
  <2>1. PICK i \in 1 .. Len(q) : c = q[i]
    BY <1>1 DEF ToSet
  <2>2. PICK j \in 1 .. n : d = p[j]
    BY <1>3 DEF ToSet
  <2>3. ~(i <= n)
    BY <1>1, <1>2, <1>3, <1>7, <2>1 DEF ToSet
  <2>4. j \in 1 .. Len(q) /\ j <= i /\ d = q[j]
    BY <1>1, <1>2, <2>2, <2>3
  <2> QED
    BY <1>1, <2>1, <2>4 DEF ByRank
<1> QED
  BY <1>2, <1>4, <1>6, <1>7 DEF p
================================================================================
